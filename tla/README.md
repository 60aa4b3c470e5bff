# TLA+ models of AD-Wiki

AD-Wiki is a wiki for administrators: a NestJS API over PostgreSQL (Prisma) and Redis, a
Next.js client, an MCP server for language models, and a separate backup worker. Paths in
this file are relative to `apps/api/src` unless they start with another top directory.

The models cover the backup subsystem, which has the most concurrency: any number of API
instances, one or more workers, administrators and two kinds of Redis locks act on the same
tables, files and artifacts. Beside it they cover the parts of the wiki in which requests that
overlap share rows: sessions, single sign-on, editing, review, OAuth for MCP clients, the page
tree, access rules and the synchronization with Microsoft To Do. Most of what can go wrong
there needs several requests and a crash, an expired key, a stale read or a lost answer.

## 1. Inventory

| Component | State | Operations | Hard behaviour |
|---|---|---|---|
| Write barrier (`modules/backups/backup-coordination.service.ts`, `backup-write-barrier.interceptor.ts`) | Redis keys `write-barrier`, `active-writes`, both with a TTL of six hours | enterWrite, leaveWrite, acquire/releaseWriteBarrier, waitForWritesToDrain | counting against crashes, lost answers, expiry under a holder |
| Media (`modules/media`) | rows and files | upload (file, then row), remove (row, then file) | two stores, no transaction over both |
| Artifact creation (`backup-artifact.ts`) | staging directory | pg_dump, tar, manifest, checksums, rename | two captures at different times |
| Job queue and worker (`backup-worker/backup-job-worker.service.ts`) | `BackupJob` rows, Redis lock `job:<id>`, artifacts | claim, backup, connection test, restore preflight, success, failure, retention | several workers, crash at every await, ambiguous commits |
| Administration (`backups.service.ts`) | `BackupDestination`, `BackupPlan` rows | create, update, delete, start jobs | checks and writes in separate statements |
| Scheduler (`backup-scheduler.service.ts`) | `nextRunAt`, Redis lock `scheduler` | a cycle every 30 s on every instance | overlapping cycles, clocks, concurrent edits |
| Failure notices (same file) | `startedAt`, `notifiedFailures` per process | announce new failures | restart, page limit |
| Next run (`backup-schedule.ts`) | none | nextScheduledRun | time zones, daylight saving |
| Retention rule (`backup-retention.ts`) | none | expiredBackupJobIds | calendar boundaries, limits of 0 |
| Storage adapters (`backup-storage.service.ts`) | mount, S3 bucket, SFTP directory, staging directories | publish, verify, delete, download | partial publication, readers that share directories |
| Restore (`restore-cli.ts`) | database and uploads | verify, replace | failure half-way, repetition |
| Sessions (`modules/auth/auth.service.ts`, `packages/api-client`) | refresh tokens in families, reset links, the token store of a browser | login, refresh, logout, change and reset password | rotation races, reuse detection, READ COMMITTED |
| Single sign-on and identity synchronization (`modules/auth/oidc`) | providers, login attempts, mappings, grants | login, link, sync, provider administration | one-time rows, stale claims, concurrent administration |
| Roles and access control (`modules/auth`, `acls`, `resource-acls`) | roles, rules, boundaries | effective role, effective access | inheritance, precedence |
| Pages (`pages`, `spaces`, `categories`) | pages, versions, links, folders, trash | edit, publish, move, restore | lost updates, hierarchies that do not agree |
| Standards (`standards`, `knowledge`) | standards, rules, snapshots | edit, submit, approve, release | a status read before and written after |
| MCP (`modules/mcp`) | consents, codes, refresh tokens, rate windows | OAuth, tool calls | single use, replacement in two statements |
| Microsoft To Do (`modules/integrations`, `notes`) | connection, token cache, mappings, notes, tasks | sign in, disconnect, sync, export, delete | two stores without a common transaction |
| The rest | users, keys, settings, search, export, audit, monitoring, web client | row updates and reads | little interaction |

How they interact: the interceptor and the worker meet only in the two barrier keys; the
administration and the scheduler append `BackupJob` rows and the worker takes them; the worker
records results in rows that the administration reads (`lastTestSucceeded` decides whether a
plan may be enabled); retention runs in the worker after a success and reads plan and history;
the scheduler announces `FAILED` rows over the websocket gateway. The locks are shared code.
The worker and the restore preflight reach artifacts only through an adapter; the restore
command reads what a preflight prepared. Identity synchronization and group administration
write the same memberships; access rules are evaluated along the way that the page tree gives.

What makes each part correct:

* barrier: no mutation while a snapshot is taken; artifacts restore without dangling rows;
  write protection always ends; nobody lifts another's barrier;
* queue: a job is executed once; queued jobs are taken up; a plan never loses its last restore
  point; a recorded connection test is one of the recorded settings;
* scheduler: an occurrence gets one job, and gets it; a disabled plan gets none; a due plan
  moves on; failures are announced;
* retention: exactly the promised backups stay, independent of interruptions;
* adapters: a reader never takes a partial artifact for a complete one, whatever dies;
* restore: a run that reports success restored everything, and a run that cannot work changes
  nothing;
* sessions: a token rotates at most once, a family has at most one live token, what was ended
  stays ended, and a browser's own concurrency does not end its session;
* identities: grants follow the claims, one provider's synchronization leaves what others and
  the administration granted, an attempt gives one session;
* pages and standards: a guarded edit replaces only what its author knew, and an active standard
  is the text that was approved;
* OAuth: one consent never yields two usable refresh tokens;
* page tree and access: every page can be reached by the access check, and a change of rules has
  the effect it was made for;
* Microsoft To Do: whatever overlapped or stopped, an undisturbed run brings both sides in step,
  and only the account that is connected is used.

`PROJECT.json` lists all components, with the reason where one is not modelled, and under
`hazards` the places in the code that are hard to test.

## 2. Modules and how they correspond to the code

**BackupCoordination** – the write barrier. `barrier` and `activeWrites` are the Redis keys
(a missing key reads as 0; `counterTtl` tells whether a TTL runs on the counter). `request[w]`
is the program counter of one mutating request inside the interceptor, `snapshot[k]` that of
`createConsistentArtifact` in worker `k`; `rows`, `files`, `dump` and `archive` are the media
rows and files, live and staged. A Lua script is one action, each other Redis command one
action, so `leaveWrite`'s DECR and its SET are two. Failures are actions of their own:
`ApiCrash`, `LeaveFails`, `AcquireLost` (the SET happens, its answer does not arrive),
`CaptureFails`, `ReleaseFails`, `WorkerCrash`, and the expiry of both keys. `LongSnapshots` and
`LongWrites` say whether anything may outlive the six hours.

**ConsistentSnapshot** – what `createConsistentArtifact` promises: rows and files change one at a
time, and an artifact takes both in one step. `INSTANCE ConsistentSnapshot WITH` maps the staged
dump and archive of a worker to an artifact once both are there (`Artifacts`).

**BackupJobs** – tables, queue and worker. One variable per column that matters; a job's number
is its place in `createdAt` order. Each `await` in `processNextJob` and `applyRetention` that
touches shared state is an action; `copy` holds the columns read with the candidate and used
after later awaits; `pending` holds requests between their checks and their `create`.
`MarkSucceededUnanswered` is a commit whose answer is lost. `DeleteDestination` and `DeletePlan`
include the foreign keys' `SET NULL`. An artifact is absent, partial or complete; which ones
retention selects is any subset that spares the newest, which `BackupRetention` refines.

**BackupScheduler** – `runCycle` with the lock, the list read by `findMany`, the per-plan
branches, the claiming transaction with the unique index, and `updatePlan` split at the point
between reading and writing. A schedule is a period. `Skew` is the set of offsets a clock may
have.

**BackupFailureNotices** – `notifyNewFailures` with its page, and restarts of the process.

**BackupRetention** – `expiredBackupJobIds` with its day, week and month keys computed from day
numbers, and a plan whose jobs succeed in any order while `applyRetention` completes, stops
half-way or is missed. `Promised` states the rule's comment without keys or loops. Settings
stay fixed in one behaviour, since raised limits cannot bring an artifact back.

**ArtifactStore** and **BackupStorage** – the destination of one artifact, as promised and as
built. `ArtifactStore` has one step that makes an artifact appear as a whole, and lets it lose
files only after its removal began. `BackupStorage` has the directories `partial` and `final` at
the destination file by file, `seal` for what makes them an artifact (the renamed directory, or
the object `COMPLETE` on S3), the publisher's program counter, and readers (`verify` for
retention, restore preflights, `delete`) with the local directories `staging` and `restore` that
they share. A file is absent, short, spoiled or whole, which is what sizes and checksums tell
apart. `INSTANCE ArtifactStore WITH` maps a sealed directory to `stored` or `remnant`.

**RestoreCli** – extends `BackupStorage` by the restore command: verify, extract, `pg_restore`,
exchange of the uploads, migration, change of owner. Each step may fail or be killed half-way,
and another run may follow on what is left.

**Sessions** – `sessions` are the rows of refresh tokens, `links` the reset links, `server[q]` a
request at one of its awaits, `store` the browser's localStorage. At READ COMMITTED a statement
over many rows works on those that were committed when it began, waits for rows that another
transaction holds, and does not see rows added meanwhile: `BeginRevoke` and `BeginWipe` collect
them, `EndRevoke` and `EndWipe` write. `ended` and `calm` are history variables.

**MicrosoftConnection** – the row of a connection as status, account, the account whose tokens
its cache holds, and whether lists are chosen. A call keeps the row it read (`seen`) and, as
history, the account that was connected then (`wanted`).

**TodoSync** – notes, tasks and mappings. A text is identified by its time and origin, and is
`cut` in the form of a task; a hash is the text itself. A run goes through listing, mappings,
each listed task, each missing one; exports and permanent deletions are `desk` calls. Three
history variables: `settled`, `interrupted`, `crossed`.

**UserAccount** – sessions, connection and notes of one user.

**Identities** – one user, sign-in attempts with their rows (`attempt`), external identities,
mappings, claims, grants and memberships. `synchronize` is one SERIALIZABLE transaction and
therefore one step, `Apply`, with `buildPreview` as `RoleRefused` and the sets of grants;
`synchronizeStored` reads the claims before it. Unlinking, removing a member and adding one
check first and write later.

**PageEditing** – one page; an edit reads the row, then writes it with the version and the
snapshot it computed, then renews the links. Edits of MCP clients write under the condition that
version and status are the ones they know. `replaced`, `raced`, `unseen` are history.

**StandardReview** – one standard; a version number stands for a text. Every handler reads,
then writes without a condition; edits store a snapshot before. `approved` is the version that
`approve` had read.

**McpOAuth** – consents, codes and refresh tokens. A claim is a conditional update; what
replaces the claimed row is created in a later step, between which a call may stop.

**PageTree** – spaces, categories and pages with folders and trash. Creations and moves are
checked, then written. `Resolves` is `pageHierarchies`, the access check's climb to the space.

**ResourceAccess** – rules, boundaries, groups and visibility along one path, with `evaluate` as
`Allowed`, and `spaces.update` with the rules it creates for the owner.

**Wiki** – these six. In `Wiki` and `UserAccount` a behaviour moves one part (`focus`, `moving`)
and leaves the others as they began: each part keeps its own columns and none reads another's,
so an interleaving of two parts shows each of them nothing that it does not see alone.

`MC*` modules hold the instances. Definitions whose comment begins with "Mutant of" are
deliberately wrong variants of the definition they name: with one of them in its place TLC
finds the property violated that `PROJECT.json` pairs it with.

## 3. Runs

| Run | Shows | Instance | Distinct states |
|---|---|---|---|
| coordination | `CounterCoversWriters`, `CaptureExcludesWrites`, `ImplementsSnapshot`, `BarrierLifted` | 3 requests, 2 workers, counter up to 4 | 241,924 |
| coordination_expiry | `ForeignBarrierKept` with everything outliving its TTL | 1 request, 2 workers | 65,159 |
| jobs | `ExclusiveExecution`, `RestorePointKept` | 2 workers, 1 request, 1 destination, 1 plan, 2 jobs, 2 edits, 1 crash | 1,227,463 |
| jobs_liveness | `QueueDrains` | 1 worker, a remote destination, 2 jobs, 3 edits, 2 crashes | 171,920 |
| jobs_stale_test | violation of `TestIsOfCurrentConfig` | 1 worker, 1 job, 2 edits | |
| scheduler | `ScheduledOnce`, `OnlyEnabledScheduled`, `EnabledGetsPlanned`, `DueGetsJob` | 2 cycles, 2 editors, 1 plan of period 2, skew 0 or 1, 2 edits, 1 fault | 332,308 |
| scheduler_stuck | violation of `DuePlanMovesOn` | 1 cycle, 1 edit, no fault, no skew | |
| notices | violation of `EveryFailureNotified` | page of 2, 3 failures | |
| retention | `KeepsPromised`, `HistoryIndependent` | 4 jobs on 4 days around New Year 2021, 18 settings | 46,292 |
| storage | `ImplementsArtifactStore`, `SucceededIsStored`, `ReadyIsRestorable`, `StagingLeftClean`, `UploadsFollowDatabase`, `SuccessIsComplete` | an artifact of 2 files, 2 readers, the three adapters, repeated restores | 3,375,777 |
| account | `AtMostOneLive`, `EndedStaysEnded`, `CalmKeepsSession`, `LinkTakesEffectOnce`; `OnlyChosenAccount`; `TodoInStep` | 2 tabs, 2 requests, 3 sessions, 2 links, 4 of them together; 2 accounts, 2 sign-ins, 2 calls; 2 notes, 1 task, 2 instances, 1 export or deletion, 4 writes | 1,370,450 |
| wiki | `ExternalRoleDecides`, `GrantsFollowClaims`, `OneSessionPerAttempt`, `SyncLeavesOthers`; `GuardedEdits`; `ActiveIsReviewed`; `OneTokenPerConsent`; `HierarchyResolves`; `AccessChangesAsAsked` | below | 1,253,357 |

The runs coordination, jobs, storage, account and wiki also check a type invariant
(`TypeOK`, `AccountTypeOK`, `WikiTypeOK`), which includes foreign keys and unique columns.

Bounds. Two workers and one more request than the barrier needs make every race of two
actors possible; the counter may exceed the number of requests by one, which is enough for a
leaked count. Two jobs are one to expire and one to spare, or one locked and one behind it.
`MaxEdits` allows a destination, a plan and a change of either, depending on the run. Two
cycles, two editors and one fault cover each pair of overlapping steps around one occurrence
and the next. The retention days lie in two years, two months and three weeks, one of them
across the year; `MCBackupRetention` also evaluates the week keys of every day from 2015 to
2025. Workers are a symmetry set only in runs without liveness.
Two files are one that was transferred and one that was not; two readers are a retention run
and a preflight, or two of a kind. Three sessions are a login, its rotation and one more of
either; two reset links are one that overtakes the other, with two sessions beside them
(`MaxRows`). In account, four writes are the text
that exists, an edit of each side and what a run makes of them. In wiki: two providers that map
one value each to the same group and to roles of equal priority (one mapping of each kind per
provider, so that ambiguous mappings of one provider do not occur), one attempt and two
requests; two editors, three contents and versions; two reviewers and four versions; one
consent, three calls and three tokens, which is a code used twice and a rotation; two spaces,
one category and two pages, with one request between check and write while others happen at
once; a path of page, category and space, one user in one group, and two rules beside the
owner's.

Symmetry. Where one part moves, exchanging the members of a set of each part at the same time is
a symmetry of the part that moves, and the parts at rest begin in states that the exchange
leaves alone (`WikiSymmetry`, `AccountSymmetry`).

Deadlock is not checked where the bounds on jobs, edits or time let the system come to rest.

The three violations are findings, described in `PROJECT.json`:

* *stale test*: a connection test started with the old settings marks the new ones as tested;
* *stuck plan*: an edit that stores a run date whose job exists meanwhile makes every later
  cycle fail on the unique index, which also undoes the step to the next date;
* *failure page*: more failures than one page since the start of a process are not announced.

What the properties except. Several handlers read, decide and write in separate statements
without a condition, and some outcomes of that are simply what the code does. Where a property
holds apart from them, a history variable names the exact event and the property says so:
a rotation that is open while its family is ended (`ended`), two tabs that refresh at once or
a lost answer (`calm`); unguarded edits that overtake each other (`raced`); a review step
written on a version or status it had not read (`overtaken`); a token replaced while its family
is revoked (`closed`); a page written after its check was overtaken, or a folder moved below
itself or away from its children (`overtook`, `uprooted`); a reader that died (`died`); a
mapping created between a run's two listings (`crossed`), a run that stopped between sending a
text and recording it, or two runs at once (`interrupted`). With any one exception removed TLC
finds a violation; the hazards in `PROJECT.json` describe them.

Fairness. Worker and cycle steps are weakly fair: the worker loops in `runForever`, and
`@Interval` starts cycles. A worker's steps after it set the barrier are weakly fair because
each of them ends by itself or by a timeout. Redis removes keys whose TTL has passed, so the
expiry of a dead holder's key is weakly fair. No fairness is assumed of requests, edits,
crashes or failures. storage, account and wiki check safety only and assume no fairness.

## 4. Proofs

The modules `*Proofs` hold for all values of the constants: any number of requests, workers,
files, readers, tabs, providers, editors, pages and users, and any bounds. What they assume of the
constants are the `ASSUME`s beside the declarations, which say that bounds are numbers, that
sentinels such as `NoTab`, `None`, "nobody" or "other" are no members of the sets they stand beside, that an
artifact has a file and a path a target, and the unique keys of the mappings.

*BackupCoordination.* `CaptureExclusion`, `ArtifactCompleteness` and `BarrierImplementsSnapshot`
assume `~LongSnapshots /\ ~LongWrites`, that is, nothing outlives the six hours.
`CaptureExcludesWrites` is not inductive. That the counter is at least the number of running
mutations (`CounterCoversWriters`) makes the end of the wait mean that none is running, and it
survives DECR only because the counter does not go below zero (`NeverUnderflows`); that none
starts afterwards follows from owning the barrier until its release (`BarrierOwned`). The artifact
needs in addition that files are written before rows and removed after them (`RowsHaveFiles`) and
that what was dumped is still current when tar starts (`DumpIsCurrent`). Together they are
`SnapshotInv`, from which also follows the refinement, `BarrierImplementsSnapshot`: the step of
tar takes the snapshot, and all others change one store or nothing. A `ConsistentSnapshot` has a
file for each row, which `ArtifactComplete` says of the artifact directly. `CounterCovers` needs
`~LongWrites` alone and `BarrierTokenSafety` no assumption about time.

*BackupJobs.* `Exclusivity` rests on `CandidateInv`: a worker that executes a job has taken it
out of `QUEUED`, and nothing puts it back; the lock plays no part. `RestorePointSafety` rests
on `RetentionInv`: whatever a worker is about to remove, and whatever successful backup was
removed, has a newer complete artifact of the same plan (`NewerKept`). Removing one artifact
keeps this for the others: where it was the newer one of another job, it has a newer one itself,
which serves that job as well (`RemovalKeepsNewer`).

*BackupStorage and RestoreCli.* `PublishInv` says what the publisher has achieved at each of its
program counters (which files are whole in which directory, and that nothing is sealed before
all are); `ReadersInv`, that readers work only on what was published and delete only after the
removal was announced; `StagingInv`, that a copy in the shared staging directory has a reader who
is about to check and remove it, unless one died. `StorageInvariant` is their conjunction with
`TypeOK`. `AdaptersImplementStore` is the refinement: with `Artifact` as the state that
`ArtifactStore` sees, every step of the publisher, of a reader and of a deletion is one of its
steps or changes nothing there. `RestoreKeepsStorage` carries all of this over to an
installation that is being restored; `SuccessComplete` and `UploadsAfterDatabase` rest on
`RestoreInv`, what a run has done at each of its steps whatever earlier runs left behind.

*BackupScheduler.* `OccurrenceOnce` needs no invariant beside `TypeOK`: the unique index alone
decides, and `JobStep` shows that a transaction is the only step that adds a job. `EnabledOnly`
is the same transaction's condition.

*Sessions and MicrosoftConnection* (`UserAccountProofs`). `AtMostOneLive` is preserved by a
rotation only because the row it replaces is live and no other rotation holds it (`TableInv`).
`EndedStaysEnded` needs what a statement in progress has seen: as long as no rotation came in
between, every live row of the families it ends (`EndInv`). `LinkInv` keeps a claimed link open
until its transaction ends; `CalmInv` says where the token of a calm browser is: live in the
store, or in the answer that a tab waits for. `CallInv` ties program counters to tokens. For the
connection, the row that a call has read names the account it wants (`ConnectionInv`).

*TodoSync* (`UserAccountProofs`). `TodoStaysInStep` speaks of what a whole undisturbed run will
have done, so its invariant `TodoInv` describes that run while it is under way:

* `TodoTypeOK` has the two unique indexes of the mappings, and `RefsInv` says that no run or desk
  works with a note, task or mapping that does not exist;
* `ListInv`: a run has each listed task once, and no mappings before it has read them;
* `CalmRunsInv`: a run that nothing has disturbed since it began has current lists, and every task
  and mapping that is no longer in its lists is in step. When the lists are empty everything is,
  which is `RunSettles`;
* `HashInv`: both hashes of a mapping are of one text;
* `OriginInv` and `PendingInv`: a text comes from Microsoft or from a note that exists, and until
  an export is recorded its task says nothing of that note but the exported text, nor does any
  note that the task was imported into;
* `EchoInv`: a text of its own that a note finds in its task is the one whose hash is recorded, so
  that no run takes it for an edit, which gives `NoEcho`;
* `ThrowInv`: a mapping that a run has marked as deleted at Microsoft, or is about to mark, belongs
  to a task that is gone.

A step of the user, of a desk or of another run disturbs a run, and lemmas such as
`UserDisturbs` show that the invariant asks less of it then; what remains is the step of the calm
run itself (`CalmRunsStep`). `ThrownAwayForTask` speaks of the mark `externalDeletedAt`, which only
a run sets, because notes also go into the trash and come back by their user's hand.

`AccountParts`, `AccountTypeCorrect` and `AccountSafe` transfer all three to the user's account.

*BackupRetention.* `KeepsPromisedAlways` says that `expiredBackupJobIds` keeps exactly what is
promised. The code walks the backups from the newest to the oldest and counts the periods it has
met; the promise has no walk, it counts later periods. The proof follows the walk one backup at a
time: the backups met so far, the periods among them (`Rounds`, `VisitCandidate`), and that a
backup is kept exactly if it is the last of its period and fewer periods lie after it than the
limit says. That two days have equal keys exactly if they lie in the same day, week or month, the
ISO week of the days around New Year included, is `KeyNamesPeriod`.
`RetentionIsHistoryIndependent` needs in addition that nothing promised has been removed
(`RetentionInv`): what the rule promises of a set of backups it promises of each smaller set that
still has it, so that a run which completes removes exactly the rest, however many runs before it
were interrupted.

*Identities.* `Pipeline` says that the right of an attempt to a session is in one place: its
request row, its code row, or one call that has consumed either. `GrantInv` holds the types of
the grants, `GrantsFollowClaims`, and that no two role grants share a priority
(`PrioritiesDiffer`), from which `RoleDecided` follows with the least priority of a finite set.

*The rest of the wiki* (`WikiProofs`). `ReviewInv` adds to `ActiveIsReviewed` what a handler may
still write. `OAuthInv` says that the right to issue a token is in one place, a consent, a code, a
live token or one call that has claimed one of them (`ConsentInv`, `FamilyInv`), and that a
family recorded as closed has neither a usable token nor one on its way (`ClosedInv`).
`EditsInv` relates what an editor knows to the versions there are. `TreeTypes` is type
correctness of the page tree with its foreign keys. `PagesResolve` replaces the climb of
`HierarchyResolves`, which no step preserves as such, by two facts that are preserved
(`PlacedInv`): a page agrees with its category and with the folder right above it, and among any
pages there is one whose parent is not among them (`NoLoop`). That the recursive climb is defined
(`ClimbExists`), ends within as many steps as there are pages (`ClimbEnds`, by the pigeonhole
principle) and meets only pages that agree (`LineAgrees`) is shown by least counterexamples: a
set of numbers that is not empty has a least member (`LeastNumber`). `AccessAsAsked` is an action property: lemma
`NearestAnswers` turns the choice in `Allowed` into "the nearest target that decides", and
`NewRule` and `OwnerKeeps` compare that target before and after a step. `WikiParts`, `WikiTypes`
and `WikiSafe` transfer the parts to the composition.

Only model-checked:

* all liveness (`BarrierLifted`, `QueueDrains`, `EnabledGetsPlanned`, `DueGetsJob`), which is out
  of the prover's reach.

There is no safety property of a run that is not also a theorem.

## 5. Not modelled, and the plan

Left out on purpose: the development mode without Redis, heartbeats, audit rows, wording, the
legacy worker, encryption, read-only endpoints. Jobs left `RUNNING` by a dead worker are part of
the model; nothing in the code recovers them, so no liveness is claimed after the claim.

Not modelled, and why:

* the web client's pages and components, which are about half of the source: presentation over
  the API, with the token store as the one piece of shared state, which `Sessions` has;
* controllers and schemas: they pass checked input to the services that are modelled;
* search, export, retrieval and evaluation of standards: they read and format;
* monitoring, audit, settings, mail: gauges, append-only rows and single-row configuration;
* discovery, token validation and encryption: the work of libraries;
* the search for the next local minute of a schedule: local times and daylight saving come from
  `Intl`, so that a model would be one of the library;
* drafts, tags, shares, promotion of notes, change requests, links between standards and pages,
  API keys, users: single rows after a check, without a step that another depends on;
* the Entra group resolver: its result, the claims, is an input of `Identities`.

Further work: websocket rooms after changes of rights, and change requests of MCP clients.
