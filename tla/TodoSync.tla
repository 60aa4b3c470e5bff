------------------------------ MODULE TodoSync ------------------------------
(***************************************************************************)
(* A user's notes and the tasks of a Microsoft To Do list, kept in step by *)
(* synchronization runs, exports and permanent deletions.  Microsoft's     *)
(* store and the database have no transaction in common: a run lists the   *)
(* tasks, then reads the mappings, and goes through both with one or two   *)
(* writes for each.  A process runs one synchronization at a time, but     *)
(* every API instance is a process of its own.  All tasks are of one       *)
(* selected list; a list that Microsoft does not show is not looked at.    *)
(*                                                                         *)
(* A text is named by the time it was written and by the note it was       *)
(* written in.  A task holds texts in a form of its own, trimmed and cut   *)
(* to length, so that a text that comes back is not the one that was sent. *)
(***************************************************************************)
EXTENDS Naturals

CONSTANTS
  Notes,
  Tasks,
  Syncs,     \* API instances
  Desks,     \* slots for exports and permanent deletions in progress
  MaxTime    \* bound on the writes to notes and tasks

Microsoft == "microsoft"
ASSUME SyncAssumption ==
  /\ MaxTime \in Nat \ {0}
  /\ Microsoft \notin Notes
  /\ "other" \notin Syncs

VARIABLES
  note,         \* the rows of Note: state, text, updatedAt, who threw it away
  task,         \* Microsoft's tasks: state, text, lastModifiedDateTime
  maps,         \* the rows of ExternalItemMapping, with the two last hashes
  sync,         \* the runs in progress
  desk,         \* the exports and deletions in progress
  time,         \* the time of the last write
  settled,      \* history: a run that nothing disturbed has just ended
  interrupted,  \* history: runs have overlapped, or one stopped before recording a write
  crossed       \* history: a mapping was created between a run's two listings

todoVars == <<note, task, maps, sync, desk, time, settled, interrupted, crossed>>

Text == [id : 1..MaxTime, from : Notes \union {Microsoft}, cut : BOOLEAN]
Mapping == [note : Notes, task : Tasks, local : Text, external : Text,
            detached : BOOLEAN, deleted : BOOLEAN]
Map(n, t, text, form) ==
  [note |-> n, task |-> t, local |-> text, external |-> form,
   detached |-> FALSE, deleted |-> FALSE]
First(n) == [id |-> 1, from |-> n, cut |-> FALSE]

\* noteTitle and noteBody on the way out; taskContent on the way in keeps what is there.
Outward(text) == [text EXCEPT !.cut = TRUE]

NoSync == [pc |-> "idle", tasks |-> {}, maps |-> {}, missing |-> {}, at |-> {}, calm |-> FALSE]
NoDesk == [pc |-> "idle", note |-> {}, task |-> {}, text |-> {}]

NoteRow == [state : {"none", "live", "trash", "gone"}, text : Text, at : 1..MaxTime,
            by : {"user", "sync"}]
TaskRow == [state : {"none", "live", "gone"}, text : Text, at : 1..MaxTime]
\* A task as a run has listed it, and what reconcileTask decides on.
Listed == [task : Tasks, text : Text, at : 1..MaxTime]
Decision == [map : Mapping, task : Listed, text : Text, at : 1..MaxTime]
Run == [pc : {"idle", "list", "maps", "next", "write", "record", "trash"},
        tasks : SUBSET Listed, maps : SUBSET Mapping, missing : SUBSET Mapping,
        at : SUBSET (Decision \union Mapping), calm : BOOLEAN]
DeskState == [pc : {"idle", "create", "record", "undo", "unlink", "forget", "detach", "purge"},
              note : SUBSET Notes, task : SUBSET Tasks, text : SUBSET Text]

\* Besides the types: the two unique indexes, and what a run has in hand.
TodoTypeOK ==
  /\ note \in [Notes -> NoteRow]
  /\ task \in [Tasks -> TaskRow]
  /\ maps \subseteq Mapping
  /\ \A k, m \in maps : k.note = m.note \/ k.task = m.task => k = m
  /\ sync \in [Syncs -> Run]
  /\ \A s \in Syncs :
       /\ sync[s].pc = "write" => \E c \in sync[s].at : c \in Decision /\ sync[s].at = {c}
       /\ sync[s].pc \in {"record", "trash"} =>
            \E c \in sync[s].at : c \in Mapping /\ sync[s].at = {c}
  /\ desk \in [Desks -> DeskState]
  /\ time \in 1..MaxTime
  /\ {settled, interrupted, crossed} \subseteq BOOLEAN

\* No notes yet, or one that has been exported.
TodoInit ==
  /\ \E n \in Notes, t \in Tasks, exported \in BOOLEAN :
       /\ note = [m \in Notes |->
            [state |-> IF exported /\ m = n THEN "live" ELSE "none", text |-> First(m),
             at |-> 1, by |-> "user"]]
       /\ task = [u \in Tasks |->
            IF exported /\ u = t
              THEN [state |-> "live", text |-> Outward(First(n)), at |-> 1]
              ELSE [state |-> "none", text |-> [id |-> 1, from |-> Microsoft, cut |-> TRUE], at |-> 1]]
       /\ maps = IF exported THEN {Map(n, t, First(n), Outward(First(n)))} ELSE {}
  /\ sync = [s \in Syncs |-> NoSync]
  /\ desk = [d \in Desks |-> NoDesk]
  /\ time = 1
  /\ settled = FALSE /\ interrupted = FALSE /\ crossed = FALSE

Now == time + 1
InTime == time < MaxTime
Tick == InTime /\ time' = Now
MapsOf(n) == {m \in maps : m.note = n}

\* What s does disturbs the other runs, what others do disturbs all.
Disturbed(runs, s) == [r \in Syncs |-> IF r = s THEN runs[r] ELSE [runs[r] EXCEPT !.calm = FALSE]]
Disturb == sync' = Disturbed(sync, "other") /\ settled' = FALSE
Become(s, run) == sync' = Disturbed([sync EXCEPT ![s] = run], s)

-----------------------------------------------------------------------------
(* The user, in the wiki and in Microsoft's applications *)

\* notes.create, notes.update and toggleCheckbox
WriteNote(n) ==
  /\ note[n].state \in {"none", "live"}
  /\ Tick
  /\ note' = [note EXCEPT ![n] =
       [state |-> "live", text |-> [id |-> Now, from |-> n, cut |-> FALSE], at |-> Now, by |-> "user"]]
  /\ Disturb
  /\ UNCHANGED <<task, maps, desk, interrupted, crossed>>

\* notes.remove and notes.restore
MoveNote(n, from, to) ==
  /\ note[n].state = from
  /\ Tick
  /\ note' = [note EXCEPT ![n] = [@ EXCEPT !.state = to, !.at = Now, !.by = "user"]]
  /\ Disturb
  /\ UNCHANGED <<task, maps, desk, interrupted, crossed>>

WriteTask(t) ==
  /\ task[t].state \in {"none", "live"}
  /\ Tick
  /\ task' = [task EXCEPT ![t] =
       [state |-> "live", text |-> [id |-> Now, from |-> Microsoft, cut |-> TRUE], at |-> Now]]
  /\ Disturb
  /\ UNCHANGED <<note, maps, desk, interrupted, crossed>>

DeleteTask(t) ==
  /\ task[t].state = "live"
  /\ task' = [task EXCEPT ![t].state = "gone"]
  /\ Disturb
  /\ UNCHANGED <<note, maps, desk, time, interrupted, crossed>>

-----------------------------------------------------------------------------
(* performSync *)

\* sync or autoSync; another instance may have a run under way.
StartSync(s) ==
  /\ sync[s].pc = "idle"
  /\ LET alone == \A r \in Syncs : sync[r].pc = "idle" IN
       /\ Become(s, [NoSync EXCEPT !.pc = "list", !.calm = alone])
       /\ interrupted' = (interrupted \/ ~alone)
  /\ settled' = FALSE
  /\ UNCHANGED <<note, task, maps, desk, time, crossed>>

ListTasks(s) ==
  /\ sync[s].pc = "list"
  /\ sync' = [sync EXCEPT ![s].pc = "maps",
       ![s].tasks = {[task |-> t, text |-> task[t].text, at |-> task[t].at] :
                       t \in {u \in Tasks : task[u].state = "live"}}]
  /\ UNCHANGED <<note, task, maps, desk, time, settled, interrupted, crossed>>

\* The mappings of which no task was listed, and which the second loop looks at.
Missing(listed) ==
  {m \in maps : ~m.detached /\ ~m.deleted /\ \A x \in listed : x.task # m.task}

ReadMappings(s) ==
  /\ sync[s].pc = "maps"
  /\ LET listed == sync[s].tasks IN
     sync' = [sync EXCEPT ![s].pc = "next",
       ![s].maps = {m \in maps : \E x \in listed : x.task = m.task},
       ![s].missing = Missing(listed)]
  /\ UNCHANGED <<note, task, maps, desk, time, settled, interrupted, crossed>>

MappingFor(s, x) == {m \in sync[s].maps : m.task = x.task}
Drop(s, x) == [sync[s] EXCEPT !.tasks = @ \ {x}, !.maps = @ \ MappingFor(s, x)]

\* A mapping appears while another run is between its two listings.
Crosses(s) == crossed' = (crossed \/ \E r \in Syncs \ {s} : sync[r].pc = "maps")

\* importTask: a transaction that does nothing if the mapping exists by now.
ImportTask(s, x) ==
  /\ sync[s].pc = "next"
  /\ x \in sync[s].tasks /\ MappingFor(s, x) = {}
  /\ Become(s, Drop(s, x))
  /\ \/ /\ \E m \in maps : m.task = x.task
        /\ UNCHANGED <<note, maps, time, crossed>>
     \/ /\ \A m \in maps : m.task # x.task
        /\ Tick
        /\ \E n \in Notes :
             /\ note[n].state = "none"
             /\ note' = [note EXCEPT ![n] =
                  [state |-> "live", text |-> x.text, at |-> Now, by |-> "user"]]
             /\ maps' = maps \union {Map(n, x.task, x.text, x.text)}
        /\ Crosses(s)
  /\ UNCHANGED <<task, desk, settled, interrupted>>

\* Either hash differs from the one recorded; every mapping has both.
Changed(m, x, n) == n.text # m.local \/ x.text # m.external

\* A detached mapping, a note that is not there, or nothing that has changed.
SkipTask(s, x) ==
  /\ sync[s].pc = "next"
  /\ x \in sync[s].tasks
  /\ \E m \in MappingFor(s, x) :
       m.detached \/ note[m.note].state # "live" \/ ~Changed(m, x, note[m.note])
  /\ Become(s, Drop(s, x))
  /\ UNCHANGED <<note, task, maps, desk, time, settled, interrupted, crossed>>

\* reconcileTask reads the note; at holds what it decides on.
ReadNote(s, x) ==
  /\ sync[s].pc = "next"
  /\ x \in sync[s].tasks
  /\ \E m \in MappingFor(s, x) :
       /\ ~m.detached /\ note[m.note].state = "live" /\ Changed(m, x, note[m.note])
       /\ sync' = [sync EXCEPT ![s] = [Drop(s, x) EXCEPT !.pc = "write",
            !.at = {[map |-> m, task |-> x, text |-> note[m.note].text, at |-> note[m.note].at]}]]
  /\ UNCHANGED <<note, task, maps, desk, time, settled, interrupted, crossed>>

ExternalWins(c) ==
  /\ c.task.text # c.map.external
  /\ c.text = c.map.local \/ c.task.at > c.at

\* note.update, which fails if the note was deleted meanwhile.
WriteBack(s) ==
  /\ sync[s].pc = "write"
  /\ \E c \in sync[s].at :
       /\ ExternalWins(c)
       /\ note[c.map.note].state \in {"live", "trash"}
       /\ Tick
       /\ note' = [note EXCEPT ![c.map.note].text = c.task.text, ![c.map.note].at = Now]
       /\ Become(s, [sync[s] EXCEPT !.pc = "record",
            !.at = {Map(c.map.note, c.map.task, c.task.text, c.task.text)}])
  /\ UNCHANGED <<task, maps, desk, settled, interrupted, crossed>>

\* Mutant of SentForm: the hash of the task as it was listed.
ListedForm(c) == c.task.text

\* externalHash of the task that Microsoft returns.
SentForm(c) == Outward(c.text)

\* graph.updateTask, which fails if the task was deleted meanwhile.
SendOut(s) ==
  /\ sync[s].pc = "write"
  /\ \E c \in sync[s].at :
       /\ ~ExternalWins(c)
       /\ task[c.map.task].state = "live"
       /\ Tick
       /\ task' = [task EXCEPT ![c.map.task].text = Outward(c.text), ![c.map.task].at = Now]
       /\ Become(s, [sync[s] EXCEPT !.pc = "record",
            !.at = {Map(c.map.note, c.map.task, c.text, SentForm(c))}])
  /\ UNCHANGED <<note, maps, desk, settled, interrupted, crossed>>

\* externalItemMapping.update, which fails if the mapping was deleted meanwhile.
RecordHashes(s) ==
  /\ sync[s].pc = "record"
  /\ \E c \in sync[s].at, m \in maps :
       /\ m.note = c.note /\ m.task = c.task
       /\ maps' = (maps \ {m}) \union {[c EXCEPT !.detached = m.detached]}
  /\ Become(s, [sync[s] EXCEPT !.pc = "next", !.at = {}])
  /\ UNCHANGED <<note, task, desk, time, settled, interrupted, crossed>>

\* The second loop reads the note of a mapping whose task was not listed.
ReadMissing(s, m) ==
  /\ sync[s].pc = "next" /\ sync[s].tasks = {}
  /\ m \in sync[s].missing
  /\ LET live == note[m.note].state = "live" IN
     sync' = [sync EXCEPT ![s] = [sync[s] EXCEPT
       !.missing = @ \ {m},
       !.pc = IF live THEN "trash" ELSE "next",
       !.at = IF live THEN {m} ELSE {}]]
  /\ UNCHANGED <<note, task, maps, desk, time, settled, interrupted, crossed>>

\* The transaction over note and mapping fails if one of them is not there.
ThrowAway(s) ==
  /\ sync[s].pc = "trash"
  /\ Tick
  /\ \E c \in sync[s].at, m \in maps :
       /\ m.note = c.note /\ m.task = c.task
       /\ note[m.note].state \in {"live", "trash"}
       /\ note' = [note EXCEPT ![m.note] = [@ EXCEPT !.state = "trash", !.at = Now, !.by = "sync"]]
       /\ maps' = (maps \ {m}) \union {[m EXCEPT !.deleted = TRUE]}
  /\ Become(s, [sync[s] EXCEPT !.pc = "next", !.at = {}])
  /\ UNCHANGED <<task, desk, settled, interrupted, crossed>>

FinishSync(s) ==
  /\ sync[s].pc = "next" /\ sync[s].tasks = {} /\ sync[s].missing = {}
  /\ Become(s, NoSync)
  /\ settled' = sync[s].calm
  /\ UNCHANGED <<note, task, maps, desk, time, interrupted, crossed>>

\* An error, a lost answer or the end of the process.
SyncStops(s) ==
  /\ sync[s].pc # "idle"
  /\ Become(s, NoSync)
  /\ settled' = FALSE
  /\ interrupted' = (interrupted \/ sync[s].pc = "record")
  /\ UNCHANGED <<note, task, maps, desk, time, crossed>>

-----------------------------------------------------------------------------
(* exportNote and the permanent deletion of a note *)

Sit(d, pc) == desk' = [desk EXCEPT ![d].pc = pc]
Leave(d) == desk' = [desk EXCEPT ![d] = NoDesk]

\* The note and its mapping are read; any mapping refuses.
StartExport(d, n) ==
  /\ desk[d].pc = "idle"
  /\ note[n].state = "live" /\ MapsOf(n) = {}
  /\ desk' = [desk EXCEPT ![d] =
       [pc |-> "create", note |-> {n}, task |-> {}, text |-> {note[n].text}]]
  /\ UNCHANGED <<note, task, maps, sync, time, settled, interrupted, crossed>>

\* graph.createTask
CreateTask(d, t) ==
  /\ desk[d].pc = "create"
  /\ task[t].state = "none"
  /\ Tick
  /\ \E text \in desk[d].text :
       task' = [task EXCEPT ![t] = [state |-> "live", text |-> Outward(text), at |-> Now]]
  /\ desk' = [desk EXCEPT ![d].pc = "record", ![d].task = {t}]
  /\ Disturb
  /\ UNCHANGED <<note, maps, interrupted, crossed>>

\* externalItemMapping.create; the unique indexes refuse a second mapping of the note
\* or of the task, which a run may have imported meanwhile.
RecordExport(d) ==
  /\ desk[d].pc = "record"
  /\ \E n \in desk[d].note, t \in desk[d].task, text \in desk[d].text :
       IF \E m \in maps : m.note = n \/ m.task = t
         THEN Sit(d, "undo") /\ UNCHANGED <<maps, sync, settled, crossed>>
         ELSE /\ Leave(d)
              /\ maps' = maps \union {Map(n, t, text, Outward(text))}
              /\ Disturb
              /\ Crosses("other")
  /\ UNCHANGED <<note, task, time, interrupted>>

\* graph.deleteTask, to which a task that is not there is as good as deleted.
RemoveTasks(d) == task' = [t \in Tasks |->
  IF t \in desk[d].task THEN [task[t] EXCEPT !.state = "gone"] ELSE task[t]]

UndoExport(d) ==
  /\ desk[d].pc = "undo"
  /\ RemoveTasks(d)
  /\ Leave(d)
  /\ Disturb
  /\ UNCHANGED <<note, maps, time, interrupted, crossed>>

\* handlePermanentNoteDeletion reads the mapping; it does not ask for the note.
StartPurge(d, n, deleteExternal) ==
  /\ desk[d].pc = "idle"
  /\ note[n].state # "none"
  /\ desk' = [desk EXCEPT ![d] =
       [pc |-> IF MapsOf(n) = {} THEN "purge"
               ELSE IF deleteExternal /\ \A m \in MapsOf(n) : ~m.deleted /\ ~m.detached
                    THEN "unlink" ELSE "detach",
        note |-> {n}, task |-> {m.task : m \in MapsOf(n)}, text |-> {}]]
  /\ UNCHANGED <<note, task, maps, sync, time, settled, interrupted, crossed>>

Unlink(d) ==
  /\ desk[d].pc = "unlink"
  /\ RemoveTasks(d)
  /\ Sit(d, "forget")
  /\ Disturb
  /\ UNCHANGED <<note, maps, time, interrupted, crossed>>

\* The mapping is deleted, or marked as detached where the task stays.
EndMapping(d) ==
  /\ desk[d].pc \in {"forget", "detach"}
  /\ \E n \in desk[d].note, t \in desk[d].task :
     \E m \in MapsOf(n) :
       /\ m.task = t
       /\ maps' = (maps \ {m}) \union
            (IF desk[d].pc = "detach" THEN {[m EXCEPT !.detached = TRUE]} ELSE {})
  /\ Sit(d, "purge")
  /\ Disturb
  /\ UNCHANGED <<note, task, time, interrupted, crossed>>

\* permanentRemove asks for a note in the trash.
Purge(d) ==
  /\ desk[d].pc = "purge"
  /\ \E n \in desk[d].note :
       /\ note[n].state = "trash"
       /\ note' = [note EXCEPT ![n].state = "gone"]
  /\ Leave(d)
  /\ Disturb
  /\ UNCHANGED <<task, maps, time, interrupted, crossed>>

\* An error, a lost answer or the end of the process.
DeskStops(d) ==
  /\ desk[d].pc # "idle"
  /\ Leave(d)
  /\ UNCHANGED <<note, task, maps, sync, time, settled, interrupted, crossed>>

-----------------------------------------------------------------------------
TodoNext ==
  \/ \E n \in Notes :
       WriteNote(n) \/ MoveNote(n, "live", "trash") \/ MoveNote(n, "trash", "live")
  \/ \E t \in Tasks : WriteTask(t) \/ DeleteTask(t)
  \/ \E s \in Syncs :
       \/ StartSync(s) \/ ListTasks(s) \/ ReadMappings(s)
       \/ \E x \in sync[s].tasks : ImportTask(s, x) \/ SkipTask(s, x) \/ ReadNote(s, x)
       \/ WriteBack(s) \/ SendOut(s) \/ RecordHashes(s)
       \/ \E m \in sync[s].missing : ReadMissing(s, m)
       \/ ThrowAway(s) \/ FinishSync(s) \/ SyncStops(s)
  \/ \E d \in Desks :
       \/ \E n \in Notes : StartExport(d, n) \/ \E external \in BOOLEAN : StartPurge(d, n, external)
       \/ \E t \in Tasks : CreateTask(d, t)
       \/ RecordExport(d) \/ UndoExport(d) \/ Unlink(d) \/ EndMapping(d) \/ Purge(d)
       \/ DeskStops(d)

TodoSpec == TodoInit /\ [][TodoNext]_todoVars

-----------------------------------------------------------------------------
\* Every task has its note or has been detached from it, the two say the same, and a
\* note whose task was deleted has been thrown away unless the user fetched it back.
InStep ==
  /\ \A t \in Tasks : task[t].state = "live" => \E m \in maps : m.task = t
  /\ \A m \in maps :
       ~m.detached /\ note[m.note].state = "live" =>
         IF task[m.task].state = "live"
           THEN note[m.note].text.id = task[m.task].text.id
           ELSE m.deleted

\* Whatever edits, exports, deletions and runs have overlapped or stopped half-way, one
\* run that nothing disturbs brings notes and tasks in step.
RunSettles == settled => InStep

\* A note never gets its own text back in the cut form that a task holds, unless a run
\* has been interrupted between sending a text and recording that it did.
NoEcho == ~interrupted => \A n \in Notes : note[n].text.cut => note[n].text.from # n

\* A run marks a mapping and throws its note away only if the task is gone, unless the
\* mapping was created after the run had listed the tasks.
ThrownAwayForTask ==
  ~crossed => \A m \in maps : m.deleted => task[m.task].state # "live"

\* The synchronization with Microsoft To Do settles, sends no text back to where it came
\* from, and throws no note away whose task exists.
TodoInStep == RunSettles /\ NoEcho /\ ThrownAwayForTask
=============================================================================
