------------------------- MODULE MCBackupRetention -------------------------
(***************************************************************************)
(* Small instances of BackupRetention around a turn of the year: the week  *)
(* 2020-W53 has days in both years and in two months.                      *)
(***************************************************************************)
EXTENDS BackupRetention

\* 2020-12-24 (W52), 2020-12-31 (W53), 2021-01-01 (W53) and 2021-01-04 (W01).
MCDays == {7297, 7304, 7305, 7308}

MCLimits == [daily : 0..2, weekly : 0..2, monthly : 0..1]

\* From 2015-01-01 to the end of 2025, a week's key identifies the week: its days
\* have the key of its Monday, and no two Mondays have the same.
ASSUME WeekKeysSound ==
  LET Calendar  == 5113..9130
      Monday(d) == d - Weekday(d) + 1
      Mondays   == {Monday(d) : d \in Calendar}
  IN  /\ \A d \in Calendar : IsoWeek(d) = IsoWeek(Monday(d))
      /\ Cardinality({IsoWeek(d) : d \in Mondays}) = Cardinality(Mondays)
=============================================================================
