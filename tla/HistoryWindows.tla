--------------------------- MODULE HistoryWindows ---------------------------
(***************************************************************************)
(* services/operational_history_store.py, weekly_slices: the weeks over    *)
(* which the events of the operational history are counted, as the trend   *)
(* of analytics/velocity_metrics.py does too.                              *)
(*                                                                         *)
(* Time is counted in ticks; the last tick of a day is 23:59:59.  The      *)
(* state is one event, and the time it occurred.                           *)
(***************************************************************************)
EXTENDS Naturals

CONSTANTS
  DayLength,   \* ticks of a day, two at least
  Weeks,       \* num_weeks
  AsOf         \* as_of, in days, with Weeks weeks before it

VARIABLE occurred   \* occurred_at_utc

Day(t) == t \div DayLength
EndOfDay(d) == d * DayLength + DayLength - 1

\* The weeks from the latest to the earliest: [since, until] of each one.
WeekEndDay[k \in 1..Weeks] ==
  IF k = 1 THEN AsOf ELSE Day(EndOfDay(WeekEndDay[k - 1]) - 6 * DayLength) - 1

Until(k) == EndOfDay(WeekEndDay[k])
Since(k) == Until(k) - 6 * DayLength

\* counter_by_type counts an event at either bound of a window.
Counted(k) == Since(k) <= occurred /\ occurred <= Until(k)

Init == occurred = EndOfDay(AsOf)

\* An earlier event of the weeks shown.
Earlier ==
  /\ Day(occurred - 1) > AsOf - 7 * Weeks
  /\ occurred' = occurred - 1

Spec == Init /\ [][Earlier]_occurred

\* Each event of the weeks shown is counted in one of them ("Non-overlapping
\* week buckets ending at as_of (inclusive)").
EveryEventInOneWeek ==
  \E k \in 1..Weeks : Counted(k) /\ \A j \in 1..Weeks \ {k} : ~Counted(j)

=============================================================================
