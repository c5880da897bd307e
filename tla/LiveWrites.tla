----------------------------- MODULE LiveWrites -----------------------------
(***************************************************************************)
(* services/live_write_visibility.py: what the dashboard makes of the      *)
(* audit events of guarded applies: the counters of a week, of the week    *)
(* before it and of a month, what fails and how, the latest attempts, and  *)
(* the advice on allowing more live writes.                                *)
(*                                                                         *)
(* The state is the audit log, one event for each apply, as                *)
(* services/guarded_apply.py writes it; a report is an operator on it.     *)
(* A window begins and ends at midnight UTC, so time is counted in days;   *)
(* as_of is the day itself, which supposes that the machine keeps UTC.     *)
(***************************************************************************)
EXTENDS Integers, Sequences, FiniteSets

CONSTANTS
  Outcomes,     \* what an apply may come to
  Policy,       \* LiveWriteExpansionAdvisoryPolicy, rates in percent
  Week, Month,  \* the 7 and the 30 days of the windows
  MaxSamples,   \* max_samples of collect_other_bucket_samples
  TopN,         \* top_n of top_failure_messages_7d
  Limit,        \* limit of build_recent_live_title_history
  LastDay,      \* bound: days that are modelled
  MaxEvents     \* bound: events that are modelled

\* The failures that EbayWriteExecutor returns.  A GET fails with a text that
\* names 401 (no token was renewed), with one that names 400, 403 or 404, or
\* with any other: the tries ran out, another status, or a second 401 after the
\* one renewal.  A PUT is answered 401 and there is no handler, or the token
\* could not be renewed (in a text that names 401), or the one renewal is spent
\* (in a text that does not).  What comes with other answers is taken not to
\* name 401.
Failure == {
  "fail_closed", "write_guard", "condition_disclosure", "specifics_patch", "merge_conflict",
  "missing_snapshot", "missing_sku", "title_drift", "get_401", "get_refused", "get_failed",
  "put_401", "put_unrenewed", "put_spent", "put_rejected", "put_transport", "missing_product",
  "empty_title", "specifics_merge"}

\* The message of a failure: one for all that may happen to the GET, and one
\* for both ends of a renewal for the PUT.
MessageOf(why) ==
  CASE why \in {"get_401", "get_refused", "get_failed"} -> "get"
    [] why \in {"put_unrenewed", "put_spent"}           -> "put_auth"
    [] OTHER                                            -> why

Blocker == {"state_machine", "identity", "idempotency", "policy"}

Outcome ==
  [type: {"success"}, live: BOOLEAN, guarded: BOOLEAN, why: {"ok"}]
    \cup [type: {"failure"}, live: BOOLEAN, guarded: BOOLEAN, why: Failure]
    \cup [type: {"blocked"}, live: {FALSE}, guarded: BOOLEAN, why: Blocker]

ASSUME ReportConstantsOK ==
  /\ Outcomes \subseteq Outcome
  /\ Policy \in [minReadiness: Nat, minRate: Nat, critical: 0..100, floor: 0..100,
                 ready: 0..100, jumpMin: Nat, jumpDelta: Nat, priorMin: Nat]
  /\ Week \in Nat \ {0} /\ Month \in Nat /\ Month >= 2 * Week
  /\ MaxSamples \in Nat \ {0} /\ TopN \in Nat \ {0} /\ Limit \in Nat \ {0}
  /\ LastDay \in Nat /\ MaxEvents \in Nat

VARIABLES
  log,      \* the events, and the day of each
  today

vars == <<log, today>>

TypeOK ==
  /\ log \in Seq([day: 0..LastDay, event: Outcomes]) /\ Len(log) <= MaxEvents
  /\ today \in 0..LastDay

Init == log = <<>> /\ today = 0

\* Variant for mutation: the event is dated by a clock that is ahead.
ApplyAhead ==
  /\ Len(log) < MaxEvents
  /\ \E e \in Outcomes : log' = Append(log, [day |-> today + 1, event |-> e])
  /\ UNCHANGED today

\* GuardedApplyService records what an apply has come to.
Apply ==
  /\ Len(log) < MaxEvents
  /\ \E e \in Outcomes : log' = Append(log, [day |-> today, event |-> e])
  /\ UNCHANGED today

NextDay == today < LastDay /\ today' = today + 1 /\ UNCHANGED log

Next == Apply \/ NextDay

Spec == Init /\ [][Next]_vars

-----------------------------------------------------------------------------
(* The counters.  A set of events is the set of their places in the log.   *)

Between(from, to) == {i \in DOMAIN log : from <= log[i].day /\ log[i].day < to}

ThisWeek(asOf) == Between(asOf + 1 - Week, asOf + 1)

\* Variant for mutation: the two weeks share a day.
WeekBeforeOverlapping(asOf) == Between(asOf + 1 - 2 * Week, asOf + 2 - Week)

WeekBefore(asOf) == Between(asOf + 1 - 2 * Week, asOf + 1 - Week)
LastMonth(asOf) == Between(asOf + 1 - Month, asOf + 1)

\* _is_guarded_live_write_action, and a write that was not simulated.
Attempted(entry) == entry.event.type # "blocked" /\ entry.event.guarded /\ entry.event.live

Successes(I) == {i \in I : Attempted(log[i]) /\ log[i].event.type = "success"}
Failures(I) == {i \in I : Attempted(log[i]) /\ log[i].event.type = "failure"}
Attempts(I) == Cardinality(Successes(I)) + Cardinality(Failures(I))
Blocked(I) == {i \in I : log[i].event.type = "blocked" /\ log[i].event.guarded}

\* categorize_executor_failure, on what the executor says of each failure.
BucketOf(why) ==
  CASE why \in {"merge_conflict", "specifics_patch", "condition_disclosure",
                "write_guard", "fail_closed"}          -> "policy_failure"
    [] why = "title_drift"                             -> "title_drift"
    [] why \in {"missing_sku", "missing_snapshot"}     -> "missing_identifier"
    [] why \in {"get_401", "put_401", "put_unrenewed"} -> "auth_failure"
    [] why \in {"get_failed", "put_transport"}         -> "retryable_transport"
    [] why \in {"get_refused", "put_rejected",
                "put_spent", "missing_product"}        -> "provider_failure"
    [] OTHER                                           -> "other"

InBucket(I, b) == {i \in Failures(I) : BucketOf(log[i].event.why) = b}

Metrics(I) == [
  successes |-> Cardinality(Successes(I)),
  failures  |-> Cardinality(Failures(I)),
  attempts  |-> Attempts(I),
  blocked   |-> [w \in Blocker |-> Cardinality({i \in Blocked(I) : log[i].event.why = w})],
  buckets   |-> [b \in {BucketOf(w) : w \in Failure} |-> Cardinality(InBucket(I, b))]]

-----------------------------------------------------------------------------
(* What fails, and the latest attempts.                                    *)

Messages(I) == {MessageOf(log[i].event.why) : i \in I}

\* Variant for mutation: a failure is counted only if its message is new.
OtherCountDistinct(I) == Cardinality(Messages(InBucket(I, "other")))

\* collect_other_bucket_samples: the count, which ends at the event that fills
\* the samples.
OtherCount(I) ==
  LET other == InBucket(I, "other")
  IN  Cardinality({i \in other : Cardinality(Messages({j \in other : j < i})) < MaxSamples})

Named(I) == Failures(I) \ InBucket(I, "other")
Times(I, m) == Cardinality({i \in Named(I) : MessageOf(log[i].event.why) = m})

\* top_failure_messages_7d: the most frequent messages of the other buckets.
TopMessages(I) ==
  CHOOSE top \in SUBSET Messages(Named(I)) :
    /\ Cardinality(top) <= TopN
    /\ Cardinality(top) < TopN => top = Messages(Named(I))
    /\ \A m \in top, n \in Messages(Named(I)) \ top : Times(I, m) >= Times(I, n)

\* A row more for an attempt, while there is room.
Extended(rows, entry) ==
  IF Attempted(entry) /\ Len(rows) < Limit THEN Append(rows, entry) ELSE rows

\* build_recent_live_title_history: the rows of the newest n events.
Recent ==
  LET rows[n \in 0..Len(log)] ==
        IF n = 0 THEN <<>> ELSE Extended(rows[n - 1], log[Len(log) + 1 - n])
  IN  rows[Len(log)]

-----------------------------------------------------------------------------
(* compute_expansion_advisory.                                             *)

\* Variant for mutation: the failures are taken for the successes.
RateOfFailures(m, percent) ==
  100 * m.failures < percent * (IF m.attempts = 0 THEN 1 ELSE m.attempts)

\* The rate of success is below a percentage.
RateBelow(m, percent) ==
  100 * m.successes < percent * (IF m.attempts = 0 THEN 1 ELSE m.attempts)

\* A tracked bucket has jumped from one week to the next.
Jumped(m, p) ==
  \E b \in {"title_drift", "auth_failure", "provider_failure", "missing_identifier"} :
    /\ m.buckets[b] >= Policy.jumpMin
    /\ m.buckets[b] - p.buckets[b] >= Policy.jumpDelta

\* Some reason speaks against more live writes.
Alarming(m, p) ==
  \/ m.attempts >= Policy.minRate /\ RateBelow(m, Policy.critical)
  \/ m.failures > p.failures /\ p.attempts >= Policy.priorMin
  \/ Jumped(m, p)
  \/ m.attempts >= Policy.minRate /\ RateBelow(m, Policy.floor)

Advice(asOf) ==
  LET m == Metrics(ThisWeek(asOf))
      p == Metrics(WeekBefore(asOf))
      enough == m.attempts >= Policy.minRate
  IN  IF m.attempts < Policy.minReadiness THEN "insufficient_data"
      ELSE IF ~Alarming(m, p) /\ enough /\ ~RateBelow(m, Policy.ready) THEN "ready"
      ELSE "not_ready"

-----------------------------------------------------------------------------
\* The figures of this week are the figures of the week before, a week later,
\* and no event is in both: the two weeks meet at a midnight, and both lie in
\* the month (build_trends_section).
WeeksMeet ==
  /\ ThisWeek(today) = WeekBefore(today + Week)
  /\ ThisWeek(today) \cap WeekBefore(today) = {}
  /\ ThisWeek(today) \cup WeekBefore(today) \subseteq LastMonth(today)

\* Each failure of the week is shown: under one of the messages, or in the
\* count of the failures without a bucket, as long as neither list is full;
\* three loops over the log decide which.
EveryFailureShown ==
  LET I == ThisWeek(today)
      top == TopMessages(I)
      shown == {i \in Named(I) : MessageOf(log[i].event.why) \in top}
  IN  Cardinality(Messages(Named(I))) <= TopN /\ Cardinality(Messages(InBucket(I, "other"))) < MaxSamples
        => Cardinality(Failures(I)) = Cardinality(shown) + OtherCount(I)

\* The dashboard shows the latest attempts: as many as it can, and none that
\* is older than one it leaves out.
LatestShown ==
  LET attempts == Failures(DOMAIN log) \cup Successes(DOMAIN log)
  IN  /\ Len(Recent) = (IF Cardinality(attempts) < Limit THEN Cardinality(attempts) ELSE Limit)
      /\ \A k \in DOMAIN Recent :
           Cardinality({i \in attempts : log[i].day > Recent[k].day}) < k

\* The dashboard hides neither a failure of the week nor a late attempt.
NothingHidden == EveryFailureShown /\ LatestShown

\* On one day, once there are attempts enough to judge the rate, a failure
\* never turns the advice into "ready", and a success never takes it away.
AdviceFollowsEvidence ==
  [][/\ Len(log') > Len(log)
     /\ Attempts(ThisWeek(today)) >= Policy.minRate
     =>
     LET new == log'[Len(log')]
     IN  /\ Attempted(new) /\ new.event.type = "failure" /\ Advice(today) = "not_ready"
              => Advice(today)' # "ready"
         /\ new.event.type # "failure" /\ Advice(today) = "ready" => Advice(today)' = "ready"]_vars

=============================================================================
