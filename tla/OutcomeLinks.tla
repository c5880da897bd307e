---------------------------- MODULE OutcomeLinks ----------------------------
(***************************************************************************)
(* services/outcome_attribution.py: which earlier action on a listing a    *)
(* sale, or a listing that is no longer stale, is linked to, and how these *)
(* links and the actions themselves are counted.                           *)
(*                                                                         *)
(* The state is the operational history.  An event is stamped with the     *)
(* time and then appended, by several processes, so that lines may come in *)
(* another order than their times.  A report is an operator on the history *)
(* at a time; it reaches to the end of its day, which no event is after.   *)
(***************************************************************************)
EXTENDS Integers, Sequences, FiniteSets

CONSTANTS
  Listing,
  Approvable,    \* the actions a queue item may propose
  Window,        \* attribution_window_days, in ticks
  Ambiguity,     \* AMBIGUITY_SECONDS, in ticks
  Lookback,      \* cohort_lookback_days, in ticks
  HistoryStart,  \* history_start_days, in ticks
  MaxDelay,      \* bound: ticks from the stamp of an event to its line
  MaxTime,       \* bound: ticks that are modelled
  MaxEvents      \* bound: events that are modelled

ASSUME AttributionConstantsOK ==
  /\ Window \in Nat /\ Ambiguity \in Nat /\ Lookback \in Nat
  /\ HistoryStart \in Nat /\ HistoryStart >= Lookback
  /\ MaxDelay \in Nat /\ MaxTime \in Nat /\ MaxEvents \in Nat

\* What a queue item may propose besides the actions that can be approved only.
Proposal == [relist_proposed |-> "relist_candidate", bundle_proposed |-> "bundle_lot_candidate"]

Prior == {<<"queue_approved", a>> : a \in Approvable}
           \cup {<<k, Proposal[k]>> : k \in DOMAIN Proposal}
OutcomeKind == {"listing_sold", "stale_cleared"}
Event == [what: Prior \cup {<<k, "none">> : k \in OutcomeKind}, listing: Listing, at: 0..MaxTime]

VARIABLES
  history,   \* the lines of the operational history
  now

vars == <<history, now>>

Init == history = <<>> /\ now = 0

\* OperationalHistoryStore.append_event.
AppendEvent ==
  /\ Len(history) < MaxEvents
  /\ \E e \in Event :
       /\ e.at <= now /\ e.at + MaxDelay >= now
       /\ history' = Append(history, e)
  /\ UNCHANGED now

Tick == now < MaxTime /\ now' = now + 1 /\ UNCHANGED history

Next == AppendEvent \/ Tick

Spec == Init /\ [][Next]_vars

-----------------------------------------------------------------------------
(* The links.  An event is known by its line.                              *)

At(i) == history[i].at
IsPrior(i) == history[i].what \in Prior
Outcomes(kind, since) ==
  {o \in DOMAIN history : history[o].what[1] = kind /\ since <= At(o) /\ At(o) <= now}

\* Variant for mutation: an action at the very time of the outcome counts.
CandidatesInclusive(o) ==
  {i \in DOMAIN history :
     /\ IsPrior(i) /\ history[i].listing = history[o].listing
     /\ At(o) - Window <= At(i) /\ At(i) <= At(o)}

\* The actions an outcome may be linked to.
Candidates(o) ==
  {i \in DOMAIN history :
     /\ IsPrior(i) /\ history[i].listing = history[o].listing
     /\ At(o) - Window <= At(i) /\ At(i) < At(o)}

\* The latest; of those at one time, the first in the file, as sorting in
\* reverse keeps the order of equals.
Latest(C) == CHOOSE i \in C : \A j \in C : At(j) < At(i) \/ (At(j) = At(i) /\ i <= j)

\* build_action_outcome_links: the link of an outcome, if it has one.
Linked(o) == Candidates(o) # {}
Primary(o) == Latest(Candidates(o))
Ambiguous(o) ==
  LET rest == Candidates(o) \ {Primary(o)}
  IN  rest # {} /\ At(Primary(o)) - At(Latest(rest)) < Ambiguity

Link(o) ==
  IF Linked(o) THEN [primary |-> Primary(o), ambiguous |-> Ambiguous(o)]
  ELSE [primary |-> 0, ambiguous |-> FALSE]

Links(kind) == {o \in Outcomes(kind, now - HistoryStart) : Linked(o)}

-----------------------------------------------------------------------------
(* summarize_action_effectiveness.                                         *)

\* Outcomes of the lookback that no action came before.
Unattributed(kind) ==
  {o \in Outcomes(kind, now - Lookback) :
     ~\E i \in DOMAIN history :
        /\ IsPrior(i) /\ history[i].listing = history[o].listing
        /\ At(o) - Window <= At(i) /\ At(i) < At(o)}

\* The rows of the dashboard: approvals of an action, or proposals.
Rows == {<<"queue_approved", a>> :
           a \in {"update_title", "update_safe_specifics", "markdown_listing"}}
          \cup {<<k, Proposal[k]>> : k \in DOMAIN Proposal}

\* The actions a row counts: the denominator of its rates.
Cohort(row) ==
  {i \in DOMAIN history : history[i].what = row /\ now - Lookback <= At(i) /\ At(i) <= now}

\* Variant for mutation: a link is matched by what was proposed alone.
MatchedByAction(kind, row) == {o \in Links(kind) : history[Primary(o)].what[2] = row[2]}

\* The links a row counts: the numerator.
Matched(kind, row) == {o \in Links(kind) : history[Primary(o)].what = row}

-----------------------------------------------------------------------------
\* The link of an outcome stays as it is: a line changes it only if it comes
\* late, of an action on the same listing, before the outcome and within the
\* window, its first tick included.  What happens with or after the outcome, or
\* too long before it, does not claim it.
LinksStand ==
  [][Len(history') > Len(history) =>
       \A o \in DOMAIN history :
         Link(o)' # Link(o) =>
           LET new == history'[Len(history')]
           IN  /\ new.what \in Prior /\ new.listing = history[o].listing
               /\ new.at < At(o) /\ At(o) - new.at <= Window]_vars

\* Three ways of counting agree.  The outcomes of the lookback that have no link
\* are those that the loop over the unattributed ones finds.  What a row counts
\* as an outcome is linked to an action that the row counts too, or to one older
\* than the lookback, which its rate then does not divide by.  No two rows count
\* the same outcome; one that is linked to an approval without a row is counted
\* by none.
CountsAgree ==
  \A kind \in OutcomeKind :
    /\ Unattributed(kind) = Outcomes(kind, now - Lookback) \ Links(kind)
    /\ \A row \in Rows :
         /\ \A o \in Matched(kind, row) :
              Primary(o) \in Cohort(row) \/ At(Primary(o)) < now - Lookback
         /\ \A other \in Rows \ {row} : Matched(kind, row) \cap Matched(kind, other) = {}

=============================================================================
