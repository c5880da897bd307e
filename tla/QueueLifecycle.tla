--------------------------- MODULE QueueLifecycle ---------------------------
(***************************************************************************)
(* What the review queue promises an operator, whatever files and saves it *)
(* is made of: a book in which a proposal, once entered, stays; at most    *)
(* one proposal for a change to a listing waits for a decision; a decision *)
(* is made once, after the diff was acknowledged if that is required; and  *)
(* an approved proposal is settled once.                                   *)
(***************************************************************************)
CONSTANTS Id, Target, RequireDryRun

VARIABLE book

Entry ==
  [target: Target,
   status: {"pending", "approved", "rejected", "superseded", "applied", "failed"},
   seen: BOOLEAN]

Unused == [target |-> "none"]

Is(i, st) == book[i] # Unused /\ book[i].status = st

Init == book = [i \in Id |-> Unused]

Enter(i, t) ==
  /\ book[i] = Unused
  /\ \A j \in Id : Is(j, "pending") => book[j].target # t
  /\ book' = [book EXCEPT ![i] = [target |-> t, status |-> "pending", seen |-> FALSE]]

AcknowledgeDiff(i) ==
  /\ Is(i, "pending")
  /\ book' = [book EXCEPT ![i].seen = TRUE]

Approve(i) ==
  /\ Is(i, "pending")
  /\ RequireDryRun => book[i].seen
  /\ \E seen \in (IF RequireDryRun THEN {TRUE} ELSE BOOLEAN) :
       book' = [book EXCEPT ![i].status = "approved", ![i].seen = seen]

Reject(i) ==
  /\ Is(i, "pending")
  /\ book' = [book EXCEPT ![i].status = "rejected", ![i].seen = FALSE]

Replace(i) ==
  /\ Is(i, "pending")
  /\ book' = [book EXCEPT ![i].status = "superseded"]

SettleEntry(i) ==
  /\ Is(i, "approved")
  /\ \E st \in {"applied", "failed"} : book' = [book EXCEPT ![i].status = st]

Next ==
  \E i \in Id :
    \/ \E t \in Target : Enter(i, t)
    \/ AcknowledgeDiff(i)
    \/ Approve(i)
    \/ Reject(i)
    \/ Replace(i)
    \/ SettleEntry(i)

Spec == Init /\ [][Next]_book

=============================================================================
