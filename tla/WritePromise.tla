---------------------------- MODULE WritePromise ----------------------------
(***************************************************************************)
(* What a guarded apply may count on when it asks an executor to change    *)
(* one field of an inventory item at eBay.  The write replaces the item as *)
(* a whole, so it may undo what others changed while the call ran; but it  *)
(* undoes nothing older than the call, it changes no other field of its    *)
(* own, and a success means that it landed.  A failure or an exception     *)
(* means nothing: the write may land during the call, after it or never.   *)
(***************************************************************************)
CONSTANTS Doc

VARIABLES
  doc,       \* the inventory item at eBay
  snap,      \* the item as the caller saw it before the call
  target,    \* the field the call changes and the value it gives it
  past,      \* history: what the item has been since the call began
  landed,    \* history: the call's write has replaced the item, or the item
             \* already was what the call wants
  outcome

Init ==
  /\ doc \in Doc
  /\ past = {doc}
  /\ landed = FALSE
  /\ outcome = "running"

With(d) == [d EXCEPT ![target.field] = target.value]

\* Somebody else changes the item.
Edit(d) ==
  /\ doc' = d
  /\ past' = past \cup {d}
  /\ UNCHANGED <<snap, target, landed, outcome>>

Land ==
  /\ \E d \in past : doc' = With(d)
  /\ past' = past \cup {doc'}
  /\ landed' = TRUE
  /\ UNCHANGED <<snap, target, outcome>>

\* The item already is as wanted, or was when the caller saw it.
ReturnWithoutWrite ==
  /\ outcome = "running"
  /\ \E d \in past \cup {snap} : With(d) = d
  /\ landed' = TRUE
  /\ outcome' = "ok"
  /\ UNCHANGED <<snap, doc, target, past>>

Return ==
  /\ outcome = "running"
  /\ \/ landed /\ outcome' = "ok"
     \/ outcome' \in {"failed", "raised"}
  /\ UNCHANGED <<snap, doc, target, past, landed>>

Next ==
  \/ \E d \in Doc : Edit(d)
  \/ Land
  \/ ReturnWithoutWrite
  \/ Return

Spec == Init /\ [][Next]_<<doc, snap, target, past, landed, outcome>>

=============================================================================
