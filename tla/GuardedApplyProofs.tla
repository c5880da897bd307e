------------------------- MODULE GuardedApplyProofs -------------------------
(***************************************************************************)
(* For any number of sessions, rows and listings, with processes that end  *)
(* anywhere and writes that land late: what a success on record means, and *)
(* what keeps a recorded revision and a stale row away from the executor.  *)
(***************************************************************************)
EXTENDS GuardedApply, TLAPS

Is(q, i, st) == q[i] # NoRow /\ q[i].status = st

\* One pending row for a change to a listing; no row applied for nothing.
CopyInv(q) ==
  /\ \A i, j \in Id :
       /\ Is(q, i, "pending") /\ Is(q, j, "pending")
       /\ q[i].listing = q[j].listing /\ q[i].action = q[j].action
       => i = j
  /\ \A i \in Id : Is(q, i, "applied") => i \in took

Running == {"resolve", "check", "policy", "execute", "applied", "record", "failed"}

\* What the locals of a running apply know: the row is the one in memory and
\* passes the gates until it is marked; what is known to be recorded gets no
\* further than the check; and past the executor the change was made.
CallInv(s) ==
  pc[s] \in Running =>
    /\ call[s] \in Call
    /\ pc[s] # "record" =>
         mem[s][call[s].id] = call[s].row /\ ~ApplyBlocked(call[s].row)
    /\ pc[s] \in {"resolve", "check"} =>
         (call[s].known => ApplyKey(call[s].id, call[s].row) \in done)
    /\ pc[s] \notin {"resolve", "check"} => ~call[s].known
    /\ call[s].landed => call[s].id \in took
    /\ pc[s] \in {"applied", "record"} => call[s].id \in took

IInv ==
  /\ TypeOK
  /\ CopyInv(file)
  /\ \A s \in Session : CopyInv(mem[s])
  /\ \A s \in Session : CallInv(s)
  /\ \A k \in done : k[1] \in took

-----------------------------------------------------------------------------
(* Rows and copies of the queue. *)

LEMMA NewRowType ==
  ASSUME NEW l \in Listing, NEW a \in Action, NEW f \in Fingerprint, NEW v \in Nat
  PROVE  NewRow(l, a, f, v) \in Row
BY DEF NewRow, Row, Status

LEMMA TransitionedRow ==
  ASSUME NEW row \in Row, NEW target \in {"approved", "applied", "failed"},
         NEW dry \in DryRunArg
  PROVE  /\ Transitioned(row, target, Operator, dry) \in Row
         /\ Transitioned(row, target, Operator, dry).status = target
BY ApplyConstantsOK DEF Transitioned, ApprovedRow, Row, Status, DryRunArg

\* A row that is not pending any more takes the place of another.
LEMMA ReplaceRow ==
  ASSUME NEW q \in Queue, CopyInv(q), NEW i \in Id, NEW row \in Row,
         row.status # "pending", row.status = "applied" => i \in took
  PROVE  /\ [q EXCEPT ![i] = row] \in Queue
         /\ CopyInv([q EXCEPT ![i] = row])
<1> DEFINE r == [q EXCEPT ![i] = row]
<1>1. r \in Queue /\ r[i] = row /\ \A j \in Id \ {i} : r[j] = q[j]
  BY DEF Queue
<1>2. CopyInv(r)
  BY <1>1 DEF CopyInv, Is
<1> QED
  BY <1>1, <1>2

\* A save writes one copy over two places.
LEMMA SaveKeepsCopies ==
  ASSUME IInv, NEW s \in Session, NEW q \in Queue, CopyInv(q), SaveQueue(s, q),
         took' = took
  PROVE  /\ file' \in Queue /\ mem' \in [Session -> Queue]
         /\ CopyInv(file)' /\ \A t \in Session : CopyInv(mem[t])'
         /\ mem'[s] = q /\ \A t \in Session \ {s} : mem'[t] = mem[t]
<1>1. /\ file' = q /\ mem' \in [Session -> Queue]
      /\ mem'[s] = q /\ \A t \in Session \ {s} : mem'[t] = mem[t]
  BY DEF SaveQueue, IInv, TypeOK
<1>2. CopyInv(file)'
  BY <1>1 DEF CopyInv, Is
<1>3. ASSUME NEW t \in Session PROVE CopyInv(mem[t])'
  BY <1>1 DEF CopyInv, Is, IInv
<1> QED
  BY <1>1, <1>2, <1>3

\* Copies that stay as they are, while more changes may be made.
LEMMA CopiesStay ==
  ASSUME IInv, file' = file, mem' = mem, took \subseteq took'
  PROVE  CopyInv(file)' /\ \A t \in Session : CopyInv(mem[t])'
BY DEF IInv, CopyInv, Is

\* A call that stays as it is, in a session whose memory does.
LEMMA CallStays ==
  ASSUME IInv, NEW t \in Session, pc'[t] = pc[t], call'[t] = call[t], mem'[t] = mem[t],
         took \subseteq took', done \subseteq done'
  PROVE  CallInv(t)'
BY DEF IInv, CallInv

LEMMA InitIInv == Init => IInv
<1> SUFFICES ASSUME Init PROVE IInv
  OBVIOUS
<1>1. EmptyQueue \in Queue
  BY DEF EmptyQueue, Queue
<1>2. NoChange \in Change
  <2>1. PICK l \in Listing, f \in Fingerprint : TRUE
    BY ApplyConstantsOK
  <2>2. [listing |-> l, to |-> f] \in Change
    BY DEF Change
  <2> QED
    BY <2>2 DEF NoChange
<1>3. TypeOK
  BY <1>1, <1>2 DEF Init, TypeOK, Points
<1>4. CopyInv(EmptyQueue)
  BY DEF EmptyQueue, CopyInv, Is
<1> QED
  BY <1>3, <1>4 DEF Init, IInv, CallInv, Running

-----------------------------------------------------------------------------
(* Sessions. *)

LEMMA StartIInv == ASSUME IInv, NEW s \in Session, Start(s) PROVE IInv'
<1>1. /\ pc' = [pc EXCEPT ![s] = "idle"] /\ mem' = [mem EXCEPT ![s] = file]
      /\ UNCHANGED <<live, change, file, call, done, late, took, used>>
  BY DEF Start, Goto
<1>2. TypeOK'
  BY <1>1 DEF IInv, TypeOK, Points
<1>3. CopyInv(file)' /\ \A t \in Session : CopyInv(mem[t])'
  BY <1>1 DEF IInv, TypeOK, CopyInv, Is
<1>4. ASSUME NEW t \in Session PROVE CallInv(t)'
  <2>1. t = s => pc'[t] \notin Running
    BY <1>1 DEF IInv, TypeOK, Running
  <2>2. t # s => pc'[t] = pc[t] /\ mem'[t] = mem[t]
    BY <1>1 DEF IInv, TypeOK
  <2> QED
    BY <1>1, <2>1, <2>2, CallStays DEF CallInv
<1> QED
  BY <1>1, <1>2, <1>3, <1>4 DEF IInv

LEMMA CrashIInv == ASSUME IInv, NEW s \in Session, Crash(s) PROVE IInv'
<1>1. /\ pc' = [pc EXCEPT ![s] = "down"] /\ mem' = [mem EXCEPT ![s] = EmptyQueue]
      /\ call' = [call EXCEPT ![s] = NoCall]
      /\ UNCHANGED <<live, change, file, done, took, used>>
  BY DEF Crash, Goto
<1>2. EmptyQueue \in Queue /\ CopyInv(EmptyQueue)' /\ \A i \in Id : EmptyQueue[i] = NoRow
  BY DEF EmptyQueue, Queue, CopyInv, Is
<1>3. late' \subseteq Id
  <2>1. pc[s] = "execute" => call[s].id \in Id
    BY DEF IInv, CallInv, Running, Call
  <2> QED
    BY <2>1 DEF Crash, IInv, TypeOK
<1>4. TypeOK'
  BY <1>1, <1>2, <1>3 DEF IInv, TypeOK, Points
<1>5. CopyInv(file)' /\ \A t \in Session : CopyInv(mem[t])'
  <2>1. CopyInv(file)'
    BY <1>1 DEF IInv, CopyInv, Is
  <2>2. ASSUME NEW t \in Session PROVE CopyInv(mem[t])'
    <3>1. t = s => mem'[t] = EmptyQueue
      BY <1>1 DEF IInv, TypeOK
    <3>2. t # s => mem'[t] = mem[t]
      BY <1>1 DEF IInv, TypeOK
    <3> QED
      BY <1>1, <1>2, <3>1, <3>2 DEF IInv, CopyInv, Is
  <2> QED
    BY <2>1, <2>2
<1>6. ASSUME NEW t \in Session PROVE CallInv(t)'
  <2>1. t = s => pc'[t] \notin Running
    BY <1>1 DEF IInv, TypeOK, Running
  <2>2. t # s => pc'[t] = pc[t] /\ mem'[t] = mem[t] /\ call'[t] = call[t]
    BY <1>1 DEF IInv, TypeOK
  <2> QED
    BY <1>1, <2>1, <2>2, CallStays DEF CallInv
<1> QED
  BY <1>1, <1>4, <1>5, <1>6 DEF IInv

\* The versions of the pending rows of one proposal have a greatest.
LEMMA NextVersionType ==
  ASSUME NEW q \in Queue, CopyInv(q), NEW l \in Listing, NEW a \in Action
  PROVE  1 + Max({0} \cup {q[i].version : i \in PendingSame(q, l, a)}) \in Nat
<1> DEFINE same == PendingSame(q, l, a)
           versions == {0} \cup {q[i].version : i \in same}
<1>1. versions \subseteq Nat
  BY DEF PendingSame, Queue, Row
<1>2. \E m \in versions : \A n \in versions : n <= m
  <2>1. CASE same = {}
    <3>1. versions = {0}
      BY <2>1
    <3> QED
      BY <3>1
  <2>2. CASE same # {}
    <3>1. PICK i \in same : TRUE
      BY <2>2
    <3>2. same = {i}
      BY <3>1 DEF PendingSame, CopyInv, Is
    <3>3. versions = {0, q[i].version} /\ q[i].version \in Nat
      BY <3>2, <1>1
    <3> HIDE DEF versions
    <3>4. q[i].version \in versions /\ \A n \in versions : n <= q[i].version
      BY <3>3
    <3> QED
      BY <3>4
  <2> QED
    BY <2>1, <2>2
<1>3. Max(versions) \in Nat
  BY <1>1, <1>2 DEF Max
<1> QED
  BY <1>3

\* No apply runs in a session that enqueues, and the new row is the only one
\* pending for its change.
LEMMA EnqueueIInv ==
  ASSUME IInv, NEW s \in Session, NEW l \in Listing, NEW a \in Action, NEW f \in Fingerprint,
         NEW compliant \in BOOLEAN, Enqueue(s, l, a, f, compliant)
  PROVE  IInv'
<1> DEFINE n == FreshId
           old == PendingSame(mem[s], l, a)
           v == 1 + Max({0} \cup {mem[s][i].version : i \in old})
           new == [NewRow(l, a, live[l], v) EXCEPT !.noncompliant = ~compliant]
           row(i) == IF i = n THEN new
                     ELSE IF i \in old
                          THEN [mem[s][i] EXCEPT !.status = "superseded", !.superseded_by = n]
                          ELSE mem[s][i]
           q == [i \in Id |-> row(i)]
<1>1. n \in Id
  BY DEF Enqueue, FreshId, IInv, TypeOK
<1>2. SaveQueue(s, q)
  BY DEF Enqueue
<1>3. mem[s] \in Queue /\ CopyInv(mem[s])
  BY DEF IInv, TypeOK
<1>4. v \in Nat
  BY <1>3, NextVersionType
<1>5. new \in Row /\ new.status = "pending" /\ new.listing = l /\ new.action = a
  <2>1. live[l] \in Fingerprint
    BY DEF IInv, TypeOK
  <2> HIDE DEF v
  <2>2. NewRow(l, a, live[l], v) \in Row
    BY <1>4, <2>1, NewRowType
  <2>3. /\ NewRow(l, a, live[l], v).status = "pending"
        /\ NewRow(l, a, live[l], v).listing = l /\ NewRow(l, a, live[l], v).action = a
    BY DEF NewRow
  <2> QED
    BY <2>2, <2>3 DEF Row
<1> HIDE DEF v, new
<1>6. ASSUME NEW i \in Id
      PROVE  /\ row(i) \in Row \cup {NoRow}
             /\ Is(q, i, "applied") => Is(mem[s], i, "applied")
             /\ Is(q, i, "pending") /\ i # n => Is(mem[s], i, "pending") /\ i \notin old /\ q[i] = mem[s][i]
  <2>1. mem[s][i] \in Row \cup {NoRow} /\ (i \in old => mem[s][i] \in Row)
    BY <1>3 DEF Queue, PendingSame
  <2>2. i \in old =>
          /\ [mem[s][i] EXCEPT !.status = "superseded", !.superseded_by = n] \in Row
          /\ [mem[s][i] EXCEPT !.status = "superseded", !.superseded_by = n].status = "superseded"
    BY <1>1, <2>1 DEF Row, Status
  <2>3. q[i] = row(i)
    OBVIOUS
  <2> QED
    BY <1>5, <2>1, <2>2, <2>3 DEF Is
<1>7. q[n] = new
  BY <1>1
<1>8. q \in Queue
  BY <1>6 DEF Queue
<1> HIDE DEF q
<1>9. CopyInv(q)
  <2>1. ASSUME NEW i \in Id, Is(q, i, "applied") PROVE i \in took
    BY <1>3, <1>6, <2>1 DEF CopyInv
  <2>2. ASSUME NEW i \in Id, NEW j \in Id, Is(q, i, "pending"), Is(q, j, "pending"),
               q[i].listing = q[j].listing, q[i].action = q[j].action
        PROVE  i = j
    <3>1. \A k \in Id : Is(mem[s], k, "pending") /\ mem[s][k].listing = l /\ mem[s][k].action = a
                          => k \in old
      BY DEF PendingSame, Is
    <3>2. i # n => Is(mem[s], i, "pending") /\ i \notin old /\ q[i] = mem[s][i]
      BY <1>6, <2>2
    <3>3. j # n => Is(mem[s], j, "pending") /\ j \notin old /\ q[j] = mem[s][j]
      BY <1>6, <2>2
    <3> HIDE DEF old
    <3> QED
      BY <1>3, <1>5, <1>7, <2>2, <3>1, <3>2, <3>3 DEF CopyInv
  <2> QED
    BY <2>1, <2>2 DEF CopyInv
<1>10. /\ file' \in Queue /\ mem' \in [Session -> Queue]
       /\ CopyInv(file)' /\ \A t \in Session : CopyInv(mem[t])'
       /\ \A t \in Session \ {s} : mem'[t] = mem[t]
  BY <1>2, <1>8, <1>9, SaveKeepsCopies DEF Enqueue
<1>11. change' \in [Id -> Change] /\ used' \subseteq Id
  <2>1. [listing |-> l, to |-> f] \in Change
    BY DEF Change
  <2> QED
    BY <1>1, <2>1 DEF Enqueue, IInv, TypeOK
<1>12. TypeOK'
  BY <1>10, <1>11 DEF IInv, TypeOK, Enqueue
<1>13. ASSUME NEW t \in Session PROVE CallInv(t)'
  <2>1. t = s => pc'[t] \notin Running
    BY DEF Enqueue, Running
  <2> QED
    BY <1>10, <2>1, CallStays DEF Enqueue, CallInv
<1> QED
  BY <1>10, <1>12, <1>13 DEF IInv, Enqueue

LEMMA ApproveIInv == ASSUME IInv, NEW s \in Session, NEW i \in Id, Approve(s, i) PROVE IInv'
<1> DEFINE seen == [mem[s][i] EXCEPT !.dry_run = TRUE]
           row == Transitioned(seen, "approved", Operator, "true")
           q == [mem[s] EXCEPT ![i] = row]
<1>1. mem[s] \in Queue /\ CopyInv(mem[s]) /\ mem[s][i] \in Row
  BY DEF Approve, IInv, TypeOK, Queue
<1>2. row \in Row /\ row.status = "approved"
  <2>1. seen \in Row
    BY <1>1 DEF Row
  <2> HIDE DEF seen
  <2> QED
    BY <2>1, TransitionedRow DEF DryRunArg
<1>3. SaveQueue(s, q) /\ pc[s] = "idle"
  BY DEF Approve
<1> HIDE DEF row
<1>4. q \in Queue /\ CopyInv(q)
  BY <1>1, <1>2, ReplaceRow
<1> HIDE DEF q
<1>5. /\ file' \in Queue /\ mem' \in [Session -> Queue]
      /\ CopyInv(file)' /\ \A t \in Session : CopyInv(mem[t])'
      /\ \A t \in Session \ {s} : mem'[t] = mem[t]
  BY <1>3, <1>4, SaveKeepsCopies DEF Approve
<1>6. TypeOK'
  BY <1>5 DEF IInv, TypeOK, Approve
<1>7. ASSUME NEW t \in Session PROVE CallInv(t)'
  <2>1. t = s => pc'[t] \notin Running
    BY <1>3 DEF Approve, Running
  <2> QED
    BY <1>5, <2>1, CallStays DEF Approve, CallInv
<1> QED
  BY <1>5, <1>6, <1>7 DEF IInv, Approve

LEMMA SellerEditIInv ==
  ASSUME IInv, NEW l \in Listing, NEW f \in Fingerprint, SellerEdit(l, f) PROVE IInv'
<1>1. TypeOK'
  BY DEF IInv, TypeOK, SellerEdit
<1>2. CopyInv(file)' /\ \A t \in Session : CopyInv(mem[t])'
  BY CopiesStay DEF SellerEdit
<1>3. \A t \in Session : CallInv(t)'
  BY CallStays DEF SellerEdit
<1> QED
  BY <1>1, <1>2, <1>3 DEF IInv, SellerEdit

-----------------------------------------------------------------------------
(* simulate_apply.  A step of one session's call leaves the others' alone. *)

LEMMA RequestIInv == ASSUME IInv, NEW s \in Session, NEW i \in Id, Request(s, i) PROVE IInv'
<1> DEFINE c == [id |-> i, row |-> mem[s][i], landed |-> FALSE,
                 known |-> ApplyKey(i, mem[s][i]) \in done]
<1>1. /\ call' = [call EXCEPT ![s] = c] /\ pc' = [pc EXCEPT ![s] = "resolve"]
      /\ UNCHANGED <<live, change, file, mem, done, late, took, used>>
  BY DEF Request, HasSuccess, Goto
<1>2. mem[s][i] \in Row /\ ~ApplyBlocked(mem[s][i])
  BY DEF Request, HasSuccess, IInv, TypeOK, Queue
<1>3. c \in Call
  BY <1>2 DEF Call
<1>4. TypeOK'
  BY <1>1, <1>3 DEF IInv, TypeOK, Points
<1>5. CopyInv(file)' /\ \A t \in Session : CopyInv(mem[t])'
  BY <1>1, CopiesStay
<1>6. ASSUME NEW t \in Session PROVE CallInv(t)'
  <2>1. CASE t = s
    <3>1. pc'[t] = "resolve" /\ call'[t] = c /\ mem'[t] = mem[s] /\ done' = done
      BY <1>1, <2>1 DEF IInv, TypeOK
    <3>2. c.id = i /\ c.row = mem[s][i] /\ ~c.landed /\ (c.known => ApplyKey(i, mem[s][i]) \in done)
      OBVIOUS
    <3> HIDE DEF c
    <3> QED
      BY <1>2, <1>3, <3>1, <3>2 DEF CallInv
  <2>2. CASE t # s
    BY <1>1, <2>2, CallStays DEF IInv, TypeOK
  <2> QED
    BY <2>1, <2>2
<1> QED
  BY <1>1, <1>4, <1>5, <1>6 DEF IInv

\* A call that ended leaves a session that no apply runs in.
LEMMA Returned ==
  ASSUME IInv, NEW s \in Session, Return(s),
         \A t \in Session \ {s} : mem'[t] = mem[t], took \subseteq took', done \subseteq done'
  PROVE  /\ pc' \in [Session -> Points] /\ call' \in [Session -> Call \cup {NoCall}]
         /\ \A t \in Session : CallInv(t)'
<1>1. pc' = [pc EXCEPT ![s] = "idle"] /\ call' = [call EXCEPT ![s] = NoCall]
  BY DEF Return, Goto
<1>2. ASSUME NEW t \in Session PROVE CallInv(t)'
  <2>1. t = s => pc'[t] \notin Running
    BY <1>1 DEF IInv, TypeOK, Running
  <2>2. t # s => pc'[t] = pc[t] /\ call'[t] = call[t]
    BY <1>1 DEF IInv, TypeOK
  <2> QED
    BY <2>1, <2>2, CallStays DEF CallInv
<1> QED
  BY <1>1, <1>2 DEF IInv, TypeOK, Points

\* A call that goes on to another point.
LEMMA WentOn ==
  ASSUME IInv, NEW s \in Session, NEW point \in Running, Goto(s, point),
         UNCHANGED <<call, done>>, took \subseteq took',
         \A t \in Session \ {s} : mem'[t] = mem[t],
         pc[s] \in Running,
         pc[s] # "record" /\ (point # "record" => mem'[s][call[s].id] = call[s].row),
         pc[s] \in {"resolve", "check"} /\ point \notin {"resolve", "check"} => ~call[s].known,
         point \in {"resolve", "check"} => pc[s] \in {"resolve", "check"},
         point \in {"applied", "record"} => call[s].id \in took'
  PROVE  pc' \in [Session -> Points] /\ \A t \in Session : CallInv(t)'
<1>1. pc' = [pc EXCEPT ![s] = point]
  BY DEF Goto
<1>2. pc' \in [Session -> Points]
  BY <1>1 DEF IInv, TypeOK, Points, Running
<1>3. ASSUME NEW t \in Session PROVE CallInv(t)'
  <2>1. CASE t = s
    <3>1. pc'[t] = point /\ call'[t] = call[s] /\ done' = done
      BY <1>1, <2>1 DEF IInv, TypeOK
    <3>2. CallInv(s)
      BY DEF IInv
    <3> QED
      BY <2>1, <3>1, <3>2 DEF CallInv
  <2>2. CASE t # s
    BY <1>1, <2>2, CallStays DEF IInv, TypeOK
  <2> QED
    BY <2>1, <2>2
<1> QED
  BY <1>2, <1>3

\* A running call is a call, of a row the session's memory has.
LEMMA Held ==
  ASSUME IInv, NEW s \in Session, pc[s] \in Running
  PROVE  /\ call[s].id \in Id
         /\ call[s].landed => call[s].id \in took
         /\ pc[s] # "record" => mem[s][call[s].id] = call[s].row
  BY DEF IInv, CallInv, Call

\* The ingest marks pending rows only, so not the one that is applied.
LEMMA ResolveIInv == ASSUME IInv, NEW s \in Session, Resolve(s) PROVE IInv'
<1> DEFINE i == call[s].id
<1>1. /\ i \in Id /\ mem[s][i] = call[s].row /\ ~ApplyBlocked(call[s].row)
      /\ mem[s] \in Queue /\ CopyInv(mem[s]) /\ pc[s] = "resolve"
  BY Held DEF Resolve, SameListing, IInv, TypeOK, CallInv, Running
<1>2. PICK missing \in SUBSET Listing :
        LET seen == [l \in Listing |-> IF l \in missing THEN NotListed ELSE live[l]]
            drifted == Drifted(mem[s], seen)
        IN  /\ IF drifted = {}
               THEN UNCHANGED <<mem, file>>
               ELSE SaveQueue(s, [j \in Id |-> IF j \in drifted THEN [mem[s][j] EXCEPT !.stale = TRUE]
                                               ELSE mem[s][j]])
            /\ IF seen[call[s].row.listing] = call[s].row.fp
               THEN Goto(s, "check") /\ UNCHANGED call
               ELSE Return(s)
  BY DEF Resolve, SameListing
<1> DEFINE drifted == Drifted(mem[s], [l \in Listing |-> IF l \in missing THEN NotListed ELSE live[l]])
           q == [j \in Id |-> IF j \in drifted THEN [mem[s][j] EXCEPT !.stale = TRUE] ELSE mem[s][j]]
<1>3. /\ (drifted = {} /\ UNCHANGED <<mem, file>>) \/ SaveQueue(s, q)
      /\ (Goto(s, "check") /\ UNCHANGED call) \/ Return(s)
  BY <1>2
<1>4. /\ i \notin drifted
      /\ \A j \in drifted : mem[s][j] \in Row
  BY <1>1 DEF Drifted, ApplyBlocked, Queue
<1> HIDE DEF drifted
<1>5. ASSUME NEW j \in Id
      PROVE  /\ q[j] \in Row \cup {NoRow}
             /\ q[j] = NoRow <=> mem[s][j] = NoRow
             /\ q[j] # NoRow => /\ q[j].status = mem[s][j].status
                                /\ q[j].listing = mem[s][j].listing
                                /\ q[j].action = mem[s][j].action
  <2>1. mem[s][j] \in Row \cup {NoRow}
    BY <1>1 DEF Queue
  <2>2. j \in drifted =>
          LET r == [mem[s][j] EXCEPT !.stale = TRUE]
          IN  /\ r \in Row /\ r.status = mem[s][j].status /\ r.listing = mem[s][j].listing
              /\ r.action = mem[s][j].action
    BY <1>4 DEF Row
  <2> QED
    BY <1>4, <2>1, <2>2, NoRowOK
<1>6. q \in Queue /\ q[i] = mem[s][i]
  BY <1>1, <1>4, <1>5 DEF Queue
<1> HIDE DEF q
<1>7. CopyInv(q)
  BY <1>1, <1>5 DEF CopyInv, Is
<1>8. UNCHANGED <<live, change, done, late, took, used>>
  BY DEF Resolve, SameListing
<1>9. /\ file' \in Queue /\ mem' \in [Session -> Queue]
      /\ CopyInv(file)' /\ \A t \in Session : CopyInv(mem[t])'
      /\ mem'[s][i] = mem[s][i] /\ \A t \in Session \ {s} : mem'[t] = mem[t]
  <2>1. CASE UNCHANGED <<mem, file>>
    BY <1>8, <2>1, CopiesStay DEF IInv, TypeOK
  <2>2. CASE SaveQueue(s, q)
    BY <1>6, <1>7, <1>8, <2>2, SaveKeepsCopies
  <2> QED
    BY <1>3, <2>1, <2>2
<1>10. /\ pc' \in [Session -> Points] /\ call' \in [Session -> Call \cup {NoCall}]
       /\ \A t \in Session : CallInv(t)'
  <2>1. CASE Return(s)
    BY <1>8, <1>9, <2>1, Returned
  <2>2. CASE Goto(s, "check") /\ UNCHANGED call
    <3>1. "check" \in Running /\ pc[s] \in Running
      BY <1>1 DEF Running
    <3>2. pc' \in [Session -> Points] /\ \A t \in Session : CallInv(t)'
      BY <1>1, <1>8, <1>9, <2>2, <3>1, WentOn
    <3> QED
      BY <2>2, <3>2 DEF IInv, TypeOK
  <2> QED
    BY <1>3, <2>1, <2>2
<1> QED
  BY <1>8, <1>9, <1>10 DEF IInv, TypeOK

\* What the steps between the ingest and the end have in common.
LEMMA StepIInv ==
  ASSUME IInv, UNCHANGED <<mem, file, done, used, change>>, took \subseteq took',
         took' \subseteq Id, late' \subseteq Id, live' \in [Listing -> Fingerprint],
         pc' \in [Session -> Points], call' \in [Session -> Call \cup {NoCall}],
         \A t \in Session : CallInv(t)'
  PROVE  IInv'
<1>1. CopyInv(file)' /\ \A t \in Session : CopyInv(mem[t])'
  BY CopiesStay
<1>2. TypeOK'
  BY DEF IInv, TypeOK
<1> QED
  BY <1>1, <1>2 DEF IInv

LEMMA CheckDuplicateIInv == ASSUME IInv, NEW s \in Session, CheckDuplicate(s) PROVE IInv'
<1>1. /\ pc[s] = "check" /\ pc[s] \in Running /\ "policy" \in Running
      /\ UNCHANGED <<live, change, file, mem, done, late, took, used>>
  BY DEF CheckDuplicate, HasSuccess, Running
<1>2. \/ Return(s)
      \/ Goto(s, "policy") /\ UNCHANGED call /\ ApplyKey(call[s].id, call[s].row) \notin done
  BY DEF CheckDuplicate, HasSuccess
<1>3. call[s].known => ApplyKey(call[s].id, call[s].row) \in done
  BY <1>1 DEF IInv, CallInv
<1>4. CASE Return(s)
  BY <1>1, <1>4, Returned, StepIInv DEF IInv, TypeOK
<1>5. CASE Goto(s, "policy") /\ UNCHANGED call /\ ~call[s].known
  <2>1. pc' \in [Session -> Points] /\ \A t \in Session : CallInv(t)'
    BY <1>1, <1>5, Held, WentOn
  <2> QED
    BY <1>1, <1>5, <2>1, StepIInv DEF IInv, TypeOK
<1> QED
  BY <1>2, <1>3, <1>4, <1>5

LEMMA CheckPolicyIInv ==
  ASSUME IInv, NEW s \in Session, NEW allowed \in BOOLEAN, CheckPolicy(s, allowed) PROVE IInv'
<1>1. /\ pc[s] = "policy" /\ pc[s] \in Running /\ "execute" \in Running
      /\ UNCHANGED <<live, change, file, mem, done, late, took, used>>
  BY DEF CheckPolicy, Running
<1>2. Return(s) \/ (Goto(s, "execute") /\ UNCHANGED call)
  BY DEF CheckPolicy
<1>3. CASE Return(s)
  BY <1>1, <1>3, Returned, StepIInv DEF IInv, TypeOK
<1>4. CASE Goto(s, "execute") /\ UNCHANGED call
  <2>1. pc' \in [Session -> Points] /\ \A t \in Session : CallInv(t)'
    BY <1>1, <1>4, Held, WentOn
  <2> QED
    BY <1>1, <1>4, <2>1, StepIInv DEF IInv, TypeOK
<1> QED
  BY <1>2, <1>3, <1>4

\* The executor has made the change when it reports a success.
LEMMA ExecutorReturnsIInv == ASSUME IInv, NEW s \in Session, ExecutorReturns(s) PROVE IInv'
<1>1. /\ pc[s] = "execute" /\ pc[s] \in Running /\ {"applied", "failed"} \subseteq Running
      /\ UNCHANGED <<live, change, file, mem, done, used>>
  BY DEF ExecutorReturns, Simulate, WriteUnneeded, WriteSucceeds, WriteFails, WriteRaises, Running
<1>2. /\ call[s].id \in Id /\ (call[s].landed => call[s].id \in took)
      /\ mem[s][call[s].id] = call[s].row
  BY <1>1, Held
<1>3. /\ took \subseteq took' /\ took' \subseteq Id /\ late' \subseteq Id
      /\ \/ Goto(s, "applied") /\ UNCHANGED call /\ call[s].id \in took'
         \/ Goto(s, "failed") /\ UNCHANGED call
         \/ Return(s)
  BY <1>2 DEF ExecutorReturns, Simulate, WriteUnneeded, WriteSucceeds, WriteFails, WriteRaises,
              Leave, IInv, TypeOK
<1>4. CASE Return(s)
  BY <1>1, <1>3, <1>4, Returned, StepIInv DEF IInv, TypeOK
<1>5. CASE \E point \in {"applied", "failed"} :
             Goto(s, point) /\ UNCHANGED call /\ (point = "applied" => call[s].id \in took')
  <2>1. pc' \in [Session -> Points] /\ \A t \in Session : CallInv(t)'
    BY <1>1, <1>2, <1>3, <1>5, WentOn
  <2> QED
    BY <1>1, <1>3, <1>5, <2>1, StepIInv DEF IInv, TypeOK
<1> QED
  BY <1>3, <1>4, <1>5

LEMMA LandIInv ==
  ASSUME IInv, NEW i \in Id, Land(i) PROVE live' \in [Listing -> Fingerprint]
BY DEF IInv, TypeOK, Land, Change

LEMMA WriteLandsIInv == ASSUME IInv, NEW s \in Session, WriteLands(s) PROVE IInv'
<1>1. /\ pc[s] = "execute" /\ pc[s] \in Running
      /\ call' = [call EXCEPT ![s].landed = TRUE] /\ took' = took \cup {call[s].id}
      /\ UNCHANGED <<change, file, mem, pc, done, late, used>>
  BY DEF WriteLands, Running
<1>2. call[s].id \in Id /\ call[s] \in Call
  BY <1>1, Held DEF IInv, CallInv
<1>3. live' \in [Listing -> Fingerprint]
  BY <1>2, LandIInv DEF WriteLands
<1>4. /\ call' = [call EXCEPT ![s] = [call[s] EXCEPT !.landed = TRUE]]
      /\ [call[s] EXCEPT !.landed = TRUE] \in Call
  BY <1>1, <1>2 DEF Call
<1>5. call' \in [Session -> Call \cup {NoCall}]
  BY <1>4 DEF IInv, TypeOK
<1>6. ASSUME NEW t \in Session PROVE CallInv(t)'
  <2>1. CASE t = s
    <3>1. /\ call'[t] \in Call /\ call'[t].id = call[s].id /\ call'[t].row = call[s].row
          /\ call'[t].known = call[s].known
      BY <1>2, <1>4, <2>1 DEF Call, IInv, TypeOK
    <3>2. CallInv(s)
      BY DEF IInv
    <3> QED
      BY <1>1, <2>1, <3>1, <3>2 DEF CallInv
  <2>2. CASE t # s
    <3>1. call'[t] = call[t]
      BY <1>4, <2>2 DEF IInv, TypeOK
    <3> QED
      BY <1>1, <3>1, CallStays
  <2> QED
    BY <2>1, <2>2
<1> QED
  BY <1>1, <1>2, <1>3, <1>5, <1>6, StepIInv DEF IInv, TypeOK

LEMMA LandsLateIInv == ASSUME IInv, NEW i \in Id, LandsLate(i) PROVE IInv'
<1>1. /\ took' = took \cup {i} /\ late' \subseteq Id
      /\ UNCHANGED <<change, file, mem, pc, call, done, used>>
  BY DEF LandsLate, IInv, TypeOK
<1>2. live' \in [Listing -> Fingerprint]
  BY LandIInv DEF LandsLate
<1>3. \A t \in Session : CallInv(t)'
  BY <1>1, CallStays
<1> QED
  BY <1>1, <1>2, <1>3, StepIInv DEF IInv, TypeOK

\* The row is marked in the copy that is saved.
LEMMA MoveToIInv ==
  ASSUME IInv, NEW s \in Session, NEW target \in {"applied", "failed"}, MoveTo(s, target),
         pc[s] \in {"applied", "failed"}, target = "applied" => call[s].id \in took, took' = took
  PROVE  /\ file' \in Queue /\ mem' \in [Session -> Queue]
         /\ CopyInv(file)' /\ \A t \in Session : CopyInv(mem[t])'
         /\ \A t \in Session \ {s} : mem'[t] = mem[t]
<1> DEFINE i == call[s].id
           row == Transitioned(mem[s][i], target, Operator, "none")
           q == [mem[s] EXCEPT ![i] = row]
<1>1. i \in Id /\ mem[s][i] = call[s].row /\ call[s] \in Call
  BY Held DEF Running, IInv, CallInv
<1>2. mem[s][i] \in Row
  BY <1>1 DEF Call
<1>3. row \in Row /\ row.status = target
  BY <1>2, TransitionedRow DEF DryRunArg
<1>4. SaveQueue(s, q)
  BY DEF MoveTo
<1> HIDE DEF row
<1>5. mem[s] \in Queue /\ CopyInv(mem[s])
  BY DEF IInv, TypeOK
<1>6. q \in Queue /\ CopyInv(q)
  BY <1>1, <1>3, <1>5, ReplaceRow
<1> HIDE DEF q
<1> QED
  BY <1>4, <1>6, SaveKeepsCopies

LEMMA MarkAppliedIInv == ASSUME IInv, NEW s \in Session, MarkApplied(s) PROVE IInv'
<1>1. /\ pc[s] = "applied" /\ Goto(s, "record") /\ MoveTo(s, "applied")
      /\ UNCHANGED <<live, change, call, done, late, took, used>>
      /\ "record" \in Running /\ pc[s] \in Running
  BY DEF MarkApplied, Running
<1>2. call[s].id \in took
  BY <1>1 DEF IInv, CallInv
<1>3. /\ file' \in Queue /\ mem' \in [Session -> Queue]
      /\ CopyInv(file)' /\ \A t \in Session : CopyInv(mem[t])'
      /\ \A t \in Session \ {s} : mem'[t] = mem[t]
  BY <1>1, <1>2, MoveToIInv
<1>4. pc' \in [Session -> Points] /\ \A t \in Session : CallInv(t)'
  BY <1>1, <1>2, <1>3, WentOn
<1> QED
  BY <1>1, <1>3, <1>4 DEF IInv, TypeOK

LEMMA MarkFailedIInv == ASSUME IInv, NEW s \in Session, MarkFailed(s) PROVE IInv'
<1>1. /\ pc[s] = "failed" /\ Return(s) /\ MoveTo(s, "failed")
      /\ UNCHANGED <<live, change, done, late, took, used>>
  BY DEF MarkFailed
<1>2. /\ file' \in Queue /\ mem' \in [Session -> Queue]
      /\ CopyInv(file)' /\ \A t \in Session : CopyInv(mem[t])'
      /\ \A t \in Session \ {s} : mem'[t] = mem[t]
  BY <1>1, MoveToIInv
<1>3. /\ pc' \in [Session -> Points] /\ call' \in [Session -> Call \cup {NoCall}]
      /\ \A t \in Session : CallInv(t)'
  BY <1>1, <1>2, Returned
<1> QED
  BY <1>1, <1>2, <1>3 DEF IInv, TypeOK

LEMMA RecordSuccessIInv == ASSUME IInv, NEW s \in Session, RecordSuccess(s) PROVE IInv'
<1> DEFINE key == ApplyKey(call[s].id, call[s].row)
<1>1. /\ pc[s] = "record" /\ Return(s) /\ done' = done \cup {key}
      /\ UNCHANGED <<live, change, file, mem, late, took, used>>
  BY DEF RecordSuccess, AppendSuccess
<1>2. call[s] \in Call /\ call[s].id \in took
  BY <1>1 DEF IInv, CallInv, Running
<1>3. key \in Id \X Action \X Nat \X Fingerprint /\ key[1] = call[s].id
  BY <1>2 DEF ApplyKey, Call, Row
<1> HIDE DEF key
<1>4. CopyInv(file)' /\ \A t \in Session : CopyInv(mem[t])'
  BY <1>1, CopiesStay
<1>5. /\ pc' \in [Session -> Points] /\ call' \in [Session -> Call \cup {NoCall}]
      /\ \A t \in Session : CallInv(t)'
  BY <1>1, Returned
<1> QED
  BY <1>1, <1>2, <1>3, <1>4, <1>5 DEF IInv, TypeOK

LEMMA NextIInv == IInv /\ [Next]_vars => IInv'
<1> SUFFICES ASSUME IInv, [Next]_vars PROVE IInv'
  OBVIOUS
<1>1. CASE UNCHANGED vars
  <2>1. UNCHANGED <<live, change, file, mem, pc, call, done, late, took, used>>
    BY <1>1 DEF vars
  <2>2. \A t \in Session : CallInv(t)'
    BY <2>1, CallStays
  <2> QED
    BY <2>1, <2>2, StepIInv DEF IInv, TypeOK
<1>2. CASE Next
  BY <1>2, StartIInv, CrashIInv, EnqueueIInv, ApproveIInv, SellerEditIInv, RequestIInv,
     ResolveIInv, CheckDuplicateIInv, CheckPolicyIInv, ExecutorReturnsIInv, WriteLandsIInv,
     LandsLateIInv, MarkAppliedIInv, RecordSuccessIInv, MarkFailedIInv DEF Next, Proceed
<1> QED
  BY <1>1, <1>2

-----------------------------------------------------------------------------
\* The apply service is well typed in any number of sessions.
THEOREM ApplyTyped == Spec => []TypeOK
<1>1. IInv => TypeOK
  BY DEF IInv
<1> QED
  BY <1>1, InitIInv, NextIInv, PTL DEF Spec

\* simulate_apply marks no row and records no success for a change that was not
\* made, wherever processes end and however late a write lands.
THEOREM SuccessCorrect == Spec => []SuccessIsReal
<1>1. IInv => SuccessIsReal
  BY DEF IInv, CopyInv, Is, SuccessIsReal, Copies
<1> QED
  BY <1>1, InitIInv, NextIInv, PTL DEF Spec

\* has_successful_apply keeps a revision whose success was on record from the
\* executor, whatever copies of its row the sessions hold.
THEOREM RecordedStaysOut == Spec => []NoApplyAfterRecord
<1>1. IInv => NoApplyAfterRecord
  BY DEF IInv, CallInv, Running, NoApplyAfterRecord
<1> QED
  BY <1>1, InitIInv, NextIInv, PTL DEF Spec

\* The row simulate_apply read before the ingest is still the row of the queue,
\* and passes its gates, until it is marked.
THEOREM RowReadyCorrect == Spec => []RowStillReady
<1>1. IInv => RowStillReady
  BY DEF IInv, CallInv, Running, RowStillReady
<1> QED
  BY <1>1, InitIInv, NextIInv, PTL DEF Spec

=============================================================================
