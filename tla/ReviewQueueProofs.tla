-------------------------- MODULE ReviewQueueProofs --------------------------
(***************************************************************************)
(* Theorems about the review queue, for any number of sessions, rows and   *)
(* listings, with processes that may end anywhere.  The first part is      *)
(* about each copy on its own.  The second is about the copies together,   *)
(* as they diverge: an id means one proposal in all of them, a row that    *)
(* was replaced points to a later version, and the rows of a running       *)
(* session move along the edges of the state machine.  The third is about  *)
(* one session: what it holds is what it saved, and the saved queue is the *)
(* book of QueueLifecycle.                                                 *)
(***************************************************************************)
EXTENDS ReviewQueue, TLAPS

(* What holds of each copy on its own. *)

PolicyIn(q) == \A i \in Id : q[i] # NoRow /\ q[i].flagged => q[i].status = "rejected"

CopyInv(q) == OnePendingIn(q) /\ EvidenceIn(q) /\ PolicyIn(q)

(* What the locals of a running call know of the memory they work on: the  *)
(* rows still to be flagged or superseded are pending, no pending rival of *)
(* a row about to be inserted is missing from that list, and the row whose *)
(* policy verdict is awaited is pending.                                   *)
JobInv(s) ==
  /\ pc[s] = "flag" => \A i \in job[s].todo : HasStatus(mem[s], i, "pending")
  /\ pc[s] = "supersede" =>
       /\ job[s].new \in Id
       /\ loaded[s][job[s].listing] \in Fingerprint
       /\ \A i \in job[s].todo : HasStatus(mem[s], i, "pending")
       /\ PendingSame(mem[s], job[s].listing, job[s].action) \subseteq job[s].todo
  /\ pc[s] = "policy" => job[s].new \in Id /\ HasStatus(mem[s], job[s].new, "pending")

IInv ==
  /\ TypeOK
  /\ CopyInv(file)
  /\ \A s \in Session : CopyInv(mem[s])
  /\ \A s \in Session : JobInv(s)

-----------------------------------------------------------------------------
(* Rows and queues. *)

LEMMA NewRowType ==
  ASSUME NEW l \in Listing, NEW a \in Action, NEW f \in Fingerprint, NEW v \in Nat
  PROVE  NewRow(l, a, f, v) \in Row
BY DEF NewRow, Row, Status

LEMMA TransitionedType ==
  ASSUME NEW row \in Row, NEW target \in Status, NEW actor \in Actor \cup {NoActor},
         NEW dry \in DryRunArg
  PROVE  Transitioned(row, target, actor, dry) \in Row
<1>1. (IF dry = "none" THEN row.dry_run ELSE dry = "true") \in BOOLEAN
  BY DEF Row, DryRunArg
<1>2. CASE target = "approved"
  <2> DEFINE dryRun == IF dry = "none" THEN row.dry_run ELSE dry = "true"
  <2>1. Transitioned(row, target, actor, dry) =
          [row EXCEPT !.status = "approved", !.reviewed = TRUE, !.approved = TRUE,
                      !.approved_by = actor, !.rejected_by = NoActor, !.dry_run = dryRun]
    BY <1>2 DEF Transitioned, ApprovedRow, Row
  <2>2. dryRun \in BOOLEAN
    BY <1>1
  <2> HIDE DEF dryRun
  <2> QED BY <2>1, <2>2 DEF Row, Status
<1>3. CASE target = "rejected"
  BY <1>3 DEF Transitioned, RejectedRow, Row, Status
<1>4. CASE target \notin {"approved", "rejected"}
  BY <1>4 DEF Transitioned, Row
<1> QED BY <1>2, <1>3, <1>4

LEMMA NoJobType == NoJob \in Job
BY SessionConstantsOK DEF NoJob, Job

LEMMA EmptyQueueCopyInv == EmptyQueue \in Queue /\ CopyInv(EmptyQueue)
BY DEF EmptyQueue, Queue, CopyInv, OnePendingIn, EvidenceIn, PolicyIn, HasStatus

(* A row that takes the place of a pending one keeps the copy sound when   *)
(* it is no pending row of another target and brings the evidence its own  *)
(* status needs.                                                           *)
RowInv(row) ==
  /\ row.status \in Sanctioned =>
       /\ row.reviewed /\ row.approved /\ row.approved_by \in Actor
       /\ RequireDryRun => row.dry_run
       /\ row.rejected_by = NoActor
  /\ row.status \notin Sanctioned => ~row.approved /\ row.approved_by = NoActor
  /\ row.status = "rejected" => row.rejected_by \in Actor /\ ~row.dry_run
  /\ row.flagged => row.status = "rejected"

LEMMA ReplaceRow ==
  ASSUME NEW q \in Queue, CopyInv(q), NEW i \in Id, NEW row \in Row, RowInv(row),
         row.status = "pending" =>
           \A j \in Id \ {i} : ~(/\ HasStatus(q, j, "pending")
                                 /\ q[j].listing = row.listing
                                 /\ q[j].action = row.action)
  PROVE  /\ [q EXCEPT ![i] = row] \in Queue
         /\ CopyInv([q EXCEPT ![i] = row])
<1> DEFINE r == [q EXCEPT ![i] = row]
<1>1. r \in Queue /\ r[i] = row /\ \A j \in Id \ {i} : r[j] = q[j]
  BY DEF Queue
<1>2. OnePendingIn(r)
  BY <1>1 DEF OnePendingIn, HasStatus, CopyInv
<1>3. EvidenceIn(r) /\ PolicyIn(r)
  BY <1>1 DEF EvidenceIn, PolicyIn, RowInv, CopyInv
<1> QED BY <1>1, <1>2, <1>3 DEF CopyInv


(* A save of one row: only the memory of the session that saves changes,   *)
(* and the job of the call may change with it.                             *)
LEMMA SaveRowStep ==
  ASSUME IInv, NEW s \in Session, NEW i \in Id, NEW row \in Row, RowInv(row),
         row.status = "pending" =>
           \A j \in Id \ {i} : ~(/\ HasStatus(mem[s], j, "pending")
                                 /\ mem[s][j].listing = row.listing
                                 /\ mem[s][j].action = row.action),
         SaveRow(s, i, row), file' = file
  PROVE  /\ mem' = [mem EXCEPT ![s] = [mem[s] EXCEPT ![i] = row]]
         /\ mem' \in [Session -> Queue]
         /\ fileState' \in {"whole", "empty", "garbled"}
         /\ writing' \in [Session -> BOOLEAN]
         /\ CopyInv(file')
         /\ \A t \in Session : CopyInv(mem'[t])
<1>1. mem[s] \in Queue /\ CopyInv(mem[s])
  BY DEF IInv, TypeOK
<1>2. /\ [mem[s] EXCEPT ![i] = row] \in Queue
      /\ CopyInv([mem[s] EXCEPT ![i] = row])
  BY <1>1, ReplaceRow
<1>3. mem' = [mem EXCEPT ![s] = [mem[s] EXCEPT ![i] = row]]
  BY DEF SaveRow, Save
<1>4. mem' \in [Session -> Queue] /\ \A t \in Session : CopyInv(mem'[t])
  BY <1>2, <1>3 DEF IInv, TypeOK
<1>5. /\ fileState' \in {"whole", "empty", "garbled"}
      /\ writing' \in [Session -> BOOLEAN]
  BY DEF SaveRow, Save, IInv, TypeOK
<1> QED BY <1>3, <1>4, <1>5 DEF IInv

LEMMA PendingRowInv ==
  ASSUME IInv, NEW s \in Session, NEW i \in Id, HasStatus(mem[s], i, "pending")
  PROVE  mem[s][i] \in Row /\ RowInv(mem[s][i])
<1>1. mem[s] \in Queue /\ mem[s][i] # NoRow
  BY DEF IInv, TypeOK, HasStatus
<1>2. mem[s][i] \in Row
  BY <1>1 DEF Queue
<1>3. EvidenceIn(mem[s]) /\ PolicyIn(mem[s])
  BY DEF IInv, CopyInv
<1>4. RowInv(mem[s][i])
  BY <1>1, <1>3 DEF EvidenceIn, PolicyIn, RowInv, HasStatus, Sanctioned
<1> QED BY <1>2, <1>4

(* A call of another session is not disturbed.                             *)
LEMMA OtherCall ==
  ASSUME NEW t \in Session, JobInv(t),
         mem'[t] = mem[t], pc'[t] = pc[t], job'[t] = job[t], loaded'[t] = loaded[t]
  PROVE  JobInv(t)'
BY DEF JobInv, HasStatus, PendingSame

-----------------------------------------------------------------------------
(* The invariant holds initially and every action keeps it.                *)

LEMMA InitIInv == Init => IInv
<1> SUFFICES ASSUME Init PROVE IInv
  OBVIOUS
<1>1. TypeOK
  BY NoJobType, EmptyQueueCopyInv, SessionConstantsOK
  DEF Init, TypeOK, NothingLoaded, Ingest, Points, Verdict
<1>2. CopyInv(file) /\ \A s \in Session : CopyInv(mem[s])
  BY EmptyQueueCopyInv DEF Init
<1>3. \A s \in Session : JobInv(s)
  BY DEF Init, JobInv
<1> QED BY <1>1, <1>2, <1>3 DEF IInv

LEMMA WriteIInv ==
  ASSUME IInv, NEW s \in Session, Write(s)
  PROVE  IInv'
<1>1. TypeOK'
  BY DEF IInv, TypeOK, Write
<1>2. CopyInv(file')
  BY DEF IInv, Write
<1>3. \A t \in Session : CopyInv(mem'[t]) /\ JobInv(t)'
  BY OtherCall DEF IInv, Write
<1> QED BY <1>1, <1>2, <1>3 DEF IInv

LEMMA StartIInv ==
  ASSUME IInv, NEW s \in Session, Start(s)
  PROVE  IInv'
<1>1. TypeOK'
  <2>1. verdict' \in [Id -> Verdict]
    BY DEF IInv, TypeOK, Start, Verdict
  <2> QED BY <2>1, EmptyQueueCopyInv DEF IInv, TypeOK, Start, Goto, Points
<1>2. CopyInv(file') /\ \A t \in Session : CopyInv(mem'[t])
  BY EmptyQueueCopyInv DEF IInv, TypeOK, Start
<1>3. ASSUME NEW t \in Session PROVE JobInv(t)'
  <2>1. CASE t = s
    BY <2>1 DEF IInv, TypeOK, Start, Goto, JobInv
  <2>2. CASE t # s
    BY <2>2, OtherCall DEF IInv, TypeOK, Start, Goto
  <2> QED BY <2>1, <2>2
<1> QED BY <1>1, <1>2, <1>3 DEF IInv

LEMMA CrashIInv ==
  ASSUME IInv, NEW s \in Session, Crash(s)
  PROVE  IInv'
<1>1. TypeOK'
  BY EmptyQueueCopyInv, NoJobType
  DEF IInv, TypeOK, Crash, Goto, Points, Ingest, NothingLoaded
<1>2. CopyInv(file') /\ \A t \in Session : CopyInv(mem'[t])
  BY EmptyQueueCopyInv DEF IInv, TypeOK, Crash
<1>3. ASSUME NEW t \in Session PROVE JobInv(t)'
  <2>1. CASE t = s
    BY <2>1 DEF IInv, TypeOK, Crash, Goto, JobInv
  <2>2. CASE t # s
    BY <2>2, OtherCall DEF IInv, TypeOK, Crash, Goto
  <2> QED BY <2>1, <2>2
<1> QED BY <1>1, <1>2, <1>3 DEF IInv

LEMMA LoadListingsIInv ==
  ASSUME IInv, NEW s \in Session, NEW purpose \in {"view", "pipeline"},
         LoadListings(s, purpose)
  PROVE  IInv'
<1>1. PICK missing \in SUBSET Listing :
        LET seen == [l \in Listing |-> IF l \in missing THEN NotListed ELSE live[l]]
        IN  /\ loaded' = [loaded EXCEPT ![s] = seen]
            /\ job' = [job EXCEPT ![s] = [NoJob EXCEPT !.todo = Drifted(mem[s], seen),
                                                       !.purpose = purpose]]
  BY DEF LoadListings
<1> DEFINE seen == [l \in Listing |-> IF l \in missing THEN NotListed ELSE live[l]]
<1>2. seen \in Ingest
  BY DEF IInv, TypeOK, Ingest
<1>3. /\ Drifted(mem[s], seen) \in SUBSET Id
      /\ \A i \in Drifted(mem[s], seen) : HasStatus(mem[s], i, "pending")
  BY DEF Drifted
<1>4. [NoJob EXCEPT !.todo = Drifted(mem[s], seen), !.purpose = purpose] \in Job
  BY <1>3, NoJobType DEF Job
<1>5. TypeOK'
  BY <1>1, <1>2, <1>4 DEF IInv, TypeOK, LoadListings, Goto, Points
<1>6. CopyInv(file') /\ \A t \in Session : CopyInv(mem'[t])
  BY DEF IInv, LoadListings
<1>7. ASSUME NEW t \in Session PROVE JobInv(t)'
  <2>1. CASE t = s
    <3>1. pc'[s] = "flag" /\ mem' = mem /\ job'[s].todo = Drifted(mem[s], seen)
      BY <1>1, NoJobType DEF IInv, TypeOK, LoadListings, Goto, Job
    <3> QED BY <2>1, <3>1, <1>3 DEF JobInv
  <2>2. CASE t # s
    BY <1>1, <2>2, OtherCall DEF IInv, TypeOK, LoadListings, Goto
  <2> QED BY <2>1, <2>2
<1> QED BY <1>5, <1>6, <1>7 DEF IInv

LEMMA FlagOneIInv ==
  ASSUME IInv, NEW s \in Session, NEW i \in Id, FlagOne(s, i)
  PROVE  IInv'
<1> DEFINE row == [mem[s][i] EXCEPT !.stale = TRUE]
<1>1. HasStatus(mem[s], i, "pending") /\ pc[s] = "flag"
  BY DEF IInv, JobInv, FlagOne, At
<1>2. mem[s][i] \in Row /\ RowInv(mem[s][i])
  BY <1>1, PendingRowInv
<1>3. /\ row \in Row /\ RowInv(row) /\ row.status = "pending"
      /\ row.listing = mem[s][i].listing /\ row.action = mem[s][i].action
  BY <1>1, <1>2 DEF Row, RowInv, HasStatus
<1>4. \A j \in Id \ {i} : ~(/\ HasStatus(mem[s], j, "pending")
                            /\ mem[s][j].listing = row.listing
                            /\ mem[s][j].action = row.action)
  BY <1>1, <1>3 DEF IInv, CopyInv, OnePendingIn
<1> HIDE DEF row
<1>5. SaveRow(s, i, row) /\ file' = file
  BY DEF FlagOne, row
<1>6. /\ mem' = [mem EXCEPT ![s] = [mem[s] EXCEPT ![i] = row]]
      /\ mem' \in [Session -> Queue]
      /\ fileState' \in {"whole", "empty", "garbled"}
      /\ writing' \in [Session -> BOOLEAN]
      /\ CopyInv(file')
      /\ \A t \in Session : CopyInv(mem'[t])
  BY <1>3, <1>4, <1>5, SaveRowStep
<1>7. job' = [job EXCEPT ![s].todo = @ \ {i}] /\ job' \in [Session -> Job]
  BY DEF FlagOne, IInv, TypeOK, Job
<1>8. TypeOK'
  BY <1>6, <1>7 DEF IInv, TypeOK, FlagOne
<1>9. ASSUME NEW t \in Session PROVE JobInv(t)'
  <2>1. CASE t = s
    <3>1. \A j \in job'[s].todo : j \in job[s].todo /\ j # i
      BY <1>7 DEF IInv, TypeOK, Job
    <3>2. \A j \in Id : j # i => mem'[s][j] = mem[s][j]
      BY <1>6 DEF IInv, TypeOK, Queue
    <3>3. pc'[s] = "flag"
      BY <1>1 DEF FlagOne
    <3>4. \A j \in job[s].todo : j \in Id /\ HasStatus(mem[s], j, "pending")
      BY <1>1 DEF IInv, TypeOK, Job, JobInv
    <3> QED BY <2>1, <3>1, <3>2, <3>3, <3>4 DEF JobInv, HasStatus
  <2>2. CASE t # s
    BY <1>6, <1>7, <2>2, OtherCall DEF IInv, TypeOK, FlagOne
  <2> QED BY <2>1, <2>2
<1> QED BY <1>6, <1>8, <1>9 DEF IInv

LEMMA FlagDoneIInv ==
  ASSUME IInv, NEW s \in Session, FlagDone(s)
  PROVE  IInv'
<1>1. TypeOK'
  BY DEF IInv, TypeOK, FlagDone, Goto, Points
<1>2. CopyInv(file') /\ \A t \in Session : CopyInv(mem'[t])
  BY DEF IInv, FlagDone
<1>3. ASSUME NEW t \in Session PROVE JobInv(t)'
  <2>1. CASE t = s
    BY <2>1 DEF IInv, TypeOK, FlagDone, Goto, JobInv
  <2>2. CASE t # s
    BY <2>2, OtherCall DEF IInv, TypeOK, FlagDone, Goto
  <2> QED BY <2>1, <2>2
<1> QED BY <1>1, <1>2, <1>3 DEF IInv

(* The rows a proposal replaces: by OnePendingIn there is at most one, so   *)
(* the maximum of their versions exists.                                   *)
LEMMA NextVersionType ==
  ASSUME NEW q \in Queue, OnePendingIn(q), NEW l \in Listing, NEW a \in Action
  PROVE  NextVersion(q, PendingSame(q, l, a)) \in Nat
<1> DEFINE same == PendingSame(q, l, a)
           versions == {0} \cup {q[i].version : i \in same}
<1>1. versions \subseteq Nat
  BY DEF PendingSame, HasStatus, Queue, Row
<1>2. \E m \in versions : \A n \in versions : n <= m
  <2>1. CASE same = {}
    <3>1. versions = {0}
      BY <2>1
    <3> QED BY <3>1
  <2>2. CASE same # {}
    <3>1. PICK i \in same : TRUE
      BY <2>2
    <3>2. same = {i}
      BY <3>1 DEF PendingSame, OnePendingIn
    <3>3. versions = {0, q[i].version} /\ q[i].version \in Nat
      BY <3>2, <1>1
    <3> HIDE DEF versions
    <3>4. q[i].version \in versions /\ \A n \in versions : n <= q[i].version
      BY <3>3
    <3> QED BY <3>4
  <2> QED BY <2>1, <2>2
<1>3. Max(versions) \in Nat
  BY <1>1, <1>2 DEF Max
<1> QED BY <1>3 DEF NextVersion

LEMMA ProposeIInv ==
  ASSUME IInv, NEW s \in Session, NEW l \in Listing, NEW a \in Action, Propose(s, l, a)
  PROVE  IInv'
<1> DEFINE same == PendingSame(mem[s], l, a)
           next == [job[s] EXCEPT !.todo = same, !.new = FreshId, !.listing = l,
                                  !.action = a, !.version = NextVersion(mem[s], same)]
<1>1. FreshId \in Id
  BY DEF Propose, FreshId, IInv, TypeOK
<1>2. /\ same \in SUBSET Id
      /\ \A i \in same : HasStatus(mem[s], i, "pending")
  BY DEF PendingSame
<1>3. NextVersion(mem[s], same) \in Nat
  BY NextVersionType DEF IInv, TypeOK, CopyInv
<1>4. job' = [job EXCEPT ![s] = next]
  BY DEF Propose
<1>5. /\ next \in Job /\ next.todo = same /\ next.new = FreshId
      /\ next.listing = l /\ next.action = a
  BY <1>1, <1>2, <1>3 DEF IInv, TypeOK, Job
<1> HIDE DEF next, same
<1>6. TypeOK'
  BY <1>1, <1>4, <1>5 DEF IInv, TypeOK, Propose, Goto, Points
<1>7. CopyInv(file') /\ \A t \in Session : CopyInv(mem'[t])
  BY DEF IInv, Propose
<1>8. ASSUME NEW t \in Session PROVE JobInv(t)'
  <2>1. CASE t = s
    <3>1. pc'[s] = "supersede" /\ mem' = mem /\ loaded' = loaded /\ job'[s] = next
      BY <1>4 DEF IInv, TypeOK, Propose, Goto
    <3>2. loaded[s][l] \in Fingerprint
      BY DEF Propose, IInv, TypeOK, Ingest
    <3> QED BY <2>1, <3>1, <3>2, <1>1, <1>2, <1>5 DEF JobInv, same
  <2>2. CASE t # s
    BY <1>4, <2>2, OtherCall DEF IInv, TypeOK, Propose, Goto
  <2> QED BY <2>1, <2>2
<1> QED BY <1>6, <1>7, <1>8 DEF IInv

LEMMA SupersedeOneIInv ==
  ASSUME IInv, NEW s \in Session, NEW i \in Id, SupersedeOne(s, i)
  PROVE  IInv'
<1> DEFINE row == [mem[s][i] EXCEPT !.status = "superseded", !.superseded_by = job[s].new]
<1>1. HasStatus(mem[s], i, "pending") /\ pc[s] = "supersede" /\ job[s].new \in Id
  BY DEF IInv, JobInv, SupersedeOne, At
<1>2. mem[s][i] \in Row /\ RowInv(mem[s][i])
  BY <1>1, PendingRowInv
<1>3. row \in Row /\ RowInv(row) /\ row.status = "superseded"
  BY <1>1, <1>2 DEF Row, RowInv, HasStatus, Status, Sanctioned
<1> HIDE DEF row
<1>4. SaveRow(s, i, row) /\ file' = file
  BY DEF SupersedeOne, row
<1>5. /\ mem' = [mem EXCEPT ![s] = [mem[s] EXCEPT ![i] = row]]
      /\ mem' \in [Session -> Queue]
      /\ fileState' \in {"whole", "empty", "garbled"}
      /\ writing' \in [Session -> BOOLEAN]
      /\ CopyInv(file')
      /\ \A t \in Session : CopyInv(mem'[t])
  BY <1>3, <1>4, SaveRowStep
<1>6. job' = [job EXCEPT ![s].todo = @ \ {i}] /\ job' \in [Session -> Job]
  BY DEF SupersedeOne, IInv, TypeOK, Job
<1>7. TypeOK'
  BY <1>5, <1>6 DEF IInv, TypeOK, SupersedeOne
<1>8. ASSUME NEW t \in Session PROVE JobInv(t)'
  <2>1. CASE t = s
    <3>1. /\ job'[s].new = job[s].new /\ job'[s].listing = job[s].listing
          /\ job'[s].action = job[s].action /\ job'[s].todo = job[s].todo \ {i}
      BY <1>6 DEF IInv, TypeOK, Job
    <3>2. /\ \A j \in Id : j # i => mem'[s][j] = mem[s][j]
          /\ mem'[s][i] = row
      BY <1>5 DEF IInv, TypeOK, Queue
    <3>3. pc'[s] = "supersede" /\ loaded' = loaded
      BY <1>1 DEF SupersedeOne
    <3>4. /\ loaded[s][job[s].listing] \in Fingerprint
          /\ \A j \in job[s].todo : j \in Id /\ HasStatus(mem[s], j, "pending")
          /\ PendingSame(mem[s], job[s].listing, job[s].action) \subseteq job[s].todo
      BY <1>1 DEF IInv, TypeOK, Job, JobInv
    <3>5. ~HasStatus(mem'[s], i, "pending")
      BY <3>2, <1>3 DEF HasStatus
    <3>6. PendingSame(mem'[s], job[s].listing, job[s].action)
            \subseteq PendingSame(mem[s], job[s].listing, job[s].action) \ {i}
      BY <3>2, <3>5 DEF PendingSame, HasStatus
    <3>7. \A j \in job[s].todo \ {i} : HasStatus(mem'[s], j, "pending")
      BY <3>2, <3>4 DEF HasStatus
    <3> QED BY <2>1, <1>1, <3>1, <3>3, <3>4, <3>6, <3>7 DEF JobInv
  <2>2. CASE t # s
    BY <1>5, <1>6, <2>2, OtherCall DEF IInv, TypeOK, SupersedeOne
  <2> QED BY <2>1, <2>2
<1> QED BY <1>5, <1>7, <1>8 DEF IInv

LEMMA InsertNewIInv ==
  ASSUME IInv, NEW s \in Session, InsertNew(s)
  PROVE  IInv'
<1> DEFINE j == job[s]
           row == NewRow(j.listing, j.action, loaded[s][j.listing], j.version)
<1>1. /\ pc[s] = "supersede" /\ j.todo = {} /\ j \in Job /\ j.new \in Id
      /\ loaded[s][j.listing] \in Fingerprint
      /\ PendingSame(mem[s], j.listing, j.action) = {}
  BY DEF IInv, TypeOK, JobInv, InsertNew, At
<1>2. row \in Row
  BY <1>1, NewRowType DEF Job
<1>3. /\ RowInv(row) /\ row.status = "pending"
      /\ row.listing = j.listing /\ row.action = j.action
  BY DEF NewRow, RowInv, Sanctioned
<1>4. \A k \in Id \ {j.new} : ~(/\ HasStatus(mem[s], k, "pending")
                                /\ mem[s][k].listing = row.listing
                                /\ mem[s][k].action = row.action)
  BY <1>1, <1>3 DEF PendingSame
<1>5. SaveRow(s, j.new, row) /\ file' = file
  BY DEF InsertNew
<1> HIDE DEF row, j
<1>6. /\ mem' = [mem EXCEPT ![s] = [mem[s] EXCEPT ![j.new] = row]]
      /\ mem' \in [Session -> Queue]
      /\ fileState' \in {"whole", "empty", "garbled"}
      /\ writing' \in [Session -> BOOLEAN]
      /\ CopyInv(file')
      /\ \A t \in Session : CopyInv(mem'[t])
  BY <1>1, <1>2, <1>3, <1>4, <1>5, SaveRowStep
<1>7. TypeOK'
  BY <1>6 DEF IInv, TypeOK, InsertNew, Goto, Points
<1>8. ASSUME NEW t \in Session PROVE JobInv(t)'
  <2>1. CASE t = s
    <3>1. mem'[s][j.new] = row
      BY <1>1, <1>6 DEF IInv, TypeOK, Queue
    <3>2. pc'[s] = "policy" /\ job'[s] = j
      BY DEF InsertNew, Goto, IInv, TypeOK, j
    <3>3. HasStatus(mem'[s], j.new, "pending")
      BY <3>1, <1>2, <1>3, NoRowOK DEF HasStatus
    <3> QED BY <2>1, <3>2, <3>3, <1>1 DEF JobInv
  <2>2. CASE t # s
    BY <1>6, <2>2, OtherCall DEF IInv, TypeOK, InsertNew, Goto
  <2> QED BY <2>1, <2>2
<1> QED BY <1>6, <1>7, <1>8 DEF IInv

(* A save that leaves the call of its session where no local matters.      *)
LEMMA SaveAtRest ==
  ASSUME IInv, NEW s \in Session, NEW i \in Id, NEW row \in Row, RowInv(row),
         HasStatus(mem[s], i, "pending") \/ row.status # "pending",
         row.status = "pending" =>
           row.listing = mem[s][i].listing /\ row.action = mem[s][i].action,
         SaveRow(s, i, row), NEW point \in {"idle", "pipeline"},
         pc' = [pc EXCEPT ![s] = point],
         UNCHANGED <<live, file, loaded, job, used>>, verdict' \in [Id -> Verdict]
  PROVE  IInv'
<1>1. ASSUME row.status = "pending", NEW j \in Id \ {i}
      PROVE  ~(/\ HasStatus(mem[s], j, "pending")
               /\ mem[s][j].listing = row.listing
               /\ mem[s][j].action = row.action)
  BY <1>1 DEF IInv, CopyInv, OnePendingIn
<1>2. /\ mem' = [mem EXCEPT ![s] = [mem[s] EXCEPT ![i] = row]]
      /\ mem' \in [Session -> Queue]
      /\ fileState' \in {"whole", "empty", "garbled"}
      /\ writing' \in [Session -> BOOLEAN]
      /\ CopyInv(file')
      /\ \A t \in Session : CopyInv(mem'[t])
  BY <1>1, SaveRowStep
<1>3. TypeOK'
  BY <1>2 DEF IInv, TypeOK, Points
<1>4. ASSUME NEW t \in Session PROVE JobInv(t)'
  <2>1. CASE t = s
    BY <2>1 DEF IInv, TypeOK, JobInv
  <2>2. CASE t # s
    BY <1>2, <2>2, OtherCall DEF IInv, TypeOK
  <2> QED BY <2>1, <2>2
<1> QED BY <1>2, <1>3, <1>4 DEF IInv

LEMMA VerdictType ==
  ASSUME IInv, NEW s \in Session, NEW allowed \in BOOLEAN, NEW compliant \in BOOLEAN,
         ApplyPolicy(s, allowed, compliant)
  PROVE  verdict' \in [Id -> Verdict]
<1>1. \E v \in {"open", "blocked"} : Judge(job[s].new, v)
  BY DEF ApplyPolicy
<1> QED BY <1>1 DEF Judge, IInv, TypeOK, Verdict

LEMMA ApplyPolicyIInv ==
  ASSUME IInv, NEW s \in Session, NEW allowed \in BOOLEAN, NEW compliant \in BOOLEAN,
         ApplyPolicy(s, allowed, compliant)
  PROVE  IInv'
<1> DEFINE n == job[s].new
           row == [mem[s][n] EXCEPT !.flagged = ~allowed, !.noncompliant = ~compliant]
           rejected == RejectedRow(row, DefaultActor)
<1>1. n \in Id /\ HasStatus(mem[s], n, "pending")
  BY DEF IInv, JobInv, ApplyPolicy, At
<1>2. mem[s][n] \in Row /\ RowInv(mem[s][n])
  BY <1>1, PendingRowInv
<1>3. CASE allowed /\ SaveRow(s, n, row) /\ Goto(s, "pipeline") /\ UNCHANGED job
  <2>1. row \in Row
    BY <1>2 DEF Row
  <2>2. RowInv(row)
    BY <1>1, <1>2, <1>3 DEF Row, RowInv, HasStatus, Sanctioned
  <2>3. row.listing = mem[s][n].listing /\ row.action = mem[s][n].action
    BY <1>2 DEF Row
  <2>4. UNCHANGED <<live, file, loaded, job, used>>
    BY <1>3 DEF ApplyPolicy
  <2> HIDE DEF row
  <2>5. pc' = [pc EXCEPT ![s] = "pipeline"]
    BY <1>3 DEF Goto
  <2> QED BY <1>1, <1>3, <2>1, <2>2, <2>3, <2>4, <2>5, SaveAtRest, VerdictType
<1>4. CASE /\ ~allowed
           /\ MayTransition(mem[s][n], "rejected", DefaultActor, "none")
           /\ SaveRow(s, n, rejected)
           /\ Goto(s, "pipeline")
           /\ UNCHANGED job
  <2>1. DefaultActor \in Actor
    BY <1>4, SessionConstantsOK DEF MayTransition
  <2>2. row \in Row
    BY <1>2, ZenonT(30) DEF Row
  <2> HIDE DEF row
  <2>3. rejected \in Row /\ rejected.status = "rejected"
    BY <2>1, <2>2 DEF RejectedRow, Row, Status
  <2>4. RowInv(rejected)
    BY <2>1, <2>2 DEF RejectedRow, Row, RowInv, Sanctioned
  <2>5. UNCHANGED <<live, file, loaded, job, used>>
    BY <1>4 DEF ApplyPolicy
  <2> HIDE DEF rejected
  <2>6. pc' = [pc EXCEPT ![s] = "pipeline"]
    BY <1>4 DEF Goto
  <2> QED BY <1>1, <1>4, <2>3, <2>4, <2>5, <2>6, SaveAtRest, VerdictType
<1>5. CASE /\ Goto(s, "idle")
           /\ job' = [job EXCEPT ![s] = NoJob]
           /\ UNCHANGED <<fileState, mem, writing>>
  <2>1. TypeOK'
    BY <1>5, NoJobType, VerdictType DEF IInv, TypeOK, ApplyPolicy, Goto, Points
  <2>2. CopyInv(file') /\ \A t \in Session : CopyInv(mem'[t])
    BY <1>5 DEF IInv, ApplyPolicy
  <2>3. ASSUME NEW t \in Session PROVE JobInv(t)'
    <3>1. CASE t = s
      BY <1>5, <3>1 DEF IInv, TypeOK, Goto, JobInv
    <3>2. CASE t # s
      BY <1>5, <3>2, OtherCall DEF IInv, TypeOK, ApplyPolicy, Goto
    <3> QED BY <3>1, <3>2
  <2> QED BY <2>1, <2>2, <2>3 DEF IInv
<1> QED BY <1>3, <1>4, <1>5 DEF ApplyPolicy

LEMMA PipelineEndIInv ==
  ASSUME IInv, NEW s \in Session, PipelineEnd(s)
  PROVE  IInv'
<1>1. TypeOK'
  BY NoJobType DEF IInv, TypeOK, PipelineEnd, Goto, Points
<1>2. CopyInv(file') /\ \A t \in Session : CopyInv(mem'[t])
  BY DEF IInv, PipelineEnd
<1>3. ASSUME NEW t \in Session PROVE JobInv(t)'
  <2>1. CASE t = s
    BY <2>1 DEF IInv, TypeOK, PipelineEnd, Goto, JobInv
  <2>2. CASE t # s
    BY <2>2, OtherCall DEF IInv, TypeOK, PipelineEnd, Goto
  <2> QED BY <2>1, <2>2
<1> QED BY <1>1, <1>2, <1>3 DEF IInv

LEMMA AcknowledgeIInv ==
  ASSUME IInv, NEW s \in Session, NEW i \in Id, Acknowledge(s, i)
  PROVE  IInv'
<1> DEFINE row == [mem[s][i] EXCEPT !.dry_run = TRUE]
<1>1. HasStatus(mem[s], i, "pending") /\ SaveRow(s, i, row) /\ pc[s] = "idle"
  BY DEF Acknowledge, At
<1>2. mem[s][i] \in Row /\ RowInv(mem[s][i])
  BY <1>1, PendingRowInv
<1>3. /\ row \in Row /\ RowInv(row)
      /\ row.listing = mem[s][i].listing /\ row.action = mem[s][i].action
  BY <1>1, <1>2 DEF Row, RowInv, HasStatus, Sanctioned
<1> HIDE DEF row
<1>4. pc' = [pc EXCEPT ![s] = "idle"] /\ UNCHANGED <<live, file, loaded, job, used>>
  BY <1>1 DEF Acknowledge, IInv, TypeOK
<1>5. verdict' \in [Id -> Verdict]
  BY DEF Acknowledge, IInv, TypeOK
<1> QED BY <1>1, <1>3, <1>4, <1>5, SaveAtRest

LEMMA TransitionIInv ==
  ASSUME IInv, NEW s \in Session, NEW i \in Id, NEW target \in Status \ {"pending"},
         NEW actor \in Actor, NEW dry \in DryRunArg,
         Transition(s, i, target, actor, dry)
  PROVE  IInv'
<1> DEFINE row == Transitioned(mem[s][i], target, actor, dry)
<1>1. mem[s][i] \in Row /\ MayTransition(mem[s][i], target, actor, dry)
  BY DEF IInv, TypeOK, Queue, Transition
<1>2. RowInv(mem[s][i])
  BY <1>1, NoRowOK DEF IInv, TypeOK, Queue, CopyInv, EvidenceIn, PolicyIn, RowInv
<1>3. row \in Row
  BY <1>1, TransitionedType
<1>4. row.status = target
  BY <1>1 DEF Transitioned, ApprovedRow, RejectedRow, Row
<1>5. RowInv(row)
  <2>1. CASE target = "approved"
    BY <1>1, <1>2, <2>1
    DEF Transitioned, ApprovedRow, MayTransition, AllowedEdges, RowInv, Row, Sanctioned, DryRunArg
  <2>2. CASE target = "rejected"
    BY <1>1, <1>2, <2>2
    DEF Transitioned, RejectedRow, MayTransition, AllowedEdges, RowInv, Row, Sanctioned
  <2>3. CASE target \notin {"approved", "rejected"}
    BY <1>1, <1>2, <2>3
    DEF Transitioned, MayTransition, AllowedEdges, RowInv, Row, Sanctioned
  <2> QED BY <2>1, <2>2, <2>3
<1> HIDE DEF row
<1>6. SaveRow(s, i, row)
  BY DEF Transition, row
<1>7. pc' = [pc EXCEPT ![s] = "idle"] /\ UNCHANGED <<live, file, loaded, job, used>>
  BY DEF Transition, At, IInv, TypeOK
<1>8. verdict' \in [Id -> Verdict]
  BY DEF Transition, IInv, TypeOK
<1> QED BY <1>3, <1>4, <1>5, <1>6, <1>7, <1>8, SaveAtRest

LEMMA SellerEditIInv ==
  ASSUME IInv, NEW l \in Listing, NEW f \in Fingerprint, SellerEdit(l, f)
  PROVE  IInv'
<1>1. TypeOK'
  BY DEF IInv, TypeOK, SellerEdit
<1>2. CopyInv(file') /\ \A t \in Session : CopyInv(mem'[t]) /\ JobInv(t)'
  BY OtherCall DEF IInv, SellerEdit
<1> QED BY <1>1, <1>2 DEF IInv

LEMMA NextIInv == IInv /\ [Next]_vars => IInv'
<1> SUFFICES ASSUME IInv, [Next]_vars PROVE IInv'
  OBVIOUS
<1>1. ASSUME NEW s \in Session, SessionStep(s) PROVE IInv'
  <2>1. CASE Write(s)
    BY <2>1, WriteIInv
  <2>2. CASE Start(s)
    BY <2>2, StartIInv
  <2>3. CASE Crash(s)
    BY <2>3, CrashIInv
  <2>4. CASE \E p \in {"view", "pipeline"} : LoadListings(s, p)
    BY <2>4, LoadListingsIInv
  <2>5. CASE \E i \in Id : FlagOne(s, i)
    BY <2>5, FlagOneIInv
  <2>6. CASE FlagDone(s)
    BY <2>6, FlagDoneIInv
  <2>7. CASE \E l \in Listing, a \in Action : Propose(s, l, a)
    BY <2>7, ProposeIInv
  <2>8. CASE \E i \in Id : SupersedeOne(s, i)
    BY <2>8, SupersedeOneIInv
  <2>9. CASE InsertNew(s)
    BY <2>9, InsertNewIInv
  <2>10. CASE \E allowed, compliant \in BOOLEAN : ApplyPolicy(s, allowed, compliant)
    BY <2>10, ApplyPolicyIInv
  <2>11. CASE PipelineEnd(s)
    BY <2>11, PipelineEndIInv
  <2>12. CASE \E i \in Id : Acknowledge(s, i)
    BY <2>12, AcknowledgeIInv
  <2>13. CASE \E i \in Id, actor \in Actor, dry \in DryRunArg : Decide(s, i, actor, dry)
    BY <2>13, TransitionIInv DEF Decide, Status
  <2>14. CASE \E i \in Id, actor \in Actor : Settle(s, i, actor)
    BY <2>14, TransitionIInv DEF Settle, Status, DryRunArg
  <2> QED BY <1>1, <2>1, <2>2, <2>3, <2>4, <2>5, <2>6, <2>7, <2>8, <2>9, <2>10,
             <2>11, <2>12, <2>13, <2>14 DEF SessionStep
<1>2. CASE \E l \in Listing, f \in Fingerprint : SellerEdit(l, f)
  BY <1>2, SellerEditIInv
<1>3. CASE UNCHANGED vars
  <2>1. TypeOK'
    BY <1>3 DEF IInv, TypeOK, vars
  <2>2. CopyInv(file') /\ \A t \in Session : CopyInv(mem'[t]) /\ JobInv(t)'
    BY <1>3, OtherCall DEF IInv, vars
  <2> QED BY <2>1, <2>2 DEF IInv
<1> QED BY <1>1, <1>2, <1>3 DEF Next

LEMMA Invariant == Spec => []IInv
BY InitIInv, NextIInv, PTL DEF Spec

-----------------------------------------------------------------------------
(* Every state of the queue is of its type: what the store writes, another *)
(* session can read.                                                       *)
THEOREM TypeCorrect == Spec => []TypeOK
<1>1. IInv => TypeOK
  BY DEF IInv
<1> QED BY <1>1, Invariant, PTL

(* However many sessions share the file, whenever their processes end and  *)
(* whatever a torn save leaves, no copy of the queue ever holds two        *)
(* pending rows for one change to one listing.                             *)
THEOREM OnePendingCorrect == Spec => []OnePendingPerTarget
<1>1. IInv => OnePendingPerTarget
  BY DEF IInv, CopyInv, OnePendingPerTarget, Copies
<1> QED BY <1>1, Invariant, PTL

(* No interleaving brings an approved, applied or failed row into a copy   *)
(* without the evidence of its approval, or leaves that evidence on a row  *)
(* that is not approved.                                                   *)
THEOREM EvidenceCorrect == Spec => []ApprovalEvidence
<1>1. IInv => ApprovalEvidence
  BY DEF IInv, CopyInv, ApprovalEvidence, Copies
<1> QED BY <1>1, Invariant, PTL

-----------------------------------------------------------------------------
(* No drifted row is missed by the loop of an ingest.                      *)

\* A pending row whose listing differs from what the session has ingested is
\* stale, or the loop that runs has it still to do; a store that is not built
\* has ingested nothing.
Attended ==
  \A s \in Session :
    /\ pc[s] = "down" => loaded[s] = NothingLoaded
    /\ \A i \in Drifted(mem[s], loaded[s]) :
         mem[s][i].stale \/ (pc[s] = "flag" /\ i \in job[s].todo)

LEMMA NothingLoadedNothingDrifted ==
  ASSUME NEW q \in Queue PROVE Drifted(q, NothingLoaded) = {}
<1> SUFFICES ASSUME NEW i \in Drifted(q, NothingLoaded) PROVE FALSE
  OBVIOUS
<1>1. q[i] # NoRow /\ i \in Id /\ NothingLoaded[q[i].listing] # NotListed
  BY DEF Drifted, HasStatus
<1>2. q[i].listing \in Listing
  BY <1>1 DEF Queue, Row
<1> QED BY <1>1, <1>2 DEF NothingLoaded

\* A step that leaves the rows, the ingests and the loops of the ingests alone.
LEMMA QuietAttended ==
  ASSUME Attended, mem' = mem, loaded' = loaded,
         \A t \in Session : /\ pc'[t] = "down" => pc[t] = "down"
                            /\ pc[t] = "flag" /\ job[t].todo # {} =>
                                 pc'[t] = "flag" /\ job'[t].todo = job[t].todo
  PROVE  Attended'
BY DEF Attended, Drifted, HasStatus

\* A save of one row that is not pending, or is stale unless its listing is as it
\* was, by a call that has done with the other rows or has them still to do.
LEMMA SaveRowAttended ==
  ASSUME IInv, Attended, NEW s \in Session, NEW i \in Id, NEW row \in Row, SaveRow(s, i, row),
         \/ row.status # "pending"
         \/ loaded[s][row.listing] \in {NotListed, row.fp}
         \/ row.stale
         \/ /\ pc[s] # "flag" /\ HasStatus(mem[s], i, "pending")
            /\ row.listing = mem[s][i].listing /\ row.fp = mem[s][i].fp
            /\ row.stale = mem[s][i].stale,
         loaded' = loaded, pc[s] # "down", pc'[s] # "down",
         pc[s] = "flag" => pc'[s] = "flag" /\ job[s].todo \ {i} \subseteq job'[s].todo,
         \A t \in Session \ {s} : pc'[t] = pc[t] /\ job'[t] = job[t]
  PROVE  Attended'
<1>1. /\ mem[s] \in Queue /\ mem'[s] = [mem[s] EXCEPT ![i] = row]
      /\ \A t \in Session \ {s} : mem'[t] = mem[t]
  BY DEF SaveRow, Save, IInv, TypeOK
<1>2. mem'[s][i] = row /\ \A j \in Id \ {i} : mem'[s][j] = mem[s][j]
  BY <1>1 DEF Queue
<1>3. ASSUME NEW t \in Session \ {s}
      PROVE  /\ pc'[t] = "down" => loaded'[t] = NothingLoaded
             /\ \A j \in Drifted(mem'[t], loaded'[t]) :
                  mem'[t][j].stale \/ (pc'[t] = "flag" /\ j \in job'[t].todo)
  BY <1>1 DEF Attended
<1>4. ASSUME NEW j \in Drifted(mem'[s], loaded[s])
      PROVE  mem'[s][j].stale \/ (pc'[s] = "flag" /\ j \in job'[s].todo)
  <2>1. j \in Id /\ HasStatus(mem'[s], j, "pending")
    BY <1>4 DEF Drifted
  <2>2. CASE j # i
    <3>1. mem'[s][j] = mem[s][j] /\ j \in Drifted(mem[s], loaded[s])
      BY <1>2, <1>4, <2>1, <2>2 DEF Drifted, HasStatus
    <3> QED BY <2>2, <3>1 DEF Attended
  <2>3. CASE j = i
    <3>1. row.status = "pending" /\ loaded[s][row.listing] \notin {NotListed, row.fp}
      BY <1>2, <1>4, <2>1, <2>3 DEF Drifted, HasStatus
    <3>2. CASE row.stale
      BY <1>2, <2>3, <3>2
    <3>3. CASE /\ pc[s] # "flag" /\ HasStatus(mem[s], i, "pending")
               /\ row.listing = mem[s][i].listing /\ row.fp = mem[s][i].fp
               /\ row.stale = mem[s][i].stale
      <4>1. i \in Drifted(mem[s], loaded[s])
        BY <3>1, <3>3 DEF Drifted
      <4> QED BY <1>2, <2>3, <3>3, <4>1 DEF Attended
    <3> QED BY <3>1, <3>2, <3>3
  <2> QED BY <2>2, <2>3
<1> QED BY <1>3, <1>4 DEF Attended

LEMMA InitAttended == Init => Attended
<1> SUFFICES ASSUME Init PROVE Attended
  OBVIOUS
<1>1. Drifted(EmptyQueue, NothingLoaded) = {}
  BY EmptyQueueCopyInv, NothingLoadedNothingDrifted
<1> QED BY <1>1 DEF Init, Attended

LEMMA StartOrCrashAttended ==
  ASSUME IInv, Attended, NEW s \in Session, Start(s) \/ Crash(s)
  PROVE  Attended'
<1>1. /\ mem'[s] \in Queue /\ loaded'[s] = NothingLoaded
      /\ \A t \in Session \ {s} : /\ mem'[t] = mem[t] /\ loaded'[t] = loaded[t]
                                  /\ pc'[t] = pc[t] /\ job'[t] = job[t]
  BY EmptyQueueCopyInv DEF Start, Crash, Goto, IInv, TypeOK, Attended
<1>2. Drifted(mem'[s], loaded'[s]) = {}
  BY <1>1, NothingLoadedNothingDrifted
<1> QED BY <1>1, <1>2 DEF Attended

LEMMA LoadListingsAttended ==
  ASSUME IInv, Attended, NEW s \in Session, NEW purpose \in {"view", "pipeline"},
         LoadListings(s, purpose)
  PROVE  Attended'
<1>1. PICK seen :
        /\ loaded' = [loaded EXCEPT ![s] = seen]
        /\ job' = [job EXCEPT ![s] = [NoJob EXCEPT !.todo = Drifted(mem[s], seen),
                                                   !.purpose = purpose]]
  BY DEF LoadListings
<1>2. /\ loaded'[s] = seen /\ job'[s].todo = Drifted(mem[s], seen) /\ pc'[s] = "flag"
      /\ mem' = mem
      /\ \A t \in Session \ {s} : loaded'[t] = loaded[t] /\ pc'[t] = pc[t] /\ job'[t] = job[t]
  BY <1>1, NoJobType DEF LoadListings, Goto, IInv, TypeOK, Job
<1> QED BY <1>2 DEF Attended

LEMMA StepAttended ==
  ASSUME IInv, Attended, NEW s \in Session, SessionStep(s) PROVE Attended'
<1>1. ASSUME NEW i \in Id, FlagOne(s, i) PROVE Attended'
  <2> DEFINE row == [mem[s][i] EXCEPT !.stale = TRUE]
  <2>1. mem[s][i] \in Row
    BY <1>1, PendingRowInv DEF FlagOne, At, IInv, JobInv
  <2>2. row \in Row /\ row.stale /\ SaveRow(s, i, row)
    BY <1>1, <2>1 DEF Row, FlagOne
  <2> HIDE DEF row
  <2>3. /\ pc' = pc /\ pc[s] = "flag" /\ loaded' = loaded
        /\ job' = [job EXCEPT ![s].todo = @ \ {i}]
    BY <1>1 DEF FlagOne, At
  <2>4. job'[s].todo = job[s].todo \ {i} /\ \A t \in Session \ {s} : job'[t] = job[t]
    BY <2>3 DEF IInv, TypeOK, Job
  <2> QED BY <2>2, <2>3, <2>4, SaveRowAttended
<1>2. ASSUME NEW i \in Id, SupersedeOne(s, i) PROVE Attended'
  <2> DEFINE row == [mem[s][i] EXCEPT !.status = "superseded", !.superseded_by = job[s].new]
  <2>1. mem[s][i] \in Row /\ job[s].new \in Id
    BY <1>2, PendingRowInv DEF SupersedeOne, At, IInv, JobInv
  <2>2. row \in Row /\ row.status = "superseded" /\ SaveRow(s, i, row)
    BY <1>2, <2>1 DEF Row, Status, SupersedeOne
  <2> HIDE DEF row
  <2>3. /\ pc' = pc /\ pc[s] = "supersede" /\ loaded' = loaded
        /\ \A t \in Session \ {s} : job'[t] = job[t]
    BY <1>2 DEF SupersedeOne, At, IInv, TypeOK
  <2> QED BY <2>2, <2>3, SaveRowAttended
<1>3. CASE InsertNew(s)
  <2> DEFINE row == NewRow(job[s].listing, job[s].action, loaded[s][job[s].listing],
                           job[s].version)
  <2>1. job[s].new \in Id /\ job[s] \in Job /\ loaded[s][job[s].listing] \in Fingerprint
    BY <1>3 DEF InsertNew, At, IInv, TypeOK, JobInv
  <2>2. row \in Row /\ SaveRow(s, job[s].new, row)
    BY <1>3, <2>1, NewRowType DEF Job, InsertNew
  <2>3. row.fp = loaded[s][row.listing]
    BY DEF NewRow
  <2> HIDE DEF row
  <2>4. /\ pc[s] = "supersede" /\ pc'[s] = "policy" /\ loaded' = loaded
        /\ \A t \in Session \ {s} : pc'[t] = pc[t] /\ job'[t] = job[t]
    BY <1>3 DEF InsertNew, Goto, At, IInv, TypeOK
  <2> QED BY <2>1, <2>2, <2>3, <2>4, SaveRowAttended
<1>4. ASSUME NEW allowed \in BOOLEAN, NEW compliant \in BOOLEAN,
             ApplyPolicy(s, allowed, compliant)
      PROVE  Attended'
  <2> DEFINE n == job[s].new
             row == [mem[s][n] EXCEPT !.flagged = ~allowed, !.noncompliant = ~compliant]
             rejected == RejectedRow(row, DefaultActor)
  <2>1. n \in Id /\ HasStatus(mem[s], n, "pending") /\ mem[s][n] \in Row
    BY <1>4, PendingRowInv DEF ApplyPolicy, At, IInv, JobInv
  <2>2. /\ row \in Row /\ row.stale = mem[s][n].stale
        /\ row.listing = mem[s][n].listing /\ row.fp = mem[s][n].fp
    BY <2>1, ZenonT(30) DEF Row
  <2>3. /\ pc[s] = "policy" /\ pc'[s] \in {"pipeline", "idle"} /\ loaded' = loaded
        /\ \A t \in Session \ {s} : pc'[t] = pc[t] /\ job'[t] = job[t]
    BY <1>4 DEF ApplyPolicy, Goto, At, IInv, TypeOK
  <2>4. SaveRow(s, n, row) \/ SaveRow(s, n, rejected) \/ mem' = mem
    BY <1>4 DEF ApplyPolicy
  <2> HIDE DEF row, n
  <2>5. rejected \in Row /\ rejected.status = "rejected"
    BY <2>2, SessionConstantsOK DEF Row, Status, RejectedRow
  <2> HIDE DEF rejected
  <2>6. CASE SaveRow(s, n, row)
    BY <2>1, <2>2, <2>3, <2>6, SaveRowAttended
  <2>7. CASE SaveRow(s, n, rejected)
    BY <2>1, <2>3, <2>5, <2>7, SaveRowAttended
  <2>8. CASE mem' = mem
    BY <2>3, <2>8, QuietAttended
  <2> QED BY <2>4, <2>6, <2>7, <2>8
<1>5. ASSUME NEW i \in Id, Acknowledge(s, i) PROVE Attended'
  <2> DEFINE row == [mem[s][i] EXCEPT !.dry_run = TRUE]
  <2>1. HasStatus(mem[s], i, "pending") /\ mem[s][i] \in Row
    BY <1>5, PendingRowInv DEF Acknowledge
  <2>2. /\ row \in Row /\ row.stale = mem[s][i].stale /\ SaveRow(s, i, row)
        /\ row.listing = mem[s][i].listing /\ row.fp = mem[s][i].fp
    BY <1>5, <2>1 DEF Row, Acknowledge
  <2> HIDE DEF row
  <2>3. pc[s] = "idle" /\ pc' = pc /\ loaded' = loaded /\ job' = job
    BY <1>5 DEF Acknowledge, At
  <2> QED BY <2>1, <2>2, <2>3, SaveRowAttended
<1>6. ASSUME NEW i \in Id, NEW target \in Status \ {"pending"}, NEW actor \in Actor,
             NEW dry \in DryRunArg, Transition(s, i, target, actor, dry)
      PROVE  Attended'
  <2> DEFINE row == Transitioned(mem[s][i], target, actor, dry)
  <2>1. mem[s][i] \in Row
    BY <1>6 DEF Transition, IInv, TypeOK, Queue
  <2>2. row \in Row
    BY <2>1, TransitionedType
  <2>3. row.status # "pending"
    BY <2>1 DEF Row, Transitioned, ApprovedRow, RejectedRow
  <2>4. SaveRow(s, i, row)
    BY <1>6 DEF Transition
  <2> HIDE DEF row
  <2>5. pc[s] = "idle" /\ pc' = pc /\ loaded' = loaded /\ job' = job
    BY <1>6 DEF Transition, At
  <2> QED BY <2>2, <2>3, <2>4, <2>5, SaveRowAttended
<1>7. ASSUME \/ Write(s) \/ FlagDone(s) \/ PipelineEnd(s)
             \/ \E l \in Listing, a \in Action : Propose(s, l, a)
      PROVE  Attended'
  <2>1. /\ mem' = mem /\ loaded' = loaded
        /\ \A t \in Session : /\ pc'[t] = "down" => pc[t] = "down"
                              /\ pc[t] = "flag" /\ job[t].todo # {} =>
                                   pc'[t] = "flag" /\ job'[t].todo = job[t].todo
    <3>1. CASE Write(s)
      BY <3>1 DEF Write
    <3>2. CASE FlagDone(s)
      BY <3>2 DEF FlagDone, Goto, At, IInv, TypeOK
    <3>3. CASE \E l \in Listing, a \in Action : Propose(s, l, a)
      <4>1. /\ mem' = mem /\ loaded' = loaded /\ pc[s] = "pipeline" /\ pc'[s] = "supersede"
            /\ \A t \in Session \ {s} : pc'[t] = pc[t] /\ job'[t] = job[t]
        BY <3>3 DEF Propose, Goto, At, IInv, TypeOK
      <4> QED BY <4>1
    <3>4. CASE PipelineEnd(s)
      <4>1. /\ pc[s] = "pipeline" /\ pc'[s] = "idle"
            /\ \A t \in Session \ {s} : pc'[t] = pc[t] /\ job'[t] = job[t]
        BY <3>4 DEF PipelineEnd, Goto, At, IInv, TypeOK
      <4> QED BY <3>4, <4>1 DEF PipelineEnd
    <3> QED BY <1>7, <3>1, <3>2, <3>3, <3>4
  <2> QED BY <2>1, QuietAttended
<1>8. ASSUME \/ \E i \in Id, actor \in Actor, dry \in DryRunArg : Decide(s, i, actor, dry)
             \/ \E i \in Id, actor \in Actor : Settle(s, i, actor)
      PROVE  Attended'
  BY <1>6, <1>8 DEF Decide, Settle, Status, DryRunArg
<1> QED BY <1>1, <1>2, <1>3, <1>4, <1>5, <1>7, <1>8, StartOrCrashAttended, LoadListingsAttended
        DEF SessionStep

(* Between the calls of a session every pending row whose listing differs   *)
(* from what the session last ingested is flagged: the loop of an ingest    *)
(* misses none, and no other call of any session unflags one or brings in   *)
(* one that is not flagged.                                                 *)
THEOREM DriftCorrect == Spec => []DriftIsFlagged
<1>1. IInv /\ Attended /\ [Next]_vars => Attended'
  <2> SUFFICES ASSUME IInv, Attended, [Next]_vars PROVE Attended'
    OBVIOUS
  <2> QED BY StepAttended, QuietAttended DEF Next, SellerEdit, vars
<1>2. Attended => DriftIsFlagged
  BY DEF Attended, DriftIsFlagged, At
<1> QED BY <1>1, <1>2, InitAttended, Invariant, PTL DEF Spec

-----------------------------------------------------------------------------
\* Every id in a copy, of a row or of the row that replaces it, was drawn.
Drawn(q) ==
  \A i \in Id : q[i] # NoRow => i \in used /\ q[i].superseded_by \in used \cup {NoId}

\* A row that the job of s replaces, or has replaced, in the memory of s.
Replaced(s, i) ==
  /\ mem[s][i] # NoRow
  /\ \/ i \in job[s].todo
     \/ mem[s][i].status = "superseded" /\ mem[s][i].superseded_by = job[s].new

\* The row that a session is about to insert is nowhere yet, no other session
\* inserts it, and it is of a later version than the rows it replaces.
Promised(s) ==
  pc[s] = "supersede" =>
    /\ job[s].new \in used
    /\ \A q \in Copies : q[job[s].new] = NoRow
    /\ \A t \in Session \ {s} : pc[t] = "supersede" => job[t].new # job[s].new
    /\ \A i \in Id : Replaced(s, i) =>
         /\ mem[s][i].listing = job[s].listing
         /\ mem[s][i].action = job[s].action
         /\ mem[s][i].version < job[s].version

SInv ==
  /\ \A q \in Copies : Drawn(q) /\ SuccessionIn(q)
  /\ SameIdSameProposal
  /\ \A s \in Session : Promised(s)

-----------------------------------------------------------------------------
(* Most steps leave behind copies whose rows come from a copy before.      *)

Descends(q, r) ==
  \A i \in Id : r[i] # NoRow =>
    /\ q[i] # NoRow
    /\ Key(r[i]) = Key(q[i])
    /\ r[i].superseded_by = q[i].superseded_by
    /\ r[i].status = "superseded" => q[i].status = "superseded"

LEMMA DescendsFromItself == ASSUME NEW q \in Queue PROVE Descends(q, q) /\ Descends(q, EmptyQueue)
BY DEF Descends, EmptyQueue

LEMMA RowDescends ==
  ASSUME NEW q \in Queue, NEW i \in Id, q[i] # NoRow, NEW row \in Row,
         Key(row) = Key(q[i]), row.superseded_by = q[i].superseded_by,
         row.status # "superseded"
  PROVE  Descends(q, [q EXCEPT ![i] = row])
BY DEF Descends, Queue

LEMMA CopyInQueue == ASSUME IInv, NEW q \in Copies PROVE q \in Queue
BY DEF IInv, TypeOK, Copies

LEMMA KeyParts ==
  ASSUME NEW x \in Row, NEW y \in Row, Key(x) = Key(y)
  PROVE  x.listing = y.listing /\ x.action = y.action /\ x.version = y.version
BY DEF Key

LEMMA DescendedCopy ==
  ASSUME IInv, SInv, NEW q \in Copies, NEW r \in Queue, Descends(q, r)
  PROVE  /\ Drawn(r) /\ SuccessionIn(r)
         /\ \A i \in Id : r[i] # NoRow => q[i] # NoRow /\ Key(r[i]) = Key(q[i])
<1>1. q \in Queue /\ Drawn(q) /\ SuccessionIn(q)
  BY CopyInQueue DEF SInv
<1>2. Drawn(r)
  BY <1>1 DEF Drawn, Descends
<1>3. ASSUME NEW i \in Id, HasStatus(r, i, "superseded")
      PROVE  LET n == r[i].superseded_by
             IN  /\ n \in Id
                 /\ r[n] # NoRow => /\ r[n].listing = r[i].listing
                                    /\ r[n].action = r[i].action
                                    /\ r[n].version > r[i].version
  <2>1. /\ HasStatus(q, i, "superseded") /\ r[i].superseded_by = q[i].superseded_by
        /\ Key(r[i]) = Key(q[i])
    BY <1>3 DEF HasStatus, Descends
  <2> DEFINE n == r[i].superseded_by
  <2>2. n \in Id /\ (q[n] # NoRow => /\ q[n].listing = q[i].listing
                                     /\ q[n].action = q[i].action
                                     /\ q[n].version > q[i].version)
    BY <1>1, <2>1 DEF SuccessionIn
  <2>3. r[n] # NoRow => q[n] # NoRow /\ Key(r[n]) = Key(q[n])
    BY <2>2 DEF Descends
  <2> QED BY <2>1, <2>2, <2>3 DEF Key
<1>4. SuccessionIn(r)
  BY <1>3 DEF SuccessionIn
<1> QED BY <1>1, <1>2, <1>4 DEF Descends

\* A step whose copies come from copies before it, and which leaves the jobs of
\* the sessions that are replacing rows alone.
LEMMA DescendedSInv ==
  ASSUME IInv, SInv, IInv', used' = used,
         \E q \in Copies : Descends(q, file'),
         \A t \in Session : \E q \in Copies : Descends(q, mem'[t]),
         \A t \in Session : pc'[t] = "supersede" =>
           pc[t] = "supersede" /\ job'[t] = job[t] /\ Descends(mem[t], mem'[t])
  PROVE  SInv'
<1>1. ASSUME NEW r \in Copies'
      PROVE  r \in Queue /\ \E q \in Copies : Descends(q, r)
  <2>1. file' \in Queue /\ \A t \in Session : mem'[t] \in Queue
    BY DEF IInv, TypeOK
  <2> QED BY <1>1, <2>1 DEF Copies
<1>2. ASSUME NEW r \in Copies'
      PROVE  /\ Drawn(r) /\ SuccessionIn(r)
             /\ \E q \in Copies :
                  \A i \in Id : r[i] # NoRow => q[i] # NoRow /\ Key(r[i]) = Key(q[i])
  BY <1>1, <1>2, DescendedCopy
<1>3. \A r \in Copies' : Drawn(r)' /\ SuccessionIn(r)'
  BY <1>2 DEF Drawn, SuccessionIn, HasStatus
<1>4. SameIdSameProposal'
  <2> SUFFICES ASSUME NEW q \in Copies', NEW r \in Copies', NEW i \in Id,
                      q[i] # NoRow, r[i] # NoRow
               PROVE  Key(q[i]) = Key(r[i])
    BY DEF SameIdSameProposal
  <2>1. PICK old \in Copies : old[i] # NoRow /\ Key(q[i]) = Key(old[i])
    BY <1>2
  <2>2. PICK older \in Copies : older[i] # NoRow /\ Key(r[i]) = Key(older[i])
    BY <1>2
  <2> QED BY <2>1, <2>2 DEF SInv, SameIdSameProposal
<1>5. ASSUME NEW s \in Session, pc'[s] = "supersede" PROVE Promised(s)'
  <2>1. /\ Promised(s) /\ pc[s] = "supersede" /\ job'[s] = job[s]
        /\ Descends(mem[s], mem'[s])
    BY <1>5 DEF SInv
  <2>2. job[s].new \in Id /\ job[s].new \in used
    BY <2>1 DEF Promised, IInv, TypeOK
  <2>3. \A q \in Copies' : q[job'[s].new] = NoRow
    BY <1>2, <2>1, <2>2 DEF Promised
  <2>4. \A t \in Session \ {s} : pc'[t] = "supersede" => job'[t].new # job'[s].new
    BY <2>1 DEF Promised
  <2>5. ASSUME NEW i \in Id, Replaced(s, i)'
        PROVE  /\ mem'[s][i].listing = job'[s].listing
               /\ mem'[s][i].action = job'[s].action
               /\ mem'[s][i].version < job'[s].version
    <3>1. Replaced(s, i) /\ Key(mem'[s][i]) = Key(mem[s][i])
      BY <2>1, <2>5 DEF Replaced, Descends
    <3> QED BY <2>1, <3>1 DEF Promised, Key
  <2> QED BY <2>1, <2>2, <2>3, <2>4, <2>5 DEF Promised
<1> QED BY <1>3, <1>4, <1>5 DEF SInv, Promised

LEMMA InitSInv == Init => SInv
BY DEF Init, SInv, Copies, Drawn, SuccessionIn, HasStatus, SameIdSameProposal, Promised,
       EmptyQueue

\* A step that saves nothing.
LEMMA QuietSInv ==
  ASSUME IInv, SInv, IInv', UNCHANGED <<file, mem, used>>,
         \A t \in Session : pc'[t] = "supersede" => pc[t] = "supersede" /\ job'[t] = job[t]
  PROVE  SInv'
<1>1. file \in Copies /\ \A t \in Session : mem[t] \in Copies
  BY DEF Copies
<1>2. Descends(file, file') /\ \A t \in Session : Descends(mem[t], mem'[t])
  BY <1>1, CopyInQueue, DescendsFromItself
<1> QED BY <1>1, <1>2, DescendedSInv

\* A save of a row that goes on proposing what it did.
LEMMA RowSavedSInv ==
  ASSUME IInv, SInv, IInv', NEW s \in Session, NEW i \in Id, mem[s][i] # NoRow,
         NEW row \in Row, Key(row) = Key(mem[s][i]),
         row.superseded_by = mem[s][i].superseded_by, row.status # "superseded",
         SaveRow(s, i, row), UNCHANGED <<file, used>>, pc'[s] # "supersede",
         \A t \in Session \ {s} : pc'[t] = pc[t] /\ job'[t] = job[t]
  PROVE  SInv'
<1>1. file \in Copies /\ \A t \in Session : mem[t] \in Copies
  BY DEF Copies
<1>2. /\ mem'[s] = [mem[s] EXCEPT ![i] = row]
      /\ \A t \in Session \ {s} : mem'[t] = mem[t]
  BY DEF SaveRow, Save, IInv, TypeOK
<1>3. Descends(mem[s], mem'[s])
  BY <1>1, <1>2, CopyInQueue, RowDescends
<1>4. Descends(file, file') /\ \A t \in Session \ {s} : Descends(mem[t], mem'[t])
  BY <1>1, <1>2, CopyInQueue, DescendsFromItself
<1>5. /\ \E q \in Copies : Descends(q, file')
      /\ \A t \in Session : \E q \in Copies : Descends(q, mem'[t])
  BY <1>1, <1>3, <1>4
<1>6. \A t \in Session : pc'[t] = "supersede" =>
        pc[t] = "supersede" /\ job'[t] = job[t] /\ Descends(mem[t], mem'[t])
  BY <1>4
<1> QED BY <1>5, <1>6, DescendedSInv

-----------------------------------------------------------------------------
(* Sessions begin and end, and write the file.                             *)

LEMMA WriteSInv == ASSUME IInv, SInv, IInv', NEW s \in Session, Write(s) PROVE SInv'
<1>1. file \in Copies /\ \A t \in Session : mem[t] \in Copies
  BY DEF Copies
<1>2. file' \in {file, mem[s]} /\ UNCHANGED <<mem, pc, job, used>>
  BY DEF Write
<1>3. \A t \in Session : Descends(mem[t], mem'[t])
  BY <1>1, <1>2, CopyInQueue, DescendsFromItself
<1>4. \E q \in Copies : Descends(q, file')
  BY <1>1, <1>2, CopyInQueue, DescendsFromItself
<1> QED BY <1>1, <1>2, <1>3, <1>4, DescendedSInv

LEMMA StartSInv == ASSUME IInv, SInv, IInv', NEW s \in Session, Start(s) PROVE SInv'
<1>1. file \in Copies /\ \A t \in Session : mem[t] \in Copies
  BY DEF Copies
<1>2. /\ mem'[s] \in {file, EmptyQueue} /\ \A t \in Session \ {s} : mem'[t] = mem[t]
      /\ pc'[s] = "idle" /\ \A t \in Session \ {s} : pc'[t] = pc[t]
      /\ UNCHANGED <<file, job, used>>
  BY DEF Start, Goto, IInv, TypeOK
<1>3. /\ Descends(file, file') /\ Descends(file, mem'[s])
      /\ \A t \in Session \ {s} : Descends(mem[t], mem'[t])
  BY <1>1, <1>2, CopyInQueue, DescendsFromItself
<1> QED BY <1>1, <1>2, <1>3, DescendedSInv

LEMMA CrashSInv == ASSUME IInv, SInv, IInv', NEW s \in Session, Crash(s) PROVE SInv'
<1>1. file \in Copies /\ \A t \in Session : mem[t] \in Copies
  BY DEF Copies
<1>2. /\ mem'[s] = EmptyQueue /\ \A t \in Session \ {s} : mem'[t] = mem[t]
      /\ pc'[s] = "down" /\ \A t \in Session \ {s} : pc'[t] = pc[t] /\ job'[t] = job[t]
      /\ UNCHANGED <<file, used>>
  BY DEF Crash, Goto, IInv, TypeOK
<1>3. /\ Descends(file, file') /\ Descends(file, mem'[s])
      /\ \A t \in Session \ {s} : Descends(mem[t], mem'[t])
  BY <1>1, <1>2, CopyInQueue, DescendsFromItself
<1> QED BY <1>1, <1>2, <1>3, DescendedSInv

-----------------------------------------------------------------------------
(* Steps that leave the proposals in memory as they are.                   *)

LEMMA FlagOneSInv ==
  ASSUME IInv, SInv, IInv', NEW s \in Session, NEW i \in Id, FlagOne(s, i) PROVE SInv'
<1> DEFINE row == [mem[s][i] EXCEPT !.stale = TRUE]
<1>1. HasStatus(mem[s], i, "pending") /\ mem[s][i] \in Row
  BY PendingRowInv DEF FlagOne, At, IInv, JobInv
<1>2. /\ row \in Row /\ Key(row) = Key(mem[s][i])
      /\ row.superseded_by = mem[s][i].superseded_by /\ row.status # "superseded"
  BY <1>1 DEF Row, Key, HasStatus
<1>3. SaveRow(s, i, row) /\ UNCHANGED <<file, pc, used>> /\ pc[s] = "flag"
  BY DEF FlagOne, At
<1>4. \A t \in Session \ {s} : job'[t] = job[t]
  BY DEF FlagOne, IInv, TypeOK
<1> HIDE DEF row
<1> QED BY <1>1, <1>2, <1>3, <1>4, RowSavedSInv DEF HasStatus

LEMMA AcknowledgeSInv ==
  ASSUME IInv, SInv, IInv', NEW s \in Session, NEW i \in Id, Acknowledge(s, i) PROVE SInv'
<1> DEFINE row == [mem[s][i] EXCEPT !.dry_run = TRUE]
<1>1. HasStatus(mem[s], i, "pending") /\ mem[s][i] \in Row
  BY PendingRowInv DEF Acknowledge
<1>2. /\ row \in Row /\ Key(row) = Key(mem[s][i])
      /\ row.superseded_by = mem[s][i].superseded_by /\ row.status # "superseded"
  BY <1>1 DEF Row, Key, HasStatus
<1>3. SaveRow(s, i, row) /\ UNCHANGED <<file, pc, job, used>> /\ pc[s] = "idle"
  BY DEF Acknowledge, At
<1> HIDE DEF row
<1> QED BY <1>1, <1>2, <1>3, RowSavedSInv DEF HasStatus

LEMMA TransitionSInv ==
  ASSUME IInv, SInv, IInv', NEW s \in Session, NEW i \in Id,
         NEW target \in {"approved", "rejected", "applied", "failed"},
         NEW actor \in Actor, NEW dry \in DryRunArg, Transition(s, i, target, actor, dry)
  PROVE  SInv'
<1> DEFINE row == Transitioned(mem[s][i], target, actor, dry)
<1>1. mem[s][i] # NoRow /\ mem[s][i] \in Row
  BY DEF Transition, IInv, TypeOK, Queue
<1>2. row \in Row
  BY <1>1, TransitionedType DEF Status
<1>3. /\ Key(row) = Key(mem[s][i]) /\ row.superseded_by = mem[s][i].superseded_by
      /\ row.status # "superseded"
  BY <1>1 DEF Row, Key, Transitioned, ApprovedRow, RejectedRow
<1>4. SaveRow(s, i, row) /\ UNCHANGED <<file, pc, job, used>> /\ pc[s] = "idle"
  BY DEF Transition, At
<1> HIDE DEF row
<1> QED BY <1>1, <1>2, <1>3, <1>4, RowSavedSInv

LEMMA ApplyPolicySInv ==
  ASSUME IInv, SInv, IInv', NEW s \in Session, NEW allowed \in BOOLEAN,
         NEW compliant \in BOOLEAN, ApplyPolicy(s, allowed, compliant)
  PROVE  SInv'
<1> DEFINE n == job[s].new
           row == [mem[s][n] EXCEPT !.flagged = ~allowed, !.noncompliant = ~compliant]
           rejected == RejectedRow(row, DefaultActor)
<1>1. n \in Id /\ HasStatus(mem[s], n, "pending") /\ mem[s][n] \in Row
  BY PendingRowInv DEF ApplyPolicy, At, IInv, JobInv
<1>2. ASSUME NEW r \in {row, rejected}
      PROVE  /\ r \in Row /\ Key(r) = Key(mem[s][n])
             /\ r.superseded_by = mem[s][n].superseded_by /\ r.status # "superseded"
  <2>1. /\ row \in Row /\ Key(row) = Key(mem[s][n])
        /\ row.superseded_by = mem[s][n].superseded_by /\ row.status = "pending"
    BY <1>1, ZenonT(30) DEF Row, Key, HasStatus
  <2> HIDE DEF row
  <2>2. /\ rejected \in Row /\ Key(rejected) = Key(row)
        /\ rejected.superseded_by = row.superseded_by /\ rejected.status = "rejected"
    BY <2>1, SessionConstantsOK DEF Row, Status, Key, RejectedRow
  <2> QED BY <1>2, <2>1, <2>2
<1>3. \/ /\ SaveRow(s, n, row) \/ SaveRow(s, n, rejected)
         /\ pc' = [pc EXCEPT ![s] = "pipeline"] /\ UNCHANGED job
      \/ /\ pc' = [pc EXCEPT ![s] = "idle"] /\ job' = [job EXCEPT ![s] = NoJob]
         /\ UNCHANGED mem
  BY DEF ApplyPolicy, Goto
<1>4. UNCHANGED <<file, used>>
  BY DEF ApplyPolicy
<1>5. /\ pc'[s] # "supersede"
      /\ \A t \in Session \ {s} : pc'[t] = pc[t] /\ job'[t] = job[t]
  BY <1>3 DEF IInv, TypeOK
<1> HIDE DEF n, row, rejected
<1>6. CASE SaveRow(s, n, row) \/ SaveRow(s, n, rejected)
  <2>1. PICK r \in {row, rejected} : SaveRow(s, n, r)
    BY <1>6
  <2> QED BY <2>1, <1>1, <1>2, <1>4, <1>5, RowSavedSInv DEF HasStatus
<1>7. CASE UNCHANGED mem
  BY <1>4, <1>5, <1>7, QuietSInv
<1> QED BY <1>3, <1>6, <1>7

-----------------------------------------------------------------------------
(* A proposal takes the place of the rows it replaces.                     *)

\* By OnePendingIn there is at most one row to replace, so the maximum of the
\* versions exists.
LEMMA NextVersionLater ==
  ASSUME NEW q \in Queue, OnePendingIn(q), NEW l \in Listing, NEW a \in Action,
         NEW i \in PendingSame(q, l, a)
  PROVE  q[i].version < NextVersion(q, PendingSame(q, l, a))
<1> DEFINE same == PendingSame(q, l, a)
           versions == {0} \cup {q[j].version : j \in same}
<1>1. same = {i} /\ q[i].version \in Nat
  BY DEF PendingSame, HasStatus, OnePendingIn, Queue, Row
<1>2. versions = {0, q[i].version}
  BY <1>1
<1> HIDE DEF same, versions
<1>3. \E m \in versions : \A k \in versions : m >= k
  BY <1>1, <1>2
<1>4. Max(versions) \in versions /\ \A k \in versions : Max(versions) >= k
  BY <1>3 DEF Max
<1>5. q[i].version < 1 + Max(versions)
  BY <1>1, <1>2, <1>4
<1> QED BY <1>5 DEF NextVersion, same, versions

LEMMA ProposeSInv ==
  ASSUME IInv, SInv, IInv', NEW s \in Session, NEW l \in Listing, NEW a \in Action,
         Propose(s, l, a)
  PROVE  SInv'
<1> DEFINE same == PendingSame(mem[s], l, a)
           next == [job[s] EXCEPT !.todo = same, !.new = FreshId, !.listing = l,
                                  !.action = a, !.version = NextVersion(mem[s], same)]
<1>1. FreshId \in Id /\ FreshId \notin used
  BY DEF Propose, FreshId, IInv, TypeOK
<1>2. mem[s] \in Copies /\ mem[s] \in Queue /\ OnePendingIn(mem[s])
  BY DEF Copies, IInv, TypeOK, CopyInv
<1>3. \A i \in same :
        /\ mem[s][i].listing = l /\ mem[s][i].action = a
        /\ mem[s][i].version < NextVersion(mem[s], same)
  BY <1>2, NextVersionLater DEF PendingSame
<1>4. /\ job'[s] = next /\ pc'[s] = "supersede"
      /\ \A t \in Session \ {s} : pc'[t] = pc[t] /\ job'[t] = job[t]
      /\ UNCHANGED <<file, mem>> /\ used' = used \cup {FreshId}
  BY DEF Propose, Goto, IInv, TypeOK
<1>5. /\ next.todo = same /\ next.new = FreshId /\ next.listing = l /\ next.action = a
      /\ next.version = NextVersion(mem[s], same)
  BY DEF IInv, TypeOK, Job
<1> HIDE DEF next, same
<1>6. Copies' = Copies
  BY <1>4 DEF Copies
<1>7. \A q \in Copies : Drawn(q)' /\ SuccessionIn(q)'
  BY <1>4 DEF SInv, Drawn, SuccessionIn, HasStatus
<1>8. SameIdSameProposal'
  BY <1>6 DEF SInv, SameIdSameProposal, Key
<1>9. Promised(s)'
  <2>1. \A q \in Copies' : q[FreshId] = NoRow
    BY <1>1, <1>6 DEF SInv, Drawn
  <2>2. \A t \in Session \ {s} : pc'[t] = "supersede" => job'[t].new # FreshId
    BY <1>1, <1>4 DEF SInv, Promised
  <2>3. ASSUME NEW i \in Id, Replaced(s, i)'
        PROVE  i \in same
    BY <1>1, <1>2, <1>4, <1>5, <2>3, ConstantsOK DEF Replaced, SInv, Drawn
  <2> QED BY <1>3, <1>4, <1>5, <2>1, <2>2, <2>3 DEF Promised
<1>10. ASSUME NEW t \in Session \ {s} PROVE Promised(t)'
  <2>1. Promised(t)
    BY DEF SInv
  <2> QED BY <1>1, <1>4, <1>5, <1>6, <2>1 DEF Promised, Replaced
<1> QED BY <1>6, <1>7, <1>8, <1>9, <1>10 DEF SInv

LEMMA SupersedeOneSInv ==
  ASSUME IInv, SInv, IInv', NEW s \in Session, NEW i \in Id, SupersedeOne(s, i)
  PROVE  SInv'
<1> DEFINE n == job[s].new
           row == [mem[s][i] EXCEPT !.status = "superseded", !.superseded_by = n]
<1>1. /\ pc[s] = "supersede" /\ i \in job[s].todo /\ Promised(s)
      /\ HasStatus(mem[s], i, "pending") /\ mem[s][i] \in Row /\ n \in Id
  BY PendingRowInv DEF SupersedeOne, At, IInv, JobInv, SInv
<1>2. /\ Key(row) = Key(mem[s][i]) /\ row.status = "superseded" /\ row.superseded_by = n
      /\ row.listing = mem[s][i].listing /\ row.action = mem[s][i].action
      /\ row.version = mem[s][i].version /\ row \in Row
  BY <1>1 DEF Row, Key, Status
<1>3. /\ mem'[s] = [mem[s] EXCEPT ![i] = row]
      /\ \A t \in Session \ {s} : mem'[t] = mem[t] /\ job'[t] = job[t]
      /\ job'[s] = [job[s] EXCEPT !.todo = @ \ {i}]
      /\ UNCHANGED <<file, pc, used>>
  BY DEF SupersedeOne, SaveRow, Save, IInv, TypeOK
<1> HIDE DEF row
<1>4. /\ job'[s].todo \subseteq job[s].todo /\ job'[s].new = n
      /\ job'[s].listing = job[s].listing /\ job'[s].action = job[s].action
      /\ job'[s].version = job[s].version
  BY <1>3 DEF IInv, TypeOK, Job
<1> HIDE DEF n
<1>5. mem'[s][i] = row /\ \A j \in Id \ {i} : mem'[s][j] = mem[s][j]
  BY <1>3 DEF IInv, TypeOK, Queue
<1>6. mem[s] \in Copies /\ \A q \in Copies' : q \in Copies \/ q = mem'[s]
  BY <1>3 DEF Copies
<1>7. n \in used /\ \A q \in Copies : q[n] = NoRow
  BY <1>1 DEF Promised, n
<1>8. mem[s][i] # NoRow /\ n # i
  BY <1>1, <1>6, <1>7 DEF HasStatus
<1>9. Drawn(mem[s]) /\ SuccessionIn(mem[s])
  BY <1>6 DEF SInv
<1>10. Drawn(mem'[s])
  BY <1>2, <1>5, <1>7, <1>8, <1>9 DEF Drawn
<1>11. \A j \in Id : mem'[s][j] # NoRow => mem[s][j] # NoRow /\ Key(mem'[s][j]) = Key(mem[s][j])
  BY <1>2, <1>5, <1>8
<1>12. SuccessionIn(mem'[s])
  <2> SUFFICES ASSUME NEW j \in Id, HasStatus(mem'[s], j, "superseded")
               PROVE  LET m == mem'[s][j].superseded_by
                      IN  /\ m \in Id
                          /\ mem'[s][m] # NoRow =>
                               /\ mem'[s][m].listing = mem'[s][j].listing
                               /\ mem'[s][m].action = mem'[s][j].action
                               /\ mem'[s][m].version > mem'[s][j].version
    BY DEF SuccessionIn
  <2>1. CASE j = i
    BY <2>1, <1>1, <1>2, <1>5, <1>6, <1>7, <1>8
  <2>2. CASE j # i
    <3> DEFINE m == mem[s][j].superseded_by
    <3>1. /\ m \in Id
          /\ mem[s][m] # NoRow => /\ mem[s][m].listing = mem[s][j].listing
                                  /\ mem[s][m].action = mem[s][j].action
                                  /\ mem[s][m].version > mem[s][j].version
      BY <2>2, <1>5, <1>9 DEF SuccessionIn, HasStatus
    <3> QED BY <2>2, <3>1, <1>5, <1>11 DEF Key
  <2> QED BY <2>1, <2>2
<1>13. \A q \in Copies' : Drawn(q)' /\ SuccessionIn(q)'
  <2> SUFFICES ASSUME NEW q \in Copies' PROVE Drawn(q)' /\ SuccessionIn(q)'
    OBVIOUS
  <2>1. CASE q = mem'[s]
    BY <2>1, <1>3, <1>10, <1>12 DEF Drawn, SuccessionIn, HasStatus
  <2>2. CASE q \in Copies
    <3>1. Drawn(q) /\ SuccessionIn(q)
      BY <2>2 DEF SInv
    <3> QED BY <3>1, <1>3 DEF Drawn, SuccessionIn, HasStatus
  <2> QED BY <2>1, <2>2, <1>6
<1>14. SameIdSameProposal'
  <2>1. ASSUME NEW q \in Copies', NEW j \in Id, q[j] # NoRow
        PROVE  \E p \in Copies : p[j] # NoRow /\ Key(q[j]) = Key(p[j])
    BY <1>6, <1>11, <2>1
  <2> QED BY <2>1 DEF SameIdSameProposal, SInv
<1>15. ASSUME NEW t \in Session PROVE Promised(t)'
  <2>1. SUFFICES ASSUME pc[t] = "supersede" PROVE Promised(t)'
    BY <1>3 DEF Promised
  <2>2. Promised(t) /\ job[t].new \in Id /\ job'[t].new = job[t].new
    BY <2>1, <1>3, <1>4 DEF SInv, IInv, JobInv, n
  <2>3. \A q \in Copies' : q[job'[t].new] = NoRow
    BY <2>1, <2>2, <1>6, <1>11 DEF Promised
  <2>4. \A u \in Session \ {t} : pc'[u] = "supersede" => job'[u].new # job'[t].new
    <3>1. ASSUME NEW u \in Session \ {t}, pc[u] = "supersede" PROVE job[u].new # job[t].new
      BY <2>1, <2>2, <3>1 DEF Promised
    <3>2. \A u \in Session : job'[u].new = job[u].new /\ pc'[u] = pc[u]
      BY <1>3, <1>4 DEF n
    <3> QED BY <3>1, <3>2
  <2>5. ASSUME NEW j \in Id, Replaced(t, j)'
        PROVE  /\ mem'[t][j].listing = job'[t].listing
               /\ mem'[t][j].action = job'[t].action
               /\ mem'[t][j].version < job'[t].version
    <3>1. CASE t = s
      <4>1. Replaced(s, j)
        BY <3>1, <2>5, <1>1, <1>3, <1>4, <1>5, <1>8 DEF Replaced, n
      <4> QED BY <3>1, <4>1, <2>1, <2>2, <1>4, <1>5, <1>2 DEF Promised
    <3>2. CASE t # s
      BY <3>2, <2>1, <2>2, <2>5, <1>3 DEF Promised, Replaced
    <3> QED BY <3>1, <3>2
  <2> QED BY <2>2, <2>3, <2>4, <2>5, <1>3, <2>1 DEF Promised
<1> QED BY <1>13, <1>14, <1>15 DEF SInv

LEMMA InsertNewSInv ==
  ASSUME IInv, SInv, IInv', NEW s \in Session, InsertNew(s) PROVE SInv'
<1> DEFINE n == job[s].new
           row == NewRow(job[s].listing, job[s].action, loaded[s][job[s].listing],
                         job[s].version)
<1>1. /\ pc[s] = "supersede" /\ Promised(s) /\ n \in Id /\ job[s] \in Job
      /\ loaded[s][job[s].listing] \in Fingerprint
  BY DEF InsertNew, At, IInv, TypeOK, JobInv, SInv
<1>2. /\ row \in Row /\ row # NoRow /\ row.status = "pending" /\ row.superseded_by = NoId
      /\ row.listing = job[s].listing /\ row.action = job[s].action
      /\ row.version = job[s].version
  BY <1>1, NewRowType, NoRowOK DEF NewRow, Job
<1>3. /\ mem'[s] = [mem[s] EXCEPT ![n] = row]
      /\ \A t \in Session \ {s} : mem'[t] = mem[t] /\ pc'[t] = pc[t]
      /\ pc'[s] = "policy" /\ UNCHANGED <<file, job, used>>
  BY DEF InsertNew, SaveRow, Save, Goto, IInv, TypeOK
<1> HIDE DEF row
<1>4. mem'[s][n] = row /\ \A j \in Id \ {n} : mem'[s][j] = mem[s][j]
  BY <1>1, <1>3 DEF IInv, TypeOK, Queue
<1>5. mem[s] \in Copies /\ \A q \in Copies' : q \in Copies \/ q = mem'[s]
  BY <1>3 DEF Copies
<1>6. /\ n \in used /\ \A q \in Copies : q[n] = NoRow
      /\ \A j \in Id : Replaced(s, j) =>
           /\ mem[s][j].listing = row.listing /\ mem[s][j].action = row.action
           /\ mem[s][j].version < row.version
  BY <1>1, <1>2 DEF Promised
<1>7. Drawn(mem[s]) /\ SuccessionIn(mem[s])
  BY <1>5 DEF SInv
<1>8. Drawn(mem'[s])
  BY <1>2, <1>4, <1>6, <1>7 DEF Drawn
<1>9. SuccessionIn(mem'[s])
  <2> SUFFICES ASSUME NEW j \in Id, HasStatus(mem'[s], j, "superseded")
               PROVE  LET m == mem'[s][j].superseded_by
                      IN  /\ m \in Id
                          /\ mem'[s][m] # NoRow =>
                               /\ mem'[s][m].listing = mem'[s][j].listing
                               /\ mem'[s][m].action = mem'[s][j].action
                               /\ mem'[s][m].version > mem'[s][j].version
    BY DEF SuccessionIn
  <2> DEFINE m == mem[s][j].superseded_by
  <2>1. j # n /\ mem'[s][j] = mem[s][j] /\ HasStatus(mem[s], j, "superseded")
    BY <1>2, <1>4 DEF HasStatus
  <2>2. /\ m \in Id
        /\ mem[s][m] # NoRow => /\ mem[s][m].listing = mem[s][j].listing
                                /\ mem[s][m].action = mem[s][j].action
                                /\ mem[s][m].version > mem[s][j].version
    BY <2>1, <1>7 DEF SuccessionIn
  <2>3. CASE m = n
    <3>1. Replaced(s, j)
      BY <2>1, <2>3 DEF Replaced, HasStatus
    <3>2. mem[s][j].version \in Nat /\ row.version \in Nat
      BY <2>1, <1>2 DEF IInv, TypeOK, Queue, Row, HasStatus
    <3> QED BY <2>1, <2>2, <2>3, <3>1, <3>2, <1>4, <1>6
  <2>4. CASE m # n
    BY <2>1, <2>2, <2>4, <1>4
  <2> QED BY <2>3, <2>4
<1>10. \A q \in Copies' : Drawn(q)' /\ SuccessionIn(q)'
  <2> SUFFICES ASSUME NEW q \in Copies' PROVE Drawn(q)' /\ SuccessionIn(q)'
    OBVIOUS
  <2>1. CASE q = mem'[s]
    BY <2>1, <1>3, <1>8, <1>9 DEF Drawn, SuccessionIn, HasStatus
  <2>2. CASE q \in Copies
    <3>1. Drawn(q) /\ SuccessionIn(q)
      BY <2>2 DEF SInv
    <3> QED BY <3>1, <1>3 DEF Drawn, SuccessionIn, HasStatus
  <2> QED BY <2>1, <2>2, <1>5
<1>11. SameIdSameProposal'
  <2> SUFFICES ASSUME NEW q \in Copies', NEW r \in Copies', NEW j \in Id,
                      q[j] # NoRow, r[j] # NoRow
               PROVE  Key(q[j]) = Key(r[j])
    BY DEF SameIdSameProposal
  <2>1. CASE j = n
    BY <2>1, <1>5, <1>6
  <2>2. CASE j # n
    <3>1. \E p \in Copies : p[j] = q[j]
      BY <2>2, <1>4, <1>5
    <3>2. \E p \in Copies : p[j] = r[j]
      BY <2>2, <1>4, <1>5
    <3> QED BY <3>1, <3>2 DEF SInv, SameIdSameProposal
  <2> QED BY <2>1, <2>2
<1>12. Promised(s)'
  BY <1>3 DEF Promised
<1>13. ASSUME NEW t \in Session \ {s}, pc[t] = "supersede" PROVE Promised(t)'
  <2>1. Promised(t) /\ job[t].new \in Id /\ job[t].new # n
    BY <1>1, <1>13 DEF SInv, IInv, JobInv, Promised
  <2>2. \A q \in Copies' : q[job'[t].new] = NoRow
    BY <2>1, <1>3, <1>4, <1>5, <1>13 DEF Promised
  <2>3. \A j \in Id : Replaced(t, j)' = Replaced(t, j)
    BY <1>3 DEF Replaced
  <2> QED BY <2>1, <2>2, <2>3, <1>3, <1>13 DEF Promised
<1>14. \A t \in Session \ {s} : Promised(t)'
  BY <1>3, <1>13 DEF Promised
<1> QED BY <1>10, <1>11, <1>12, <1>14 DEF SInv

-----------------------------------------------------------------------------
LEMMA NextSInv == IInv /\ SInv /\ [Next]_vars /\ IInv' => SInv'
<1> SUFFICES ASSUME IInv, SInv, [Next]_vars, IInv' PROVE SInv'
  OBVIOUS
<1>1. ASSUME NEW s \in Session, SessionStep(s) PROVE SInv'
  <2>1. CASE Write(s)
    BY <2>1, WriteSInv
  <2>2. CASE Start(s)
    BY <2>2, StartSInv
  <2>3. CASE Crash(s)
    BY <2>3, CrashSInv
  <2>4. CASE \E p \in {"view", "pipeline"} : LoadListings(s, p)
    BY <2>4, QuietSInv DEF LoadListings, Goto, IInv, TypeOK
  <2>5. CASE \E i \in Id : FlagOne(s, i)
    BY <2>5, FlagOneSInv
  <2>6. CASE FlagDone(s)
    BY <2>6, QuietSInv DEF FlagDone, Goto, IInv, TypeOK
  <2>7. CASE \E l \in Listing, a \in Action : Propose(s, l, a)
    BY <2>7, ProposeSInv
  <2>8. CASE \E i \in Id : SupersedeOne(s, i)
    BY <2>8, SupersedeOneSInv
  <2>9. CASE InsertNew(s)
    BY <2>9, InsertNewSInv
  <2>10. CASE \E allowed, compliant \in BOOLEAN : ApplyPolicy(s, allowed, compliant)
    BY <2>10, ApplyPolicySInv
  <2>11. CASE PipelineEnd(s)
    BY <2>11, QuietSInv DEF PipelineEnd, Goto, IInv, TypeOK
  <2>12. CASE \E i \in Id : Acknowledge(s, i)
    BY <2>12, AcknowledgeSInv
  <2>13. CASE \E i \in Id, actor \in Actor, dry \in DryRunArg : Decide(s, i, actor, dry)
    BY <2>13, TransitionSInv DEF Decide
  <2>14. CASE \E i \in Id, actor \in Actor : Settle(s, i, actor)
    BY <2>14, TransitionSInv DEF Settle, DryRunArg
  <2> QED BY <1>1, <2>1, <2>2, <2>3, <2>4, <2>5, <2>6, <2>7, <2>8, <2>9, <2>10,
             <2>11, <2>12, <2>13, <2>14 DEF SessionStep
<1>2. CASE \E l \in Listing, f \in Fingerprint : SellerEdit(l, f)
  BY <1>2, QuietSInv DEF SellerEdit
<1>3. CASE UNCHANGED vars
  BY <1>3, QuietSInv DEF vars
<1> QED BY <1>1, <1>2, <1>3 DEF Next

LEMMA SuccessionInvariant == Spec => []SInv
<1>1. IInv /\ SInv /\ [Next]_vars /\ IInv' => SInv'
  BY NextSInv
<1> QED BY <1>1, InitSInv, Invariant, PTL DEF Spec

-----------------------------------------------------------------------------
(* Policy comes before approval, unless the row could be read before it.   *)

Live(q, i) == q[i] # NoRow /\ q[i].status \in {"pending"} \cup Sanctioned

\* The session has drawn an id and has not stored policy's verdict in its row.
Enqueues(s) == pc[s] \in {"supersede", "policy"}

\* Ids that wait for a verdict are drawn and have one session each, which alone
\* holds the row while there is none; the file does not show a blocked row as
\* live, and shows an approved one only when it is open.
VInv ==
  /\ \A i \in Id : verdict[i] # "none" => i \in used
  /\ \A s \in Session : Enqueues(s) =>
       /\ job[s].new \in used
       /\ \A t \in Session \ {s} : Enqueues(t) => job[t].new # job[s].new
  /\ \A s \in Session : pc[s] = "supersede" => verdict[job[s].new] = "none"
  /\ \A s \in Session, i \in Id : Live(mem[s], i) =>
       \/ verdict[i] = "open"
       \/ verdict[i] = "none" /\ pc[s] = "policy" /\ job[s].new = i
  /\ \A i \in Id : Live(file, i) /\ fileState = "whole" => verdict[i] # "blocked"
  /\ \A i \in Id : Live(file, i) /\ file[i].status # "pending" => verdict[i] = "open"

LEMMA InitVInv == Init => VInv
BY DEF Init, VInv, Enqueues, Live, EmptyQueue

\* A step that leaves the file, the ids and the verdicts alone, begins no
\* enqueue, and brings no live row into a memory.
LEMMA CalmVInv ==
  ASSUME IInv, VInv, UNCHANGED <<file, used, verdict>>,
         fileState' = "whole" => fileState = "whole",
         \A t \in Session : pc'[t] \in {"supersede", "policy"} =>
           pc'[t] = pc[t] /\ job'[t].new = job[t].new,
         \A t \in Session, i \in Id : Live(mem'[t], i) =>
           /\ Live(mem[t], i)
           /\ pc[t] = "policy" => pc'[t] = "policy"
  PROVE  VInv'
<1>1. \A t \in Session : Enqueues(t)' => Enqueues(t) /\ job'[t].new = job[t].new
  BY DEF Enqueues
<1>2. \A t \in Session : Enqueues(t)' =>
        /\ job'[t].new \in used'
        /\ \A u \in Session \ {t} : Enqueues(u)' => job'[u].new # job'[t].new
  BY <1>1 DEF VInv
<1>3. \A t \in Session : pc'[t] = "supersede" => verdict'[job'[t].new] = "none"
  BY DEF VInv
<1>4. ASSUME NEW t \in Session, NEW i \in Id, Live(mem'[t], i)
      PROVE  \/ verdict'[i] = "open"
             \/ verdict'[i] = "none" /\ pc'[t] = "policy" /\ job'[t].new = i
  BY <1>4 DEF VInv
<1>5. /\ \A i \in Id : verdict'[i] # "none" => i \in used'
      /\ \A i \in Id : Live(file', i) /\ fileState' = "whole" => verdict'[i] # "blocked"
      /\ \A i \in Id : Live(file', i) /\ file'[i].status # "pending" => verdict'[i] = "open"
  BY DEF VInv
<1> QED BY <1>2, <1>3, <1>4, <1>5 DEF VInv, Live

\* A call outside an enqueue that changes no row, or one that was live.
LEMMA RowSavedVInv ==
  ASSUME IInv, VInv, NEW s \in Session, NEW i \in Id, Live(mem[s], i), NEW row,
         SaveRow(s, i, row), pc[s] # "policy", UNCHANGED <<file, pc, used, verdict>>,
         \A t \in Session : job'[t].new = job[t].new
  PROVE  VInv'
<1>1. /\ \A j \in Id \ {i} : mem'[s][j] = mem[s][j]
      /\ \A t \in Session \ {s} : mem'[t] = mem[t]
      /\ fileState' = "empty"
  BY DEF SaveRow, Save, IInv, TypeOK, Queue
<1>2. \A t \in Session, j \in Id : Live(mem'[t], j) => Live(mem[t], j)
  BY <1>1 DEF Live
<1> QED BY <1>1, <1>2, CalmVInv

LEMMA WriteVInv == ASSUME IInv, VInv, NEW s \in Session, Write(s) PROVE VInv'
<1>1. UNCHANGED <<mem, pc, job, used, verdict>>
  BY DEF Write
<1>2. \/ file' = mem[s]
      \/ file' = file /\ fileState' # "whole"
  BY DEF Write
<1>3. ASSUME NEW i \in Id, Live(mem[s], i)
      PROVE  /\ verdict[i] # "blocked"
             /\ mem[s][i].status # "pending" => verdict[i] = "open"
  <2>1. \/ verdict[i] = "open"
        \/ verdict[i] = "none" /\ pc[s] = "policy" /\ job[s].new = i
    BY <1>3 DEF VInv
  <2>2. pc[s] = "policy" /\ job[s].new = i => mem[s][i].status = "pending"
    BY DEF IInv, JobInv, HasStatus
  <2> QED BY <2>1, <2>2
<1>4. /\ \A i \in Id : Live(file', i) /\ fileState' = "whole" => verdict'[i] # "blocked"
      /\ \A i \in Id : Live(file', i) /\ file'[i].status # "pending" => verdict'[i] = "open"
  BY <1>1, <1>2, <1>3 DEF VInv, Live
<1> QED BY <1>1, <1>4 DEF VInv, Enqueues, Live

LEMMA StartVInv == ASSUME IInv, SInv, VInv, NEW s \in Session, Start(s) PROVE VInv'
<1>1. /\ pc'[s] = "idle" /\ \A t \in Session \ {s} : pc'[t] = pc[t] /\ mem'[t] = mem[t]
      /\ UNCHANGED <<file, fileState, job, used>>
  BY DEF Start, Goto, IInv, TypeOK
<1>2. \/ fileState = "whole" /\ mem'[s] = file
      \/ mem'[s] = EmptyQueue
  BY DEF Start, IInv, TypeOK
<1>3. \A i \in Id :
        /\ mem'[s][i] # NoRow /\ verdict[i] = "none" => verdict'[i] = "open"
        /\ mem'[s][i] = NoRow \/ verdict[i] # "none" => verdict'[i] = verdict[i]
  BY DEF Start
<1>4. \A i \in Id : mem'[s][i] # NoRow => mem'[s] = file /\ fileState = "whole"
  BY <1>2 DEF EmptyQueue
<1>5. file \in Copies
  BY DEF Copies
<1>6. \A i \in Id : verdict'[i] # "none" => i \in used
  BY <1>3, <1>4, <1>5 DEF VInv, SInv, Drawn
<1>7. \A t \in Session : Enqueues(t)' => Enqueues(t)
  BY <1>1 DEF Enqueues
<1>8. ASSUME NEW t \in Session, pc'[t] = "supersede" PROVE verdict'[job'[t].new] = "none"
  <2>1. pc[t] = "supersede" /\ job[t].new \in Id /\ file[job[t].new] = NoRow
    BY <1>1, <1>5, <1>8 DEF SInv, Promised, IInv, JobInv
  <2>2. verdict[job[t].new] = "none"
    BY <2>1 DEF VInv
  <2> QED BY <1>1, <1>3, <1>4, <2>1, <2>2
<1>9. ASSUME NEW t \in Session, NEW i \in Id, Live(mem'[t], i)
      PROVE  \/ verdict'[i] = "open"
             \/ verdict'[i] = "none" /\ pc'[t] = "policy" /\ job'[t].new = i
  <2>1. CASE t = s
    <3>1. Live(file, i) /\ fileState = "whole" /\ mem'[s][i] # NoRow
      BY <1>4, <1>9, <2>1 DEF Live
    <3>2. verdict[i] \in {"none", "open"}
      BY <3>1 DEF VInv, IInv, TypeOK, Verdict
    <3> QED BY <1>3, <3>1, <3>2
  <2>2. CASE t # s
    <3>1. \/ verdict[i] = "open"
          \/ verdict[i] = "none" /\ pc'[t] = "policy" /\ job'[t].new = i
      BY <1>1, <1>9, <2>2 DEF VInv
    <3> QED BY <1>3, <3>1
  <2> QED BY <2>1, <2>2
<1>10. \A i \in Id : /\ verdict[i] # "blocked" => verdict'[i] # "blocked"
                     /\ verdict[i] = "open" => verdict'[i] = "open"
  BY <1>3
<1>11. /\ \A i \in Id : Live(file', i) /\ fileState' = "whole" => verdict'[i] # "blocked"
       /\ \A i \in Id : Live(file', i) /\ file'[i].status # "pending" => verdict'[i] = "open"
  BY <1>1, <1>10 DEF VInv, Live
<1>12. \A t \in Session : Enqueues(t)' =>
         /\ job'[t].new \in used'
         /\ \A u \in Session \ {t} : Enqueues(u)' => job'[u].new # job'[t].new
  BY <1>1, <1>7 DEF VInv
<1> QED BY <1>1, <1>6, <1>8, <1>9, <1>11, <1>12 DEF VInv, Live

LEMMA CrashVInv == ASSUME IInv, VInv, NEW s \in Session, Crash(s) PROVE VInv'
<1>1. /\ pc'[s] = "down" /\ mem'[s] = EmptyQueue
      /\ \A t \in Session \ {s} : pc'[t] = pc[t] /\ mem'[t] = mem[t] /\ job'[t] = job[t]
      /\ UNCHANGED <<file, fileState, used, verdict>>
  BY DEF Crash, Goto, IInv, TypeOK
<1>2. \A i \in Id : ~Live(mem'[s], i)
  BY <1>1 DEF Live, EmptyQueue
<1>3. \A t \in Session, i \in Id : Live(mem'[t], i) =>
        Live(mem[t], i) /\ (pc[t] = "policy" => pc'[t] = "policy")
  BY <1>1, <1>2 DEF Live
<1>4. \A t \in Session : pc'[t] \in {"supersede", "policy"} =>
        pc'[t] = pc[t] /\ job'[t].new = job[t].new
  BY <1>1
<1> QED BY <1>1, <1>3, <1>4, CalmVInv

LEMMA ProposeVInv ==
  ASSUME IInv, VInv, NEW s \in Session, NEW l \in Listing, NEW a \in Action, Propose(s, l, a)
  PROVE  VInv'
<1>1. FreshId \in Id /\ FreshId \notin used
  BY DEF Propose, FreshId, IInv, TypeOK
<1>2. /\ pc[s] = "pipeline" /\ pc'[s] = "supersede" /\ job'[s].new = FreshId
      /\ \A t \in Session \ {s} : pc'[t] = pc[t] /\ job'[t] = job[t]
      /\ UNCHANGED <<file, fileState, mem, verdict>> /\ used' = used \cup {FreshId}
  BY DEF Propose, At, Goto, IInv, TypeOK, Job
<1>3. verdict[FreshId] = "none"
  BY <1>1 DEF VInv
<1>4. \A t \in Session : Enqueues(t)' =>
        /\ job'[t].new \in used'
        /\ \A u \in Session \ {t} : Enqueues(u)' => job'[u].new # job'[t].new
  BY <1>1, <1>2 DEF VInv, Enqueues
<1>5. ASSUME NEW t \in Session, NEW i \in Id, Live(mem'[t], i)
      PROVE  \/ verdict'[i] = "open"
             \/ verdict'[i] = "none" /\ pc'[t] = "policy" /\ job'[t].new = i
  BY <1>2, <1>5 DEF VInv
<1> QED BY <1>2, <1>3, <1>4, <1>5 DEF VInv, Live

LEMMA InsertNewVInv == ASSUME IInv, VInv, NEW s \in Session, InsertNew(s) PROVE VInv'
<1>1. /\ pc[s] = "supersede" /\ pc'[s] = "policy" /\ job[s].new \in Id
      /\ \A t \in Session \ {s} : pc'[t] = pc[t] /\ mem'[t] = mem[t]
      /\ UNCHANGED <<file, job, used, verdict>> /\ fileState' = "empty"
  BY DEF InsertNew, At, SaveRow, Save, Goto, IInv, JobInv, TypeOK
<1>2. \A i \in Id \ {job[s].new} : mem'[s][i] = mem[s][i]
  BY <1>1 DEF InsertNew, SaveRow, Save, IInv, TypeOK, Queue
<1>3. verdict[job[s].new] = "none"
  BY <1>1 DEF VInv
<1>4. ASSUME NEW t \in Session, NEW i \in Id, Live(mem'[t], i)
      PROVE  \/ verdict'[i] = "open"
             \/ verdict'[i] = "none" /\ pc'[t] = "policy" /\ job'[t].new = i
  <2>1. CASE t = s /\ i = job[s].new
    BY <1>1, <1>3, <2>1
  <2>2. CASE t # s \/ i # job[s].new
    <3>1. Live(mem[t], i)
      BY <1>1, <1>2, <1>4, <2>2 DEF Live
    <3> QED BY <1>1, <2>2, <3>1 DEF VInv
  <2> QED BY <2>1, <2>2
<1>5. \A t \in Session : Enqueues(t)' <=> Enqueues(t)
  BY <1>1 DEF Enqueues
<1>6. \A t \in Session : Enqueues(t)' =>
        /\ job'[t].new \in used'
        /\ \A u \in Session \ {t} : Enqueues(u)' => job'[u].new # job'[t].new
  BY <1>1, <1>5 DEF VInv
<1>7. \A t \in Session : pc'[t] = "supersede" => verdict'[job'[t].new] = "none"
  BY <1>1 DEF VInv
<1> QED BY <1>1, <1>4, <1>6, <1>7 DEF VInv, Live

LEMMA ApplyPolicyVInv ==
  ASSUME IInv, VInv, NEW s \in Session, NEW allowed \in BOOLEAN, NEW compliant \in BOOLEAN,
         ApplyPolicy(s, allowed, compliant)
  PROVE  VInv'
<1> DEFINE n == job[s].new
           row == [mem[s][n] EXCEPT !.flagged = ~allowed, !.noncompliant = ~compliant]
           rejected == RejectedRow(row, DefaultActor)
<1>1. pc[s] = "policy" /\ n \in Id /\ HasStatus(mem[s], n, "pending") /\ mem[s][n] \in Row
  BY PendingRowInv DEF ApplyPolicy, At, IInv, JobInv
<1>2. rejected.status = "rejected"
  <2>1. row \in Row
    BY <1>1, ZenonT(30) DEF Row
  <2> HIDE DEF row
  <2> QED BY <2>1 DEF RejectedRow, Row
<1>3. \/ SaveRow(s, n, row) /\ Judge(n, "open")
      \/ SaveRow(s, n, rejected) /\ Judge(n, "blocked")
      \/ UNCHANGED <<fileState, mem>> /\ Judge(n, "open")
  BY DEF ApplyPolicy
<1>4. /\ UNCHANGED <<file, used>> /\ pc'[s] \in {"pipeline", "idle"}
      /\ \A t \in Session \ {s} : pc'[t] = pc[t] /\ job'[t] = job[t]
  BY DEF ApplyPolicy, Goto, IInv, TypeOK
<1> HIDE DEF row, rejected
<1>5. n \in used /\ verdict[n] \in {"none", "open"} /\ Live(mem[s], n)
  BY <1>1 DEF VInv, Enqueues, Live, HasStatus
<1>6. verdict'[n] \in {"open", "blocked"} /\ \A i \in Id \ {n} : verdict'[i] = verdict[i]
  BY <1>3, <1>5 DEF Judge, IInv, TypeOK
<1>7. \A i \in Id : verdict[i] = "open" => verdict'[i] = "open"
  BY <1>3, <1>6 DEF Judge, IInv, TypeOK
<1>8. /\ \A i \in Id \ {n} : mem'[s][i] = mem[s][i]
      /\ \A t \in Session \ {s} : mem'[t] = mem[t]
      /\ fileState' \in {fileState, "empty"}
  BY <1>3 DEF SaveRow, Save, IInv, TypeOK, Queue
<1>9. verdict'[n] = "blocked" => mem'[s][n].status = "rejected" /\ fileState' = "empty"
  BY <1>1, <1>2, <1>3, <1>5 DEF SaveRow, Save, Judge, IInv, TypeOK, Queue
<1>10. ASSUME NEW t \in Session, NEW i \in Id, Live(mem'[t], i)
       PROVE  \/ verdict'[i] = "open"
              \/ verdict'[i] = "none" /\ pc'[t] = "policy" /\ job'[t].new = i
  <2>1. CASE t = s /\ i = n
    BY <1>6, <1>9, <1>10, <2>1 DEF Live, Sanctioned
  <2>2. CASE t = s /\ i # n
    BY <1>7, <1>8, <1>10, <2>2 DEF VInv, Live
  <2>3. CASE t # s
    <3>1. \/ verdict[i] = "open"
          \/ verdict[i] = "none" /\ pc[t] = "policy" /\ job[t].new = i
      BY <1>8, <1>10, <2>3 DEF VInv
    <3>2. pc[t] = "policy" /\ job[t].new = i => i # n
      BY <1>1, <2>3 DEF VInv, Enqueues
    <3> QED BY <1>4, <1>6, <1>7, <2>3, <3>1, <3>2
  <2> QED BY <2>1, <2>2, <2>3
<1>11. \A t \in Session : Enqueues(t)' => t # s /\ Enqueues(t)
  BY <1>4 DEF Enqueues
<1>12. \A t \in Session : Enqueues(t)' =>
         /\ job'[t].new \in used'
         /\ \A u \in Session \ {t} : Enqueues(u)' => job'[u].new # job'[t].new
  BY <1>4, <1>11 DEF VInv
<1>13. ASSUME NEW t \in Session, pc'[t] = "supersede" PROVE verdict'[job'[t].new] = "none"
  <2>1. t # s /\ pc[t] = "supersede" /\ job'[t] = job[t] /\ job[t].new \in Id
    BY <1>4, <1>13 DEF IInv, JobInv
  <2>2. job[t].new # n /\ verdict[job[t].new] = "none"
    BY <1>1, <2>1 DEF VInv, Enqueues
  <2> QED BY <1>6, <2>1, <2>2
<1>14. /\ \A i \in Id : verdict'[i] # "none" => i \in used'
       /\ \A i \in Id : Live(file', i) /\ fileState' = "whole" => verdict'[i] # "blocked"
       /\ \A i \in Id : Live(file', i) /\ file'[i].status # "pending" => verdict'[i] = "open"
  BY <1>4, <1>5, <1>6, <1>7, <1>8, <1>9 DEF VInv, Live
<1> QED BY <1>10, <1>12, <1>13, <1>14 DEF VInv, Live

LEMMA TransitionVInv ==
  ASSUME IInv, VInv, NEW s \in Session, NEW i \in Id, NEW target, NEW actor, NEW dry,
         Transition(s, i, target, actor, dry)
  PROVE  VInv'
<1>1. /\ pc[s] = "idle" /\ Live(mem[s], i)
      /\ SaveRow(s, i, Transitioned(mem[s][i], target, actor, dry))
      /\ UNCHANGED <<file, pc, used, verdict, job>>
  BY DEF Transition, At, MayTransition, AllowedEdges, Live, Sanctioned
<1> QED BY <1>1, RowSavedVInv

LEMMA SaveVInv ==
  ASSUME IInv, VInv, NEW s \in Session, NEW i \in Id,
         FlagOne(s, i) \/ SupersedeOne(s, i) \/ Acknowledge(s, i)
  PROVE  VInv'
<1>1. pc[s] # "policy" /\ Live(mem[s], i)
  BY DEF FlagOne, SupersedeOne, Acknowledge, At, IInv, JobInv, Live, HasStatus
<1>2. \E row : SaveRow(s, i, row)
  BY DEF FlagOne, SupersedeOne, Acknowledge
<1>3. UNCHANGED <<file, pc, used, verdict>>
  BY DEF FlagOne, SupersedeOne, Acknowledge
<1>4. job' \in {job, [job EXCEPT ![s].todo = @ \ {i}]}
  BY DEF FlagOne, SupersedeOne, Acknowledge
<1>5. job \in [Session -> Job]
  BY DEF IInv, TypeOK
<1>6. \A t \in Session : job'[t].new = job[t].new
  BY <1>4, <1>5 DEF Job
<1> QED BY <1>1, <1>2, <1>3, <1>6, RowSavedVInv

LEMMA NextVInv == IInv /\ SInv /\ VInv /\ [Next]_vars => VInv'
<1> SUFFICES ASSUME IInv, SInv, VInv, [Next]_vars PROVE VInv'
  OBVIOUS
<1>1. ASSUME NEW s \in Session,
             \/ FlagDone(s) \/ PipelineEnd(s)
             \/ \E p \in {"view", "pipeline"} : LoadListings(s, p)
      PROVE  VInv'
  <2>1. /\ UNCHANGED <<file, fileState, mem, used, verdict>>
        /\ pc[s] # "policy" /\ pc'[s] \notin {"supersede", "policy"}
        /\ \A t \in Session \ {s} : pc'[t] = pc[t] /\ job'[t] = job[t]
    BY <1>1 DEF FlagDone, PipelineEnd, LoadListings, At, Goto, IInv, TypeOK
  <2> QED BY <2>1, CalmVInv
<1>2. ASSUME NEW s \in Session,
             \/ \E i \in Id, actor \in Actor, dry \in DryRunArg : Decide(s, i, actor, dry)
             \/ \E i \in Id, actor \in Actor : Settle(s, i, actor)
      PROVE  VInv'
  BY <1>2, TransitionVInv DEF Decide, Settle
<1>3. ASSUME NEW s \in Session, \E allowed, compliant \in BOOLEAN : ApplyPolicy(s, allowed, compliant)
      PROVE  VInv'
  BY <1>3, ApplyPolicyVInv
<1>4. ASSUME NEW s \in Session, SessionStep(s) PROVE VInv'
  BY <1>1, <1>2, <1>3, <1>4, WriteVInv, StartVInv, CrashVInv, ProposeVInv, InsertNewVInv,
     SaveVInv, Zenon DEF SessionStep
<1>5. ASSUME (\E l \in Listing, f \in Fingerprint : SellerEdit(l, f)) \/ UNCHANGED vars
      PROVE  VInv'
  <2>1. UNCHANGED <<file, fileState, mem, pc, job, used, verdict>>
    BY <1>5 DEF SellerEdit, vars
  <2> QED BY <2>1, CalmVInv
<1> QED BY <1>4, <1>5 DEF Next

(* However sessions interleave and end, a row that was approved in any     *)
(* copy is one that policy passed, or one that could be read before the    *)
(* verdict of policy was stored in it.                                     *)
THEOREM JudgedCorrect == Spec => []JudgedBeforeApproval
<1>1. IInv /\ VInv => JudgedBeforeApproval
  <2> SUFFICES ASSUME IInv, VInv, NEW q \in Copies, NEW i \in Id,
                      q[i] # NoRow, q[i].status \in Sanctioned
               PROVE  verdict[i] = "open"
    BY DEF JudgedBeforeApproval
  <2>1. Live(q, i) /\ q[i].status # "pending"
    BY DEF Live, Sanctioned
  <2>2. CASE q = file
    BY <2>1, <2>2 DEF VInv
  <2>3. ASSUME NEW s \in Session, q = mem[s] PROVE verdict[i] = "open"
    <3>1. pc[s] = "policy" /\ job[s].new = i => mem[s][i].status = "pending"
      BY DEF IInv, JobInv, HasStatus
    <3> QED BY <2>1, <2>3, <3>1 DEF VInv
  <2> QED BY <2>2, <2>3 DEF Copies
<1> QED BY <1>1, InitVInv, NextVInv, Invariant, SuccessionInvariant, PTL DEF Spec

-----------------------------------------------------------------------------
(* In every copy of the queue a superseded row names an id as the row that *)
(* replaced it.  Where the copy holds that row it proposes the same change *)
(* in a later version, whichever session died in the middle of a           *)
(* replacement; that the copy holds it is not claimed.                     *)
THEOREM SuccessionCorrect == Spec => []SupersededByLaterVersion
<1>1. SInv => SupersededByLaterVersion
  BY DEF SInv, SupersededByLaterVersion
<1> QED BY <1>1, SuccessionInvariant, PTL

(* However far the copies have diverged, an id is the same proposal, of    *)
(* the same revision, in all of them: all sessions compute one apply key.  *)
THEOREM IdentityCorrect == Spec => []SameIdSameProposal
<1>1. SInv => SameIdSameProposal
  BY DEF SInv
<1> QED BY <1>1, SuccessionInvariant, PTL

-----------------------------------------------------------------------------
(* What a step may never do to the rows in memory.                         *)

\* The memory of every session that goes on moves along the edges.
Moves ==
  \A s \in Session, i \in Id :
    pc[s] # "down" /\ pc'[s] # "down" => RowMoves(mem[s], mem'[s], i)

LEMMA QuietMoves == ASSUME mem' = mem PROVE Moves
BY DEF Moves, RowMoves

\* A save of a row that was not settled, along an edge or in its status.
LEMMA SaveRowMoves ==
  ASSUME IInv, NEW s \in Session, NEW i \in Id, NEW row \in Row, SaveRow(s, i, row),
         mem[s][i] # NoRow =>
           /\ mem[s][i].status \notin Terminal
           /\ row.status # mem[s][i].status => <<mem[s][i].status, row.status>> \in AllowedEdges
  PROVE  Moves
<1>1. /\ \A t \in Session \ {s} : mem'[t] = mem[t]
      /\ mem'[s][i] = row /\ \A j \in Id \ {i} : mem'[s][j] = mem[s][j]
  BY DEF SaveRow, Save, IInv, TypeOK, Queue
<1> QED BY <1>1, NoRowOK DEF Moves, RowMoves

LEMMA EdgesLeaveOpenRows ==
  ASSUME NEW a, NEW b, <<a, b>> \in AllowedEdges PROVE a \notin Terminal
BY DEF AllowedEdges, Terminal

LEMMA StepMoves ==
  ASSUME IInv, SInv, NEW s \in Session, SessionStep(s) PROVE Moves
<1>1. ASSUME NEW i \in Id, FlagOne(s, i) PROVE Moves
  <2> DEFINE row == [mem[s][i] EXCEPT !.stale = TRUE]
  <2>1. HasStatus(mem[s], i, "pending") /\ mem[s][i] \in Row
    BY <1>1, PendingRowInv DEF FlagOne, At, IInv, JobInv
  <2>2. row \in Row /\ row.status = mem[s][i].status /\ SaveRow(s, i, row)
    BY <1>1, <2>1 DEF Row, FlagOne
  <2> HIDE DEF row
  <2> QED BY <2>1, <2>2, SaveRowMoves DEF HasStatus, Terminal
<1>2. ASSUME NEW i \in Id, SupersedeOne(s, i) PROVE Moves
  <2> DEFINE row == [mem[s][i] EXCEPT !.status = "superseded", !.superseded_by = job[s].new]
  <2>1. HasStatus(mem[s], i, "pending") /\ mem[s][i] \in Row /\ job[s].new \in Id
    BY <1>2, PendingRowInv DEF SupersedeOne, At, IInv, JobInv
  <2>2. row \in Row /\ row.status = "superseded" /\ SaveRow(s, i, row)
    BY <1>2, <2>1 DEF Row, Status, SupersedeOne
  <2> HIDE DEF row
  <2> QED BY <2>1, <2>2, SaveRowMoves DEF HasStatus, Terminal, AllowedEdges
<1>3. CASE InsertNew(s)
  <2> DEFINE n == job[s].new
             row == NewRow(job[s].listing, job[s].action, loaded[s][job[s].listing],
                           job[s].version)
  <2>1. /\ n \in Id /\ job[s] \in Job /\ loaded[s][job[s].listing] \in Fingerprint
        /\ mem[s][n] = NoRow
    BY <1>3 DEF InsertNew, At, IInv, TypeOK, JobInv, SInv, Promised, Copies
  <2>2. row \in Row /\ SaveRow(s, n, row)
    BY <1>3, <2>1, NewRowType DEF Job, InsertNew
  <2> HIDE DEF row, n
  <2> QED BY <2>1, <2>2, SaveRowMoves
<1>4. ASSUME NEW allowed \in BOOLEAN, NEW compliant \in BOOLEAN,
             ApplyPolicy(s, allowed, compliant)
      PROVE  Moves
  <2> DEFINE n == job[s].new
             row == [mem[s][n] EXCEPT !.flagged = ~allowed, !.noncompliant = ~compliant]
             rejected == RejectedRow(row, DefaultActor)
  <2>1. n \in Id /\ HasStatus(mem[s], n, "pending") /\ mem[s][n] \in Row
    BY <1>4, PendingRowInv DEF ApplyPolicy, At, IInv, JobInv
  <2>2. row \in Row /\ row.status = "pending"
    BY <2>1 DEF Row, HasStatus
  <2>3. SaveRow(s, n, row) \/ SaveRow(s, n, rejected) \/ UNCHANGED mem
    BY <1>4 DEF ApplyPolicy
  <2> HIDE DEF row
  <2>4. rejected \in Row /\ rejected.status = "rejected"
    BY <2>2, SessionConstantsOK DEF Row, Status, RejectedRow
  <2> HIDE DEF n, rejected
  <2> QED BY <2>1, <2>2, <2>3, <2>4, SaveRowMoves, QuietMoves
          DEF HasStatus, Terminal, AllowedEdges
<1>5. ASSUME NEW i \in Id, Acknowledge(s, i) PROVE Moves
  <2> DEFINE row == [mem[s][i] EXCEPT !.dry_run = TRUE]
  <2>1. HasStatus(mem[s], i, "pending") /\ mem[s][i] \in Row
    BY <1>5, PendingRowInv DEF Acknowledge
  <2>2. row \in Row /\ row.status = mem[s][i].status /\ SaveRow(s, i, row)
    BY <1>5, <2>1 DEF Row, Acknowledge
  <2> HIDE DEF row
  <2> QED BY <2>1, <2>2, SaveRowMoves DEF HasStatus, Terminal
<1>6. ASSUME NEW i \in Id, NEW target \in Status, NEW actor \in Actor, NEW dry \in DryRunArg,
             Transition(s, i, target, actor, dry)
      PROVE  Moves
  <2> DEFINE row == Transitioned(mem[s][i], target, actor, dry)
  <2>1. mem[s][i] \in Row /\ <<mem[s][i].status, target>> \in AllowedEdges
    BY <1>6 DEF Transition, MayTransition, IInv, TypeOK, Queue
  <2>2. row \in Row
    BY <2>1, TransitionedType
  <2>3. row.status = target
    BY <2>1 DEF Row, Transitioned, ApprovedRow, RejectedRow
  <2>4. SaveRow(s, i, row)
    BY <1>6 DEF Transition
  <2> HIDE DEF row
  <2> QED BY <2>1, <2>2, <2>3, <2>4, EdgesLeaveOpenRows, SaveRowMoves
<1>7. CASE Start(s) \/ Crash(s)
  BY <1>7 DEF Start, Crash, Goto, Moves, RowMoves, IInv, TypeOK
<1>8. ASSUME \/ Write(s) \/ FlagDone(s) \/ PipelineEnd(s)
             \/ \E p \in {"view", "pipeline"} : LoadListings(s, p)
             \/ \E l \in Listing, a \in Action : Propose(s, l, a)
      PROVE  Moves
  BY <1>8, QuietMoves DEF Write, FlagDone, PipelineEnd, LoadListings, Propose
<1>9. ASSUME \/ \E i \in Id, actor \in Actor, dry \in DryRunArg : Decide(s, i, actor, dry)
             \/ \E i \in Id, actor \in Actor : Settle(s, i, actor)
      PROVE  Moves
  BY <1>6, <1>9 DEF Decide, Settle, Status, DryRunArg
<1> QED BY <1>1, <1>2, <1>3, <1>4, <1>5, <1>7, <1>8, <1>9 DEF SessionStep

(* While a session runs, no row of its memory disappears, a status moves   *)
(* only along an edge of the state machine, and a settled row stays as it  *)
(* is, whatever the loops of an enqueue or an ingest are in the middle of. *)
THEOREM EdgesCorrect == Spec => MemoryFollowsEdges
<1>1. IInv /\ SInv /\ [Next]_vars => [Moves]_vars
  <2> SUFFICES ASSUME IInv, SInv, Next PROVE Moves
    OBVIOUS
  <2> QED BY StepMoves, QuietMoves DEF Next, SellerEdit
<1>2. MemoryFollowsEdges <=> [][Moves]_vars
  BY DEF MemoryFollowsEdges, Moves
<1> QED BY <1>1, <1>2, Invariant, SuccessionInvariant, PTL DEF Spec

-----------------------------------------------------------------------------
(* One session: what it holds between calls is saved, and the file is a    *)
(* book that QueueLifecycle would keep.                                    *)

\* Nothing but a save that goes on keeps the file behind the memory; a process
\* that ended in one has left an empty file.
Saved(s) ==
  Session = {s} =>
    /\ pc[s] = "down" => ~writing[s]
    /\ writing[s] => fileState = "empty"
    /\ pc[s] # "down" /\ ~writing[s] /\ fileState = "whole" => mem[s] = file

LEMMA SavedStep ==
  ASSUME IInv, NEW s \in Session, Saved(s), [Next]_vars PROVE Saved(s)'
<1> SUFFICES ASSUME Session = {s} PROVE Saved(s)'
  BY DEF Saved
<1>1. /\ pc[s] = "down" => ~writing[s]
      /\ writing[s] => fileState = "empty"
      /\ pc[s] # "down" /\ ~writing[s] /\ fileState = "whole" => mem[s] = file
  BY DEF Saved
<1>2. ASSUME NEW i \in Id, NEW row, SaveRow(s, i, row), pc'[s] # "down" PROVE Saved(s)'
  <2>1. writing'[s] = TRUE /\ fileState' = "empty"
    BY <1>2 DEF SaveRow, Save, IInv, TypeOK
  <2> QED BY <1>2, <2>1 DEF Saved
<1>3. ASSUME UNCHANGED <<file, fileState, mem, writing>>, (pc'[s] = "down") = (pc[s] = "down")
      PROVE  Saved(s)'
  BY <1>1, <1>3 DEF Saved
<1>4. CASE Write(s)
  BY <1>1, <1>4 DEF Write, Saved, IInv, TypeOK
<1>5. CASE Start(s)
  BY <1>1, <1>5 DEF Start, Goto, Saved, IInv, TypeOK
<1>6. CASE Crash(s)
  <2>1. pc'[s] = "down" /\ ~writing'[s]
    BY <1>6 DEF Crash, Goto, IInv, TypeOK
  <2> QED BY <2>1 DEF Saved
<1>7. ASSUME NEW i \in Id, FlagOne(s, i) \/ SupersedeOne(s, i) \/ Acknowledge(s, i)
      PROVE  Saved(s)'
  <2>1. pc'[s] # "down" /\ \E row : SaveRow(s, i, row)
    BY <1>7 DEF FlagOne, SupersedeOne, Acknowledge, At
  <2> QED BY <1>2, <2>1
<1>8. CASE InsertNew(s)
  <2>1. pc'[s] # "down" /\ job[s].new \in Id /\ \E row : SaveRow(s, job[s].new, row)
    BY <1>8 DEF InsertNew, Goto, At, IInv, TypeOK, JobInv
  <2> QED BY <1>2, <2>1
<1>9. ASSUME NEW allowed \in BOOLEAN, NEW compliant \in BOOLEAN,
             ApplyPolicy(s, allowed, compliant)
      PROVE  Saved(s)'
  <2>1. pc[s] # "down" /\ pc'[s] # "down" /\ job[s].new \in Id /\ file' = file
    BY <1>9 DEF ApplyPolicy, Goto, At, IInv, TypeOK, JobInv
  <2>2. (\E row : SaveRow(s, job[s].new, row)) \/ UNCHANGED <<fileState, mem, writing>>
    BY <1>9 DEF ApplyPolicy
  <2> QED BY <1>2, <1>3, <2>1, <2>2
<1>10. ASSUME \/ \E i \in Id, actor \in Actor, dry \in DryRunArg : Decide(s, i, actor, dry)
              \/ \E i \in Id, actor \in Actor : Settle(s, i, actor)
       PROVE  Saved(s)'
  <2>1. pc'[s] # "down" /\ \E i \in Id : \E row : SaveRow(s, i, row)
    BY <1>10 DEF Decide, Settle, Transition, At
  <2> QED BY <1>2, <2>1
<1>11. ASSUME \/ FlagDone(s) \/ PipelineEnd(s)
              \/ \E p \in {"view", "pipeline"} : LoadListings(s, p)
              \/ \E l \in Listing, a \in Action : Propose(s, l, a)
       PROVE  Saved(s)'
  <2>1. UNCHANGED <<file, fileState, mem, writing>>
    BY <1>11 DEF FlagDone, PipelineEnd, LoadListings, Propose
  <2>2. pc[s] # "down" /\ pc'[s] # "down"
    BY <1>11 DEF FlagDone, PipelineEnd, LoadListings, Propose, Goto, At, IInv, TypeOK
  <2> QED BY <1>3, <2>1, <2>2
<1>12. CASE (\E l \in Listing, f \in Fingerprint : SellerEdit(l, f)) \/ UNCHANGED vars
  BY <1>3, <1>12 DEF SellerEdit, vars
<1> QED BY <1>4, <1>5, <1>6, <1>7, <1>8, <1>9, <1>10, <1>11, <1>12 DEF Next, SessionStep

(* With one session no operation changes a row without saving it, wherever  *)
(* its process ended before.                                                *)
THEOREM RestCorrect == Spec => []RestIsSaved
<1> DEFINE AllSaved == \A s \in Session : Saved(s)
<1>1. Init => AllSaved
  BY DEF Init, Saved
<1>2. IInv /\ AllSaved /\ [Next]_vars => AllSaved'
  BY SavedStep
<1>3. AllSaved => RestIsSaved
  BY DEF Saved, RestIsSaved, At
<1> HIDE DEF AllSaved
<1> QED BY <1>1, <1>2, <1>3, Invariant, PTL DEF Spec

-----------------------------------------------------------------------------
(* What one save makes of one row is a step of the book, or none.          *)

SameTargetAs(row, old) == row.listing = old.listing /\ row.action = old.action

\* What may become of the row i of q.
Becomes(q, i, row) ==
  \/ q[i] # NoRow /\ Entry(row) = Entry(q[i])
  \/ /\ q[i] = NoRow /\ row.status = "pending" /\ row.dry_run = FALSE
     /\ \A j \in Id : HasStatus(q, j, "pending") => ~SameTargetAs(row, q[j])
  \/ /\ HasStatus(q, i, "pending") /\ SameTargetAs(row, q[i])
     /\ \/ row.status = "pending" /\ row.dry_run = TRUE
        \/ row.status = "approved" /\ (RequireDryRun => q[i].dry_run /\ row.dry_run = TRUE)
        \/ row.status = "rejected" /\ row.dry_run = FALSE
        \/ row.status = "superseded" /\ row.dry_run = q[i].dry_run
  \/ /\ HasStatus(q, i, "approved") /\ SameTargetAs(row, q[i])
     /\ row.status \in {"applied", "failed"} /\ row.dry_run = q[i].dry_run

\* The one session has saved all, or is about to save one row.
Booked(s) ==
  /\ fileState = "whole" <=> ~writing[s]
  /\ writing[s] => \E i \in Id, row \in Row :
       mem[s] = [file EXCEPT ![i] = row] /\ Becomes(file, i, row)

LEMMA BookIs ==
  ASSUME file \in Queue, NEW i \in Id
  PROVE  /\ Book[i] = IF file[i] = NoRow THEN [target |-> "none"] ELSE Entry(file[i])
         /\ file[i] # NoRow => /\ Book[i] # Lifecycle!Unused
                               /\ Book[i] = Entry(file[i])
                               /\ file[i] \in Row
<1>1. Book[i] = IF file[i] = NoRow THEN [target |-> "none"] ELSE Entry(file[i])
  BY DEF Book
<1>2. ASSUME NEW row PROVE Entry(row) # Lifecycle!Unused
  <2>1. "status" \in DOMAIN Entry(row)
    BY DEF Entry
  <2>2. "status" \notin DOMAIN Lifecycle!Unused
    BY DEF Lifecycle!Unused
  <2> QED BY <2>1, <2>2
<1> QED BY <1>1, <1>2 DEF Queue

LEMMA BecomesIsStep ==
  ASSUME file \in Queue, file' \in Queue, NEW i \in Id, NEW row \in Row,
         file' = [file EXCEPT ![i] = row], Becomes(file, i, row)
  PROVE  Lifecycle!Next \/ Book' = Book
<1>1. /\ file'[i] = row /\ row # NoRow
      /\ \A j \in Id \ {i} : file'[j] = file[j]
  BY NoRowOK DEF Queue
<1>2. Book' = [Book EXCEPT ![i] = Entry(row)]
  <2>1. Book' = [j \in Id |-> IF file'[j] = NoRow THEN [target |-> "none"] ELSE Entry(file'[j])]
    BY DEF Book
  <2>2. Book = [j \in Id |-> IF file[j] = NoRow THEN [target |-> "none"] ELSE Entry(file[j])]
    BY DEF Book
  <2> QED BY <1>1, <2>1, <2>2
<1>3. Entry(row) = [target |-> <<row.listing, row.action>>, status |-> row.status,
                    seen |-> row.dry_run]
  BY DEF Entry
<1>4. \A j \in Id, st \in Status : Lifecycle!Is(j, st) <=> HasStatus(file, j, st)
  <2> SUFFICES ASSUME NEW j \in Id, NEW st \in Status
               PROVE  Lifecycle!Is(j, st) <=> HasStatus(file, j, st)
    OBVIOUS
  <2>1. CASE file[j] = NoRow
    BY <2>1, BookIs DEF Lifecycle!Is, Lifecycle!Unused, HasStatus
  <2>2. CASE file[j] # NoRow
    <3>1. Book[j] # Lifecycle!Unused /\ Book[j] = Entry(file[j])
      BY <2>2, BookIs
    <3>2. Entry(file[j]).status = file[j].status
      BY DEF Entry
    <3> QED BY <2>2, <3>1, <3>2 DEF Lifecycle!Is, HasStatus
  <2> QED BY <2>1, <2>2
<1>5. CASE file[i] # NoRow /\ Entry(row) = Entry(file[i])
  <2>1. Book[i] = Entry(row)
    BY <1>5, BookIs
  <2>2. Book' = Book
    BY <1>2, <2>1 DEF Book
  <2> QED BY <2>2
<1>6. CASE /\ file[i] = NoRow /\ row.status = "pending" /\ row.dry_run = FALSE
           /\ \A j \in Id : HasStatus(file, j, "pending") => ~SameTargetAs(row, file[j])
  <2> DEFINE t == <<row.listing, row.action>>
  <2>1. t \in Listing \X Action
    BY DEF Row
  <2>2. Book[i] = Lifecycle!Unused
    BY <1>6, BookIs DEF Lifecycle!Unused
  <2>3. ASSUME NEW j \in Id, Lifecycle!Is(j, "pending") PROVE Book[j].target # t
    <3>1. HasStatus(file, j, "pending")
      BY <1>4, <2>3 DEF Status
    <3>2. Book[j] = Entry(file[j])
      BY <3>1, BookIs DEF HasStatus
    <3> QED BY <1>6, <3>1, <3>2 DEF Entry, SameTargetAs
  <2>4. Lifecycle!Enter(i, t)
    BY <1>2, <1>3, <1>6, <2>2, <2>3 DEF Lifecycle!Enter
  <2> QED BY <2>1, <2>4 DEF Lifecycle!Next
<1>7. ASSUME file[i] # NoRow, SameTargetAs(row, file[i])
      PROVE  /\ Entry(row) = [Book[i] EXCEPT !.status = row.status, !.seen = row.dry_run]
             /\ row.dry_run = file[i].dry_run =>
                  Entry(row) = [Book[i] EXCEPT !.status = row.status]
             /\ row.status = file[i].status =>
                  Entry(row) = [Book[i] EXCEPT !.seen = row.dry_run]
             /\ Book[i].seen = file[i].dry_run
  <2> DEFINE t == <<row.listing, row.action>>
             b == [target |-> t, status |-> file[i].status, seen |-> file[i].dry_run]
  <2>1. Book[i] = b
    BY <1>7, BookIs DEF Entry, SameTargetAs
  <2>2. Entry(row) = [target |-> t, status |-> row.status, seen |-> row.dry_run]
    BY <1>3
  <2>3. [b EXCEPT !.status = row.status, !.seen = row.dry_run]
          = [target |-> t, status |-> row.status, seen |-> row.dry_run]
    <3> DEFINE c == [target |-> t, status |-> row.status, seen |-> file[i].dry_run]
    <3>1. [b EXCEPT !.status = row.status, !.seen = row.dry_run]
            = [[b EXCEPT !.status = row.status] EXCEPT !.seen = row.dry_run]
      OBVIOUS
    <3>2. [b EXCEPT !.status = row.status] = c
      OBVIOUS
    <3>3. [c EXCEPT !.seen = row.dry_run]
            = [target |-> t, status |-> row.status, seen |-> row.dry_run]
      OBVIOUS
    <3> HIDE DEF c
    <3>4. [b EXCEPT !.status = row.status, !.seen = row.dry_run] = [c EXCEPT !.seen = row.dry_run]
      BY <3>1, <3>2, Zenon
    <3> QED BY <3>3, <3>4, Zenon
  <2>4. [b EXCEPT !.status = row.status]
          = [target |-> t, status |-> row.status, seen |-> file[i].dry_run]
    OBVIOUS
  <2>5. [b EXCEPT !.seen = row.dry_run]
          = [target |-> t, status |-> file[i].status, seen |-> row.dry_run]
    OBVIOUS
  <2>6. b.seen = file[i].dry_run
    OBVIOUS
  <2> HIDE DEF b, t
  <2> QED BY <2>1, <2>2, <2>3, <2>4, <2>5, <2>6
<1>8. CASE /\ HasStatus(file, i, "pending") /\ SameTargetAs(row, file[i])
           /\ \/ row.status = "pending" /\ row.dry_run = TRUE
              \/ row.status = "approved" /\ (RequireDryRun => file[i].dry_run /\ row.dry_run = TRUE)
              \/ row.status = "rejected" /\ row.dry_run = FALSE
              \/ row.status = "superseded" /\ row.dry_run = file[i].dry_run
  <2>1. Lifecycle!Is(i, "pending") /\ file[i] # NoRow
    BY <1>4, <1>8 DEF Status, HasStatus
  <2>2. CASE row.status = "pending" /\ row.dry_run = TRUE
    <3>1. Entry(row) = [Book[i] EXCEPT !.seen = TRUE]
      <4>1. row.status = file[i].status
        BY <1>8, <2>2 DEF HasStatus
      <4>2. Entry(row) = [Book[i] EXCEPT !.seen = row.dry_run]
        BY <1>7, <1>8, <2>1, <4>1
      <4> QED BY <2>2, <4>2
    <3>2. Lifecycle!AcknowledgeDiff(i)
      BY <1>2, <2>1, <3>1 DEF Lifecycle!AcknowledgeDiff
    <3> QED BY <3>2 DEF Lifecycle!Next
  <2>3. CASE row.status = "approved" /\ (RequireDryRun => file[i].dry_run /\ row.dry_run = TRUE)
    <3>1. Entry(row) = [Book[i] EXCEPT !.status = "approved", !.seen = row.dry_run]
      BY <1>7, <1>8, <2>1, <2>3
    <3>2. RequireDryRun => Book[i].seen
      BY <1>7, <1>8, <2>1, <2>3
    <3>3. row.dry_run \in (IF RequireDryRun THEN {TRUE} ELSE BOOLEAN)
      <4>1. row.dry_run \in BOOLEAN
        BY DEF Row
      <4> QED BY <2>3, <4>1
    <3>4. Lifecycle!Approve(i)
      BY <1>2, <2>1, <3>1, <3>2, <3>3 DEF Lifecycle!Approve
    <3> QED BY <3>4 DEF Lifecycle!Next
  <2>4. CASE row.status = "rejected" /\ row.dry_run = FALSE
    <3>1. Entry(row) = [Book[i] EXCEPT !.status = "rejected", !.seen = FALSE]
      BY <1>7, <1>8, <2>1, <2>4
    <3>2. Lifecycle!Reject(i)
      BY <1>2, <2>1, <3>1 DEF Lifecycle!Reject
    <3> QED BY <3>2 DEF Lifecycle!Next
  <2>5. CASE row.status = "superseded" /\ row.dry_run = file[i].dry_run
    <3>1. Entry(row) = [Book[i] EXCEPT !.status = "superseded"]
      BY <1>7, <1>8, <2>1, <2>5
    <3>2. Lifecycle!Replace(i)
      BY <1>2, <2>1, <3>1 DEF Lifecycle!Replace
    <3> QED BY <3>2 DEF Lifecycle!Next
  <2> QED BY <1>8, <2>2, <2>3, <2>4, <2>5
<1>9. CASE /\ HasStatus(file, i, "approved") /\ SameTargetAs(row, file[i])
           /\ row.status \in {"applied", "failed"} /\ row.dry_run = file[i].dry_run
  <2>1. Lifecycle!Is(i, "approved") /\ file[i] # NoRow
    BY <1>4, <1>9 DEF Status, HasStatus
  <2>2. Entry(row) = [Book[i] EXCEPT !.status = row.status]
    BY <1>7, <1>9, <2>1
  <2>3. Lifecycle!SettleEntry(i)
    BY <1>2, <1>9, <2>1, <2>2 DEF Lifecycle!SettleEntry
  <2> QED BY <2>3 DEF Lifecycle!Next
<1> QED BY <1>5, <1>6, <1>8, <1>9 DEF Becomes

(* Every save of the session is such a change of what the file holds.      *)

LEMMA SaveBooked ==
  ASSUME IInv, NEW s \in Session, Session = {s}, Saved(s), Booked(s), ~writing[s], pc[s] # "down",
         NEW i \in Id, NEW row \in Row, SaveRow(s, i, row), Becomes(mem[s], i, row), file' = file
  PROVE  Booked(s)'
<1>1. mem[s] = file
  BY DEF Saved, Booked
<1>2. mem'[s] = [mem[s] EXCEPT ![i] = row] /\ fileState' = "empty" /\ writing'[s] = TRUE
  BY DEF SaveRow, Save, IInv, TypeOK
<1>3. mem'[s] = [file' EXCEPT ![i] = row] /\ Becomes(file', i, row)
  BY <1>1, <1>2
<1> QED BY <1>2, <1>3 DEF Booked

LEMMA QuietBooked ==
  ASSUME NEW s \in Session, Booked(s), UNCHANGED <<file, fileState, mem, writing>>
  PROVE  Booked(s)'
BY DEF Booked

LEMMA SupersedeBecomes ==
  ASSUME IInv, NEW s \in Session, NEW i \in Id, SupersedeOne(s, i),
         NEW row, row = [mem[s][i] EXCEPT !.status = "superseded", !.superseded_by = job[s].new]
  PROVE  row \in Row /\ Becomes(mem[s], i, row)
<1>1. HasStatus(mem[s], i, "pending") /\ mem[s][i] \in Row /\ job[s].new \in Id
  BY PendingRowInv DEF SupersedeOne, At, IInv, JobInv
<1>2. /\ row \in Row /\ row.status = "superseded" /\ row.dry_run = mem[s][i].dry_run
      /\ row.listing = mem[s][i].listing /\ row.action = mem[s][i].action
  BY <1>1 DEF Row, Status
<1> QED BY <1>1, <1>2 DEF Becomes, SameTargetAs

LEMMA InsertBecomes ==
  ASSUME IInv, SInv, NEW s \in Session, InsertNew(s), NEW row,
         row = NewRow(job[s].listing, job[s].action, loaded[s][job[s].listing], job[s].version)
  PROVE  row \in Row /\ job[s].new \in Id /\ Becomes(mem[s], job[s].new, row)
<1>1. /\ job[s] \in Job /\ job[s].new \in Id /\ loaded[s][job[s].listing] \in Fingerprint
      /\ mem[s][job[s].new] = NoRow
      /\ PendingSame(mem[s], job[s].listing, job[s].action) = {}
  BY DEF InsertNew, At, IInv, TypeOK, JobInv, SInv, Promised, Copies
<1>2. row \in Row
  BY <1>1, NewRowType DEF Job
<1>3. /\ row.status = "pending" /\ row.dry_run = FALSE
      /\ row.listing = job[s].listing /\ row.action = job[s].action
  BY DEF NewRow
<1>4. \A j \in Id : HasStatus(mem[s], j, "pending") => ~SameTargetAs(row, mem[s][j])
  BY <1>1, <1>3 DEF PendingSame, SameTargetAs
<1> QED BY <1>1, <1>2, <1>3, <1>4 DEF Becomes

LEMMA TransitionBecomes ==
  ASSUME IInv, NEW s \in Session, NEW i \in Id, NEW target \in Status, NEW actor \in Actor,
         NEW dry \in DryRunArg, Transition(s, i, target, actor, dry), target # "superseded",
         NEW row, row = Transitioned(mem[s][i], target, actor, dry)
  PROVE  row \in Row /\ Becomes(mem[s], i, row)
<1>1. /\ mem[s][i] # NoRow /\ mem[s][i] \in Row
      /\ <<mem[s][i].status, target>> \in AllowedEdges
      /\ target = "approved" /\ RequireDryRun => mem[s][i].dry_run /\ dry = "true"
  BY DEF Transition, MayTransition, IInv, TypeOK, Queue
<1>2. row \in Row
  BY <1>1, TransitionedType
<1>3. row.status = target /\ SameTargetAs(row, mem[s][i])
  BY <1>1 DEF Row, Transitioned, ApprovedRow, RejectedRow, SameTargetAs
<1>4. CASE target = "approved"
  <2>1. dry = "true" => row.dry_run = TRUE
    BY <1>1, <1>4 DEF Row, Transitioned, ApprovedRow
  <2>2. HasStatus(mem[s], i, "pending")
    BY <1>1, <1>4 DEF AllowedEdges, HasStatus
  <2> QED BY <1>1, <1>3, <1>4, <1>2, <2>1, <2>2 DEF Becomes
<1>5. CASE target = "rejected"
  <2>1. row.dry_run = FALSE
    BY <1>1, <1>5 DEF Row, Transitioned, RejectedRow
  <2>2. HasStatus(mem[s], i, "pending")
    BY <1>1, <1>5 DEF AllowedEdges, HasStatus
  <2> QED BY <1>2, <1>3, <1>5, <2>1, <2>2 DEF Becomes
<1>6. CASE target \in {"applied", "failed"}
  <2>1. row.dry_run = mem[s][i].dry_run
    BY <1>1, <1>6 DEF Row, Transitioned
  <2>2. HasStatus(mem[s], i, "approved")
    BY <1>1, <1>6 DEF AllowedEdges, HasStatus
  <2> QED BY <1>2, <1>3, <1>6, <2>1, <2>2 DEF Becomes
<1> QED BY <1>1, <1>4, <1>5, <1>6 DEF AllowedEdges

LEMMA AcknowledgeBecomes ==
  ASSUME IInv, NEW s \in Session, NEW i \in Id, HasStatus(mem[s], i, "pending"),
         NEW row, row = [mem[s][i] EXCEPT !.stale = TRUE] \/ row = [mem[s][i] EXCEPT !.dry_run = TRUE]
  PROVE  row \in Row /\ Becomes(mem[s], i, row)
<1>1. mem[s][i] \in Row /\ mem[s][i] # NoRow
  BY PendingRowInv DEF HasStatus
<1>2. /\ row \in Row /\ row.status = mem[s][i].status
      /\ row.listing = mem[s][i].listing /\ row.action = mem[s][i].action
      /\ row.dry_run = mem[s][i].dry_run \/ row.dry_run = TRUE
  BY <1>1 DEF Row
<1>3. CASE row.dry_run = mem[s][i].dry_run
  <2>1. Entry(row) = Entry(mem[s][i])
    BY <1>2, <1>3 DEF Entry
  <2> QED BY <1>1, <1>2, <2>1 DEF Becomes
<1>4. CASE row.dry_run = TRUE
  <2>1. row.status = "pending"
    BY <1>2 DEF HasStatus
  <2> QED BY <1>2, <1>4, <2>1 DEF Becomes, SameTargetAs
<1> QED BY <1>2, <1>3, <1>4

LEMMA RejectedBecomes ==
  ASSUME NEW q, NEW n \in Id, HasStatus(q, n, "pending"), NEW row \in Row, SameTargetAs(row, q[n]),
         NEW actor \in Actor
  PROVE  RejectedRow(row, actor) \in Row /\ Becomes(q, n, RejectedRow(row, actor))
<1> DEFINE rejected == RejectedRow(row, actor)
<1>1. /\ rejected \in Row /\ rejected.status = "rejected" /\ rejected.dry_run = FALSE
      /\ rejected.listing = row.listing /\ rejected.action = row.action
  BY DEF Row, Status, RejectedRow
<1> HIDE DEF rejected
<1>2. Becomes(q, n, rejected)
  BY <1>1 DEF Becomes, SameTargetAs
<1> QED BY <1>1, <1>2 DEF rejected

LEMMA PolicyBecomes ==
  ASSUME IInv, NEW s \in Session, NEW n \in Id, HasStatus(mem[s], n, "pending"),
         NEW allowed \in BOOLEAN, NEW compliant \in BOOLEAN,
         NEW row, row = [mem[s][n] EXCEPT !.flagged = ~allowed, !.noncompliant = ~compliant]
  PROVE  /\ row \in Row /\ Becomes(mem[s], n, row)
         /\ DefaultActor \in Actor =>
              /\ RejectedRow(row, DefaultActor) \in Row
              /\ Becomes(mem[s], n, RejectedRow(row, DefaultActor))
<1>1. mem[s][n] \in Row /\ mem[s][n] # NoRow
  BY PendingRowInv DEF HasStatus
<1>2. /\ row \in Row /\ row.status = mem[s][n].status /\ row.dry_run = mem[s][n].dry_run
      /\ row.listing = mem[s][n].listing /\ row.action = mem[s][n].action
  BY <1>1 DEF Row
<1>3. Entry(row) = Entry(mem[s][n])
  BY <1>2 DEF Entry
<1>4. SameTargetAs(row, mem[s][n])
  BY <1>2 DEF SameTargetAs
<1>5. DefaultActor \in Actor =>
        /\ RejectedRow(row, DefaultActor) \in Row
        /\ Becomes(mem[s], n, RejectedRow(row, DefaultActor))
  BY <1>2, <1>4, RejectedBecomes, Zenon
<1>6. Becomes(mem[s], n, row)
  BY <1>1, <1>3 DEF Becomes
<1> QED BY <1>2, <1>5, <1>6, Zenon

LEMMA BookedStep ==
  ASSUME IInv, SInv, NEW s \in Session, Session = {s}, "save" \notin CrashIn, Saved(s), Booked(s),
         [Next]_vars
  PROVE  Booked(s)' /\ (Lifecycle!Next \/ Book' = Book)
<1> DEFINE Goal == Booked(s)' /\ (Lifecycle!Next \/ Book' = Book)
<1>1. ASSUME file' = file PROVE Book' = Book
  BY <1>1 DEF Book
<1>2. ASSUME NEW i \in Id, NEW row \in Row, SaveRow(s, i, row), Becomes(mem[s], i, row),
             file' = file, ~writing[s], pc[s] # "down"
      PROVE  Goal
  BY <1>1, <1>2, SaveBooked
<1>3. ASSUME UNCHANGED <<file, fileState, mem, writing>> PROVE Goal
  BY <1>1, <1>3, QuietBooked
<1>4. ASSUME Write(s) PROVE Goal
  <2>1. fileState = "empty"
    BY <1>4 DEF Write, Saved
  <2>2. fileState' = "whole" /\ file' = mem[s] /\ writing'[s] = FALSE
    BY <1>4, <2>1 DEF Write, IInv, TypeOK
  <2>3. PICK i \in Id, row \in Row : mem[s] = [file EXCEPT ![i] = row] /\ Becomes(file, i, row)
    BY <1>4 DEF Write, Booked
  <2>4. file \in Queue /\ file' \in Queue
    BY <2>2 DEF IInv, TypeOK
  <2>5. Lifecycle!Next \/ Book' = Book
    BY <2>2, <2>3, <2>4, BecomesIsStep
  <2> QED BY <2>2, <2>5 DEF Booked
<1>5. ASSUME Start(s) PROVE Goal
  <2>1. UNCHANGED <<file, fileState, writing>> /\ ~writing[s]
    BY <1>5 DEF Start, Saved
  <2> QED BY <1>1, <2>1 DEF Booked
<1>6. ASSUME Crash(s) PROVE Goal
  <2>1. ~writing[s] /\ writing'[s] = FALSE /\ UNCHANGED <<file, fileState>>
    BY <1>6 DEF Crash, IInv, TypeOK
  <2> QED BY <1>1, <2>1 DEF Booked
<1>7. ASSUME NEW i \in Id, FlagOne(s, i) PROVE Goal
  <2> DEFINE row == [mem[s][i] EXCEPT !.stale = TRUE]
  <2>1. /\ HasStatus(mem[s], i, "pending") /\ ~writing[s] /\ pc[s] # "down"
        /\ SaveRow(s, i, row) /\ file' = file
    BY <1>7 DEF FlagOne, At, IInv, JobInv
  <2> HIDE DEF Goal
  <2>2. row \in Row /\ Becomes(mem[s], i, row)
    BY <2>1, AcknowledgeBecomes
  <2> HIDE DEF row
  <2> QED BY <1>2, <2>1, <2>2
<1>8. ASSUME NEW i \in Id, Acknowledge(s, i) PROVE Goal
  <2> DEFINE row == [mem[s][i] EXCEPT !.dry_run = TRUE]
  <2>1. /\ HasStatus(mem[s], i, "pending") /\ ~writing[s] /\ pc[s] # "down"
        /\ SaveRow(s, i, row) /\ file' = file
    BY <1>8 DEF Acknowledge, At
  <2> HIDE DEF Goal
  <2>2. row \in Row /\ Becomes(mem[s], i, row)
    BY <2>1, AcknowledgeBecomes
  <2> HIDE DEF row
  <2> QED BY <1>2, <2>1, <2>2
<1>9. ASSUME NEW i \in Id, SupersedeOne(s, i) PROVE Goal
  <2> DEFINE row == [mem[s][i] EXCEPT !.status = "superseded", !.superseded_by = job[s].new]
  <2>1. ~writing[s] /\ pc[s] # "down" /\ SaveRow(s, i, row) /\ file' = file
    BY <1>9 DEF SupersedeOne, At
  <2> HIDE DEF Goal
  <2>2. row \in Row /\ Becomes(mem[s], i, row)
    BY <1>9, SupersedeBecomes
  <2> HIDE DEF row
  <2> QED BY <1>2, <2>1, <2>2
<1>10. ASSUME InsertNew(s) PROVE Goal
  <2> DEFINE row == NewRow(job[s].listing, job[s].action, loaded[s][job[s].listing],
                           job[s].version)
             n == job[s].new
  <2>1. ~writing[s] /\ pc[s] # "down" /\ SaveRow(s, n, row) /\ file' = file
    BY <1>10 DEF InsertNew, At
  <2> HIDE DEF Goal
  <2>2. row \in Row /\ n \in Id /\ Becomes(mem[s], n, row)
    BY <1>10, InsertBecomes
  <2> HIDE DEF row, n
  <2> QED BY <1>2, <2>1, <2>2
<1>11. ASSUME NEW allowed \in BOOLEAN, NEW compliant \in BOOLEAN,
              ApplyPolicy(s, allowed, compliant)
       PROVE  Goal
  <2> DEFINE n == job[s].new
             row == [mem[s][n] EXCEPT !.flagged = ~allowed, !.noncompliant = ~compliant]
             rejected == RejectedRow(row, DefaultActor)
  <2>1. /\ n \in Id /\ HasStatus(mem[s], n, "pending") /\ ~writing[s] /\ pc[s] # "down"
        /\ file' = file
    BY <1>11 DEF ApplyPolicy, At, IInv, JobInv
  <2>2. \/ SaveRow(s, n, row)
        \/ SaveRow(s, n, rejected) /\ DefaultActor \in Actor
        \/ UNCHANGED <<fileState, mem, writing>>
    BY <1>11, SessionConstantsOK DEF ApplyPolicy, MayTransition
  <2> HIDE DEF Goal
  <2>3. row \in Row /\ Becomes(mem[s], n, row)
    BY <2>1, PolicyBecomes
  <2>4. DefaultActor \in Actor => rejected \in Row /\ Becomes(mem[s], n, rejected)
    BY <2>1, PolicyBecomes
  <2> HIDE DEF n, row, rejected
  <2> QED BY <1>2, <1>3, <2>1, <2>2, <2>3, <2>4
<1>12. ASSUME NEW i \in Id, NEW target \in Status, NEW actor \in Actor, NEW dry \in DryRunArg,
              Transition(s, i, target, actor, dry), target # "superseded"
       PROVE  Goal
  <2> DEFINE row == Transitioned(mem[s][i], target, actor, dry)
  <2>1. ~writing[s] /\ pc[s] # "down" /\ SaveRow(s, i, row) /\ file' = file
    BY <1>12 DEF Transition, At
  <2> HIDE DEF Goal
  <2>2. row \in Row /\ Becomes(mem[s], i, row)
    BY <1>12, TransitionBecomes
  <2> HIDE DEF row
  <2> QED BY <1>2, <2>1, <2>2
<1>13. ASSUME \/ \E i \in Id, actor \in Actor, dry \in DryRunArg : Decide(s, i, actor, dry)
              \/ \E i \in Id, actor \in Actor : Settle(s, i, actor)
       PROVE  Goal
  BY <1>12, <1>13 DEF Decide, Settle, Status, DryRunArg
<1>14. ASSUME \/ FlagDone(s) \/ PipelineEnd(s)
              \/ \E p \in {"view", "pipeline"} : LoadListings(s, p)
              \/ \E l \in Listing, a \in Action : Propose(s, l, a)
       PROVE  Goal
  BY <1>3, <1>14 DEF FlagDone, PipelineEnd, LoadListings, Propose
<1>15. ASSUME (\E l \in Listing, f \in Fingerprint : SellerEdit(l, f)) \/ UNCHANGED vars
       PROVE  Goal
  BY <1>3, <1>15 DEF SellerEdit, vars
<1> HIDE DEF Goal
<1>16. \/ SessionStep(s)
       \/ (\E l \in Listing, f \in Fingerprint : SellerEdit(l, f)) \/ UNCHANGED vars
  BY DEF Next
<1>17. (\E allowed, compliant \in BOOLEAN : ApplyPolicy(s, allowed, compliant)) => Goal
  BY <1>11, Zenon
<1>18. SessionStep(s) => Goal
  <2> SUFFICES ASSUME SessionStep(s) PROVE Goal
    OBVIOUS
  <2>1. CASE \/ Write(s) \/ Start(s) \/ Crash(s) \/ InsertNew(s)
    BY <1>4, <1>5, <1>6, <1>10, <2>1
  <2>2. CASE \E i \in Id : FlagOne(s, i) \/ SupersedeOne(s, i) \/ Acknowledge(s, i)
    BY <1>7, <1>8, <1>9, <2>2
  <2> QED BY <1>13, <1>14, <1>17, <2>1, <2>2, Zenon DEF SessionStep
<1> QED BY <1>15, <1>16, <1>18 DEF Goal

(* The queue of one session, whose process does not end inside a save, is  *)
(* the book of QueueLifecycle: a proposal that was saved stays, at most    *)
(* one for a change waits, and each is decided and settled once.           *)
THEOREM LifecycleCorrect ==
  ASSUME NEW s, Session = {s}, "save" \notin CrashIn
  PROVE  Spec => ImplementsLifecycle
<1>1. Init => Booked(s) /\ Saved(s)
  BY DEF Init, Booked, Saved
<1>2. Init => Lifecycle!Init
  BY DEF Init, EmptyQueue, Book, Lifecycle!Init, Lifecycle!Unused
<1>3. IInv /\ Saved(s) /\ [Next]_vars => Saved(s)'
  BY SavedStep
<1>4. IInv /\ SInv /\ Saved(s) /\ Booked(s) /\ [Next]_vars
        => Booked(s)' /\ [Lifecycle!Next]_Book
  BY BookedStep
<1> QED BY <1>1, <1>2, <1>3, <1>4, Invariant, SuccessionInvariant, PTL
        DEF Spec, ImplementsLifecycle, Lifecycle!Spec

=============================================================================
