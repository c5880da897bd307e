---------------------------- MODULE GuardedApply ----------------------------
(***************************************************************************)
(* services/guarded_apply.py: the one way an approved row reaches an       *)
(* executor.  Gates on the row, a fresh ingest, identity of the live       *)
(* listing, the store of successful applies, policy, the executor, and     *)
(* only then the status of the row and the record of the success.          *)
(*                                                                         *)
(* Several sessions and apply callers run it, each with its own memory of  *)
(* the queue, and each may die between any two steps.  The queue is here a *)
(* file that is saved in one step: ReviewQueue has the torn saves and the  *)
(* loops of an enqueue.  The executor is its promise: EbayWrite shows that *)
(* the calls to eBay keep it.                                              *)
(***************************************************************************)
EXTENDS ReviewStateMachine, FiniteSetsExt

CONSTANTS
  Session,
  Operator,         \* the actor of approvals and applies
  NotListed,        \* the listing was not in the ingest
  NoCall,           \* no apply is running
  Executors         \* the executors that the processes are set up with

ASSUME ApplyConstantsOK ==
  /\ Operator \in Actor
  /\ NotListed \notin Fingerprint
  /\ Listing # {} /\ Fingerprint # {}
  /\ Executors \subseteq {"mock", "ebay"}

VARIABLES
  live,      \* the fingerprint each listing has at eBay
  change,    \* the listing a row's change is for and the fingerprint it gives it
  file,      \* the rows of the queue file
  mem,       \* the rows each session holds
  pc,        \* where each session is
  call,      \* the locals of the apply that is running
  done,      \* the keys in the store of successful applies
  late,      \* rows whose write was sent, not answered, and may still land
  took,      \* history: rows whose change an executor has made or found made
  used       \* ids drawn so far

vars == <<live, change, file, mem, pc, call, done, late, took, used>>

Queue == [Id -> Row \cup {NoRow}]
EmptyQueue == [i \in Id |-> NoRow]

\* What simulate_apply holds on to: the row as it was read first, and whether
\* the executor's write landed.  known is history: the success of this very
\* revision was on record when the apply was requested.
Call ==
  [id: Id, row: Row, landed: BOOLEAN, known: BOOLEAN]

Change == [listing: Listing, to: Fingerprint]
NoChange == CHOOSE c \in Change : TRUE

\* build_apply_idempotency_key.
ApplyKey(i, row) == <<i, row.action, row.version, row.fp>>

Points == {"down", "idle", "resolve", "check", "policy", "execute", "applied", "record", "failed"}

TypeOK ==
  /\ live \in [Listing -> Fingerprint]
  /\ change \in [Id -> Change]
  /\ file \in Queue
  /\ mem \in [Session -> Queue]
  /\ pc \in [Session -> Points]
  /\ call \in [Session -> Call \cup {NoCall}]
  /\ done \subseteq Id \X Action \X Nat \X Fingerprint
  /\ late \subseteq Id
  /\ took \subseteq Id
  /\ used \subseteq Id

Init ==
  /\ live \in [Listing -> Fingerprint]
  /\ change = [i \in Id |-> NoChange]
  /\ file = EmptyQueue
  /\ mem = [s \in Session |-> EmptyQueue]
  /\ pc = [s \in Session |-> "down"]
  /\ call = [s \in Session |-> NoCall]
  /\ done = {}
  /\ late = {}
  /\ took = {}
  /\ used = {}

Goto(s, point) == pc' = [pc EXCEPT ![s] = point]
Return(s) == Goto(s, "idle") /\ call' = [call EXCEPT ![s] = NoCall]

\* A save writes all of the session's memory.
SaveQueue(s, q) == mem' = [mem EXCEPT ![s] = q] /\ file' = q

-----------------------------------------------------------------------------
(* Sessions, and what they do to the queue between applies. *)

Start(s) ==
  /\ pc[s] = "down"
  /\ Goto(s, "idle")
  /\ mem' = [mem EXCEPT ![s] = file]
  /\ UNCHANGED <<live, change, file, call, done, late, took, used>>

\* A write that was on its way may still land.
Crash(s) ==
  /\ pc[s] # "down"
  /\ Goto(s, "down")
  /\ mem' = [mem EXCEPT ![s] = EmptyQueue]
  /\ call' = [call EXCEPT ![s] = NoCall]
  /\ late' \in {late} \cup (IF pc[s] = "execute" /\ "ebay" \in Executors
                            THEN {late \cup {call[s].id}} ELSE {})
  /\ UNCHANGED <<live, change, file, done, took, used>>

PendingSame(q, l, a) ==
  {i \in Id : /\ q[i] # NoRow /\ q[i].status = "pending"
              /\ q[i].listing = l /\ q[i].action = a}

FreshId == CHOOSE i \in Id : i \notin used

\* _enqueue_item for a row that policy allows, which replaces the pending rows
\* of the same proposal.  A pipeline proposes only what differs from the listing.
Enqueue(s, l, a, f, compliant) ==
  /\ pc[s] = "idle"
  /\ used # Id
  /\ f # live[l]
  /\ used' = used \cup {FreshId}
  /\ change' = [change EXCEPT ![FreshId] = [listing |-> l, to |-> f]]
  /\ LET old == PendingSame(mem[s], l, a)
         v == 1 + Max({0} \cup {mem[s][i].version : i \in old})
         new == [NewRow(l, a, live[l], v) EXCEPT !.noncompliant = ~compliant]
     IN  SaveQueue(s, [i \in Id |->
           IF i = FreshId THEN new
           ELSE IF i \in old
                THEN [mem[s][i] EXCEPT !.status = "superseded", !.superseded_by = FreshId]
                ELSE mem[s][i]])
  /\ UNCHANGED <<live, pc, call, done, late, took>>

\* An operator acknowledges the diff and approves.
Approve(s, i) ==
  LET seen == [mem[s][i] EXCEPT !.dry_run = TRUE]
  IN  /\ pc[s] = "idle"
      /\ mem[s][i] # NoRow
      /\ MayTransition(seen, "approved", Operator, "true")
      /\ SaveQueue(s, [mem[s] EXCEPT ![i] = Transitioned(seen, "approved", Operator, "true")])
      /\ UNCHANGED <<live, change, pc, call, done, late, took, used>>

\* The seller, or eBay, changes a listing.
SellerEdit(l, f) ==
  /\ live' = [live EXCEPT ![l] = f]
  /\ UNCHANGED <<change, file, mem, pc, call, done, late, took, used>>

-----------------------------------------------------------------------------
(* simulate_apply, step by step. *)

\* The store of successes reads its file at every look.
HasSuccess(key) == key \in done

\* The row comes from the session's memory and must pass the local gates.
Request(s, i) ==
  /\ pc[s] = "idle"
  /\ mem[s][i] # NoRow
  /\ ~ApplyBlocked(mem[s][i])
  /\ call' = [call EXCEPT ![s] =
       [id |-> i, row |-> mem[s][i], landed |-> FALSE, known |-> HasSuccess(ApplyKey(i, mem[s][i]))]]
  /\ Goto(s, "resolve")
  /\ UNCHANGED <<live, change, file, mem, done, late, took, used>>

\* The rows that flag_stale_vs_live marks: pending ones only.
Drifted(q, seen) ==
  {i \in Id : /\ q[i] # NoRow /\ q[i].status = "pending"
              /\ seen[q[i].listing] \notin {NotListed, q[i].fp}}

\* collect_live_identity_blockers finds nothing: the listing is there, and is the
\* one the row was computed from.  A fingerprint stands for the sku and the
\* offer too.
SameListing(row, seen) == seen[row.listing] = row.fp

\* Variant for mutation: the ingest also reads the queue file again.
ResolveAndReload(s) ==
  /\ pc[s] = "resolve"
  /\ mem' = [mem EXCEPT ![s] = file]
  /\ IF SameListing(call[s].row, live)
     THEN Goto(s, "check") /\ UNCHANGED call
     ELSE Return(s)
  /\ UNCHANGED <<live, change, file, done, late, took, used>>

\* The resolver ingests again, which marks drifted rows and saves them; then
\* the live listing is compared with the row.
Resolve(s) ==
  /\ pc[s] = "resolve"
  /\ \E missing \in SUBSET Listing :
       LET seen == [l \in Listing |-> IF l \in missing THEN NotListed ELSE live[l]]
           drifted == Drifted(mem[s], seen)
       IN  /\ IF drifted = {}
              THEN UNCHANGED <<mem, file>>
              ELSE SaveQueue(s, [i \in Id |-> IF i \in drifted THEN [mem[s][i] EXCEPT !.stale = TRUE]
                                              ELSE mem[s][i]])
           /\ IF SameListing(call[s].row, seen)
              THEN Goto(s, "check") /\ UNCHANGED call
              ELSE Return(s)
  /\ UNCHANGED <<live, change, done, late, took, used>>

\* Variant for mutation: the key is not looked up.
CheckNothing(s) ==
  /\ pc[s] = "check"
  /\ Goto(s, "policy")
  /\ UNCHANGED <<live, change, file, mem, call, done, late, took, used>>

\* A revision that was applied is not applied again.
CheckDuplicate(s) ==
  /\ pc[s] = "check"
  /\ IF HasSuccess(ApplyKey(call[s].id, call[s].row))
     THEN Return(s)
     ELSE Goto(s, "policy") /\ UNCHANGED call
  /\ UNCHANGED <<live, change, file, mem, done, late, took, used>>

\* must_pass_before_write over the live listing, and apply_executor_ready.
CheckPolicy(s, allowed) ==
  /\ pc[s] = "policy"
  /\ IF ApplyExecutorReady(call[s].row, allowed)
     THEN Goto(s, "execute") /\ UNCHANGED call
     ELSE Return(s)
  /\ UNCHANGED <<live, change, file, mem, done, late, took, used>>

-----------------------------------------------------------------------------
(* The executor.  MockExecutor always succeeds here, since every gate it   *)
(* repeats has passed.  EbayWriteExecutor reports a success only after its *)
(* write landed; a failure, or an exception that leaves simulate_apply,    *)
(* tells nothing: the write may have landed, may land later, or never.     *)

Simulate(s) ==
  /\ pc[s] = "execute" /\ "mock" \in Executors
  /\ took' = took \cup {call[s].id}
  /\ Goto(s, "applied")
  /\ UNCHANGED <<live, change, file, mem, call, done, late, used>>

Land(i) == live' = [live EXCEPT ![change[i].listing] = change[i].to]

WriteLands(s) ==
  /\ pc[s] = "execute" /\ "ebay" \in Executors
  /\ Land(call[s].id)
  /\ took' = took \cup {call[s].id}
  /\ call' = [call EXCEPT ![s].landed = TRUE]
  /\ UNCHANGED <<change, file, mem, pc, done, late, used>>

\* A request of this call may still be on its way when the call ends.
Leave(s, inFlight) == late' = late \cup (IF inFlight THEN {call[s].id} ELSE {})

\* Variant for mutation: an answer that never came is taken for a success.
SucceedUnanswered(s, inFlight) ==
  /\ pc[s] = "execute" /\ "ebay" \in Executors
  /\ Goto(s, "applied")
  /\ Leave(s, inFlight)
  /\ UNCHANGED <<live, change, file, mem, call, done, took, used>>

WriteSucceeds(s, inFlight) ==
  /\ pc[s] = "execute" /\ "ebay" \in Executors
  /\ call[s].landed
  /\ Goto(s, "applied")
  /\ Leave(s, inFlight)
  /\ UNCHANGED <<live, change, file, mem, call, done, took, used>>

\* The step is the executor's look at the item that GET brings, not its return: it
\* finds what the row wants, sends no write, and goes on to "applied" whatever
\* becomes of the listing meanwhile.  Its look at the snapshot of the ingest,
\* before GET, never finds that: the snapshot is the one the row was computed
\* from (Resolve), and a row asks for something else (Enqueue).
WriteUnneeded(s) ==
  /\ pc[s] = "execute" /\ "ebay" \in Executors
  /\ ~call[s].landed
  /\ live[change[call[s].id].listing] = change[call[s].id].to
  /\ took' = took \cup {call[s].id}
  /\ Goto(s, "applied")
  /\ UNCHANGED <<live, change, file, mem, call, done, late, used>>

WriteFails(s, inFlight) ==
  /\ pc[s] = "execute" /\ "ebay" \in Executors
  /\ Goto(s, "failed")
  /\ Leave(s, inFlight)
  /\ UNCHANGED <<live, change, file, mem, call, done, took, used>>

\* The call budget of the client runs out, or its token cannot be renewed.
WriteRaises(s, inFlight) ==
  /\ pc[s] = "execute" /\ "ebay" \in Executors
  /\ Return(s)
  /\ Leave(s, inFlight)
  /\ UNCHANGED <<live, change, file, mem, done, took, used>>

LandsLate(i) ==
  /\ i \in late
  /\ late' \in {late, late \ {i}}
  /\ Land(i)
  /\ took' = took \cup {i}
  /\ UNCHANGED <<change, file, mem, pc, call, done, used>>

-----------------------------------------------------------------------------
(* After the executor. *)

MoveTo(s, target) ==
  LET i == call[s].id
  IN  /\ MayTransition(mem[s][i], target, Operator, "none")
      /\ SaveQueue(s, [mem[s] EXCEPT ![i] = Transitioned(@, target, Operator, "none")])

MarkApplied(s) ==
  /\ pc[s] = "applied"
  /\ MoveTo(s, "applied")
  /\ Goto(s, "record")
  /\ UNCHANGED <<live, change, call, done, late, took, used>>

\* Variant for mutation: the id is recorded in place of the key.
RecordId(s) ==
  /\ pc[s] = "record"
  /\ done' = done \cup {call[s].id}
  /\ Return(s)
  /\ UNCHANGED <<live, change, file, mem, late, took, used>>

\* record_success appends a line; none is ever taken out.
AppendSuccess(key) == done' = done \cup {key}

RecordSuccess(s) ==
  /\ pc[s] = "record"
  /\ AppendSuccess(ApplyKey(call[s].id, call[s].row))
  /\ Return(s)
  /\ UNCHANGED <<live, change, file, mem, late, took, used>>

MarkFailed(s) ==
  /\ pc[s] = "failed"
  /\ MoveTo(s, "failed")
  /\ Return(s)
  /\ UNCHANGED <<live, change, done, late, took, used>>

-----------------------------------------------------------------------------
ExecutorReturns(s) ==
  \/ Simulate(s)
  \/ WriteUnneeded(s)
  \/ \E inFlight \in BOOLEAN :
       WriteSucceeds(s, inFlight) \/ WriteFails(s, inFlight) \/ WriteRaises(s, inFlight)

Proceed(s) ==
  \/ Resolve(s)
  \/ CheckDuplicate(s)
  \/ \E allowed \in BOOLEAN : CheckPolicy(s, allowed)
  \/ ExecutorReturns(s)
  \/ MarkApplied(s)
  \/ RecordSuccess(s)
  \/ MarkFailed(s)

Next ==
  \/ \E s \in Session :
       \/ Start(s)
       \/ Crash(s)
       \/ \E l \in Listing, a \in Action, f \in Fingerprint, compliant \in BOOLEAN :
            Enqueue(s, l, a, f, compliant)
       \/ \E i \in Id : Approve(s, i) \/ Request(s, i)
       \/ WriteLands(s)
       \/ Proceed(s)
  \/ \E i \in Id : LandsLate(i)
  \/ \E l \in Listing, f \in Fingerprint : SellerEdit(l, f)

Spec == Init /\ [][Next]_vars

-----------------------------------------------------------------------------
Copies == {file} \cup {mem[s] : s \in Session}

\* No copy of the queue says applied, and no success is on record, for a change
\* that no executor made.
SuccessIsReal ==
  /\ \A q \in Copies, i \in Id : q[i] # NoRow /\ q[i].status = "applied" => i \in took
  /\ \A k \in done : k[1] \in took

\* Once the success of a revision is on record, no later request for it gets
\* to the executor, even from a session whose memory still holds the row as
\* approved, or after such a session has written it back to the file.
NoApplyAfterRecord ==
  \A s \in Session : pc[s] \in {"policy", "execute", "applied", "record", "failed"} => ~call[s].known

\* The row is read before the ingest that may mark rows stale, and used after
\* it: what goes to the executor is still what the queue of the session holds,
\* and it still passes every gate.
RowStillReady ==
  \A s \in Session : pc[s] \in {"resolve", "check", "policy", "execute", "applied", "failed"} =>
    /\ mem[s][call[s].id] = call[s].row
    /\ ~ApplyBlocked(mem[s][call[s].id])

=============================================================================
