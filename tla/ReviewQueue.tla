----------------------------- MODULE ReviewQueue -----------------------------
(***************************************************************************)
(* review_queue/store.py: the review queue of several sessions over one    *)
(* JSON file, with the pipeline of services/orchestrator.py that enqueues. *)
(*                                                                         *)
(* Every browser tab and every apply caller builds a ReviewQueueStore,     *)
(* which reads the file once and from then on rewrites the whole file from *)
(* its own memory.  A save is two steps: write_text truncates the file and *)
(* then writes it, and between them another session may read, truncate or  *)
(* write, and the process may die.                                         *)
(***************************************************************************)
EXTENDS ReviewStateMachine, FiniteSetsExt

CONSTANTS
  Session,          \* the stores over the same file
  DefaultActor,     \* settings.default_actor, which may be blank
  NotListed,        \* a listing that is not in an ingest
  CrashIn           \* where a process may end: at "rest" between calls, inside
                    \* a "call" between two saves, inside a "save"

ASSUME SessionConstantsOK ==
  /\ DefaultActor \in Actor \cup {NoActor}
  /\ NotListed \notin Fingerprint
  /\ Listing # {} /\ Action # {}
  /\ CrashIn \subseteq {"rest", "call", "save"}

VARIABLES
  live,        \* the fingerprint each listing has at eBay
  file,        \* the rows of the last complete save
  fileState,   \* whether the file can be read: "whole", "empty" or "garbled"
  mem,         \* the rows each store holds: _items
  loaded,      \* the listings each session last ingested
  pc,          \* where each session is in its current call
  writing,     \* whether it is between the truncation and the write of a save
  job,         \* the locals of the call that is running
  used,        \* ids drawn so far: uuid4 never repeats one
  verdict      \* history: whether policy blocked a row, or left it "open" to approval,
               \* as it is also when it can be read before policy has spoken

vars == <<live, file, fileState, mem, loaded, pc, writing, job, used, verdict>>

Queue == [Id -> Row \cup {NoRow}]
EmptyQueue == [i \in Id |-> NoRow]

Ingest == [Listing -> Fingerprint \cup {NotListed}]
NothingLoaded == [l \in Listing |-> NotListed]

Job ==
  [todo: SUBSET Id, new: Id \cup {NoId}, listing: Listing, action: Action,
   version: Nat, purpose: {"view", "pipeline"}]

NoJob ==
  [todo |-> {}, new |-> NoId, listing |-> CHOOSE l \in Listing : TRUE,
   action |-> CHOOSE a \in Action : TRUE, version |-> 0, purpose |-> "view"]

Verdict == {"none", "open", "blocked"}

Points == {"down", "idle", "flag", "pipeline", "supersede", "policy"}

TypeOK ==
  /\ live \in [Listing -> Fingerprint]
  /\ file \in Queue
  /\ fileState \in {"whole", "empty", "garbled"}
  /\ mem \in [Session -> Queue]
  /\ loaded \in [Session -> Ingest]
  /\ pc \in [Session -> Points]
  /\ writing \in [Session -> BOOLEAN]
  /\ job \in [Session -> Job]
  /\ used \in SUBSET Id
  /\ verdict \in [Id -> Verdict]

Init ==
  /\ live \in [Listing -> Fingerprint]
  /\ file = EmptyQueue
  /\ fileState = "whole"
  /\ mem = [s \in Session |-> EmptyQueue]
  /\ loaded = [s \in Session |-> NothingLoaded]
  /\ pc = [s \in Session |-> "down"]
  /\ writing = [s \in Session |-> FALSE]
  /\ job = [s \in Session |-> NoJob]
  /\ used = {}
  /\ verdict = [i \in Id |-> "none"]

-----------------------------------------------------------------------------
(* What the store reads of a set of rows. *)

HasStatus(q, i, st) == q[i] # NoRow /\ q[i].status = st

\* Variant for mutation: the status is not looked at.
SameTarget(q, l, a) ==
  {i \in Id : q[i] # NoRow /\ q[i].listing = l /\ q[i].action = a}

PendingSame(q, l, a) ==
  {i \in Id : /\ HasStatus(q, i, "pending")
              /\ q[i].listing = l
              /\ q[i].action = a}

Drifted(q, seen) ==
  {i \in Id : /\ HasStatus(q, i, "pending")
              /\ seen[q[i].listing] # NotListed
              /\ seen[q[i].listing] # q[i].fp}

\* Variant for mutation: the version of the rows that are replaced.
SameVersion(q, same) == Max({1} \cup {q[i].version : i \in same})

NextVersion(q, same) == 1 + Max({0} \cup {q[i].version : i \in same})

-----------------------------------------------------------------------------
(* Saving: the change in memory and the truncation of the file, then the   *)
(* write.  A write over what another session wrote since the truncation    *)
(* leaves the tail of the longer text, which no longer parses.             *)

Save(s, q) ==
  /\ mem' = [mem EXCEPT ![s] = q]
  /\ fileState' = "empty"
  /\ writing' = [writing EXCEPT ![s] = TRUE]

SaveRow(s, i, row) == Save(s, [mem[s] EXCEPT ![i] = row])

Write(s) ==
  /\ writing[s]
  /\ writing' = [writing EXCEPT ![s] = FALSE]
  /\ \/ fileState' = "whole" /\ file' = mem[s]
     \/ fileState # "empty" /\ fileState' = "garbled" /\ UNCHANGED file
  /\ UNCHANGED <<live, mem, loaded, pc, job, used, verdict>>

At(s, point) == pc[s] = point /\ ~writing[s]
Goto(s, point) == pc' = [pc EXCEPT ![s] = point]

-----------------------------------------------------------------------------
(* A store is built from what the file holds; a file that does not parse   *)
(* is an empty queue.  A session ends by a crash or by being closed.       *)

Start(s) ==
  /\ pc[s] = "down"
  /\ Goto(s, "idle")
  /\ mem' = [mem EXCEPT ![s] = IF fileState = "whole" THEN file ELSE EmptyQueue]
  /\ verdict' = [i \in Id |-> IF mem'[s][i] # NoRow /\ verdict[i] = "none"
                              THEN "open" ELSE verdict[i]]
  /\ UNCHANGED <<live, file, fileState, loaded, writing, job, used>>

Crash(s) ==
  /\ pc[s] # "down"
  /\ (IF writing[s] THEN "save" ELSE IF pc[s] = "idle" THEN "rest" ELSE "call") \in CrashIn
  /\ Goto(s, "down")
  /\ mem' = [mem EXCEPT ![s] = EmptyQueue]
  /\ loaded' = [loaded EXCEPT ![s] = NothingLoaded]
  /\ writing' = [writing EXCEPT ![s] = FALSE]
  /\ job' = [job EXCEPT ![s] = NoJob]
  /\ UNCHANGED <<live, file, fileState, used, verdict>>

-----------------------------------------------------------------------------
(* Ingest: a listing may be missing from what the sync returned, ended or  *)
(* skipped.  Every pending row whose listing drifted is flagged, each with *)
(* a save.                                                                 *)

LoadListings(s, purpose) ==
  /\ At(s, "idle")
  /\ \E missing \in SUBSET Listing :
       LET seen == [l \in Listing |-> IF l \in missing THEN NotListed ELSE live[l]]
       IN  /\ loaded' = [loaded EXCEPT ![s] = seen]
           /\ job' = [job EXCEPT ![s] = [NoJob EXCEPT !.todo = Drifted(mem[s], seen),
                                                      !.purpose = purpose]]
  /\ Goto(s, "flag")
  /\ UNCHANGED <<live, file, fileState, mem, writing, used, verdict>>

\* Variants for mutation: the loop stops after one row; it never gets past it.
FlagOneThenBreak(s, i) ==
  /\ At(s, "flag")
  /\ i \in job[s].todo
  /\ SaveRow(s, i, [mem[s][i] EXCEPT !.stale = TRUE])
  /\ job' = [job EXCEPT ![s].todo = {}]
  /\ UNCHANGED <<live, file, loaded, pc, used, verdict>>

FlagOneAgain(s, i) ==
  /\ At(s, "flag")
  /\ i \in job[s].todo
  /\ SaveRow(s, i, [mem[s][i] EXCEPT !.stale = TRUE])
  /\ UNCHANGED <<live, file, loaded, pc, job, used, verdict>>

FlagOne(s, i) ==
  /\ At(s, "flag")
  /\ i \in job[s].todo
  /\ SaveRow(s, i, [mem[s][i] EXCEPT !.stale = TRUE])
  /\ job' = [job EXCEPT ![s].todo = @ \ {i}]
  /\ UNCHANGED <<live, file, loaded, pc, used, verdict>>

FlagDone(s) ==
  /\ At(s, "flag")
  /\ job[s].todo = {}
  /\ Goto(s, IF job[s].purpose = "pipeline" THEN "pipeline" ELSE "idle")
  /\ UNCHANGED <<live, file, fileState, mem, loaded, writing, job, used, verdict>>

-----------------------------------------------------------------------------
(* The pipeline enqueues proposals for the listings it has just ingested.  *)

\* uuid4: which of the ids that were never drawn does not matter.
FreshId == CHOOSE n \in Id : n \notin used

\* Variant for mutation: a proposal for a listing that was not ingested.
ProposeUnlisted(s, l, a) ==
  /\ At(s, "pipeline")
  /\ used # Id
  /\ used' = used \cup {FreshId}
  /\ LET same == PendingSame(mem[s], l, a)
     IN  job' = [job EXCEPT ![s] = [@ EXCEPT !.todo = same, !.new = FreshId, !.listing = l,
                                    !.action = a, !.version = NextVersion(mem[s], same)]]
  /\ Goto(s, "supersede")
  /\ UNCHANGED <<live, file, fileState, mem, loaded, writing, verdict>>

\* Variant for mutation: the id is counted from the rows of the file.
ProposeNextIdOfFile(s, l, a) ==
  /\ At(s, "pipeline")
  /\ loaded[s][l] # NotListed
  /\ \E n \in Id : file[n] = NoRow
  /\ LET same == PendingSame(mem[s], l, a)
         next == CHOOSE n \in Id : file[n] = NoRow
     IN  /\ used' = used \cup {next}
         /\ job' = [job EXCEPT ![s] = [@ EXCEPT !.todo = same, !.new = next, !.listing = l,
                                       !.action = a, !.version = NextVersion(mem[s], same)]]
  /\ Goto(s, "supersede")
  /\ UNCHANGED <<live, file, fileState, mem, loaded, writing, verdict>>

\* create_deduped: a fresh id, the version after the pending rows it replaces.
Propose(s, l, a) ==
  /\ At(s, "pipeline")
  /\ loaded[s][l] # NotListed
  /\ used # Id
  /\ used' = used \cup {FreshId}
  /\ LET same == PendingSame(mem[s], l, a)
     IN  job' = [job EXCEPT ![s] = [@ EXCEPT !.todo = same, !.new = FreshId, !.listing = l,
                                    !.action = a, !.version = NextVersion(mem[s], same)]]
  /\ Goto(s, "supersede")
  /\ UNCHANGED <<live, file, fileState, mem, loaded, writing, verdict>>

SupersedeOne(s, i) ==
  /\ At(s, "supersede")
  /\ i \in job[s].todo
  /\ SaveRow(s, i, [mem[s][i] EXCEPT !.status = "superseded", !.superseded_by = job[s].new])
  /\ job' = [job EXCEPT ![s].todo = @ \ {i}]
  /\ UNCHANGED <<live, file, loaded, pc, used, verdict>>

\* Variant for mutation: the new row is added before the old ones are replaced.
InsertBeforeSuperseding(s) ==
  /\ At(s, "supersede")
  /\ LET j == job[s]
     IN  SaveRow(s, j.new, NewRow(j.listing, j.action, loaded[s][j.listing], j.version))
  /\ Goto(s, "policy")
  /\ UNCHANGED <<live, file, loaded, job, used, verdict>>

InsertNew(s) ==
  /\ At(s, "supersede")
  /\ job[s].todo = {}
  /\ LET j == job[s]
     IN  SaveRow(s, j.new, NewRow(j.listing, j.action, loaded[s][j.listing], j.version))
  /\ Goto(s, "policy")
  /\ UNCHANGED <<live, file, loaded, job, used, verdict>>

\* What becomes of the verdict: a row that could be read before it stays open.
Judge(n, v) == verdict' = [verdict EXCEPT ![n] = IF @ = "none" THEN v ELSE @]

\* Variant for mutation: a blocked row is left pending with its flags.
FlagBlockedOnly(s, allowed, compliant) ==
  LET n == job[s].new
      row == [mem[s][n] EXCEPT !.flagged = ~allowed, !.noncompliant = ~compliant]
  IN  /\ At(s, "policy")
      /\ SaveRow(s, n, row)
      /\ Judge(n, IF allowed THEN "open" ELSE "blocked")
      /\ Goto(s, "pipeline")
      /\ UNCHANGED <<live, file, loaded, job, used>>

\* The second half of _enqueue_item: verdicts are stored on the row, and a row
\* that policy blocks is rejected in the name of the default actor.  With a
\* blank default actor that raises, and the row stays as create saved it, open
\* to the operators of this session too.
ApplyPolicy(s, allowed, compliant) ==
  LET n == job[s].new
      row == [mem[s][n] EXCEPT !.flagged = ~allowed, !.noncompliant = ~compliant]
  IN  /\ At(s, "policy")
      /\ \/ /\ allowed
            /\ SaveRow(s, n, row)
            /\ Judge(n, "open")
            /\ Goto(s, "pipeline")
            /\ UNCHANGED job
         \/ /\ ~allowed
            /\ MayTransition(mem[s][n], "rejected", DefaultActor, "none")
            /\ SaveRow(s, n, RejectedRow(row, DefaultActor))
            /\ Judge(n, "blocked")
            /\ Goto(s, "pipeline")
            /\ UNCHANGED job
         \/ /\ ~allowed
            /\ ~MayTransition(mem[s][n], "rejected", DefaultActor, "none")
            /\ Judge(n, "open")
            /\ Goto(s, "idle")
            /\ job' = [job EXCEPT ![s] = NoJob]
            /\ UNCHANGED <<fileState, mem, writing>>
      /\ UNCHANGED <<live, file, loaded, used>>

PipelineEnd(s) ==
  /\ At(s, "pipeline")
  /\ Goto(s, "idle")
  /\ job' = [job EXCEPT ![s] = NoJob]
  /\ UNCHANGED <<live, file, fileState, mem, loaded, writing, used, verdict>>

-----------------------------------------------------------------------------
(* Operators, and the apply service. *)

\* Variant for mutation: the acknowledgement is not saved.
AcknowledgeInMemory(s, i) ==
  /\ At(s, "idle")
  /\ HasStatus(mem[s], i, "pending")
  /\ ~mem[s][i].dry_run
  /\ mem' = [mem EXCEPT ![s][i].dry_run = TRUE]
  /\ UNCHANGED <<live, file, fileState, loaded, pc, writing, job, used, verdict>>

Acknowledge(s, i) ==
  /\ At(s, "idle")
  /\ HasStatus(mem[s], i, "pending")
  /\ ~mem[s][i].dry_run
  /\ SaveRow(s, i, [mem[s][i] EXCEPT !.dry_run = TRUE])
  /\ UNCHANGED <<live, file, loaded, pc, job, used, verdict>>

\* ReviewQueueStore.transition.
Transition(s, i, target, actor, dry) ==
  /\ At(s, "idle")
  /\ mem[s][i] # NoRow
  /\ MayTransition(mem[s][i], target, actor, dry)
  /\ SaveRow(s, i, Transitioned(mem[s][i], target, actor, dry))
  /\ UNCHANGED <<live, file, loaded, pc, job, used, verdict>>

Decide(s, i, actor, dry) ==
  \E target \in {"approved", "rejected"} : Transition(s, i, target, actor, dry)

\* The outcome of an apply: only a row that passed the gates gets this far.
Settle(s, i, actor) ==
  /\ mem[s][i] # NoRow
  /\ ApplyExecutorReady(mem[s][i], TRUE)
  /\ \E target \in {"applied", "failed"} : Transition(s, i, target, actor, "none")

\* The seller, or eBay, changes a listing.
SellerEdit(l, f) ==
  /\ live' = [live EXCEPT ![l] = f]
  /\ UNCHANGED <<file, fileState, mem, loaded, pc, writing, job, used, verdict>>

-----------------------------------------------------------------------------
SessionStep(s) ==
  \/ Write(s)
  \/ Start(s)
  \/ Crash(s)
  \/ \E p \in {"view", "pipeline"} : LoadListings(s, p)
  \/ \E i \in Id : FlagOne(s, i)
  \/ FlagDone(s)
  \/ \E l \in Listing, a \in Action : Propose(s, l, a)
  \/ \E i \in Id : SupersedeOne(s, i)
  \/ InsertNew(s)
  \/ \E allowed, compliant \in BOOLEAN : ApplyPolicy(s, allowed, compliant)
  \/ PipelineEnd(s)
  \/ \E i \in Id : Acknowledge(s, i)
  \/ \E i \in Id, actor \in Actor, dry \in DryRunArg : Decide(s, i, actor, dry)
  \/ \E i \in Id, actor \in Actor : Settle(s, i, actor)

Next ==
  \/ \E s \in Session : SessionStep(s)
  \/ \E l \in Listing, f \in Fingerprint : SellerEdit(l, f)

Spec == Init /\ [][Next]_vars

(* A call that has begun goes on: the code never waits for another session *)
(* or for an operator inside one.  Only the end of a process stops it.     *)
Proceed(s) ==
  \/ Write(s)
  \/ \E i \in Id : FlagOne(s, i) \/ SupersedeOne(s, i)
  \/ FlagDone(s)
  \/ InsertNew(s)
  \/ \E allowed, compliant \in BOOLEAN : ApplyPolicy(s, allowed, compliant)
  \/ PipelineEnd(s)

FairSpec == Spec /\ \A s \in Session : WF_vars(Proceed(s))

-----------------------------------------------------------------------------
(* Safety.  A property of the queue is a property of every copy of it: the *)
(* memory of each session and the file.                                    *)

Copies == {file} \cup {mem[s] : s \in Session}

\* Never two pending rows for the same change to the same listing: an operator
\* cannot approve two rival versions of one proposal.
OnePendingIn(q) ==
  \A i, j \in Id :
    /\ HasStatus(q, i, "pending") /\ HasStatus(q, j, "pending")
    /\ q[i].listing = q[j].listing /\ q[i].action = q[j].action
    => i = j

OnePendingPerTarget == \A q \in Copies : OnePendingIn(q)

\* A row that was approved at any time keeps the evidence an apply asks for:
\* who approved it and when, and that the diff was seen if that is required;
\* a row that was not approved carries no such evidence.
EvidenceIn(q) ==
  \A i \in Id : q[i] # NoRow =>
    /\ q[i].status \in Sanctioned =>
         /\ q[i].reviewed /\ q[i].approved /\ q[i].approved_by \in Actor
         /\ RequireDryRun => q[i].dry_run
         /\ q[i].rejected_by = NoActor
    /\ q[i].status \notin Sanctioned => ~q[i].approved /\ q[i].approved_by = NoActor
    /\ q[i].status = "rejected" => q[i].rejected_by \in Actor /\ ~q[i].dry_run

ApprovalEvidence == \A q \in Copies : EvidenceIn(q)

\* In every copy, a row that an operator approved is one that policy passed, or
\* one that could be read before policy's verdict was stored in it: create saves
\* the row as pending first, so a session that starts before the second save
\* holds it unjudged, and with a blank default actor there is no second save.
\* No other way leads around policy: not a crash between the two saves, not a
\* stale memory written over a rejected row.
JudgedBeforeApproval ==
  \A q \in Copies, i \in Id :
    q[i] # NoRow /\ q[i].status \in Sanctioned => verdict[i] = "open"

\* The row that supersedes another, where the copy holds it, proposes the same
\* change and has a later version, so the rows that are there never form a
\* circle of superseded_by.  Nothing is said of a successor the copy lacks.
SuccessionIn(q) ==
  \A i \in Id : HasStatus(q, i, "superseded") =>
    LET n == q[i].superseded_by
    IN  /\ n \in Id
        /\ q[n] # NoRow => /\ q[n].listing = q[i].listing
                           /\ q[n].action = q[i].action
                           /\ q[n].version > q[i].version

SupersededByLaterVersion == \A q \in Copies : SuccessionIn(q)

\* The parts of a row that the idempotency key of an apply is made from.
Key(row) == <<row.listing, row.action, row.fp, row.version>>

\* However far the copies of the queue have diverged, an id means the same
\* proposal in all of them, so two sessions compute the same apply key.
SameIdSameProposal ==
  \A q, r \in Copies, i \in Id : q[i] # NoRow /\ r[i] # NoRow => Key(q[i]) = Key(r[i])

\* Between calls, a pending row whose listing differs from what the session
\* last ingested is marked stale: the loop of flag_stale_vs_live missed none.
DriftIsFlagged ==
  \A s \in Session : At(s, "idle") =>
    \A i \in Drifted(mem[s], loaded[s]) : mem[s][i].stale

\* With one session, what it holds between calls is what the file holds: no
\* operation changes a row without saving it.
RestIsSaved ==
  \A s \in Session :
    Session = {s} /\ At(s, "idle") /\ fileState = "whole" => mem[s] = file

-----------------------------------------------------------------------------
(* What a step may never do. *)

\* In the memory of a session no row disappears, a status moves only along an
\* edge of the state machine, and a row that is settled never changes again.
RowMoves(q, r, i) ==
  q[i] # NoRow /\ r[i] # q[i] =>
    /\ r[i] # NoRow
    /\ q[i].status \notin Terminal
    /\ r[i].status # q[i].status => <<q[i].status, r[i].status>> \in AllowedEdges

MemoryFollowsEdges ==
  [][\A s \in Session, i \in Id :
       pc[s] # "down" /\ pc'[s] # "down" => RowMoves(mem[s], mem'[s], i)]_vars

\* A superseded row of the file stays superseded ("Superseded items are
\* terminal", app/streamlit_app.py).
SupersededIsTerminal ==
  [][\A i \in Id : HasStatus(file, i, "superseded") => HasStatus(file', i, "superseded")]_vars

\* Every call of a session comes back, unless its process ends.
EveryCallReturns ==
  \A s \in Session : pc[s] \notin {"down", "idle"} ~> pc[s] \in {"down", "idle"}

-----------------------------------------------------------------------------
(* The queue of one session as a book of proposals.                        *)

Entry(row) == [target |-> <<row.listing, row.action>>, status |-> row.status, seen |-> row.dry_run]

\* The book an operator sees: the rows of the last complete save.
Book == [i \in Id |-> IF file[i] = NoRow THEN [target |-> "none"] ELSE Entry(file[i])]

Lifecycle == INSTANCE QueueLifecycle
               WITH Target <- Listing \X Action, book <- Book

\* The saved queue of a single session implements QueueLifecycle, across the
\* end of its process between calls and between the saves of one call.
ImplementsLifecycle == Lifecycle!Spec

=============================================================================
