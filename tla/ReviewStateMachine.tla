------------------------- MODULE ReviewStateMachine -------------------------
(***************************************************************************)
(* The rows of the review queue and the rules that move one row from one   *)
(* status to the next: review_queue/state_machine.py, and the gates an     *)
(* approved row must pass before it may be applied,                        *)
(* review_queue/apply_guard.py.                                            *)
(*                                                                         *)
(* A row keeps what those rules read.  A timestamp is the fact that it is  *)
(* set; rejected_at and rejected_by are always assigned together and are   *)
(* one field; the proposal's payload is the pair (listing, action) and the *)
(* fingerprint of the listing it was computed from.                        *)
(***************************************************************************)
EXTENDS Naturals

CONSTANTS
  Id,               \* row ids, each a fresh uuid4
  Listing,
  Action,           \* the proposed action types
  Fingerprint,      \* what listing_snapshot_fingerprint returns
  Actor,            \* operator identities, none of them blank
  NoActor,          \* the blank actor, and "nobody"
  NoId,             \* superseded_by is None
  NoRow,            \* the id is not in the queue
  RequireDryRun,    \* require_dry_run_acknowledgement
  RequireApprover   \* require_manual_approval_for_write

ASSUME ConstantsOK ==
  /\ NoActor \notin Actor
  /\ NoId \notin Id
  /\ RequireDryRun \in BOOLEAN
  /\ RequireApprover \in BOOLEAN

Status == {"pending", "approved", "rejected", "superseded", "applied", "failed"}

\* Statuses no edge leaves.
Terminal == {"rejected", "superseded", "applied", "failed"}

\* Statuses that only an operator's approval leads to.
Sanctioned == {"approved", "applied", "failed"}

\* The keyword argument dry_run_acknowledged: absent, True or False.
DryRunArg == {"none", "true", "false"}

Row ==
  [listing: Listing, action: Action, fp: Fingerprint, version: Nat,
   status: Status, superseded_by: Id \cup {NoId}, dry_run: BOOLEAN,
   reviewed: BOOLEAN, approved: BOOLEAN, approved_by: Actor \cup {NoActor},
   rejected_by: Actor \cup {NoActor}, stale: BOOLEAN,
   flagged: BOOLEAN, noncompliant: BOOLEAN]

ASSUME NoRowOK == NoRow \notin Row

\* A row as create_deduped builds it: the optional fields at their defaults.
NewRow(l, a, f, v) ==
  [listing |-> l, action |-> a, fp |-> f, version |-> v,
   status |-> "pending", superseded_by |-> NoId, dry_run |-> FALSE,
   reviewed |-> FALSE, approved |-> FALSE, approved_by |-> NoActor,
   rejected_by |-> NoActor, stale |-> FALSE,
   flagged |-> FALSE, noncompliant |-> FALSE]

AllowedEdges ==
  {<<"pending", "approved">>, <<"pending", "rejected">>, <<"pending", "superseded">>,
   <<"approved", "applied">>, <<"approved", "failed">>}

\* Variant for mutation: the acknowledgement of the diff is not looked at.
MayTransitionUnseen(row, target, actor, dry) ==
  /\ actor # NoActor
  /\ <<row.status, target>> \in AllowedEdges
  /\ target \in {"applied", "failed"} =>
       row.approved /\ row.reviewed /\ row.approved_by # NoActor

\* build_transition_update raises unless this holds.
MayTransition(row, target, actor, dry) ==
  /\ actor # NoActor
  /\ <<row.status, target>> \in AllowedEdges
  /\ target = "approved" /\ RequireDryRun => row.dry_run /\ dry = "true"
  /\ target \in {"applied", "failed"} =>
       row.approved /\ row.reviewed /\ row.approved_by # NoActor

\* The row after an approval: with the dry-run rule on, MayTransition has seen
\* TRUE; with it off an argument that is given is stored as it is.
ApprovedRow(row, actor, dry) ==
  [row EXCEPT !.status = "approved", !.reviewed = TRUE, !.approved = TRUE,
              !.approved_by = actor, !.rejected_by = NoActor,
              !.dry_run = IF dry = "none" THEN @ ELSE dry = "true"]

\* Variant for mutation: a rejection that keeps the acknowledgement.
RejectedRowKeepsAck(row, actor) ==
  [row EXCEPT !.status = "rejected", !.reviewed = TRUE, !.rejected_by = actor,
              !.approved = FALSE, !.approved_by = NoActor]

RejectedRow(row, actor) ==
  [row EXCEPT !.status = "rejected", !.reviewed = TRUE, !.rejected_by = actor,
              !.approved = FALSE, !.approved_by = NoActor, !.dry_run = FALSE]

\* The row after the patch of build_transition_update is merged into it.
Transitioned(row, target, actor, dry) ==
  IF target = "approved" THEN ApprovedRow(row, actor, dry)
  ELSE IF target = "rejected" THEN RejectedRow(row, actor)
  ELSE [row EXCEPT !.status = target]

-----------------------------------------------------------------------------
(***************************************************************************)
(* The local gates of an apply, as collect_state_machine_apply_blockers    *)
(* lists them and apply_executor_ready repeats them: with compliance       *)
(* checks enabled, and every switch of the write guard on.                 *)
(***************************************************************************)

ApplyBlocked(row) ==
  \/ row.status # "approved"
  \/ ~(row.reviewed /\ row.approved)
  \/ RequireApprover /\ row.approved_by = NoActor
  \/ RequireDryRun /\ ~row.dry_run
  \/ row.stale
  \/ row.noncompliant

ApplyExecutorReady(row, policyVerified) ==
  ~ApplyBlocked(row) /\ ~row.flagged /\ policyVerified

=============================================================================
