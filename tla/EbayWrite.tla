------------------------------ MODULE EbayWrite ------------------------------
(***************************************************************************)
(* execution/ebay_write_executor.py and adapters/ebay_inventory_mutation:  *)
(* one call of EbayWriteExecutor.apply.  It reads the inventory item, sees *)
(* that the item is still what was approved, and puts the whole item back  *)
(* with one field changed.  Both requests are retried over a network that  *)
(* loses and delays requests and answers, within a budget of calls, and    *)
(* with one renewal of the token after a 401.                              *)
(***************************************************************************)
EXTENDS Naturals

CONSTANTS
  Title, Aspect,
  NoPrior,          \* the patch names no expected prior value
  NoDoc,            \* the item has not been read
  MaxEdits,         \* bound: edits by others while the call runs
  MaxRetries,       \* min(ebay_max_retries, 8)
  BudgetMax,        \* api_budget_max_calls_per_run
  CanRefresh        \* a refresh token and client credentials are configured

ASSUME WriteConstantsOK ==
  /\ MaxEdits \in Nat /\ MaxRetries \in Nat \ {0} /\ BudgetMax \in Nat \ {0}
  /\ CanRefresh \in BOOLEAN
  /\ NoPrior \notin Aspect

Doc == [title: Title, aspect: Aspect, other: 0..MaxEdits]

ASSUME NoDocOK == NoDoc \notin Doc

VARIABLES
  doc,        \* the inventory item at eBay; other counts edits of other fields
  target,     \* what the approved row asks for
  prior,      \* expected_prior_values of the patch
  snap,       \* the live listing the caller resolved before the call
  pc,         \* where the call is
  read,       \* the item as GET returned it
  attempt,    \* attempts of the running request
  spent,      \* ApiCallBudget.used: other calls of the same client count too
  recovered,  \* _oauth_recovered: the token was renewed once
  arrived,    \* whether the request that is waited for was carried out
  late,       \* PUT requests given up on that may still be carried out
  edits,      \* edits by others so far
  past,       \* history, see WritePromise
  landed      \* history, see WritePromise

vars == <<doc, target, prior, snap, pc, read, attempt, spent, recovered,
          arrived, late, edits, past, landed>>

Target == [field: {"title"}, value: Title] \cup [field: {"aspect"}, value: Aspect]

With(d) == [d EXCEPT ![target.field] = target.value]

Final == {"ok", "failed", "raised"}

TypeOK ==
  /\ doc \in Doc /\ past \subseteq Doc
  /\ target \in Target
  /\ prior \in Aspect \cup {NoPrior}
  /\ snap \in [title: Title, aspect: Aspect, other: {0}]
  /\ pc \in {"begin", "get", "compare", "put", "wait"} \cup Final
  /\ read \in Doc \cup {NoDoc}
  /\ attempt \in 0..MaxRetries
  /\ spent \in 0..(BudgetMax + 2)
  /\ recovered \in BOOLEAN /\ arrived \in BOOLEAN /\ landed \in BOOLEAN
  /\ late \in 0..MaxRetries
  /\ edits \in 0..MaxEdits

\* The item may have changed since the caller resolved the listing; a client
\* that served earlier calls has its budget in part, or all of it and the call
\* that was refused, behind it, and perhaps its renewal of the token.
Init ==
  /\ snap \in [title: Title, aspect: Aspect, other: {0}]
  /\ doc \in Doc /\ doc.other <= 1
  /\ target \in Target
  /\ prior \in (IF target.field = "aspect" THEN Aspect \cup {NoPrior} ELSE {NoPrior})
  /\ pc = "begin"
  /\ read = NoDoc
  /\ attempt = 0
  /\ spent \in 0..(BudgetMax + 1)
  /\ recovered \in BOOLEAN
  /\ arrived = FALSE
  /\ late = 0
  /\ edits = doc.other
  /\ past = {doc}
  /\ landed = FALSE

Goto(point) == pc' = point

\* What a step of the call leaves alone unless it says otherwise.
Fixed == UNCHANGED <<target, prior, snap>>
ItemStays == UNCHANGED <<doc, late, edits, past, landed>>

-----------------------------------------------------------------------------
(* Until the item is read. *)

\* The gates of apply: the switches, the write guard, the action, the snapshot,
\* the sku, a title that is empty or drops a disclosure; for specifics a patch
\* outside the whitelist.
Refused == Goto("failed") /\ UNCHANGED <<spent, landed>>

\* get_json takes one call of the budget.
AskForItem ==
  /\ spent' = spent + 1
  /\ Goto(IF spent < BudgetMax THEN "get" ELSE "failed")
  /\ UNCHANGED landed

\* A title that was and still is as approved needs no request.  Whether it was
\* (title_before) is not kept: the item may be asked for in any case.
TitleAsApproved ==
  /\ target.value = snap.title
  /\ Goto("ok") /\ landed' = TRUE
  /\ UNCHANGED spent

Untouched == Fixed /\ UNCHANGED <<doc, read, attempt, recovered, arrived, late, edits, past>>

BeginTitle ==
  /\ pc = "begin" /\ target.field = "title"
  /\ Refused \/ TitleAsApproved \/ AskForItem
  /\ Untouched

BeginSpecifics ==
  /\ pc = "begin" /\ target.field = "aspect"
  /\ Refused \/ AskForItem
  /\ Untouched

\* A 401: recover_inventory_session_after_401 renews the token once in the life
\* of the executor, and the request is tried again.  A renewal that fails has
\* been tried; lost says how the call may end by it.
Unauthorized(again, lost) ==
  \/ /\ ~recovered /\ CanRefresh
     /\ recovered' = TRUE
     /\ \/ Goto(again) /\ attempt' = attempt + 1
        \/ pc' \in lost /\ UNCHANGED attempt
  \/ /\ recovered \/ ~CanRefresh
     /\ Goto("failed") /\ UNCHANGED <<recovered, attempt>>

\* get_json turns its own failures into a RuntimeError, which apply reports as a
\* failed call; so is a token that eBay refuses.  An exception of another kind,
\* of the connection to the token service, is caught by nobody.
GetErrors == {"failed", "raised"}

Get ==
  /\ pc = "get" /\ attempt < MaxRetries
  /\ \/ read' = doc /\ Goto("compare") /\ UNCHANGED <<attempt, recovered>>
     \/ \* no answer, 429 or 5xx
        attempt' = attempt + 1 /\ UNCHANGED <<read, pc, recovered>>
     \/ \* no token; any other status, or an item without a product
        pc' \in GetErrors /\ UNCHANGED <<read, attempt, recovered>>
     \/ Unauthorized("get", GetErrors) /\ UNCHANGED read
  /\ Fixed /\ ItemStays
  /\ UNCHANGED <<spent, arrived>>

\* Variant for mutation: only the PUT reports that its attempts are used up.
GiveUpPut ==
  /\ pc = "put" /\ attempt = MaxRetries
  /\ Goto("failed")
  /\ Fixed /\ ItemStays
  /\ UNCHANGED <<read, attempt, spent, recovered, arrived>>

GiveUp ==
  /\ pc \in {"get", "put"} /\ attempt = MaxRetries
  /\ Goto("failed")
  /\ Fixed /\ ItemStays
  /\ UNCHANGED <<read, attempt, spent, recovered, arrived>>

\* The item must still have the title of the live listing ...
TitleDrifted == read.title # snap.title

\* ... and for a patch of specifics the prior value it names.
PriorDrifted == prior # NoPrior /\ read.aspect # prior

Compared == attempt' = 0 /\ Fixed /\ UNCHANGED <<doc, spent, recovered, arrived, late, edits, past>>

\* Variant for mutation: the item that is put back is the one the caller saw.
CompareAndUseSnapshot ==
  /\ pc = "compare" /\ target.field = "title"
  /\ Goto(IF TitleDrifted THEN "failed" ELSE "put")
  /\ read' = snap
  /\ Compared /\ UNCHANGED landed

CompareTitle ==
  /\ pc = "compare" /\ target.field = "title"
  /\ Goto(IF TitleDrifted THEN "failed" ELSE "put")
  /\ Compared /\ UNCHANGED <<read, landed>>

CompareSpecifics ==
  /\ pc = "compare" /\ target.field = "aspect"
  /\ \/ /\ TitleDrifted \/ PriorDrifted
        /\ Goto("failed") /\ UNCHANGED landed
     \/ /\ ~TitleDrifted /\ ~PriorDrifted
        /\ IF With(read) = read THEN Goto("ok") /\ landed' = TRUE
                                ELSE Goto("put") /\ UNCHANGED landed
  /\ Compared /\ UNCHANGED read

-----------------------------------------------------------------------------
(* The write. *)

\* Each attempt takes a call of the budget and asks for the token; an exception
\* of either is nobody's in the executor, whatever an earlier attempt has done.
Send ==
  /\ spent' = spent + 1
  /\ \/ Goto("raised")
     \/ spent < BudgetMax /\ Goto("wait")
  /\ arrived' = FALSE
  /\ Fixed /\ ItemStays
  /\ UNCHANGED <<read, attempt, recovered>>

\* Variant for mutation: one attempt more.
PutOnceMore == pc = "put" /\ attempt <= MaxRetries /\ Send

Put == pc = "put" /\ attempt < MaxRetries /\ Send

\* eBay replaces the whole item.
Replace ==
  /\ doc' = With(read)
  /\ past' = past \cup {doc'}
  /\ landed' = TRUE
  /\ Fixed
  /\ UNCHANGED <<pc, read, attempt, spent, recovered, edits>>

Arrive == pc = "wait" /\ ~arrived /\ arrived' = TRUE /\ Replace /\ UNCHANGED late

ArriveLate == late > 0 /\ late' = late - 1 /\ Replace /\ UNCHANGED arrived

\* What the client makes of the answer, or of none.
Answer ==
  /\ pc = "wait"
  /\ \/ arrived /\ Goto("ok") /\ UNCHANGED <<attempt, recovered, late>>
     \/ \* no answer in time, 429 or 5xx
        /\ Goto("put") /\ attempt' = attempt + 1
        /\ late' \in {late, late + 1}
        /\ arrived => late' = late
        /\ UNCHANGED recovered
     \/ \* any other status
        ~arrived /\ Goto("failed") /\ UNCHANGED <<attempt, recovered, late>>
     \/ ~arrived /\ Unauthorized("put", {"failed"}) /\ UNCHANGED late
  /\ arrived' = FALSE
  /\ Fixed
  /\ UNCHANGED <<doc, read, spent, edits, past, landed>>

-----------------------------------------------------------------------------
\* Others change the item: the seller, a sale, another apply.
Edit ==
  /\ edits < MaxEdits
  /\ edits' = edits + 1
  /\ \/ \E t \in Title : doc' = [doc EXCEPT !.title = t]
     \/ \E a \in Aspect : doc' = [doc EXCEPT !.aspect = a]
     \/ doc' = [doc EXCEPT !.other = edits']
  /\ past' = past \cup {doc'}
  /\ Fixed
  /\ UNCHANGED <<pc, read, attempt, spent, recovered, arrived, late, landed>>

CallStep ==
  \/ BeginTitle \/ BeginSpecifics \/ Get \/ GiveUp
  \/ CompareTitle \/ CompareSpecifics \/ Put \/ Answer

Next == CallStep \/ Arrive \/ ArriveLate \/ Edit

Spec == Init /\ [][Next]_vars

\* Every request has a timeout, so the call itself is never held up for good.
FairSpec == Spec /\ WF_vars(CallStep)

-----------------------------------------------------------------------------
\* How GuardedApply sees the call.
Promise == INSTANCE WritePromise
             WITH outcome <- IF pc \in Final THEN pc ELSE "running"

\* The executor keeps WritePromise, whatever is lost, delayed or repeated: its
\* write undoes no edit made before the call began, changes one field, and a
\* success has landed.
KeepsPromise == Promise!Spec

\* Retries, renewals of the token and waiting come to an end.
CallEnds == <>(pc \in Final)

=============================================================================
