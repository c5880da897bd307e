--------------------------- MODULE EbayWriteProofs ---------------------------
(***************************************************************************)
(* The live executor implements WritePromise, for any items, edits by      *)
(* others, number of attempts and budget of calls.                         *)
(***************************************************************************)
EXTENDS EbayWrite, TLAPS

Points == {"begin", "get", "compare", "put", "wait"} \cup Final

\* What is put back was the item at some time since the call began, and an
\* answer means that the write was carried out.
IInv ==
  /\ doc \in past /\ past \subseteq Doc
  /\ target \in Target /\ snap \in Doc
  /\ pc \in Points /\ late \in Nat
  /\ (pc \in {"compare", "put", "wait"} \/ late > 0) => read \in past
  /\ arrived => landed
  /\ edits \in 0..MaxEdits

\* The item with the change made is an item.
LEMMA WithType == ASSUME IInv, NEW d \in Doc PROVE With(d) \in Doc
<1>1. CASE target.field = "title"
  <2>1. target.value \in Title
    BY <1>1 DEF IInv, Target
  <2>2. With(d) = [d EXCEPT !["title"] = target.value]
    BY <1>1 DEF With
  <2> QED BY <2>1, <2>2 DEF Doc
<1>2. CASE target.field = "aspect"
  <2>1. target.value \in Aspect
    BY <1>2 DEF IInv, Target
  <2>2. With(d) = [d EXCEPT !["aspect"] = target.value]
    BY <1>2 DEF With
  <2> QED BY <2>1, <2>2 DEF Doc
<1> QED BY <1>1, <1>2 DEF IInv, Target

LEMMA InitIInv == Init => IInv
BY WriteConstantsOK DEF Init, IInv, Points, Doc, Target
-----------------------------------------------------------------------------
(* The steps of the promise, as the executor shows them.                   *)

Outcome == IF pc \in Final THEN pc ELSE "running"

PromiseStep == [Promise!Next]_<<doc, snap, target, past, landed, Outcome>>

\* A step of the call that touches nothing the promise is about: it goes on,
\* or it returns, with a success only if the write landed.
LEMMA CallGoesOn ==
  ASSUME pc \notin Final, pc' \in Points, pc' = "ok" => landed,
         UNCHANGED <<doc, snap, target, past, landed>>
  PROVE  PromiseStep
<1>1. Outcome = "running"
  BY DEF Outcome
<1>2. CASE pc' \in Final
  <2>1. Outcome' = pc'
    BY <1>2 DEF Outcome
  <2>2. Promise!Return
    BY <1>1, <1>2, <2>1 DEF Promise!Return, Outcome, Final
  <2> QED BY <2>2 DEF PromiseStep, Promise!Next
<1>3. CASE pc' \notin Final
  BY <1>1, <1>3 DEF PromiseStep, Outcome
<1> QED BY <1>2, <1>3

\* A call that finds the item as it should be.
LEMMA CallFindsDone ==
  ASSUME pc \notin Final, pc' = "ok", landed' = TRUE,
         UNCHANGED <<doc, snap, target, past>>,
         NEW d \in past \cup {snap}, With(d) = d
  PROVE  PromiseStep
<1>1. Outcome = "running" /\ Outcome' = "ok"
  BY DEF Outcome, Final
<1>2. Promise!ReturnWithoutWrite
  BY <1>1 DEF Promise!ReturnWithoutWrite, Promise!With, With, Outcome
<1> QED BY <1>2 DEF PromiseStep, Promise!Next

\* A write that eBay carries out.
LEMMA WriteLands ==
  ASSUME IInv, read \in past, Replace
  PROVE  /\ PromiseStep
         /\ doc' \in past' /\ past' \subseteq Doc /\ past \subseteq past'
<1>1. doc' = With(read) /\ past' = past \cup {doc'} /\ landed' = TRUE
      /\ UNCHANGED <<snap, target, pc>>
  BY DEF Replace, Fixed
<1>2. doc' \in Doc
  BY <1>1, WithType DEF IInv
<1>3. Outcome' = Outcome
  BY <1>1 DEF Outcome
<1>4. Promise!Land
  BY <1>1, <1>3 DEF Promise!Land, Promise!With, With, Outcome
<1> QED BY <1>1, <1>2, <1>4 DEF PromiseStep, Promise!Next, IInv

-----------------------------------------------------------------------------
(* Every action keeps the invariant and is a step of the promise, or none. *)

LEMMA BeginTitleStep == ASSUME IInv, BeginTitle PROVE IInv' /\ PromiseStep
<1>1. /\ pc = "begin" /\ pc' \in {"get", "failed", "ok"}
      /\ UNCHANGED <<doc, snap, target, read, arrived, late, edits, past>>
  BY DEF BeginTitle, Refused, TitleAsApproved, AskForItem, Untouched, Fixed, Goto
<1>2. CASE TitleAsApproved
  <2>1. target.field = "title" /\ target.value = snap.title
    BY <1>2 DEF BeginTitle, TitleAsApproved
  <2>2. With(snap) = [snap EXCEPT !["title"] = snap.title]
    BY <2>1 DEF With
  <2>3. With(snap) = snap
    BY <2>2 DEF IInv, Doc
  <2>4. pc' = "ok" /\ landed' = TRUE
    BY <1>2 DEF TitleAsApproved, Goto
  <2>5. PromiseStep
    BY <1>1, <2>3, <2>4, CallFindsDone DEF Final
  <2> QED BY <1>1, <2>4, <2>5 DEF IInv, Points, Final
<1>3. CASE Refused \/ AskForItem
  <2>1. pc' \in {"get", "failed"} /\ UNCHANGED landed
    BY <1>3 DEF Refused, AskForItem, Goto
  <2>2. PromiseStep
    BY <1>1, <2>1, CallGoesOn DEF Final, Points
  <2> QED BY <1>1, <2>1, <2>2 DEF IInv, Points, Final
<1> QED BY <1>2, <1>3 DEF BeginTitle

LEMMA BeginSpecificsStep == ASSUME IInv, BeginSpecifics PROVE IInv' /\ PromiseStep
<1>1. /\ pc = "begin" /\ pc' \in {"get", "failed"}
      /\ UNCHANGED <<doc, snap, target, read, arrived, late, edits, past, landed>>
  BY DEF BeginSpecifics, Refused, AskForItem, Untouched, Fixed, Goto
<1>2. PromiseStep
  BY <1>1, CallGoesOn DEF Final, Points
<1> QED BY <1>1, <1>2 DEF IInv, Points, Final

LEMMA GetStep == ASSUME IInv, Get PROVE IInv' /\ PromiseStep
<1>1. /\ pc = "get" /\ pc' \in {"get", "compare", "failed", "raised"}
      /\ pc' = "compare" => read' = doc
      /\ read' \in {read, doc}
      /\ UNCHANGED <<doc, snap, target, arrived, late, edits, past, landed>>
  BY DEF Get, Unauthorized, GetErrors, Fixed, ItemStays, Goto
<1>2. PromiseStep
  BY <1>1, CallGoesOn DEF Final, Points
<1> QED BY <1>1, <1>2 DEF IInv, Points, Final

LEMMA GiveUpStep == ASSUME IInv, GiveUp PROVE IInv' /\ PromiseStep
<1>1. /\ pc \in {"get", "put"} /\ pc' = "failed"
      /\ UNCHANGED <<doc, snap, target, read, arrived, late, edits, past, landed>>
  BY DEF GiveUp, Fixed, ItemStays, Goto
<1>2. PromiseStep
  BY <1>1, CallGoesOn DEF Final, Points
<1> QED BY <1>1, <1>2 DEF IInv, Points, Final

LEMMA CompareTitleStep == ASSUME IInv, CompareTitle PROVE IInv' /\ PromiseStep
<1>1. /\ pc = "compare" /\ pc' \in {"failed", "put"}
      /\ UNCHANGED <<doc, snap, target, read, arrived, late, edits, past, landed>>
  BY DEF CompareTitle, Compared, Fixed, Goto
<1>2. PromiseStep
  BY <1>1, CallGoesOn DEF Final, Points
<1> QED BY <1>1, <1>2 DEF IInv, Points, Final

LEMMA CompareSpecificsStep == ASSUME IInv, CompareSpecifics PROVE IInv' /\ PromiseStep
<1>1. /\ pc = "compare" /\ pc' \in {"failed", "put", "ok"}
      /\ UNCHANGED <<doc, snap, target, read, arrived, late, edits, past>>
      /\ \/ pc' = "ok" /\ landed' = TRUE /\ With(read) = read
         \/ pc' # "ok" /\ UNCHANGED landed
  BY DEF CompareSpecifics, Compared, Fixed, Goto
<1>2. PromiseStep
  <2>1. CASE pc' = "ok"
    BY <1>1, <2>1, CallFindsDone DEF IInv, Final
  <2>2. CASE pc' # "ok"
    BY <1>1, <2>2, CallGoesOn DEF Final, Points
  <2> QED BY <2>1, <2>2
<1> QED BY <1>1, <1>2 DEF IInv, Points, Final

LEMMA PutStep == ASSUME IInv, Put PROVE IInv' /\ PromiseStep
<1>1. /\ pc = "put" /\ pc' \in {"wait", "raised"} /\ arrived' = FALSE
      /\ UNCHANGED <<doc, snap, target, read, late, edits, past, landed>>
  BY DEF Put, Send, Fixed, ItemStays, Goto
<1>2. PromiseStep
  BY <1>1, CallGoesOn DEF Final, Points
<1> QED BY <1>1, <1>2 DEF IInv, Points, Final

LEMMA AnswerStep == ASSUME IInv, Answer PROVE IInv' /\ PromiseStep
<1>1. /\ pc = "wait" /\ pc' \in {"ok", "put", "failed"} /\ arrived' = FALSE
      /\ pc' = "ok" => arrived
      /\ late' \in {late, late + 1}
      /\ UNCHANGED <<doc, snap, target, read, edits, past, landed>>
  BY DEF Answer, Unauthorized, Fixed, Goto
<1>2. PromiseStep
  BY <1>1, CallGoesOn DEF IInv, Final, Points
<1> QED BY <1>1, <1>2 DEF IInv, Points, Final

LEMMA ArriveStep == ASSUME IInv, Arrive \/ ArriveLate PROVE IInv' /\ PromiseStep
<1>1. read \in past /\ Replace
  BY DEF IInv, Arrive, ArriveLate
<1>2. /\ PromiseStep
      /\ doc' \in past' /\ past' \subseteq Doc /\ past \subseteq past'
  BY <1>1, WriteLands
<1>3. landed' = TRUE /\ UNCHANGED <<snap, target, pc, read, edits>>
  BY <1>1 DEF Replace, Fixed
<1>4. late' \in Nat
  BY DEF IInv, Arrive, ArriveLate
<1> QED BY <1>1, <1>2, <1>3, <1>4 DEF IInv

LEMMA EditStep == ASSUME IInv, Edit PROVE IInv' /\ PromiseStep
<1>1. /\ edits' = edits + 1 /\ edits' \in 0..MaxEdits
      /\ past' = past \cup {doc'}
      /\ UNCHANGED <<snap, target, pc, read, arrived, late, landed>>
  BY WriteConstantsOK DEF Edit, Fixed, IInv
<1>2. doc' \in Doc
  BY <1>1 DEF Edit, IInv, Doc
<1>3. Outcome' = Outcome
  BY <1>1 DEF Outcome
<1>4. Promise!Edit(doc')
  BY <1>1, <1>3 DEF Promise!Edit, Outcome
<1>5. PromiseStep
  BY <1>2, <1>4 DEF PromiseStep, Promise!Next
<1> QED BY <1>1, <1>2, <1>5 DEF IInv

LEMMA NextStep == IInv /\ [Next]_vars => IInv' /\ PromiseStep
<1> SUFFICES ASSUME IInv, [Next]_vars PROVE IInv' /\ PromiseStep
  OBVIOUS
<1>1. CASE CallStep
  BY <1>1, BeginTitleStep, BeginSpecificsStep, GetStep, GiveUpStep, CompareTitleStep,
     CompareSpecificsStep, PutStep, AnswerStep DEF CallStep
<1>2. CASE Arrive \/ ArriveLate
  BY <1>2, ArriveStep
<1>3. CASE Edit
  BY <1>3, EditStep
<1>4. CASE UNCHANGED vars
  BY <1>4 DEF vars, IInv, PromiseStep, Outcome
<1> QED BY <1>1, <1>2, <1>3, <1>4 DEF Next

-----------------------------------------------------------------------------
(* Whatever is lost, delayed or repeated on the way to eBay, and whoever   *)
(* else edits the item: the executor's write undoes no edit made before    *)
(* the call began, changes one field, and a success has landed.            *)
THEOREM PromiseKept == Spec => KeepsPromise
<1>1. Init => Promise!Init
  BY InitIInv DEF Init, IInv, Promise!Init, Final
<1>2. PromiseStep <=> [Promise!Next]_<<doc, snap, target, past, landed,
                                       IF pc \in Final THEN pc ELSE "running">>
  BY DEF PromiseStep, Outcome
<1> QED BY <1>1, <1>2, InitIInv, NextStep, PTL DEF Spec, KeepsPromise, Promise!Spec

-----------------------------------------------------------------------------
(* The counters of the call.                                               *)

\* No request is on its way late that was not an attempt of its own, and a
\* call that is refused by the budget is over.
Counted ==
  /\ prior \in Aspect \cup {NoPrior}
  /\ snap \in [title: Title, aspect: Aspect, other: {0}]
  /\ read \in Doc \cup {NoDoc}
  /\ recovered \in BOOLEAN /\ arrived \in BOOLEAN /\ landed \in BOOLEAN
  /\ attempt \in 0..MaxRetries
  /\ pc = "wait" => attempt < MaxRetries
  /\ spent \in 0..(BudgetMax + 2)
  /\ pc = "begin" => spent <= BudgetMax + 1
  /\ pc \notin Final \cup {"begin"} => spent <= BudgetMax
  /\ late \in 0..MaxRetries
  /\ pc \in {"begin", "get", "compare"} => late = 0
  /\ pc \in {"put", "wait"} => late <= attempt

\* What a step that is not about the counters leaves as it is.
CountersStay == UNCHANGED <<prior, snap, recovered, attempt, spent, late>>

LEMMA InitCounted == Init => Counted
<1> SUFFICES ASSUME Init PROVE Counted
  OBVIOUS
<1>1. recovered \in BOOLEAN /\ arrived \in BOOLEAN /\ landed \in BOOLEAN
  BY Zenon DEF Init
<1>2. /\ pc = "begin" /\ attempt = 0 /\ late = 0 /\ spent \in 0..(BudgetMax + 1) /\ read = NoDoc
      /\ prior \in Aspect \cup {NoPrior}
      /\ snap \in [title: Title, aspect: Aspect, other: {0}]
  BY DEF Init
<1> QED BY <1>1, <1>2, WriteConstantsOK DEF Counted, Final

LEMMA BeginCounted == ASSUME IInv, Counted, BeginTitle \/ BeginSpecifics PROVE Counted'
<1> USE WriteConstantsOK
<1>1. /\ pc = "begin" /\ late = 0 /\ spent \in 0..(BudgetMax + 1)
      /\ UNCHANGED <<prior, snap, read, recovered, arrived, attempt, late>>
  BY DEF Counted, Final, BeginTitle, BeginSpecifics, Untouched, Fixed
<1>2. \/ pc' \in {"failed", "ok"} /\ spent' = spent
      \/ pc' = "get" /\ spent' = spent + 1 /\ spent < BudgetMax
      \/ pc' = "failed" /\ spent' = spent + 1
  BY DEF BeginTitle, BeginSpecifics, Refused, TitleAsApproved, AskForItem, Goto
<1>3. landed' \in BOOLEAN
  BY DEF Counted, BeginTitle, BeginSpecifics, Refused, TitleAsApproved, AskForItem
<1> QED BY <1>1, <1>2, <1>3 DEF Counted, Final

LEMMA GetCounted == ASSUME IInv, Counted, Get PROVE Counted'
<1> USE WriteConstantsOK
<1>1. /\ pc = "get" /\ attempt < MaxRetries /\ late = 0 /\ spent \in 0..BudgetMax
      /\ UNCHANGED <<prior, snap, spent, arrived, landed, late>>
  BY DEF Counted, Get, Fixed, ItemStays, Final
<1>2. /\ pc' \in {"get", "compare", "failed", "raised"} /\ attempt' \in {attempt, attempt + 1}
      /\ read' \in {read, doc}
  BY <1>1 DEF Get, Unauthorized, GetErrors, Goto
<1>3. recovered' \in BOOLEAN
  BY DEF Counted, Get, Unauthorized
<1>4. read' \in Doc \cup {NoDoc}
  BY <1>2 DEF IInv, Counted
<1>5. attempt' \in 0..MaxRetries
  BY <1>1, <1>2 DEF Counted
<1> QED BY <1>1, <1>2, <1>3, <1>4, <1>5 DEF Counted, Final

LEMMA GiveUpCounted == ASSUME IInv, Counted, GiveUp PROVE Counted'
<1>1. /\ pc' = "failed" /\ CountersStay
      /\ UNCHANGED <<read, arrived, landed>>
  BY DEF GiveUp, CountersStay, Fixed, ItemStays, Goto
<1> QED BY <1>1 DEF Counted, CountersStay, Final

LEMMA CompareCounted ==
  ASSUME IInv, Counted, CompareTitle \/ CompareSpecifics
  PROVE  Counted'
<1>1. /\ pc = "compare" /\ pc' \in {"failed", "put", "ok"} /\ attempt' = 0
      /\ UNCHANGED <<prior, snap, read, recovered, spent, arrived, late>>
  BY DEF CompareTitle, CompareSpecifics, Compared, Fixed, Goto
<1>2. landed' \in BOOLEAN
  BY DEF Counted, CompareTitle, CompareSpecifics
<1>3. late = 0 /\ spent \in 0..BudgetMax
  BY <1>1 DEF Counted, Final
<1> QED BY <1>1, <1>2, <1>3, WriteConstantsOK DEF Counted, Final

LEMMA PutCounted == ASSUME IInv, Counted, Put PROVE Counted'
<1> USE WriteConstantsOK
<1>1. /\ pc = "put" /\ attempt < MaxRetries /\ spent \in 0..BudgetMax /\ late <= attempt
      /\ spent' = spent + 1 /\ arrived' = FALSE
      /\ UNCHANGED <<prior, snap, read, recovered, attempt, landed, late>>
  BY DEF Counted, Put, Send, Fixed, ItemStays, Final
<1>2. \/ pc' = "wait" /\ spent < BudgetMax
      \/ pc' = "raised"
  BY DEF Put, Send, Goto
<1>3. recovered' \in BOOLEAN /\ arrived' \in BOOLEAN /\ landed' \in BOOLEAN
  BY <1>1, Zenon DEF Counted
<1>4. spent' \in 0..(BudgetMax + 1) /\ (pc' # "raised" => spent' <= BudgetMax)
  BY <1>1, <1>2
<1> QED BY <1>1, <1>2, <1>3, <1>4 DEF Counted, Final

LEMMA AnswerCounted == ASSUME IInv, Counted, Answer PROVE Counted'
<1> USE WriteConstantsOK
<1>1. /\ pc = "wait" /\ attempt < MaxRetries /\ late <= attempt /\ spent <= BudgetMax
      /\ arrived' = FALSE
      /\ UNCHANGED <<prior, snap, read, spent, landed>>
  BY DEF Counted, Answer, Fixed, Final
<1>2. recovered' \in BOOLEAN
  BY DEF Counted, Answer, Unauthorized
<1>3. \/ pc' \in {"ok", "failed"} /\ UNCHANGED <<attempt, late>>
      \/ pc' = "put" /\ attempt' = attempt + 1 /\ late' \in {late, late + 1}
  BY DEF Answer, Unauthorized, Goto
<1>4. recovered' \in BOOLEAN /\ arrived' \in BOOLEAN /\ landed' \in BOOLEAN
  BY <1>1, <1>2, Zenon DEF Counted
<1>5. attempt' \in 0..MaxRetries /\ late' \in 0..MaxRetries
  BY <1>1, <1>3 DEF Counted
<1> QED BY <1>1, <1>3, <1>4, <1>5 DEF Counted

LEMMA OthersCounted == ASSUME IInv, Counted, Arrive \/ ArriveLate \/ Edit PROVE Counted'
<1>1. /\ UNCHANGED <<prior, snap, pc, read, recovered, attempt, spent>>
      /\ late' \in {late, late - 1} /\ (late' = late \/ late > 0)
  BY DEF Arrive, ArriveLate, Replace, Edit, Fixed
<1>2. arrived' \in BOOLEAN /\ landed' \in BOOLEAN
  BY DEF Counted, Arrive, ArriveLate, Replace, Edit
<1>3. late' \in 0..MaxRetries /\ late' <= late
  BY <1>1, WriteConstantsOK DEF Counted
<1> QED BY <1>1, <1>2, <1>3, WriteConstantsOK DEF Counted

LEMMA NextCounted == IInv /\ Counted /\ [Next]_vars => Counted'
<1> SUFFICES ASSUME IInv, Counted, [Next]_vars PROVE Counted'
  OBVIOUS
<1>1. CASE CallStep
  BY <1>1, BeginCounted, GetCounted, GiveUpCounted, CompareCounted, PutCounted,
     AnswerCounted DEF CallStep
<1>2. CASE Arrive \/ ArriveLate \/ Edit
  BY <1>2, OthersCounted
<1>3. CASE UNCHANGED vars
  BY <1>3 DEF vars, Counted
<1> QED BY <1>1, <1>2, <1>3 DEF Next

(* However many attempts, renewals of the token and late requests there are: *)
(* the attempts stay within the retries, a call is refused by the budget     *)
(* once at most, and what is put back is an item that was read.              *)
THEOREM WriteTyped == Spec => []TypeOK
<1>1. IInv /\ Counted => TypeOK
  BY DEF IInv, Counted, TypeOK, Points, Final
<1> QED BY <1>1, InitIInv, InitCounted, NextStep, NextCounted, PTL DEF Spec

=============================================================================
