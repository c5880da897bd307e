------------------------ MODULE InventorySyncProofs ------------------------
(***************************************************************************)
(* For any number of sessions and any inventory: the state file comes to   *)
(* rest on an outcome that is in the history, and a read that reports ok   *)
(* with nothing passed over or moved has every listing, once.              *)
(***************************************************************************)
EXTENDS InventorySync, FiniteSetTheorems, TLAPS

Points == {"idle", "started", "page", "offers", "mark", "append", "audit"}

\* As much of the types as the argument needs.
Shape ==
  /\ pc \in [Session -> Points]
  /\ read = [s \in Session |-> read[s]]

\* A session that will still report, or has written the state file and is about
\* to append to the history what it wrote.
Reading(s) == pc[s] \in {"started", "page", "offers", "mark"}
Announcing(s) == pc[s] = "append" /\ read[s].verdict = status

\* Unless its read has broken off, the session that wrote the status last is still
\* reading and will write it over, or is about to append it, or the status is in
\* the history.
Accounted ==
  /\ author \in Session \cup {NoRead}
  /\ author # NoRead => Reading(author) \/ Announcing(author) \/ status \in entries

IInv == Shape /\ Accounted

\* A step of s that is none of the other sessions.
Alone(s) == \A t \in Session \ {s} : pc'[t] = pc[t] /\ read'[t] = read[t]

-----------------------------------------------------------------------------
LEMMA InitIInv == Init => IInv
BY DEF Init, IInv, Shape, Points, Accounted

\* A read that goes on to another point before its append keeps the account.
LEMMA ContinueIInv ==
  ASSUME IInv, NEW s \in Session, NEW point \in {"started", "page", "offers", "mark"}, NEW r,
         Continue(s, point, r)
  PROVE  Shape' /\ Reading(s)' /\ Alone(s)
BY DEF IInv, Shape, Points, Continue, Goto, Reading, Alone

\* A session that goes on reading leaves the account of the others as it is.
LEMMA ReadingIInv ==
  ASSUME IInv, NEW s \in Session, Shape', Reading(s)', Alone(s), Files
  PROVE  IInv'
<1>1. author' = author /\ status' = status /\ entries' = entries
  BY DEF Files
<1>2. author \in Session \ {s} /\ (Reading(author) \/ Announcing(author)) =>
        Reading(author)' \/ Announcing(author)'
  BY <1>1 DEF Alone, Reading, Announcing
<1> QED
  BY <1>1, <1>2 DEF IInv, Accounted

LEMMA StartIInv == ASSUME IInv, NEW s \in Session, Start(s) PROVE IInv'
<1>1. PICK b \in Budgets : Continue(s, "started", [Fresh EXCEPT !.budget = b])
  BY DEF Start
<1>2. Shape' /\ Reading(s)' /\ Alone(s)
  BY <1>1, ContinueIInv
<1> QED
  BY <1>2 DEF IInv, Accounted, Start

\* A read that breaks off takes its own account with it, and no other.
LEMMA BreakOffIInv ==
  ASSUME IInv, NEW s \in Session, BreakOff(s), UNCHANGED <<status, entries>> PROVE IInv'
<1>1. /\ pc' = [pc EXCEPT ![s] = "idle"] /\ read' = [read EXCEPT ![s] = NoRead]
      /\ author' = IF author = s THEN NoRead ELSE author
      /\ status' = status /\ entries' = entries
  BY DEF BreakOff, Continue, Goto
<1>2. Shape'
  BY <1>1 DEF IInv, Shape, Points
<1>3. CASE author = s
  BY <1>1, <1>2, <1>3 DEF IInv, Accounted
<1>4. CASE author # s
  <2>1. author' = author
    BY <1>1, <1>4
  <2>2. author # NoRead => pc'[author] = pc[author] /\ read'[author] = read[author]
    BY <1>1, <1>4 DEF IInv, Shape, Accounted
  <2> QED
    BY <1>1, <1>2, <2>1, <2>2 DEF IInv, Accounted, Reading, Announcing
<1> QED
  BY <1>3, <1>4

LEMMA AuditStartedIInv == ASSUME IInv, NEW s \in Session, AuditStarted(s) PROVE IInv'
<1>1. UNCHANGED <<status, entries>>
  BY DEF AuditStarted
<1>2. CASE BreakOff(s)
  BY <1>1, <1>2, BreakOffIInv
<1>3. CASE ~BreakOff(s)
  <2>1. (\E r : Continue(s, "page", r)) /\ author' = author
    BY <1>3 DEF AuditStarted
  <2>2. Shape' /\ Reading(s)' /\ Alone(s)
    BY <2>1, ContinueIInv
  <2> QED
    BY <1>1, <2>1, <2>2, ReadingIInv DEF Files
<1> QED
  BY <1>2, <1>3

LEMMA ReportReads ==
  ASSUME IInv, NEW s \in Session, NEW v, NEW a, NEW r, Report(s, v, a, r)
  PROVE  Shape' /\ Reading(s)' /\ Alone(s)
BY ContinueIInv DEF Report

LEMMA AnsweredReads ==
  ASSUME IInv, NEW s \in Session, NEW r, Answered(s, r)
  PROVE  Shape' /\ Reading(s)' /\ Alone(s)
<1>1. PICK size \in {Pages, Unknown} :
        LET next == [r EXCEPT !.items = PageItems(r.page),
                              !.full = Len(PageItems(r.page)) = PageSize,
                              !.total = IF @ = Unknown THEN size ELSE @]
        IN  IF next.items = <<>> THEN Report(s, "ok", TRUE, next) ELSE Continue(s, "offers", next)
  BY DEF Answered
<1>2. (\E v, a, q : Report(s, v, a, q)) \/ (\E q : Continue(s, "offers", q))
  BY <1>1
<1> QED
  BY <1>2, ReportReads, ContinueIInv

LEMMA TakeReads ==
  ASSUME IInv, NEW s \in Session, NEW r, Take(s, r)
  PROVE  Shape' /\ Reading(s)' /\ Alone(s)
<1>1. \E q : Continue(s, "offers", q)
  BY DEF Take
<1> QED
  BY <1>1, ContinueIInv

LEMMA GetPageIInv == ASSUME IInv, NEW s \in Session, GetPage(s) PROVE IInv'
<1>1. (\E v, a, r : Report(s, v, a, r)) \/ (\E r : Answered(s, r))
  BY DEF GetPage
<1>2. Shape' /\ Reading(s)' /\ Alone(s)
  BY <1>1, ReportReads, AnsweredReads
<1> QED
  BY <1>2, ReadingIInv DEF GetPage, Elsewhere

LEMMA GetOffersIInv == ASSUME IInv, NEW s \in Session, GetOffers(s) PROVE IInv'
<1>1. (\E r : Take(s, r)) \/ (\E v, a, r : Report(s, v, a, r)) \/ (\E r : Continue(s, "offers", r))
  BY DEF GetOffers
<1>2. Shape' /\ Reading(s)' /\ Alone(s)
  BY <1>1, TakeReads, ReportReads, ContinueIInv
<1> QED
  BY <1>2, ReadingIInv DEF GetOffers, Elsewhere

LEMMA EndPageIInv == ASSUME IInv, NEW s \in Session, EndPage(s) PROVE IInv'
<1>1. (\E v, a, r : Report(s, v, a, r)) \/ (\E r : Continue(s, "page", r))
  BY DEF EndPage
<1>2. Shape' /\ Reading(s)' /\ Alone(s)
  BY <1>1, ReportReads, ContinueIInv
<1> QED
  BY <1>2, ReadingIInv DEF EndPage, Elsewhere

\* The state file is written with what is about to be appended.
LEMMA MarkIInv == ASSUME IInv, NEW s \in Session, Mark(s) PROVE IInv'
<1> DEFINE r == read[s]
<1>1. /\ pc' = [pc EXCEPT ![s] = "append"]
      /\ read' = [read EXCEPT ![s] = Ended(r.verdict, r.guarded)]
      /\ status' = r.verdict /\ author' = s
  BY DEF Mark, Continue, Goto
<1>2. Ended(r.verdict, r.guarded).verdict = r.verdict
  BY DEF Ended, Fresh
<1> HIDE DEF r
<1>3. Shape'
  BY <1>1 DEF IInv, Shape, Points
<1>4. pc'[s] = "append" /\ read'[s].verdict = status'
  BY <1>1, <1>2 DEF IInv, Shape
<1> QED
  BY <1>1, <1>3, <1>4 DEF IInv, Accounted, Announcing

\* If it is this session's status that the file shows, it is in the history
\* now; if it is another's, that one still accounts for it.
LEMMA AppendHistoryIInv == ASSUME IInv, NEW s \in Session, AppendHistory(s) PROVE IInv'
<1>1. /\ pc[s] = "append"
      /\ pc' = [pc EXCEPT ![s] = "audit"] /\ read' = [read EXCEPT ![s] = read[s]]
      /\ entries' = entries \cup {read[s].verdict}
      /\ UNCHANGED <<status, author>>
  BY DEF AppendHistory, Continue, Goto, Bounds
<1>2. Shape'
  BY <1>1 DEF IInv, Shape, Points
<1>3. ASSUME NEW t \in Session, t # s, Reading(t) \/ Announcing(t)
      PROVE  Reading(t)' \/ Announcing(t)'
  BY <1>1, <1>3 DEF IInv, Shape, Reading, Announcing
<1>4. Reading(s) \/ Announcing(s) => status' \in entries'
  BY <1>1 DEF Reading, Announcing
<1> QED
  BY <1>1, <1>2, <1>3, <1>4 DEF IInv, Accounted

\* A session at its audit line accounts for nothing that is not in the history.
LEMMA AuditEndedIInv == ASSUME IInv, NEW s \in Session, AuditEnded(s) PROVE IInv'
<1>1. pc[s] = "audit" /\ Files
  BY DEF AuditEnded, Elsewhere
<1>2. CASE Continue(s, "idle", NoRead)
  <2>1. pc' = [pc EXCEPT ![s] = "idle"] /\ read' = [read EXCEPT ![s] = NoRead]
    BY <1>2 DEF Continue, Goto
  <2>2. Shape'
    BY <2>1 DEF IInv, Shape, Points
  <2>3. ASSUME NEW t \in Session, t # s, Reading(t) \/ Announcing(t)
        PROVE  Reading(t)' \/ Announcing(t)'
    BY <1>1, <2>1, <2>3 DEF IInv, Shape, Reading, Announcing, Files
  <2>4. ~Reading(s) /\ ~Announcing(s)
    BY <1>1 DEF Reading, Announcing
  <2> QED
    BY <1>1, <2>2, <2>3, <2>4 DEF IInv, Accounted, Files
<1>3. CASE \E v, a, r : Report(s, v, a, r)
  <2>1. Shape' /\ Reading(s)' /\ Alone(s)
    BY <1>3, ReportReads
  <2> QED
    BY <1>1, <2>1, ReadingIInv
<1> QED
  BY <1>2, <1>3 DEF AuditEnded

LEMMA CrashIInv == ASSUME IInv, NEW s \in Session, Crash(s) PROVE IInv'
BY BreakOffIInv DEF Crash

LEMMA SellerIInv == ASSUME IInv, SellerAppend \/ SellerShift PROVE IInv'
<1>1. CASE SellerAppend
  BY <1>1 DEF IInv, Shape, Accounted, Reading, Announcing, SellerAppend, Files
<1>2. CASE SellerShift
  <2>1. /\ UNCHANGED <<pc, status, entries, author>>
        /\ read' = [s \in Session |->
             IF pc[s] \in {"page", "offers", "mark"} THEN [read[s] EXCEPT !.shifted = TRUE]
             ELSE read[s]]
    BY <1>2 DEF SellerShift, Files
  <2>2. Shape'
    BY <2>1 DEF IInv, Shape
  <2>3. \A s \in Session : pc[s] = "append" => read'[s] = read[s]
    BY <2>1
  <2> QED
    BY <2>1, <2>2, <2>3 DEF IInv, Accounted, Reading, Announcing
<1> QED
  BY <1>1, <1>2

LEMMA NextIInv == IInv /\ [Next]_vars => IInv'
<1> SUFFICES ASSUME IInv, [Next]_vars PROVE IInv'
  OBVIOUS
<1>1. CASE UNCHANGED vars
  BY <1>1 DEF vars, IInv, Shape, Accounted, Reading, Announcing
<1>2. CASE Next
  BY <1>2, StartIInv, AuditStartedIInv, GetPageIInv, GetOffersIInv, EndPageIInv, MarkIInv,
     AppendHistoryIInv, AuditEndedIInv, CrashIInv, SellerIInv DEF Next, ReadStep
<1> QED
  BY <1>1, <1>2

\* The state file does not go on saying "running" when every read has ended,
\* however the reads of any number of sessions overlapped.
THEOREM RestRecorded == Spec => []RestIsRecorded
<1>1. IInv => RestIsRecorded
  BY DEF IInv, Accounted, Reading, Announcing, RestIsRecorded
<1> QED
  BY <1>1, InitIInv, NextIInv, PTL DEF Spec

-----------------------------------------------------------------------------
(* Sequences of listings: what a read is made of.                          *)

LEMMA SetToSeqIs ==
  ASSUME NEW S, IsFiniteSet(S)
  PROVE  SetToSeq(S) \in Seq(S) /\ IsInjective(SetToSeq(S)) /\ ToSet(SetToSeq(S)) = S
<1> DEFINE n == Cardinality(S)
           f == SetToSeq(S)
<1>1. n \in Nat /\ ExistsBijection(1..n, S)
  BY FS_CardinalityType
<1>2. \E g \in [1..n -> S] : IsInjective(g)
  BY <1>1 DEF ExistsBijection, Bijection, Injection
<1>3. f \in [1..n -> S] /\ IsInjective(f)
  BY <1>2 DEF SetToSeq
<1> HIDE DEF f
<1>4. IsFiniteSet(1..n) /\ Cardinality(1..n) = n
  BY <1>1, FS_Interval
<1>5. f \in Surjection(1..n, S)
  BY <1>3, <1>4, FS_Injection DEF Injection
<1>6. f \in Seq(S)
  BY <1>1, <1>3
<1>7. ToSet(f) = S
  BY <1>3, <1>5 DEF ToSet, Surjection
<1> QED BY <1>3, <1>6, <1>7 DEF f

LEMMA ConcatIs ==
  ASSUME NEW T, NEW p \in Seq(T), NEW q \in Seq(T)
  PROVE  /\ p \o q \in Seq(T) /\ Len(p \o q) = Len(p) + Len(q)
         /\ \A i \in 1..Len(p) + Len(q) :
              (p \o q)[i] = IF i <= Len(p) THEN p[i] ELSE q[i - Len(p)]
OBVIOUS

LEMMA ConcatDistinct ==
  ASSUME NEW T, NEW p \in Seq(T), NEW q \in Seq(T), IsInjective(p), IsInjective(q),
         ToSet(p) \cap ToSet(q) = {}
  PROVE  IsInjective(p \o q) /\ ToSet(p \o q) = ToSet(p) \cup ToSet(q)
<1> DEFINE c == p \o q
<1>1. /\ c \in Seq(T) /\ Len(c) = Len(p) + Len(q)
      /\ \A i \in 1..Len(c) : c[i] = IF i <= Len(p) THEN p[i] ELSE q[i - Len(p)]
  OBVIOUS
<1>2. \A i \in 1..Len(c) : IF i <= Len(p) THEN i \in DOMAIN p ELSE i - Len(p) \in DOMAIN q
  BY <1>1
<1> HIDE DEF c
<1>3. IsInjective(c)
  <2> SUFFICES ASSUME NEW a \in 1..Len(c), NEW b \in 1..Len(c), c[a] = c[b] PROVE a = b
    BY <1>1 DEF IsInjective
  <2>1. CASE a <= Len(p) /\ b <= Len(p)
    BY <1>1, <1>2, <2>1 DEF IsInjective
  <2>2. CASE a > Len(p) /\ b > Len(p)
    BY <1>1, <1>2, <2>2 DEF IsInjective
  <2>3. ASSUME NEW d \in 1..Len(c), NEW e \in 1..Len(c), d <= Len(p), e > Len(p) PROVE c[d] # c[e]
    <3>1. c[d] \in ToSet(p)
      BY <1>1, <1>2, <2>3 DEF ToSet
    <3>2. c[e] \in ToSet(q)
      BY <1>1, <1>2, <2>3 DEF ToSet
    <3> QED BY <3>1, <3>2
  <2> QED BY <1>1, <2>1, <2>2, <2>3
<1>4. ToSet(c) \subseteq ToSet(p) \cup ToSet(q)
  BY <1>1, <1>2 DEF ToSet
<1>5. ToSet(p) \subseteq ToSet(c)
  <2> SUFFICES ASSUME NEW i \in 1..Len(p) PROVE p[i] \in ToSet(c)
    BY DEF ToSet
  <2>1. i \in DOMAIN c /\ c[i] = p[i]
    BY <1>1
  <2> HIDE DEF c
  <2> QED BY <2>1, Zenon DEF ToSet
<1>6. ToSet(q) \subseteq ToSet(c)
  <2> SUFFICES ASSUME NEW i \in 1..Len(q) PROVE q[i] \in ToSet(c)
    BY DEF ToSet
  <2>1. /\ Len(p) \in Nat /\ Len(q) \in Nat
        /\ i + Len(p) \in 1..Len(c) /\ ~(i + Len(p) <= Len(p)) /\ i + Len(p) - Len(p) = i
    BY <1>1
  <2>2. i + Len(p) \in DOMAIN c /\ c[i + Len(p)] = q[i]
    BY <1>1, <2>1
  <2> QED BY <2>2, Zenon DEF ToSet
<1> QED BY <1>3, <1>4, <1>5, <1>6 DEF c

LEMMA ListingsOfSku ==
  ASSUME NEW sku \in Sku
  PROVE  /\ IsFiniteSet(ListingsOf(sku)) /\ ListingsOf(sku) \subseteq Listing
         /\ \A l \in ListingsOf(sku) : l[1] = sku
<1>1. Selected(Offers[sku]) \subseteq Kind
  BY SyncConstantsOK DEF Selected, Kind
<1>2. IsFiniteSet(Kind)
  <2>1. IsFiniteSet({"fixed"})
    BY FS_Singleton
  <2>2. IsFiniteSet({"fixed"} \cup {"auction"})
    BY <2>1, FS_AddElement
  <2>3. IsFiniteSet(({"fixed"} \cup {"auction"}) \cup {"draft"})
    BY <2>2, FS_AddElement
  <2>4. Kind = ({"fixed"} \cup {"auction"}) \cup {"draft"}
    BY DEF Kind
  <2> QED BY <2>3, <2>4
<1>3. IsFiniteSet({sku}) /\ IsFiniteSet(Selected(Offers[sku]))
  BY <1>1, <1>2, FS_Singleton, FS_Subset
<1>4. IsFiniteSet(ListingsOf(sku))
  BY <1>3, FS_Product DEF ListingsOf
<1> QED BY <1>1, <1>4 DEF ListingsOf, Listing

\* The pages that are counted are enough for the inventory.
LEMMA PagesCover ==
  ASSUME inventory \in Seq(Sku)
  PROVE  Pages \in Nat /\ Len(inventory) <= Pages * PageSize
<1> DEFINE k == Len(inventory)
           x == k + PageSize - 1
           d == x \div PageSize
<1>1. PageSize \in Nat /\ PageSize > 0 /\ k \in Nat /\ x \in Nat
  BY SyncConstantsOK
<1>2. /\ d \in Nat /\ x = d * PageSize + (x % PageSize) /\ x % PageSize \in 0..PageSize - 1
  <2> HIDE DEF x
  <2> QED BY <1>1
<1>3. d * PageSize \in Nat
  BY <1>1, <1>2
<1>4. k <= d * PageSize
  <2> DEFINE m == d * PageSize
             y == x % PageSize
  <2>1. m \in Nat /\ y \in 0..PageSize - 1 /\ k + PageSize - 1 = m + y
    BY <1>2, <1>3
  <2> HIDE DEF m, y, k
  <2>2. k <= m
    BY <1>1, <2>1
  <2> QED BY <2>2 DEF m
<1> QED BY <1>2, <1>4 DEF Pages

-----------------------------------------------------------------------------
(* Types.  A read that goes on has made no more calls than its budget.     *)

ReadsOK ==
  /\ pc \in [Session -> Points]
  /\ read \in [Session -> Read \cup {NoRead}]
  /\ \A s \in Session : (read[s] = NoRead) = (pc[s] = "idle")
  /\ \A s \in Session : read[s] # NoRead => read[s].spent <= read[s].budget

WithinBudget(r) == r \in Read /\ r.spent <= r.budget

LEMMA ActiveRead ==
  ASSUME TypeOK, NEW s \in Session, pc[s] # "idle" PROVE WithinBudget(read[s])
BY DEF TypeOK, WithinBudget

LEMMA FreshType ==
  ASSUME NEW b \in Budgets, NEW v \in Done, NEW a \in BOOLEAN, NEW n \in Nat
  PROVE  /\ WithinBudget([Fresh EXCEPT !.budget = b])
         /\ WithinBudget([Fresh EXCEPT !.budget = b, !.first = n])
         /\ WithinBudget(Ended(v, a)) /\ Ended(v, a).verdict = v
<1>1. (CHOOSE c \in Budgets : TRUE) \in Budgets
  BY SyncConstantsOK
<1>2. Fresh \in Read /\ Fresh.spent = 0
  BY <1>1 DEF Fresh, Read, Done
<1>3. Budgets \subseteq Nat
  BY SyncConstantsOK
<1>4. ASSUME NEW r \in Read, r.spent = 0 PROVE WithinBudget(r)
  <2>1. r.budget \in Nat
    BY <1>3 DEF Read
  <2> QED BY <1>4, <2>1 DEF WithinBudget
<1>5. [Fresh EXCEPT !.budget = b] \in Read /\ [Fresh EXCEPT !.budget = b].spent = 0
  BY <1>2 DEF Read
<1>6. /\ [Fresh EXCEPT !.budget = b, !.first = n] \in Read
      /\ [Fresh EXCEPT !.budget = b, !.first = n].spent = 0
  BY <1>2 DEF Read
<1>7. Ended(v, a) \in Read /\ Ended(v, a).spent = 0 /\ Ended(v, a).verdict = v
  BY <1>2 DEF Read, Ended
<1> QED BY <1>4, <1>5, <1>6, <1>7

LEMMA ContinueType ==
  ASSUME TypeOK, NEW s \in Session, NEW point \in Points \ {"idle"}, NEW r, WithinBudget(r),
         Continue(s, point, r)
  PROVE  ReadsOK'
<1>1. pc' = [pc EXCEPT ![s] = point] /\ read' = [read EXCEPT ![s] = r]
  BY DEF Continue, Goto
<1>2. r \in Read /\ r # NoRead /\ r.spent <= r.budget
  BY NoReadOK DEF WithinBudget
<1> QED BY <1>1, <1>2 DEF TypeOK, ReadsOK, Points

LEMMA IdleType ==
  ASSUME TypeOK, NEW s \in Session, Continue(s, "idle", NoRead) PROVE ReadsOK'
<1>1. pc' = [pc EXCEPT ![s] = "idle"] /\ read' = [read EXCEPT ![s] = NoRead]
  BY DEF Continue, Goto
<1> QED BY <1>1 DEF TypeOK, ReadsOK, Points

LEMMA ReportType ==
  ASSUME TypeOK, NEW s \in Session, NEW v \in Done, NEW a \in BOOLEAN, NEW r,
         v = "ok" => WithinBudget(r), Report(s, v, a, r)
  PROVE  ReadsOK'
<1>1. PICK b \in Budgets : TRUE
  BY SyncConstantsOK
<1>2. WithinBudget(IF v = "ok" THEN r ELSE Ended(v, a))
  BY <1>1, FreshType
<1> QED BY <1>2, ContinueType DEF Report, Points

\* A call that the budget allows.
LEMMA SpendType ==
  ASSUME TypeOK, NEW s \in Session, pc[s] # "idle"
  PROVE  /\ Spend(read[s]) \in Read
         /\ Spend(read[s]).items = read[s].items
         /\ ~OutOfBudget(s) => WithinBudget(Spend(read[s]))
<1> DEFINE r == read[s]
           p == Spend(r)
<1>1. r \in Read
  BY ActiveRead DEF WithinBudget
<1>2. r.spent \in Nat /\ r.budget \in Nat
  BY <1>1, SyncConstantsOK DEF Read
<1> HIDE DEF r
<1>3. p \in Read /\ p.items = r.items /\ p.spent = r.spent + 1 /\ p.budget = r.budget
  <2>1. p = [r EXCEPT !.spent = r.spent + 1]
    BY <1>1 DEF Read, Spend
  <2>2. r.spent + 1 \in Nat
    BY <1>2
  <2> QED BY <1>1, <2>1, <2>2, SMTT(30) DEF Read
<1> HIDE DEF p
<1>4. ~(r.spent >= r.budget) => WithinBudget(p)
  BY <1>2, <1>3 DEF WithinBudget
<1> QED BY <1>3, <1>4 DEF r, p, OutOfBudget

\* The items of a page are a stretch of the inventory.
LEMMA PageItemsAre ==
  ASSUME inventory \in Seq(Sku), NEW p \in Nat
  PROVE  LET x == p * PageSize
             end == IF x + PageSize < Len(inventory) THEN x + PageSize ELSE Len(inventory)
         IN  /\ x \in Nat /\ end \in Nat /\ end <= Len(inventory)
             /\ PageItems(p) = SubSeq(inventory, x + 1, end)
             /\ PageItems(p) \in Seq(Sku)
             /\ x <= Len(inventory) => x <= end /\ Len(PageItems(p)) = end - x
<1> DEFINE x == p * PageSize
           end == IF x + PageSize < Len(inventory) THEN x + PageSize ELSE Len(inventory)
<1>1. PageSize \in Nat /\ PageSize > 0 /\ x \in Nat /\ Len(inventory) \in Nat
  BY SyncConstantsOK
<1>2. PageItems(p) = SubSeq(inventory, x + 1, end)
  BY DEF PageItems
<1> HIDE DEF x
<1>3. end \in Nat /\ end <= Len(inventory) /\ (x <= Len(inventory) => x <= end)
  BY <1>1
<1> HIDE DEF end
<1>4. /\ SubSeq(inventory, x + 1, end) \in Seq(Sku)
      /\ x <= end => Len(SubSeq(inventory, x + 1, end)) = end - x
  BY <1>1, <1>3
<1> QED BY <1>1, <1>2, <1>3, <1>4 DEF x, end

LEMMA AnsweredType ==
  ASSUME TypeOK, NEW s \in Session, NEW r, WithinBudget(r), Answered(s, r) PROVE ReadsOK'
<1>1. r \in Read /\ inventory \in Seq(Sku) /\ r.spent <= r.budget
  BY DEF TypeOK, WithinBudget
<1>2. PageItems(r.page) \in Seq(Sku)
  BY <1>1, PageItemsAre DEF Read
<1>3. Pages \in Nat
  BY <1>1, PagesCover
<1>4. PICK size \in {Pages, Unknown} :
        LET next == [r EXCEPT !.items = PageItems(r.page),
                              !.full = Len(PageItems(r.page)) = PageSize,
                              !.total = IF @ = Unknown THEN size ELSE @]
        IN  IF next.items = <<>> THEN Report(s, "ok", TRUE, next) ELSE Continue(s, "offers", next)
  BY DEF Answered
<1> DEFINE next == [r EXCEPT !.items = PageItems(r.page),
                             !.full = Len(PageItems(r.page)) = PageSize,
                             !.total = IF @ = Unknown THEN size ELSE @]
<1>5. next \in Read
  BY <1>1, <1>2, <1>3 DEF Read
<1>6. next.spent = r.spent /\ next.budget = r.budget
  BY <1>1 DEF Read
<1>7. Report(s, "ok", TRUE, next) \/ Continue(s, "offers", next)
  BY <1>4
<1> HIDE DEF next
<1>8. WithinBudget(next)
  BY <1>1, <1>5, <1>6 DEF WithinBudget
<1> QED BY <1>7, <1>8, ReportType, ContinueType DEF Points, Done

LEMMA TakeType ==
  ASSUME TypeOK, NEW s \in Session, NEW r, WithinBudget(r), r.items # <<>>, Take(s, r)
  PROVE  ReadsOK'
<1>1. r \in Read /\ r.spent <= r.budget
  BY DEF WithinBudget
<1> DEFINE sku == Head(r.items)
<1>2. sku \in Sku /\ Tail(r.items) \in Seq(Sku)
  BY <1>1 DEF Read
<1> HIDE DEF sku
<1>3. PICK good \in SUBSET ListingsOf(sku) :
        Continue(s, "offers",
          [r EXCEPT !.items = Tail(@), !.got = @ \o SetToSeq(good), !.cached = @ \cup {sku},
                    !.flawed = @ \/ good # ListingsOf(sku)])
  BY DEF Take, sku
<1>4. SetToSeq(good) \in Seq(Listing)
  <2>1. IsFiniteSet(good) /\ good \subseteq Listing
    BY <1>2, ListingsOfSku, FS_Subset
  <2> QED BY <2>1, SetToSeqIs
<1>5. r.got \o SetToSeq(good) \in Seq(Listing)
  BY <1>1, <1>4 DEF Read
<1> DEFINE next == [r EXCEPT !.items = Tail(@), !.got = @ \o SetToSeq(good),
                             !.cached = @ \cup {sku}, !.flawed = @ \/ good # ListingsOf(sku)]
<1>6. next \in Read
  BY <1>1, <1>2, <1>5 DEF Read
<1>7. next.spent = r.spent /\ next.budget = r.budget
  BY <1>1 DEF Read
<1>8. Continue(s, "offers", next)
  BY <1>3
<1> HIDE DEF next
<1>9. WithinBudget(next)
  BY <1>1, <1>6, <1>7 DEF WithinBudget
<1> QED BY <1>8, <1>9, ContinueType DEF Points

LEMMA ReadTypes ==
  ASSUME TypeOK, NEW s \in Session, GetPage(s) \/ GetOffers(s) \/ EndPage(s) PROVE ReadsOK'
<1>1. ASSUME NEW v \in {"partial", "error"}, NEW a \in BOOLEAN, NEW r,
             Report(s, v, a, r)
      PROVE  ReadsOK'
  BY <1>1, ReportType DEF Done
<1>2. CASE GetPage(s)
  <2>1. pc[s] # "idle"
    BY <1>2 DEF GetPage
  <2>2. \/ \E v \in {"partial", "error"}, a \in BOOLEAN : Report(s, v, a, Spend(read[s]))
        \/ ~OutOfBudget(s) /\ Answered(s, Spend(read[s]))
    BY <1>2 DEF GetPage
  <2> QED BY <1>1, <2>1, <2>2, SpendType, AnsweredType
<1>3. CASE GetOffers(s)
  <2> DEFINE r == Spend(read[s])
             over == [r EXCEPT !.items = Tail(@), !.flawed = TRUE]
  <2>1. pc[s] # "idle" /\ read[s].items # <<>>
    BY <1>3 DEF GetOffers
  <2>2. \/ Take(s, read[s])
        \/ ~OutOfBudget(s) /\ Take(s, r)
        \/ ~OutOfBudget(s) /\ Continue(s, "offers", over)
        \/ \E v \in {"partial", "error"}, a \in BOOLEAN : Report(s, v, a, r)
    BY <1>3 DEF GetOffers
  <2>3. ASSUME ~OutOfBudget(s) PROVE WithinBudget(r) /\ WithinBudget(over)
    <3>1. WithinBudget(r) /\ r.items # <<>>
      BY <2>1, <2>3, SpendType
    <3> HIDE DEF r
    <3>2. Tail(r.items) \in Seq(Sku)
      BY <3>1 DEF Read, WithinBudget
    <3>3. over \in Read /\ over.spent = r.spent /\ over.budget = r.budget
      BY <3>1, <3>2 DEF Read, WithinBudget
    <3> HIDE DEF over
    <3> QED BY <3>1, <3>3 DEF WithinBudget
  <2>4. r.items # <<>>
    BY <2>1, SpendType
  <2> HIDE DEF r, over
  <2>5. WithinBudget(read[s])
    BY <2>1, ActiveRead
  <2> QED BY <1>1, <2>1, <2>2, <2>3, <2>4, <2>5, TakeType, ContinueType DEF Points
<1>4. CASE EndPage(s)
  <2> DEFINE q == read[s]
             r == [q EXCEPT !.page = @ + 1]
  <2>1. WithinBudget(q)
    BY <1>4, ActiveRead DEF EndPage
  <2>2. Report(s, "ok", TRUE, r) \/ Continue(s, "page", r)
    BY <1>4 DEF EndPage
  <2> HIDE DEF q
  <2>3. q \in Read /\ q.page + 1 \in Nat
    BY <2>1 DEF Read, WithinBudget
  <2>4. r \in Read /\ r.spent = q.spent /\ r.budget = q.budget
    BY <2>3, SMTT(30) DEF Read
  <2> HIDE DEF r
  <2>5. WithinBudget(r)
    BY <2>1, <2>4 DEF WithinBudget
  <2> QED BY <2>2, <2>5, ReportType, ContinueType DEF Points, Done
<1> QED BY <1>2, <1>3, <1>4

LEMMA SellerTypes ==
  ASSUME inventory \in Seq(Sku), IsInjective(inventory), SellerAppend \/ SellerShift
  PROVE  (inventory \in Seq(Sku) /\ IsInjective(inventory))'
<1>1. CASE SellerAppend
  <2>1. PICK k \in Sku \ ToSet(inventory) : inventory' = Append(inventory, k)
    BY <1>1 DEF SellerAppend
  <2>2. \A i \in DOMAIN inventory : inventory[i] # k
    BY <2>1 DEF ToSet
  <2>3. inventory' \in Seq(Sku)
    BY <2>1
  <2> QED BY <2>1, <2>2, <2>3 DEF IsInjective
<1>2. ASSUME NEW i \in DOMAIN inventory, inventory' = RemoveAt(inventory, i)
      PROVE  (inventory \in Seq(Sku) /\ IsInjective(inventory))'
  <2> DEFINE n == Len(inventory)
             p == SubSeq(inventory, 1, i - 1)
             q == SubSeq(inventory, i + 1, n)
  <2>1. n \in Nat /\ i \in 1..n
    BY <1>2
  <2>2. p \in Seq(Sku) /\ Len(p) = i - 1 /\ \A j \in 1..i - 1 : p[j] = inventory[j]
    BY <2>1
  <2>3. q \in Seq(Sku) /\ Len(q) = n - i /\ \A j \in 1..n - i : q[j] = inventory[i + j]
    BY <2>1
  <2>4. inventory' = p \o q
    BY <1>2 DEF RemoveAt
  <2> HIDE DEF p, q, n
  <2>5. /\ inventory' \in Seq(Sku) /\ Len(inventory') = n - 1
        /\ \A j \in 1..n - 1 : inventory'[j] = IF j < i THEN p[j] ELSE q[j - i + 1]
    <3>1. inventory' \in Seq(Sku) /\ Len(inventory') = Len(p) + Len(q)
      BY <2>2, <2>3, <2>4, ConcatIs
    <3>2. \A j \in 1..Len(p) + Len(q) :
            inventory'[j] = IF j <= Len(p) THEN p[j] ELSE q[j - Len(p)]
      BY <2>2, <2>3, <2>4, ConcatIs
    <3>3. Len(p) + Len(q) = n - 1
      BY <2>1, <2>2, <2>3
    <3>4. ASSUME NEW j \in 1..n - 1
          PROVE  inventory'[j] = IF j < i THEN p[j] ELSE q[j - i + 1]
      <4>1. j - Len(p) = j - i + 1 /\ (j <= Len(p)) = (j < i)
        BY <2>1, <2>2
      <4> QED BY <3>2, <3>3, <4>1
    <3> QED BY <3>1, <3>3, <3>4
  <2>6. \A j \in 1..n - 1 : inventory'[j] = IF j < i THEN inventory[j] ELSE inventory[j + 1]
    <3> TAKE j \in 1..n - 1
    <3>1. CASE j < i
      BY <2>1, <2>2, <2>5, <3>1
    <3>2. CASE ~(j < i)
      <4>1. j - i + 1 \in 1..n - i /\ i + (j - i + 1) = j + 1
        BY <2>1, <3>2
      <4>2. q[j - i + 1] = inventory[j + 1]
        BY <2>3, <4>1
      <4> QED BY <2>5, <3>2, <4>2
    <3> QED BY <3>1, <3>2
  <2>7. ASSUME NEW a \in 1..n - 1, NEW b \in 1..n - 1, inventory'[a] = inventory'[b]
        PROVE  a = b
    <3>1. \A c, d \in 1..n : inventory[c] = inventory[d] => c = d
      BY DEF IsInjective, n
    <3> QED BY <2>1, <2>6, <2>7, <3>1
  <2>8. DOMAIN inventory' = 1..n - 1
    BY <2>1, <2>5
  <2> QED BY <2>5, <2>7, <2>8 DEF IsInjective
<1>3. ASSUME NEW k \in Sku \ ToSet(inventory), inventory' = <<k>> \o inventory
      PROVE  (inventory \in Seq(Sku) /\ IsInjective(inventory))'
  <2>1. <<k>> \in Seq(Sku) /\ IsInjective(<<k>>) /\ ToSet(<<k>>) = {k}
    BY DEF IsInjective, ToSet
  <2> DEFINE head == <<k>>
  <2>2. head \in Seq(Sku) /\ IsInjective(head) /\ ToSet(head) \cap ToSet(inventory) = {}
    BY <1>3, <2>1
  <2>3. inventory' = head \o inventory
    BY <1>3
  <2> HIDE DEF head
  <2>4. IsInjective(head \o inventory)
    BY <1>1, <2>2, ConcatDistinct
  <2>5. head \o inventory \in Seq(Sku)
    BY <1>1, <2>2
  <2> QED BY <2>3, <2>4, <2>5
<1> QED BY <1>1, <1>2, <1>3 DEF SellerShift

\* The inventory never holds an item twice.
Distinct == IsInjective(inventory)

LEMMA InitTypes == Init => TypeOK /\ Distinct
<1> SUFFICES ASSUME Init PROVE TypeOK /\ Distinct
  OBVIOUS
<1>1. PICK S \in SUBSET Sku : inventory \in SetToSeqs(S)
  BY DEF Init
<1>2. Cardinality(S) \in Nat
  BY <1>1, FS_Subset, FS_CardinalityType, SyncConstantsOK
<1>3. inventory \in [1..Cardinality(S) -> S] /\ Distinct
  BY <1>1 DEF SetToSeqs, Distinct, IsInjective
<1>4. inventory \in Seq(Sku)
  BY <1>1, <1>2, <1>3
<1>5. NoRead \notin Session
  BY SyncConstantsOK
<1> QED BY <1>3, <1>4, SyncConstantsOK DEF Init, TypeOK

LEMMA NextTypes == TypeOK /\ Distinct /\ [Next]_vars => TypeOK' /\ Distinct'
<1> SUFFICES ASSUME TypeOK, Distinct, [Next]_vars PROVE TypeOK' /\ Distinct'
  OBVIOUS
<1>1. ASSUME UNCHANGED inventory PROVE inventory' \in Seq(Sku) /\ Distinct'
  BY <1>1 DEF TypeOK, Distinct
<1>2. /\ inventory \in Seq(Sku) /\ status \in Done \cup {"idle", "running"}
      /\ entries \subseteq Done /\ author \in Session \cup {NoRead}
      /\ edits \in 0..MaxEdits /\ reads \in 0..MaxReads /\ crashes \in {0, 1}
  BY DEF TypeOK
<1>3. ASSUME ReadsOK', inventory' \in Seq(Sku), Distinct',
             status' \in Done \cup {"idle", "running"}, entries' \subseteq Done,
             author' \in Session \cup {NoRead}, edits' \in 0..MaxEdits,
             reads' \in 0..MaxReads, crashes' \in {0, 1}
      PROVE  TypeOK' /\ Distinct'
  BY <1>3 DEF ReadsOK, TypeOK, Points
<1>4. ASSUME NEW s \in Session, Start(s) PROVE TypeOK' /\ Distinct'
  <2>1. PICK b \in Budgets : Continue(s, "started", [Fresh EXCEPT !.budget = b])
    BY <1>4 DEF Start
  <2>3. WithinBudget([Fresh EXCEPT !.budget = b])
    BY FreshType DEF Done
  <2>4. ReadsOK'
    BY <2>1, <2>3, ContinueType DEF Points
  <2>5. reads' \in 0..MaxReads
    BY <1>2, <1>4, SyncConstantsOK DEF Start
  <2> QED BY <1>1, <1>2, <1>3, <1>4, <2>4, <2>5 DEF Start, World
<1>5. ASSUME NEW s \in Session, GetPage(s) \/ GetOffers(s) \/ EndPage(s)
      PROVE  TypeOK' /\ Distinct'
  <2>1. Elsewhere
    BY <1>5 DEF GetPage, GetOffers, EndPage
  <2> QED BY <1>1, <1>2, <1>3, <1>5, <2>1, ReadTypes DEF Elsewhere, World, Bounds, Files
<1>6. ASSUME NEW s \in Session, Mark(s) PROVE TypeOK' /\ Distinct'
  <2>1. read[s].verdict \in Done /\ read[s].guarded \in BOOLEAN
    BY <1>6, ActiveRead DEF Mark, WithinBudget, Read
  <2>2. PICK b \in Budgets : TRUE
    BY SyncConstantsOK
  <2>3. WithinBudget(Ended(read[s].verdict, read[s].guarded))
    BY <2>1, <2>2, FreshType
  <2>4. ReadsOK'
    BY <1>6, <2>3, ContinueType DEF Mark, Points
  <2> QED BY <1>1, <1>2, <1>3, <1>6, <2>1, <2>4 DEF Mark, World, Bounds
<1>7. ASSUME NEW s \in Session, AppendHistory(s) PROVE TypeOK' /\ Distinct'
  <2>1. read[s].verdict \in Done /\ WithinBudget(read[s])
    BY <1>7, ActiveRead DEF AppendHistory, WithinBudget, Read
  <2>2. ReadsOK'
    BY <1>7, <2>1, ContinueType DEF AppendHistory, Points
  <2> QED BY <1>1, <1>2, <1>3, <1>7, <2>1, <2>2 DEF AppendHistory, World, Bounds
<1>8. ASSUME NEW s \in Session, Crash(s) PROVE TypeOK' /\ Distinct'
  <2>1. ReadsOK'
    BY <1>8, IdleType DEF Crash, BreakOff
  <2> QED BY <1>1, <1>2, <1>3, <1>8, <2>1 DEF Crash, BreakOff, World
<1>9. ASSUME SellerAppend \/ SellerShift PROVE TypeOK' /\ Distinct'
  <2>1. inventory' \in Seq(Sku) /\ Distinct'
    BY <1>2, <1>9, SellerTypes DEF Distinct
  <2>2. pc' = pc /\ (read' = read \/ read' = [s \in Session |->
           IF pc[s] \in {"page", "offers", "mark"} THEN [read[s] EXCEPT !.shifted = TRUE]
           ELSE read[s]])
    BY <1>9 DEF SellerAppend, SellerShift
  <2>3. ReadsOK'
    <3>1. ASSUME NEW s \in Session, pc[s] # "idle"
          PROVE  WithinBudget([read[s] EXCEPT !.shifted = TRUE])
      <4> DEFINE r == read[s]
                 q == [r EXCEPT !.shifted = TRUE]
      <4>1. WithinBudget(r)
        BY <3>1, ActiveRead
      <4> HIDE DEF r
      <4>2. q \in Read /\ q.spent = r.spent /\ q.budget = r.budget
        BY <4>1 DEF Read, WithinBudget
      <4> HIDE DEF q
      <4>3. WithinBudget(q)
        BY <4>1, <4>2 DEF WithinBudget
      <4> QED BY <4>3 DEF q, r
    <3>2. \A s \in Session : IF pc[s] = "idle" THEN read'[s] = NoRead ELSE WithinBudget(read'[s])
      BY <2>2, <3>1, ActiveRead DEF TypeOK
    <3>3. read' = [s \in Session |-> read'[s]]
      BY <2>2 DEF TypeOK
    <3> QED BY <2>2, <3>2, <3>3, NoReadOK DEF TypeOK, ReadsOK, WithinBudget, Points
  <2>4. edits' \in 0..MaxEdits
    BY <1>2, <1>9, SyncConstantsOK DEF SellerAppend, SellerShift
  <2> QED BY <1>2, <1>3, <1>9, <2>1, <2>3, <2>4 DEF SellerAppend, SellerShift, Bounds, Files
<1>10. ASSUME UNCHANGED vars PROVE TypeOK' /\ Distinct'
  BY <1>10 DEF TypeOK, Distinct, vars
<1>11. ASSUME NEW s \in Session, AuditStarted(s) PROVE TypeOK' /\ Distinct'
  <2> DEFINE r == [Fresh EXCEPT !.budget = read[s].budget, !.first = Len(inventory)]
  <2>1. \/ Continue(s, "page", r) /\ UNCHANGED author
        \/ BreakOff(s)
    BY <1>11 DEF AuditStarted
  <2>2. WithinBudget(r)
    <3>1. read[s].budget \in Budgets /\ Len(inventory) \in Nat
      BY <1>2, <1>11, ActiveRead DEF AuditStarted, WithinBudget, Read
    <3> QED BY <3>1, FreshType DEF Done
  <2> HIDE DEF r
  <2>3. ReadsOK'
    BY <2>1, <2>2, ContinueType, IdleType DEF BreakOff, Points
  <2>4. author' \in Session \cup {NoRead}
    BY <1>2, <2>1 DEF BreakOff
  <2> QED BY <1>1, <1>2, <1>3, <1>11, <2>3, <2>4 DEF AuditStarted, World, Bounds
<1>12. ASSUME NEW s \in Session, AuditEnded(s) PROVE TypeOK' /\ Distinct'
  <2>1. ReadsOK'
    BY <1>12, IdleType, ReportType DEF AuditEnded, Done
  <2> QED BY <1>1, <1>2, <1>3, <1>12, <2>1 DEF AuditEnded, Elsewhere, World, Bounds, Files
<1> QED BY <1>4, <1>5, <1>6, <1>7, <1>8, <1>9, <1>10, <1>11, <1>12 DEF Next, ReadStep

\* A read makes no call past its budget and goes on after none, and what it
\* has read and reports keeps its form.
THEOREM SyncTypes == Spec => []TypeOK
BY InitTypes, NextTypes, PTL DEF Spec

-----------------------------------------------------------------------------
(* What a read has got: the listings of a beginning of the inventory.      *)

Listed(n) == UNION {ListingsOf(inventory[i]) : i \in 1..n}

\* The items up to n are behind the read, and the pages that are left, as far
\* as they are counted, reach as far as the inventory did at its start.
Behind(r, n) ==
  /\ n \in 0..Len(inventory) /\ r.first <= Len(inventory)
  /\ IsInjective(r.got) /\ ToSet(r.got) = Listed(n)
  /\ r.total # Unknown => r.first <= r.total * PageSize

\* The items whose offers are still to be fetched end where the next page
\* begins, or behind every item that was there at the start.
PageLeft(r, n, end) ==
  /\ r.items = SubSeq(inventory, n + 1, end)
  /\ IF r.full THEN end = (r.page + 1) * PageSize ELSE r.first <= end

Undisturbed(r) == r.verdict = "ok" /\ ~r.flawed /\ ~r.shifted

\* A read inside the try.
Fetching(s) == pc[s] \in {"page", "offers", "mark"}

ReachesAt(point, r) ==
  Undisturbed(r) =>
    \E n \in 0..Len(inventory) :
      /\ Behind(r, n)
      /\ point = "page" => n = r.page * PageSize
      /\ point = "offers" => \E end \in n..Len(inventory) : PageLeft(r, n, end)
      /\ point = "mark" => r.first <= n

Reaches(s) == Fetching(s) => ReachesAt(pc[s], read[s])

AllReach == \A s \in Session : Reaches(s)

LEMMA Times ==
  ASSUME NEW a \in Nat, NEW b \in Nat, NEW c \in Nat
  PROVE  (a + 1) * c = a * c + c /\ (a <= b => a * c <= b * c)
<1>1. (a + 1) * c = a * c + c
  OBVIOUS
<1>2. ASSUME a <= b PROVE a * c <= b * c
  <2>1. b - a \in Nat /\ b * c = a * c + (b - a) * c
    BY <1>2
  <2>2. (b - a) * c >= 0 /\ a * c \in Nat
    BY <2>1
  <2> QED BY <2>1, <2>2
<1> QED BY <1>1, <1>2

LEMMA ListedNext ==
  ASSUME inventory \in Seq(Sku), Distinct, NEW n \in Nat, n < Len(inventory)
  PROVE  /\ Listed(n + 1) = Listed(n) \cup ListingsOf(inventory[n + 1])
         /\ Listed(n) \cap ListingsOf(inventory[n + 1]) = {}
<1>1. 1..n + 1 = (1..n) \cup {n + 1}
  OBVIOUS
<1>2. \A i \in 1..n : i \in DOMAIN inventory /\ inventory[i] \in Sku /\ i # n + 1
  OBVIOUS
<1>3. n + 1 \in DOMAIN inventory /\ inventory[n + 1] \in Sku
  OBVIOUS
<1>4. \A i \in 1..n : ListingsOf(inventory[i]) \cap ListingsOf(inventory[n + 1]) = {}
  <2> TAKE i \in 1..n
  <2>1. inventory[i] # inventory[n + 1]
    BY <1>2, <1>3 DEF Distinct, IsInjective
  <2> QED BY <1>2, <1>3, <2>1, ListingsOfSku
<1> QED BY <1>1, <1>4 DEF Listed

LEMMA ContinueReaches ==
  ASSUME TypeOK, NEW s \in Session, NEW point \in Points, NEW r, Continue(s, point, r),
         inventory' = inventory, ReachesAt(point, r)
  PROVE  Reaches(s)'
<1>1. pc'[s] = point /\ read'[s] = r
  BY DEF Continue, Goto, TypeOK
<1>2. ReachesAt(point, r)'
  BY DEF ReachesAt, Behind, Listed, PageLeft
<1> QED BY <1>1, <1>2 DEF Reaches

LEMMA ReportReaches ==
  ASSUME TypeOK, NEW s \in Session, NEW v \in Done, NEW a \in BOOLEAN, NEW r, Report(s, v, a, r),
         inventory' = inventory, v = "ok" => ReachesAt("mark", r)
  PROVE  Reaches(s)'
<1>1. PICK b \in Budgets : TRUE
  BY SyncConstantsOK
<1>2. v # "ok" => ReachesAt("mark", Ended(v, a))
  BY <1>1, FreshType DEF ReachesAt, Undisturbed
<1> QED BY <1>2, ContinueReaches DEF Report, Points

LEMMA TakeReaches ==
  ASSUME TypeOK, Distinct, NEW s \in Session, NEW r \in Read, r.items # <<>>, Take(s, r),
         ReachesAt("offers", r), inventory' = inventory
  PROVE  Reaches(s)'
<1> DEFINE sku == Head(r.items)
           all == ListingsOf(sku)
<1>1. PICK good \in SUBSET all :
        Continue(s, "offers",
          [r EXCEPT !.items = Tail(@), !.got = @ \o SetToSeq(good), !.cached = @ \cup {sku},
                    !.flawed = @ \/ good # all])
  BY DEF Take
<1> DEFINE next == [r EXCEPT !.items = Tail(@), !.got = @ \o SetToSeq(good),
                             !.cached = @ \cup {sku}, !.flawed = @ \/ good # all]
<1>2. Continue(s, "offers", next)
  BY <1>1
<1>3. /\ next.items = Tail(r.items) /\ next.got = r.got \o SetToSeq(good)
      /\ next.page = r.page /\ next.total = r.total /\ next.full = r.full
      /\ next.first = r.first /\ next.verdict = r.verdict /\ next.shifted = r.shifted
  BY DEF Read
<1>4. next.flawed = (r.flawed \/ good # all)
  BY DEF Read
<1>5. inventory \in Seq(Sku) /\ r.got \in Seq(Listing) /\ r.page \in Nat
  BY DEF TypeOK, Read
<1> HIDE DEF next, all
<1>6. ASSUME Undisturbed(next)
      PROVE  \E n \in 0..Len(inventory) :
               Behind(next, n) /\ \E end \in n..Len(inventory) : PageLeft(next, n, end)
  <2>1. Undisturbed(r) /\ good = all
    BY <1>3, <1>4, <1>6, Zenon DEF Undisturbed
  <2>10. PICK n \in 0..Len(inventory) :
          Behind(r, n) /\ \E end \in n..Len(inventory) : PageLeft(r, n, end)
    BY <2>1 DEF ReachesAt
  <2>2. PICK end \in n..Len(inventory) : Behind(r, n) /\ PageLeft(r, n, end)
    BY <2>10
  <2>3. r.items = SubSeq(inventory, n + 1, end) /\ n + 1 <= end
    BY <1>5, <2>2 DEF PageLeft
  <2>4. /\ sku = inventory[n + 1] /\ Tail(r.items) = SubSeq(inventory, n + 2, end)
        /\ sku \in Sku /\ n < Len(inventory) /\ n + 1 \in 0..Len(inventory)
    BY <1>5, <2>2, <2>3
  <2>5. SetToSeq(good) \in Seq(Listing) /\ IsInjective(SetToSeq(good)) /\ ToSet(SetToSeq(good)) = all
    <3>1. IsFiniteSet(all) /\ all \subseteq Listing
      BY <2>4, ListingsOfSku DEF all
    <3> QED BY <2>1, <3>1, SetToSeqIs
  <2>6. Listed(n + 1) = Listed(n) \cup all /\ Listed(n) \cap all = {}
    BY <1>5, <2>4, ListedNext DEF all
  <2>7. IsInjective(next.got) /\ ToSet(next.got) = Listed(n + 1)
    <3> DEFINE new == SetToSeq(good)
    <3>1. IsInjective(r.got) /\ ToSet(r.got) = Listed(n) /\ r.got \in Seq(Listing)
      BY <1>5, <2>2 DEF Behind
    <3>2. new \in Seq(Listing) /\ IsInjective(new) /\ ToSet(new) = all
      BY <2>5
    <3> HIDE DEF new
    <3>3. IsInjective(r.got \o new) /\ ToSet(r.got \o new) = ToSet(r.got) \cup ToSet(new)
      BY <2>6, <3>1, <3>2, ConcatDistinct
    <3> QED BY <1>3, <2>6, <3>1, <3>2, <3>3 DEF new
  <2>8. Behind(next, n + 1)
    BY <1>3, <2>2, <2>4, <2>7 DEF Behind
  <2>9. end \in (n + 1)..Len(inventory) /\ PageLeft(next, n + 1, end)
    <3>1. n + 1 + 1 = n + 2
      BY <2>2
    <3>2. end \in (n + 1)..Len(inventory)
      BY <2>2, <2>3
    <3> QED BY <1>3, <2>2, <2>4, <3>1, <3>2 DEF PageLeft
  <2> QED BY <2>4, <2>8, <2>9
<1>7. ReachesAt("offers", next)
  BY <1>6 DEF ReachesAt
<1> QED BY <1>2, <1>7, ContinueReaches DEF Points

\* A record that differs in what does not matter here.
SameReach(r, q) ==
  /\ q.page = r.page /\ q.total = r.total /\ q.items = r.items /\ q.full = r.full
  /\ q.got = r.got /\ q.first = r.first
  /\ q.verdict = r.verdict /\ q.flawed = r.flawed /\ q.shifted = r.shifted

LEMMA SameReaches ==
  ASSUME NEW r, NEW q, SameReach(r, q), NEW point, ReachesAt(point, r)
  PROVE  ReachesAt(point, q)
BY DEF SameReach, ReachesAt, Undisturbed, Behind, PageLeft

LEMMA SpendReaches ==
  ASSUME TypeOK, NEW s \in Session, pc[s] \in {"page", "offers"}, Reaches(s)
  PROVE  /\ read[s] \in Read /\ ReachesAt(pc[s], read[s])
         /\ Spend(read[s]) \in Read /\ ReachesAt(pc[s], Spend(read[s]))
<1>1. read[s] \in Read
  BY ActiveRead DEF WithinBudget
<1>2. ReachesAt(pc[s], read[s])
  BY DEF Reaches, Fetching
<1>3. SameReach(read[s], Spend(read[s]))
  BY <1>1 DEF SameReach, Spend, Read
<1> QED BY <1>1, <1>2, <1>3, SameReaches, SpendType

LEMMA AnsweredReaches ==
  ASSUME TypeOK, NEW s \in Session, NEW r \in Read, Answered(s, r), ReachesAt("page", r),
         inventory' = inventory
  PROVE  Reaches(s)'
<1>1. PICK size \in {Pages, Unknown} :
        LET next == [r EXCEPT !.items = PageItems(r.page),
                              !.full = Len(PageItems(r.page)) = PageSize,
                              !.total = IF @ = Unknown THEN size ELSE @]
        IN  IF next.items = <<>> THEN Report(s, "ok", TRUE, next) ELSE Continue(s, "offers", next)
  BY DEF Answered
<1> DEFINE items == PageItems(r.page)
           next == [r EXCEPT !.items = items, !.full = Len(items) = PageSize,
                             !.total = IF @ = Unknown THEN size ELSE @]
<1>2. IF next.items = <<>> THEN Report(s, "ok", TRUE, next) ELSE Continue(s, "offers", next)
  BY <1>1
<1>3. /\ next.items = items /\ next.got = r.got /\ next.page = r.page
      /\ next.total = (IF r.total = Unknown THEN size ELSE r.total)
      /\ next.first = r.first /\ next.verdict = r.verdict
  BY DEF Read
<1>4. next.full = (Len(items) = PageSize) /\ next.flawed = r.flawed /\ next.shifted = r.shifted
  BY DEF Read
<1>5. /\ inventory \in Seq(Sku) /\ Len(inventory) \in Nat /\ r.page \in Nat /\ r.first \in Nat
      /\ PageSize \in Nat /\ PageSize > 0
  BY SyncConstantsOK DEF TypeOK, Read
<1> DEFINE x == r.page * PageSize
           end == IF x + PageSize < Len(inventory) THEN x + PageSize ELSE Len(inventory)
<1>6. /\ x \in Nat /\ end \in Nat /\ end <= Len(inventory)
      /\ items = SubSeq(inventory, x + 1, end) /\ items \in Seq(Sku)
      /\ x <= Len(inventory) => x <= end /\ Len(items) = end - x
  BY <1>5, PageItemsAre
<1>7. (r.page + 1) * PageSize = x + PageSize
  BY <1>5, Times
<1> HIDE DEF next, items, x
<1>8. ASSUME Undisturbed(next)
      PROVE  /\ x \in 0..Len(inventory) /\ end \in x..Len(inventory)
             /\ Behind(next, x) /\ PageLeft(next, x, end)
             /\ items = <<>> => next.first <= x
  <2>1. Undisturbed(r)
    BY <1>3, <1>4, <1>8, Zenon DEF Undisturbed
  <2>2. x \in 0..Len(inventory) /\ Behind(r, x)
    BY <2>1 DEF ReachesAt, x
  <2>3. next.total # Unknown => next.first <= next.total * PageSize
    <3>1. r.first <= Len(inventory) /\ (r.total # Unknown => r.first <= r.total * PageSize)
      BY <2>2 DEF Behind
    <3>2. Pages \in Nat /\ Len(inventory) <= Pages * PageSize /\ Pages * PageSize \in Nat
      BY <1>5, PagesCover
    <3>3. r.first <= Pages * PageSize
      BY <1>5, <3>1, <3>2
    <3> QED BY <1>3, <3>1, <3>3
  <2>4. Behind(next, x)
    BY <1>3, <2>2, <2>3 DEF Behind
  <2>5. /\ end \in x..Len(inventory) /\ Len(items) = end - x
        /\ x \in Nat /\ PageSize \in Nat /\ Len(inventory) \in Nat
    BY <1>5, <1>6, <2>2
  <2>6. Len(items) # PageSize => end = Len(inventory)
    BY <2>5
  <2>7. Len(items) = PageSize => end = x + PageSize
    BY <2>5
  <2>8. next.first <= Len(inventory)
    BY <2>4 DEF Behind
  <2> HIDE DEF end
  <2>9. PageLeft(next, x, end)
    BY <1>3, <1>4, <1>6, <1>7, <2>6, <2>7, <2>8 DEF PageLeft
  <2>10. ASSUME items = <<>> PROVE next.first <= x
    <3>1. Len(items) = 0
      BY <2>10
    <3>2. end = x /\ Len(items) # PageSize
      BY <1>5, <1>6, <2>5, <3>1
    <3> QED BY <2>6, <2>8, <3>2
  <2> QED BY <2>2, <2>4, <2>5, <2>9, <2>10
<1> HIDE DEF end
<1>9. items = <<>> => ReachesAt("mark", next)
  BY <1>8 DEF ReachesAt
<1>10. ReachesAt("offers", next)
  BY <1>8 DEF ReachesAt
<1> QED BY <1>2, <1>3, <1>9, <1>10, ReportReaches, ContinueReaches DEF Points, Done

LEMMA EndPageReaches ==
  ASSUME TypeOK, NEW s \in Session, EndPage(s), Reaches(s) PROVE Reaches(s)'
<1> DEFINE q == read[s]
           r == [q EXCEPT !.page = @ + 1]
<1>1. /\ q \in Read /\ ReachesAt("offers", q) /\ q.items = <<>> /\ inventory' = inventory
      /\ inventory \in Seq(Sku)
  BY SpendReaches DEF EndPage, Elsewhere, World, TypeOK
<1>2. IF (r.total # Unknown /\ r.page >= r.total) \/ ~r.full
      THEN Report(s, "ok", TRUE, r) ELSE Continue(s, "page", r)
  BY DEF EndPage
<1> HIDE DEF q
<1>3. /\ r.page = q.page + 1 /\ r.total = q.total /\ r.items = q.items /\ r.got = q.got
      /\ r.first = q.first /\ r.verdict = q.verdict
      /\ q.page \in Nat /\ q.total \in Nat \cup {Unknown}
  BY <1>1 DEF Read
<1>4. r.full = q.full /\ r.flawed = q.flawed /\ r.shifted = q.shifted
  BY <1>1 DEF Read
<1>5. PageSize \in Nat /\ q.first \in Nat
  BY <1>1, SyncConstantsOK DEF Read
<1> HIDE DEF r
<1>6. ASSUME Undisturbed(r)
      PROVE  \E n \in 0..Len(inventory) :
               /\ Behind(r, n)
               /\ r.full => n = r.page * PageSize
               /\ (r.total # Unknown /\ r.page >= r.total) \/ ~r.full => r.first <= n
  <2>1. Undisturbed(q)
    BY <1>3, <1>4, <1>6, Zenon DEF Undisturbed
  <2>2. PICK n \in 0..Len(inventory) :
          Behind(q, n) /\ \E end \in n..Len(inventory) : PageLeft(q, n, end)
    BY <1>1, <2>1 DEF ReachesAt
  <2>3. PICK end \in n..Len(inventory) : PageLeft(q, n, end)
    BY <2>2
  <2>4. end = n
    <3>1. Len(SubSeq(inventory, n + 1, end)) = end - n
      BY <1>1, <2>2, <2>3
    <3>2. Len(q.items) = 0
      BY <1>1
    <3> QED BY <2>2, <2>3, <3>1, <3>2 DEF PageLeft
  <2>5. Behind(r, n)
    BY <1>3, <2>2 DEF Behind
  <2>6. r.full => n = r.page * PageSize
    BY <1>3, <1>4, <2>3, <2>4 DEF PageLeft
  <2>7. ~r.full => r.first <= n
    BY <1>3, <1>4, <2>3, <2>4 DEF PageLeft
  <2>8. ASSUME r.total # Unknown, r.page >= r.total, r.full PROVE r.first <= n
    <3>1. r.total \in Nat /\ r.page \in Nat /\ r.total <= r.page
      BY <1>3, <2>8
    <3>2. r.total * PageSize <= r.page * PageSize /\ r.total * PageSize \in Nat
      <4> DEFINE a == r.total  b == r.page
      <4>1. a \in Nat /\ b \in Nat /\ a <= b
        BY <3>1
      <4> HIDE DEF a, b
      <4>2. a * PageSize <= b * PageSize /\ a * PageSize \in Nat
        BY <4>1, <1>5, Times, SMTT(30)
      <4> QED BY <4>2 DEF a, b
    <3>3. r.first <= r.total * PageSize
      BY <2>5, <2>8 DEF Behind
    <3> QED BY <1>3, <1>5, <2>2, <2>6, <2>8, <3>2, <3>3
  <2> QED BY <2>2, <2>5, <2>6, <2>7, <2>8
<1>7. CASE (r.total # Unknown /\ r.page >= r.total) \/ ~r.full
  <2>1. ReachesAt("mark", r)
    BY <1>6, <1>7 DEF ReachesAt
  <2> QED BY <1>1, <1>2, <1>7, <2>1, ReportReaches DEF Done
<1>8. CASE ~((r.total # Unknown /\ r.page >= r.total) \/ ~r.full)
  <2>1. ReachesAt("page", r)
    BY <1>6, <1>8 DEF ReachesAt
  <2> QED BY <1>1, <1>2, <1>8, <2>1, ContinueReaches DEF Points
<1> QED BY <1>7, <1>8

LEMMA GetReaches ==
  ASSUME TypeOK, Distinct, NEW s \in Session, GetPage(s) \/ GetOffers(s), Reaches(s)
  PROVE  Reaches(s)'
<1>1. inventory' = inventory
  BY DEF GetPage, GetOffers, Elsewhere, World
<1>2. ASSUME NEW v \in {"partial", "error"}, NEW a \in BOOLEAN, NEW r,
             Report(s, v, a, r)
      PROVE  Reaches(s)'
  BY <1>1, <1>2, ReportReaches DEF Done
<1>3. CASE GetPage(s)
  <2>1. \/ \E v \in {"partial", "error"}, a \in BOOLEAN : Report(s, v, a, Spend(read[s]))
        \/ Answered(s, Spend(read[s]))
    BY <1>3 DEF GetPage
  <2>2. Spend(read[s]) \in Read /\ ReachesAt("page", Spend(read[s]))
    BY <1>3, SpendReaches DEF GetPage
  <2> QED BY <1>1, <1>2, <2>1, <2>2, AnsweredReaches
<1>4. CASE GetOffers(s)
  <2> DEFINE r == Spend(read[s])
             over == [r EXCEPT !.items = Tail(@), !.flawed = TRUE]
  <2>1. \/ Take(s, read[s])
        \/ Take(s, r)
        \/ Continue(s, "offers", over)
        \/ \E v \in {"partial", "error"}, a \in BOOLEAN : Report(s, v, a, r)
    BY <1>4 DEF GetOffers
  <2>2. /\ read[s] \in Read /\ ReachesAt("offers", read[s]) /\ read[s].items # <<>>
        /\ r \in Read /\ ReachesAt("offers", r)
    BY <1>4, SpendReaches DEF GetOffers
  <2>3. r.items # <<>>
    BY <1>4, SpendType DEF GetOffers
  <2> HIDE DEF r
  <2>4. over.flawed = TRUE
    BY <2>2 DEF Read
  <2> HIDE DEF over
  <2>5. ReachesAt("offers", over)
    BY <2>4, Zenon DEF ReachesAt, Undisturbed
  <2> QED BY <1>1, <1>2, <2>1, <2>2, <2>3, <2>5, TakeReaches, ContinueReaches DEF Points
<1> QED BY <1>3, <1>4

LEMMA AuditReaches ==
  ASSUME TypeOK, NEW s \in Session,
         Continue(s, "page", [Fresh EXCEPT !.budget = read[s].budget, !.first = Len(inventory)]),
         inventory' = inventory
  PROVE  Reaches(s)'
<1> DEFINE r == [Fresh EXCEPT !.budget = read[s].budget, !.first = Len(inventory)]
<1>1. Continue(s, "page", r)
  OBVIOUS
<1>2. /\ r.page = 0 /\ r.total = Unknown /\ r.got = <<>> /\ r.first = Len(inventory)
  BY DEF Fresh
<1>3. inventory' = inventory /\ Len(inventory) \in Nat /\ 0 * PageSize = 0
  BY SyncConstantsOK DEF TypeOK
<1> HIDE DEF r
<1>5. Behind(r, 0)
  <2>1. IsInjective(<<>>) /\ ToSet(<<>>) = {} /\ Listed(0) = {}
    BY DEF IsInjective, ToSet, Listed
  <2>2. IsInjective(r.got) /\ ToSet(r.got) = Listed(0)
    BY <1>2, <2>1, Zenon
  <2>3. 0 \in 0..Len(inventory) /\ r.first <= Len(inventory)
    BY <1>2, <1>3
  <2> QED BY <1>2, <2>2, <2>3 DEF Behind
<1>6. ReachesAt("page", r)
  BY <1>2, <1>3, <1>5 DEF ReachesAt
<1> QED BY <1>1, <1>3, <1>6, ContinueReaches DEF Points

\* What is added behind the items that were there moves none of them.
LEMMA AppendReaches ==
  ASSUME TypeOK, NEW s \in Session, SellerAppend, Reaches(s) PROVE Reaches(s)'
<1>1. PICK k \in Sku : inventory' = Append(inventory, k)
  BY DEF SellerAppend
<1>2. pc' = pc /\ read' = read /\ inventory \in Seq(Sku)
  BY DEF SellerAppend, TypeOK
<1>3. /\ inventory' \in Seq(Sku) /\ Len(inventory') = Len(inventory) + 1
      /\ Len(inventory) \in Nat
      /\ \A i \in 1..Len(inventory) : inventory'[i] = inventory[i]
  BY <1>1, <1>2
<1> SUFFICES ASSUME Fetching(s), Undisturbed(read[s])
             PROVE  ReachesAt(pc[s], read[s])'
  BY <1>2 DEF Reaches, Fetching, ReachesAt
<1> DEFINE r == read[s]
<1>4. r \in Read
  BY ActiveRead DEF WithinBudget, Fetching
<1>5. PICK n \in 0..Len(inventory) :
        /\ Behind(r, n)
        /\ pc[s] = "page" => n = r.page * PageSize
        /\ pc[s] = "offers" => \E end \in n..Len(inventory) : PageLeft(r, n, end)
        /\ pc[s] = "mark" => r.first <= n
  BY DEF Reaches, ReachesAt
<1>6. n \in 0..Len(inventory') /\ r.first <= Len(inventory')
  BY <1>3, <1>4, <1>5 DEF Behind, Read
<1>7. Listed(n)' = Listed(n)
  BY <1>3, <1>5 DEF Listed
<1>8. r' = r
  BY <1>2
<1> HIDE DEF r
<1>9. Behind(r, n)'
  BY <1>5, <1>6, <1>7, <1>8 DEF Behind
<1>10. ASSUME NEW end \in n..Len(inventory), PageLeft(r, n, end)
       PROVE  end \in n..Len(inventory') /\ PageLeft(r, n, end)'
  <2>1. SubSeq(inventory', n + 1, end) = SubSeq(inventory, n + 1, end)
    <3>1. end \in Nat /\ n \in Nat /\ end <= Len(inventory) /\ end <= Len(inventory')
      BY <1>3, <1>5
    <3>2. SubSeq(inventory', n + 1, end) = [i \in 1..end - n |-> inventory'[n + i]]
      BY <1>3, <3>1
    <3>3. SubSeq(inventory, n + 1, end) = [i \in 1..end - n |-> inventory[n + i]]
      BY <1>2, <3>1
    <3>4. \A i \in 1..end - n : n + i \in 1..Len(inventory)
      BY <3>1
    <3> QED BY <1>3, <3>2, <3>3, <3>4
  <2>2. end \in n..Len(inventory')
    BY <1>3
  <2> QED BY <1>8, <1>10, <2>1, <2>2 DEF PageLeft
<1>11. ReachesAt(pc[s], r)'
  BY <1>2, <1>5, <1>6, <1>8, <1>9, <1>10 DEF ReachesAt
<1> QED BY <1>11 DEF r

LEMMA NextReaches == TypeOK /\ Distinct /\ AllReach /\ [Next]_vars => AllReach'
<1> SUFFICES ASSUME TypeOK, Distinct, AllReach, [Next]_vars, NEW t \in Session
             PROVE  Reaches(t)'
  BY DEF AllReach
<1>1. Reaches(t)
  BY DEF AllReach
<1>2. ASSUME UNCHANGED inventory, pc'[t] = pc[t], read'[t] = read[t] PROVE Reaches(t)'
  BY <1>1, <1>2 DEF Reaches, Fetching, ReachesAt, Behind, Listed, PageLeft
<1>3. ASSUME NEW s \in Session, NEW point, NEW r, Continue(s, point, r), UNCHANGED inventory,
             s # t
      PROVE  Reaches(t)'
  BY <1>2, <1>3 DEF Continue, Goto, TypeOK
<1>4. ASSUME NEW s \in Session, AuditStarted(s) PROVE Reaches(t)'
  <2>1. UNCHANGED inventory
    BY <1>4 DEF AuditStarted, World
  <2>2. CASE BreakOff(s)
    <3>1. Continue(s, "idle", NoRead)
      BY <2>2 DEF BreakOff
    <3>2. s = t => ~Fetching(t)'
      BY <3>1 DEF Continue, Goto, TypeOK, Fetching
    <3> QED BY <1>3, <2>1, <3>1, <3>2 DEF Reaches
  <2>3. CASE ~BreakOff(s)
    <3>1. Continue(s, "page", [Fresh EXCEPT !.budget = read[s].budget, !.first = Len(inventory)])
      BY <1>4, <2>3 DEF AuditStarted
    <3> QED BY <1>3, <2>1, <3>1, AuditReaches
  <2> QED BY <2>2, <2>3
<1>5. ASSUME NEW s \in Session, GetPage(s) \/ GetOffers(s) \/ EndPage(s) PROVE Reaches(t)'
  <2>1. UNCHANGED inventory
    BY <1>5 DEF GetPage, GetOffers, EndPage, Elsewhere, World
  <2>2. \E point, r : Continue(s, point, r)
    <3>1. ASSUME NEW v, NEW a, NEW r, Report(s, v, a, r) PROVE \E point, q : Continue(s, point, q)
      BY <3>1 DEF Report
    <3>2. ASSUME NEW r, Answered(s, r) \/ Take(s, r) PROVE \E point, q : Continue(s, point, q)
      BY <3>1, <3>2 DEF Answered, Take
    <3> QED BY <1>5, <3>1, <3>2 DEF GetPage, GetOffers, EndPage
  <2> QED BY <1>1, <1>3, <1>5, <2>1, <2>2, GetReaches, EndPageReaches
<1>6. ASSUME NEW s \in Session, Start(s) \/ Mark(s) \/ AppendHistory(s) \/ Crash(s)
      PROVE  Reaches(t)'
  <2>1. /\ UNCHANGED inventory
        /\ \E point \in {"started", "append", "audit", "idle"} : \E r : Continue(s, point, r)
    BY <1>6 DEF Start, Mark, AppendHistory, Crash, BreakOff, World
  <2>2. s = t => ~Fetching(t)'
    BY <2>1 DEF Continue, Goto, TypeOK, Fetching
  <2> QED BY <1>3, <2>1, <2>2 DEF Reaches
<1>10. ASSUME NEW s \in Session, AuditEnded(s) PROVE Reaches(t)'
  <2>1. UNCHANGED inventory
    BY <1>10 DEF AuditEnded, Elsewhere, World
  <2>2. CASE Continue(s, "idle", NoRead)
    <3>1. s = t => ~Fetching(t)'
      BY <2>2 DEF Continue, Goto, TypeOK, Fetching
    <3> QED BY <1>3, <2>1, <2>2, <3>1 DEF Reaches
  <2>3. CASE Report(s, "error", FALSE, read[s])
    <3>1. \E r : Continue(s, "mark", r)
      BY <2>3 DEF Report
    <3>2. Reaches(s)'
      BY <2>1, <2>3, ReportReaches DEF Done
    <3> QED BY <1>3, <2>1, <3>1, <3>2
  <2> QED BY <1>10, <2>2, <2>3 DEF AuditEnded
<1>7. ASSUME SellerAppend PROVE Reaches(t)'
  BY <1>1, <1>7, AppendReaches
<1>8. ASSUME SellerShift PROVE Reaches(t)'
  <2> SUFFICES ASSUME Fetching(t)' PROVE ~Undisturbed(read[t])'
    BY DEF Reaches, ReachesAt
  <2>1. Fetching(t) /\ read'[t] = [read[t] EXCEPT !.shifted = TRUE]
    BY <1>8 DEF SellerShift, Fetching
  <2> DEFINE r == read[t]
  <2>2. r \in Read
    BY <2>1, ActiveRead DEF Fetching, WithinBudget
  <2> HIDE DEF r
  <2>3. [r EXCEPT !.shifted = TRUE].shifted = TRUE
    BY <2>2 DEF Read
  <2>4. read'[t].shifted = TRUE
    BY <2>1, <2>3 DEF r
  <2> QED BY <2>4, Zenon DEF Undisturbed
<1>9. ASSUME UNCHANGED vars PROVE Reaches(t)'
  BY <1>2, <1>9 DEF vars
<1> QED BY <1>4, <1>5, <1>6, <1>7, <1>8, <1>9, <1>10 DEF Next, ReadStep

\* A read that reports ok, passed no offer over and saw no item move has every
\* listing once: for any inventory, page size and budget, whatever the seller
\* adds behind the items meanwhile, and whether or not the pages are counted.
THEOREM NothingIsMissed == Spec => []NothingMissed
<1>1. Init => AllReach
  BY DEF Init, AllReach, Reaches, Fetching
<1>2. TypeOK /\ AllReach => NothingMissed
  <2> SUFFICES ASSUME TypeOK, AllReach, NEW s \in Session, pc[s] = "mark",
                      read[s].verdict = "ok", ~read[s].flawed, ~read[s].shifted
               PROVE  /\ IsInjective(read[s].got)
                      /\ Listed(read[s].first) \subseteq ToSet(read[s].got)
                      /\ ToSet(read[s].got) \subseteq Listed(Len(inventory))
    BY DEF NothingMissed, Listed
  <2>1. PICK n \in 0..Len(inventory) : Behind(read[s], n) /\ read[s].first <= n
    BY DEF AllReach, Reaches, Fetching, ReachesAt, Undisturbed
  <2>2. read[s].first \in Nat /\ Len(inventory) \in Nat
    BY ActiveRead DEF WithinBudget, Read, TypeOK
  <2>3. Listed(read[s].first) \subseteq Listed(n) /\ Listed(n) \subseteq Listed(Len(inventory))
    BY <2>1, <2>2 DEF Listed
  <2> QED BY <2>1, <2>3 DEF Behind
<1>3. TypeOK /\ Distinct /\ AllReach /\ [Next]_vars => TypeOK' /\ Distinct' /\ AllReach'
  BY NextTypes, NextReaches
<1> QED BY <1>1, <1>2, <1>3, InitTypes, PTL DEF Spec

=============================================================================
