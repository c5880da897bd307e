--------------------------- MODULE AuditLogProofs ---------------------------
(***************************************************************************)
(* Theorems about the audit log of one writer whose process may end inside *)
(* an append, for any number and size of rotated files.                    *)
(***************************************************************************)
EXTENDS AuditLog, FiniteSetTheorems, TLAPS

\* At most one process appends to the log at a time.
OneWriter == \A v, w \in Writer : v = w

IdsOf(s) == {s[k].id : k \in 1..Len(s)}
Last(s) == s[Len(s)].id
Tip(s) == IF s = <<>> THEN Genesis ELSE Last(s)

ChainOf(s) ==
  \A k \in 1..Len(s) : s[k].prev = (IF k = 1 THEN Genesis ELSE s[k - 1].id)

\* A file of higher index is older, and the last line of a file its newest.
Sorted ==
  /\ \A i, j \in 0..Keep : i < j =>
       \A a \in IdsOf(file[i]), b \in IdsOf(file[j]) : b < a
  /\ \A i \in 0..Keep : \A a \in IdsOf(file[i]) : a <= Last(file[i])

\* Where a rotation moves a file to, the file before was moved away, unless
\* it is the oldest; and what it keeps in the active file is never nothing.
Rotating(w) ==
  /\ pc[w] \in {"unlink", "rename"} => file[Active] # <<>>
  /\ pc[w] = "unlink" => index[w] + 1 = Keep \/ file[index[w] + 1] = <<>>
  /\ pc[w] = "rename" => file[index[w] + 1] = <<>>
  /\ pc[w] = "write" => tip[w] = Tip(file[Active])

Points == {"idle", "unlink", "rename", "tip", "write"}

Typed ==
  /\ file \in [0..Keep -> Seq(Record)]
  /\ pc \in [Writer -> Points]
  /\ index \in [Writer -> 0..(Keep - 1)]
  /\ tip \in [Writer -> 1..MaxRecords \cup {Genesis}]
  /\ written \in 0..MaxRecords

\* What is kept is the records from some number on.
KeptFrom(r) == \A a \in 1..written : a \in Retained <=> r <= a

IInv ==
  /\ Typed
  /\ Sorted
  /\ \A i \in 0..Keep : ChainOf(file[i])
  /\ Retained \subseteq 1..written
  /\ \E r \in 1..(written + 1) : KeptFrom(r) /\ (written > 0 => r <= written)
  /\ \A w \in Writer : Rotating(w)

-----------------------------------------------------------------------------
LEMMA IdsEmpty == IdsOf(<<>>) = {}
  BY DEF IdsOf

LEMMA IdsAppend ==
  ASSUME NEW s \in Seq(Record), NEW e \in Record
  PROVE  IdsOf(Append(s, e)) = IdsOf(s) \cup {e.id}
<1> DEFINE t == Append(s, e)
<1>1. /\ Len(t) = Len(s) + 1
      /\ \A k \in 1..Len(s) : t[k] = s[k]
      /\ t[Len(s) + 1] = e
      /\ Len(s) \in Nat
  OBVIOUS
<1> HIDE DEF t
<1>2. ASSUME NEW a \in IdsOf(t) PROVE a \in IdsOf(s) \cup {e.id}
  <2>1. PICK k \in 1..Len(t) : a = t[k].id
    BY <1>2 DEF IdsOf
  <2>2. CASE k \in 1..Len(s)
    BY <1>1, <2>1, <2>2 DEF IdsOf
  <2>3. CASE k = Len(s) + 1
    BY <1>1, <2>1, <2>3 DEF IdsOf
  <2> QED BY <1>1, <2>2, <2>3
<1>3. ASSUME NEW a \in IdsOf(s) \cup {e.id} PROVE a \in IdsOf(t)
  <2>1. CASE a = e.id
    <3>1. Len(s) + 1 \in 1..Len(t)
      BY <1>1
    <3> QED BY <1>1, <2>1, <3>1 DEF IdsOf
  <2>2. CASE a \in IdsOf(s)
    <3>1. PICK k \in 1..Len(s) : a = s[k].id
      BY <2>2 DEF IdsOf
    <3>2. k \in 1..Len(t)
      BY <1>1, <3>1
    <3> QED BY <1>1, <3>1, <3>2 DEF IdsOf
  <2> QED BY <1>3, <2>1, <2>2
<1> QED BY <1>2, <1>3 DEF t

LEMMA InRetained ==
  \A a : a \in Retained <=> \E i \in 0..Keep : a \in IdsOf(file[i])
  BY DEF Retained, IdsOf

LEMMA LastIsAnId ==
  ASSUME NEW s \in Seq(Record), s # <<>>
  PROVE  Last(s) \in IdsOf(s) /\ Last(s) \in 1..MaxRecords
<1>1. Len(s) \in 1..Len(s)
  OBVIOUS
<1>2. s[Len(s)] \in Record
  BY <1>1
<1> QED BY <1>1, <1>2 DEF IdsOf, Last, Record

LEMMA IdsTyped ==
  ASSUME NEW s \in Seq(Record)
  PROVE  IdsOf(s) \subseteq 1..MaxRecords
<1> SUFFICES ASSUME NEW k \in 1..Len(s) PROVE s[k].id \in 1..MaxRecords
  BY DEF IdsOf
<1>1. s[k] \in Record
  OBVIOUS
<1> QED BY <1>1 DEF Record

-----------------------------------------------------------------------------
(* One round of a rotation loses nothing but the oldest file.              *)

\* What is said of the files alone.
FilesGood ==
  /\ file \in [0..Keep -> Seq(Record)]
  /\ Sorted
  /\ \A i \in 0..Keep : ChainOf(file[i])
  /\ Retained \subseteq 1..written
  /\ \E r \in 1..(written + 1) : KeptFrom(r) /\ (written > 0 => r <= written)

LEMMA UnlinkKeeps ==
  ASSUME FilesGood, written \in Nat,
         NEW g \in 1..Keep, file' = [file EXCEPT ![g] = <<>>],
         g = Keep \/ file[g] = <<>>,
         file[Active] # <<>>,
         written' = written
  PROVE  FilesGood'
<1> USE AuditConstantsOK
<1>1. g \in 0..Keep /\ Active \in 0..Keep /\ Active < g
  BY DEF Active
<1>2. /\ file' \in [0..Keep -> Seq(Record)]
      /\ file'[g] = <<>>
      /\ \A i \in 0..Keep : i # g => file'[i] = file[i]
  <2>1. <<>> \in Seq(Record)
    OBVIOUS
  <2> QED BY <1>1, <2>1 DEF FilesGood
<1>3. \A i \in 0..Keep : \A a \in IdsOf(file'[i]) : i # g /\ a \in IdsOf(file[i])
  BY <1>2, IdsEmpty
<1>4. Sorted'
  <2>1. ASSUME NEW i \in 0..Keep, NEW j \in 0..Keep, i < j,
               NEW a \in IdsOf(file'[i]), NEW b \in IdsOf(file'[j])
        PROVE  b < a
    BY <1>3, <2>1 DEF FilesGood, Sorted
  <2>2. ASSUME NEW i \in 0..Keep, NEW a \in IdsOf(file'[i])
        PROVE  a <= Last(file'[i])
    BY <1>2, <1>3, <2>2 DEF FilesGood, Sorted
  <2> QED BY <2>1, <2>2 DEF Sorted
<1>5. (\A i \in 0..Keep : ChainOf(file[i]))'
  <2> SUFFICES ASSUME NEW i \in 0..Keep PROVE ChainOf(file'[i])
    BY DEF ChainOf
  <2>1. ChainOf(<<>>)
    BY DEF ChainOf
  <2> QED BY <1>2, <2>1 DEF FilesGood
<1>6. \A a : a \in Retained' <=> \E i \in 0..Keep : a \in IdsOf(file'[i])
  BY DEF Retained, IdsOf
<1>7. \A a \in Retained' : a \in Retained
  BY <1>3, <1>6, InRetained
<1>8. \A a \in Retained : a \in Retained' \/ a \in IdsOf(file[g])
  BY <1>2, <1>6, InRetained
<1>9. Retained' \subseteq 1..written
  BY <1>7 DEF FilesGood
<1>10. PICK r \in 1..(written + 1) : KeptFrom(r) /\ (written > 0 => r <= written)
  BY DEF FilesGood
<1>11. \E q \in 1..(written + 1) : KeptFrom(q)' /\ (written > 0 => q <= written)
  <2>1. CASE file[g] = <<>>
    <3>1. Retained' = Retained
      BY <1>7, <1>8, <2>1, IdsEmpty
    <3> QED BY <1>10, <3>1 DEF KeptFrom
  <2>2. CASE file[g] # <<>>
    <3> DEFINE m == Last(file[g])
    <3>1. g = Keep
      BY <2>2
    <3>2. m \in IdsOf(file[g]) /\ m \in 1..MaxRecords
      BY <1>1, <2>2, LastIsAnId DEF FilesGood
    <3>3. m \in Retained
      BY <1>1, <3>2, InRetained
    <3>4. \A a \in IdsOf(file[g]) : a <= m
      BY <1>1 DEF FilesGood, Sorted
    <3>5. Last(file[Active]) \in IdsOf(file[Active])
      BY <1>1, LastIsAnId DEF FilesGood
    <3>6. m < Last(file[Active]) /\ Last(file[Active]) \in 1..written
      <4>1. Last(file[Active]) \in Retained
        BY <1>1, <3>5, InRetained
      <4> QED BY <1>1, <3>2, <3>5, <4>1 DEF FilesGood, Sorted
    <3> HIDE DEF m
    <3>7. \A a \in Retained' : a > m
      <4> SUFFICES ASSUME NEW a \in Retained' PROVE a > m
        OBVIOUS
      <4>1. PICK i \in 0..Keep : i # g /\ a \in IdsOf(file[i])
        BY <1>3, <1>6
      <4>2. i < g
        BY <3>1, <4>1
      <4> QED BY <1>1, <3>2, <4>1, <4>2 DEF FilesGood, Sorted
    <3>8. \A a \in 1..written : a \in Retained' <=> m + 1 <= a
      <4> SUFFICES ASSUME NEW a \in 1..written PROVE a \in Retained' <=> m + 1 <= a
        OBVIOUS
      <4>1. ASSUME m + 1 <= a PROVE a \in Retained'
        <5>1. m \in 1..written /\ r <= m
          BY <1>10, <3>3 DEF KeptFrom, FilesGood
        <5>2. a \in Retained
          BY <1>10, <4>1, <5>1 DEF KeptFrom
        <5>3. a \notin IdsOf(file[g])
          BY <3>2, <3>4, <4>1
        <5> QED BY <1>8, <5>2, <5>3
      <4>2. ASSUME a \in Retained' PROVE m + 1 <= a
        BY <3>2, <3>7, <4>2
      <4> QED BY <4>1, <4>2
    <3>9. m + 1 \in 1..(written + 1) /\ m + 1 <= written
      BY <3>2, <3>6
    <3> QED BY <3>8, <3>9 DEF KeptFrom
  <2> QED BY <2>1, <2>2
<1> QED BY <1>2, <1>4, <1>5, <1>9, <1>11 DEF FilesGood

LEMMA MoveKeeps ==
  ASSUME FilesGood, NEW f \in 0..(Keep - 1), Move(f, f + 1),
         file[f + 1] = <<>>, written' = written
  PROVE  FilesGood' /\ Retained' = Retained
<1> USE AuditConstantsOK
<1>1. /\ f \in 0..Keep /\ f + 1 \in 0..Keep /\ f \in Nat /\ Keep \in Nat
      /\ f # f + 1
  OBVIOUS
<1>2. /\ file' \in [0..Keep -> Seq(Record)]
      /\ file'[f + 1] = file[f]
      /\ file'[f] = <<>>
      /\ \A i \in 0..Keep : i # f /\ i # f + 1 => file'[i] = file[i]
  <2>1. <<>> \in Seq(Record)
    OBVIOUS
  <2>2. CASE file[f] = <<>>
    BY <1>1, <2>2 DEF FilesGood, Move
  <2>3. CASE file[f] # <<>>
    BY <1>1, <2>1, <2>3 DEF FilesGood, Move
  <2> QED BY <2>2, <2>3
<1>3. \A i \in 0..Keep : \A a \in IdsOf(file'[i]) :
        \/ i = f + 1 /\ a \in IdsOf(file[f])
        \/ i # f /\ i # f + 1 /\ a \in IdsOf(file[i])
  BY <1>2, IdsEmpty
<1>4. Sorted'
  <2>1. ASSUME NEW i \in 0..Keep, NEW j \in 0..Keep, i < j,
               NEW a \in IdsOf(file'[i]), NEW b \in IdsOf(file'[j])
        PROVE  b < a
    <3>1. CASE i = f + 1
      <4>1. a \in IdsOf(file[f]) /\ j # f /\ j # f + 1 /\ f < j
        BY <1>1, <1>3, <2>1, <3>1
      <4>2. b \in IdsOf(file[j])
        BY <1>3, <2>1, <4>1
      <4> QED BY <1>1, <4>1, <4>2 DEF FilesGood, Sorted
    <3>2. CASE i # f + 1 /\ j = f + 1
      <4>1. i < f + 1 /\ i # f
        BY <1>3, <2>1, <3>2
      <4>2. a \in IdsOf(file[i]) /\ b \in IdsOf(file[f])
        BY <1>3, <2>1, <3>2
      <4>3. i < f
        BY <1>1, <4>1
      <4> QED BY <1>1, <4>2, <4>3 DEF FilesGood, Sorted
    <3>3. CASE i # f + 1 /\ j # f + 1
      <4>1. a \in IdsOf(file[i]) /\ b \in IdsOf(file[j])
        BY <1>3, <2>1, <3>3
      <4> QED BY <2>1, <4>1 DEF FilesGood, Sorted
    <3> QED BY <3>1, <3>2, <3>3
  <2>2. ASSUME NEW i \in 0..Keep, NEW a \in IdsOf(file'[i])
        PROVE  a <= Last(file'[i])
    <3>1. CASE i = f + 1
      <4>1. a \in IdsOf(file[f]) /\ file'[i] = file[f]
        BY <1>2, <1>3, <2>2, <3>1
      <4> QED BY <1>1, <4>1 DEF FilesGood, Sorted
    <3>2. CASE i # f + 1
      <4>1. a \in IdsOf(file[i]) /\ file'[i] = file[i]
        BY <1>2, <1>3, <2>2, <3>2
      <4> QED BY <4>1 DEF FilesGood, Sorted
    <3> QED BY <3>1, <3>2
  <2> QED BY <2>1, <2>2 DEF Sorted
<1>5. (\A i \in 0..Keep : ChainOf(file[i]))'
  <2> SUFFICES ASSUME NEW i \in 0..Keep PROVE ChainOf(file'[i])
    BY DEF ChainOf
  <2>1. ChainOf(<<>>)
    BY DEF ChainOf
  <2> QED BY <1>1, <1>2, <2>1 DEF FilesGood
<1>6. \A a : a \in Retained' <=> \E i \in 0..Keep : a \in IdsOf(file'[i])
  BY DEF Retained, IdsOf
<1>7. \A a \in Retained' : a \in Retained
  BY <1>1, <1>3, <1>6, InRetained
<1>8. \A a \in Retained : a \in Retained'
  <2> SUFFICES ASSUME NEW a \in Retained PROVE a \in Retained'
    OBVIOUS
  <2>1. PICK i \in 0..Keep : a \in IdsOf(file[i])
    BY InRetained
  <2>2. CASE i = f
    BY <1>1, <1>2, <1>6, <2>1, <2>2
  <2>3. CASE i # f
    BY <1>2, <1>6, <2>1, <2>3, IdsEmpty
  <2> QED BY <2>2, <2>3
<1>9. Retained' = Retained
  BY <1>7, <1>8
<1> QED BY <1>2, <1>4, <1>5, <1>9 DEF FilesGood, KeptFrom

-----------------------------------------------------------------------------
(* The initial log, and one lemma for each action.                         *)

LEMMA InitHolds == Init => IInv
<1> SUFFICES ASSUME Init PROVE IInv
  OBVIOUS
<1> USE AuditConstantsOK DEF Init
<1>1. \A i \in 0..Keep : file[i] = <<>>
  OBVIOUS
<1>2. Typed
  <2>1. <<>> \in Seq(Record)
    OBVIOUS
  <2> QED BY <2>1 DEF Typed, Points
<1>3. Sorted
  BY <1>1, IdsEmpty DEF Sorted
<1>4. \A i \in 0..Keep : ChainOf(file[i])
  <2>1. ChainOf(<<>>)
    BY DEF ChainOf
  <2> QED BY <1>1, <2>1
<1>5. Retained \subseteq 1..written
  BY <1>1, IdsEmpty, InRetained
<1>6. KeptFrom(1) /\ 1 \in 1..(written + 1)
  BY DEF KeptFrom
<1>7. \A w \in Writer : Rotating(w)
  BY DEF Rotating
<1> QED BY <1>2, <1>3, <1>4, <1>5, <1>6, <1>7 DEF IInv

\* What is said of the files alone holds as long as they stay as they are.
FilesStay == UNCHANGED <<file, written>>

LEMMA StayLemma ==
  ASSUME IInv, FilesStay, Typed', (\A w \in Writer : Rotating(w))'
  PROVE  IInv'
<1> USE DEF FilesStay
<1>1. Sorted'
  BY DEF IInv, Sorted
<1>2. (\A i \in 0..Keep : ChainOf(file[i]))'
  BY DEF IInv
<1>3. Retained' = Retained
  BY DEF Retained
<1>4. (Retained \subseteq 1..written)'
  BY <1>3 DEF IInv
<1>5. (\E r \in 1..(written + 1) : KeptFrom(r) /\ (written > 0 => r <= written))'
  BY <1>3 DEF IInv, KeptFrom
<1> QED BY <1>1, <1>2, <1>4, <1>5 DEF IInv

LEMMA BeginLemma ==
  ASSUME IInv, OneWriter, NEW w \in Writer, BeginAppend(w)
  PROVE  IInv'
<1> USE AuditConstantsOK
<1>1. FilesStay
  BY DEF BeginAppend, FilesStay
<1>2. Typed'
  <2>1. Keep - 1 \in 0..(Keep - 1)
    OBVIOUS
  <2>2. pc' \in [Writer -> Points]
    <3>1. PICK p \in {"tip", "unlink"} : pc' = [pc EXCEPT ![w] = p]
      BY Zenon DEF BeginAppend, Goto
    <3> QED BY <3>1 DEF IInv, Typed, Points
  <2>3. index' \in [Writer -> 0..(Keep - 1)]
    BY <2>1 DEF IInv, Typed, BeginAppend
  <2>4. /\ file' = file /\ tip' = tip /\ written' = written
    BY DEF BeginAppend
  <2> QED BY <2>2, <2>3, <2>4 DEF IInv, Typed
<1>3. (\A v \in Writer : Rotating(v))'
  <2> SUFFICES ASSUME NEW v \in Writer PROVE Rotating(v)'
    OBVIOUS
  <2>1. v = w
    BY DEF OneWriter
  <2>2. CASE Len(file[Active]) < MaxLines
    <3>1. pc'[w] = "tip"
      BY <2>2 DEF IInv, Typed, BeginAppend, Goto
    <3> QED BY <2>1, <3>1 DEF Rotating
  <2>3. CASE ~(Len(file[Active]) < MaxLines)
    <3>1. file[Active] # <<>>
      BY <2>3
    <3>2. /\ pc'[w] = "unlink"
          /\ index'[w] = Keep - 1
          /\ file' = file
      BY <2>3 DEF IInv, Typed, BeginAppend, Goto
    <3> QED BY <2>1, <3>1, <3>2 DEF Rotating
  <2> QED BY <2>2, <2>3
<1> QED BY <1>1, <1>2, <1>3, StayLemma

LEMMA UnlinkLemma ==
  ASSUME IInv, OneWriter, NEW w \in Writer, Unlink(w)
  PROVE  IInv'
<1> USE AuditConstantsOK
<1> DEFINE g == index[w] + 1
<1>1. /\ g \in 1..Keep /\ g \in 0..Keep /\ Active \in 0..Keep /\ Active # g
      /\ g = Keep \/ file[g] = <<>>
      /\ file[Active] # <<>>
      /\ file' = [file EXCEPT ![g] = <<>>]
      /\ written' = written /\ index' = index /\ tip' = tip
  BY DEF IInv, Typed, Rotating, Unlink, Active
<1>2. pc' = [pc EXCEPT ![w] = "rename"]
  BY DEF Unlink, Goto
<1> HIDE DEF g
<1>3. FilesGood'
  <2>1. FilesGood /\ written \in Nat
    BY DEF IInv, FilesGood, Typed
  <2> QED BY <1>1, <2>1, UnlinkKeeps
<1>4. Typed'
  BY <1>1, <1>2, <1>3 DEF IInv, Typed, FilesGood, Points
<1>5. (\A v \in Writer : Rotating(v))'
  <2> SUFFICES ASSUME NEW v \in Writer PROVE Rotating(v)'
    OBVIOUS
  <2>1. v = w
    BY DEF OneWriter
  <2>2. /\ pc'[w] = "rename" /\ file'[g] = <<>> /\ file'[Active] = file[Active]
        /\ index'[w] + 1 = g
    BY <1>1, <1>2 DEF IInv, Typed, g
  <2> QED BY <1>1, <2>1, <2>2 DEF Rotating
<1> QED BY <1>3, <1>4, <1>5 DEF IInv, FilesGood

LEMMA RenameLemma ==
  ASSUME IInv, OneWriter, NEW w \in Writer, Rename(w)
  PROVE  IInv'
<1> USE AuditConstantsOK
<1> DEFINE f == index[w]
<1>1. /\ f \in 0..(Keep - 1) /\ f \in 0..Keep /\ f + 1 \in 0..Keep /\ f # f + 1
      /\ file[f + 1] = <<>> /\ file[Active] # <<>>
      /\ Move(f, f + 1)
      /\ written' = written /\ tip' = tip
  <2>1. pc[w] = "rename" /\ Move(f, f + 1) /\ written' = written /\ tip' = tip
    BY DEF Rename
  <2>2. f \in 0..(Keep - 1) /\ file[f + 1] = <<>> /\ file[Active] # <<>>
    BY <2>1 DEF IInv, Typed, Rotating
  <2> HIDE DEF f
  <2> QED BY <2>1, <2>2
<1>2. \/ f = Active /\ pc' = [pc EXCEPT ![w] = "tip"] /\ index' = index
      \/ /\ f # Active /\ f - 1 \in 0..(Keep - 1)
         /\ pc' = [pc EXCEPT ![w] = "unlink"] /\ index' = [index EXCEPT ![w] = f - 1]
  BY <1>1 DEF Rename, Goto, Active
<1> HIDE DEF f
<1>3. FilesGood'
  BY <1>1, MoveKeeps DEF IInv, FilesGood, Typed
<1>4. Typed'
  BY <1>1, <1>2, <1>3 DEF IInv, Typed, FilesGood, Points
<1>5. (\A v \in Writer : Rotating(v))'
  <2> SUFFICES ASSUME NEW v \in Writer PROVE Rotating(v)'
    OBVIOUS
  <2>1. v = w
    BY DEF OneWriter
  <2>2. CASE f = Active
    <3>1. pc'[w] = "tip"
      BY <1>2, <2>2 DEF IInv, Typed
    <3> QED BY <2>1, <3>1 DEF Rotating
  <2>3. CASE f # Active
    <3>1. pc'[w] = "unlink" /\ index'[w] + 1 = f
      BY <1>1, <1>2, <2>3 DEF IInv, Typed
    <3>2. file'[f] = <<>> /\ file'[Active] = file[Active]
      <4>1. Active \in 0..Keep /\ Active # f + 1
        BY <1>1 DEF Active
      <4>2. CASE file[f] = <<>>
        BY <1>1, <4>2 DEF Move
      <4>3. CASE file[f] # <<>>
        BY <1>1, <2>3, <4>1, <4>3 DEF Move, IInv, Typed
      <4> QED BY <4>2, <4>3
    <3> QED BY <1>1, <2>1, <3>1, <3>2 DEF Rotating
  <2> QED BY <2>2, <2>3
<1> QED BY <1>3, <1>4, <1>5 DEF IInv, FilesGood

LEMMA ReadTipLemma ==
  ASSUME IInv, OneWriter, NEW w \in Writer, ReadTip(w)
  PROVE  IInv'
<1> USE AuditConstantsOK
<1>1. FilesStay
  BY DEF ReadTip, FilesStay
<1>2. tip'[w] = Tip(file[Active]) /\ pc'[w] = "write" /\ file' = file
  BY DEF IInv, Typed, ReadTip, Goto, Tip, Last
<1>3. Tip(file[Active]) \in 1..MaxRecords \cup {Genesis}
  <2>1. file[Active] \in Seq(Record)
    BY DEF IInv, Typed, Active
  <2> QED BY <2>1, LastIsAnId DEF Tip
<1>4. Typed'
  BY <1>2, <1>3 DEF IInv, Typed, ReadTip, Goto, Points
<1>5. (\A v \in Writer : Rotating(v))'
  BY <1>2 DEF OneWriter, Rotating
<1> QED BY <1>1, <1>4, <1>5, StayLemma

LEMMA WriteLemma ==
  ASSUME IInv, OneWriter, NEW w \in Writer, WriteLine(w)
  PROVE  IInv'
<1> USE AuditConstantsOK
<1> DEFINE e == [id |-> written + 1, prev |-> tip[w]]
           old == file[Active]
<1>1. Active \in 0..Keep /\ old \in Seq(Record)
  BY DEF IInv, Typed, Active
<1>2. e \in Record /\ e.id = written + 1 /\ e.prev = tip[w] /\ written \in Nat
      /\ written' = written + 1
  BY DEF IInv, Typed, WriteLine, Record
<1>3. /\ file'[Active] = Append(old, e)
      /\ \A i \in 0..Keep : i # Active => file'[i] = file[i]
      /\ file' = [file EXCEPT ![Active] = Append(old, e)]
  BY <1>1, <1>2 DEF IInv, Typed, WriteLine
<1>4. tip[w] = Tip(old)
  BY DEF IInv, Rotating, WriteLine
<1> HIDE DEF e, old
<1>5. /\ Append(old, e) \in Seq(Record)
      /\ Len(Append(old, e)) = Len(old) + 1
      /\ Append(old, e)[Len(old) + 1] = e
      /\ \A k \in 1..Len(old) : Append(old, e)[k] = old[k]
      /\ Len(old) \in Nat
  BY <1>1, <1>2
<1>6. Typed'
  <2>1. file' \in [0..Keep -> Seq(Record)]
    BY <1>3, <1>5 DEF IInv, Typed
  <2>2. pc' = [pc EXCEPT ![w] = "idle"] /\ index' = index /\ tip' = tip /\ crashes' = crashes
    BY DEF WriteLine, Goto
  <2>3. written' \in 0..MaxRecords
    BY <1>2 DEF IInv, Typed, WriteLine
  <2> QED BY <2>1, <2>2, <2>3 DEF IInv, Typed, Points
<1>7. IdsOf(file'[Active]) = IdsOf(old) \cup {written + 1}
  BY <1>1, <1>2, <1>3, IdsAppend
<1>8. \A i \in 0..Keep : \A a \in IdsOf(file[i]) : a \in 1..written
  BY InRetained DEF IInv
<1>9. Sorted'
  <2>1. ASSUME NEW i \in 0..Keep, NEW j \in 0..Keep, i < j,
               NEW a \in IdsOf(file'[i]), NEW b \in IdsOf(file'[j])
        PROVE  b < a
    <3>1. b \in IdsOf(file[j])
      BY <1>3, <2>1 DEF Active
    <3>2. CASE i = Active /\ a = written + 1
      BY <1>2, <1>8, <2>1, <3>1, <3>2
    <3>3. CASE ~(i = Active /\ a = written + 1)
      <4>1. a \in IdsOf(file[i])
        BY <1>3, <1>7, <2>1, <3>3 DEF old
      <4> QED BY <2>1, <3>1, <4>1 DEF IInv, Sorted
    <3> QED BY <3>2, <3>3
  <2>2. ASSUME NEW i \in 0..Keep, NEW a \in IdsOf(file'[i])
        PROVE  a <= Last(file'[i])
    <3>1. CASE i = Active
      <4>1. Last(file'[i]) = written + 1
        BY <1>2, <1>3, <1>5, <3>1 DEF Last
      <4>2. a \in IdsOf(file[i]) \/ a = written + 1
        BY <1>7, <2>2, <3>1 DEF old
      <4> QED BY <1>2, <1>8, <4>1, <4>2
    <3>2. CASE i # Active
      BY <1>3, <2>2, <3>2 DEF IInv, Sorted
    <3> QED BY <3>1, <3>2
  <2> QED BY <2>1, <2>2 DEF Sorted
<1>10. (\A i \in 0..Keep : ChainOf(file[i]))'
  <2> SUFFICES ASSUME NEW i \in 0..Keep PROVE ChainOf(file'[i])
    BY DEF ChainOf
  <2>1. CASE i # Active
    BY <1>3, <2>1 DEF IInv
  <2>2. CASE i = Active
    <3> DEFINE new == file'[Active]
    <3>1. ChainOf(old)
      BY <1>1 DEF IInv, old
    <3>2. SUFFICES ASSUME NEW k \in 1..Len(new)
                   PROVE  new[k].prev = (IF k = 1 THEN Genesis ELSE new[k - 1].id)
      BY <2>2 DEF ChainOf
    <3>3. /\ Len(new) = Len(old) + 1
          /\ new[Len(old) + 1] = e
          /\ \A n \in 1..Len(old) : new[n] = old[n]
      BY <1>3, <1>5
    <3> HIDE DEF new
    <3>4. CASE k \in 1..Len(old)
      <4>1. k # 1 => k - 1 \in 1..Len(old)
        BY <1>5, <3>4
      <4> QED BY <3>1, <3>3, <3>4, <4>1 DEF ChainOf
    <3>5. CASE k = Len(old) + 1
      <4>1. new[k].prev = Tip(old)
        BY <1>2, <1>4, <3>3, <3>5
      <4>2. CASE old = <<>>
        BY <3>5, <4>1, <4>2 DEF Tip
      <4>3. CASE old # <<>>
        <5>1. Len(old) \in 1..Len(old) /\ k # 1 /\ k - 1 = Len(old)
          BY <1>1, <1>5, <3>5, <4>3
        <5> QED BY <3>3, <4>1, <4>3, <5>1 DEF Tip, Last
      <4> QED BY <4>2, <4>3
    <3> QED BY <1>5, <3>2, <3>3, <3>4, <3>5
  <2> QED BY <2>1, <2>2
<1>11. Retained' = Retained \cup {written + 1}
  <2>1. \A a : a \in Retained' <=> \E i \in 0..Keep : a \in IdsOf(file'[i])
    BY DEF Retained, IdsOf
  <2>2. \A i \in 0..Keep : i # Active => IdsOf(file'[i]) = IdsOf(file[i])
    BY <1>3
  <2> QED BY <1>1, <1>7, <2>1, <2>2, InRetained DEF old
<1>12. (Retained \subseteq 1..written)'
  BY <1>2, <1>11 DEF IInv
<1>13. (\E r \in 1..(written + 1) : KeptFrom(r) /\ (written > 0 => r <= written))'
  <2>1. PICK r \in 1..(written + 1) : KeptFrom(r)
    BY DEF IInv
  <2>2. KeptFrom(r)'
    BY <1>2, <1>11, <2>1 DEF KeptFrom, IInv
  <2>3. r \in 1..(written' + 1) /\ r <= written'
    BY <1>2, <2>1
  <2> QED BY <2>2, <2>3
<1>14. (\A v \in Writer : Rotating(v))'
  <2>1. pc'[w] = "idle"
    BY DEF IInv, Typed, WriteLine, Goto
  <2> QED BY <2>1 DEF OneWriter, Rotating
<1> QED BY <1>6, <1>9, <1>10, <1>12, <1>13, <1>14 DEF IInv

LEMMA CrashLemma ==
  ASSUME IInv, OneWriter, NEW w \in Writer, Crash(w)
  PROVE  IInv'
<1>1. FilesStay
  BY DEF Crash, FilesStay
<1>2. Typed' /\ pc'[w] = "idle"
  BY DEF IInv, Typed, Crash, Goto, Points
<1>3. (\A v \in Writer : Rotating(v))'
  BY <1>2 DEF OneWriter, Rotating
<1> QED BY <1>1, <1>2, <1>3, StayLemma

-----------------------------------------------------------------------------
LEMMA StepHolds == ASSUME OneWriter PROVE IInv /\ [Next]_vars => IInv'
<1> SUFFICES ASSUME IInv, [Next]_vars PROVE IInv'
  OBVIOUS
<1>1. ASSUME NEW w \in Writer,
             BeginAppend(w) \/ Unlink(w) \/ Rename(w)
               \/ ReadTip(w) \/ WriteLine(w) \/ Crash(w)
      PROVE  IInv'
  BY <1>1, BeginLemma, UnlinkLemma, RenameLemma, ReadTipLemma, WriteLemma, CrashLemma
<1>2. CASE UNCHANGED vars
  <2>1. FilesStay /\ Typed' /\ (\A w \in Writer : Rotating(w))'
    BY <1>2 DEF vars, FilesStay, IInv, Typed, Rotating
  <2> QED BY <2>1, StayLemma
<1> QED BY <1>1, <1>2 DEF Next

LEMMA LogInvariant == ASSUME OneWriter PROVE Spec => []IInv
<1> QED BY InitHolds, StepHolds, PTL DEF Spec

(* With one writer each line names the line before it and the first line of *)
(* a file the genesis, in every file, wherever a process ends: between the  *)
(* tip that is read and the line that is written no other line comes, and a *)
(* rotation moves whole files.                                              *)
THEOREM ChainCorrect == ASSUME OneWriter PROVE Spec => []ChainHolds
<1>1. IInv => ChainHolds
  BY DEF IInv, ChainOf, ChainHolds
<1> QED BY <1>1, LogInvariant, PTL

(* With one writer nothing but the oldest lines is ever dropped, wherever a *)
(* rotation stops half-way: what the files keep is the records from some    *)
(* number on, without a gap.                                                *)
THEOREM KeptCorrect == ASSUME OneWriter PROVE Spec => []LatestAreKept
<1>1. IInv => LatestAreKept
  <2> SUFFICES ASSUME IInv, written > 0 PROVE \E r \in 1..written : Retained = r..written
    BY DEF LatestAreKept
  <2>1. PICK r \in 1..(written + 1) : KeptFrom(r) /\ r <= written
    BY DEF IInv
  <2>2. r \in 1..written /\ written \in Nat
    BY <2>1 DEF IInv, Typed
  <2>3. Retained = r..written
    <3>1. Retained \subseteq 1..written /\ \A a \in 1..written : a \in Retained <=> r <= a
      BY <2>1 DEF IInv, KeptFrom
    <3>2. \A a : a \in r..written <=> a \in 1..written /\ r <= a
      BY <2>2
    <3> QED BY <3>1, <3>2
  <2> QED BY <2>2, <2>3
<1> QED BY <1>1, LogInvariant, PTL

\* No step goes past the ends of processes that are modelled.
LEMMA CrashesBounded == Spec => [](crashes \in 0..MaxCrashes)
<1> USE AuditConstantsOK
<1>1. Init => crashes \in 0..MaxCrashes
  BY DEF Init
<1>2. crashes \in 0..MaxCrashes /\ [Next]_vars => (crashes \in 0..MaxCrashes)'
  <2> SUFFICES ASSUME crashes \in 0..MaxCrashes, [Next]_vars
               PROVE  crashes' \in 0..MaxCrashes
    OBVIOUS
  <2>1. CASE UNCHANGED vars
    BY <2>1 DEF vars
  <2>2. CASE Next
    <3>1. PICK w \in Writer : BeginAppend(w) \/ Unlink(w) \/ Rename(w) \/ ReadTip(w)
                             \/ WriteLine(w) \/ Crash(w)
      BY <2>2 DEF Next
    <3>2. CASE Crash(w)
      BY <3>2 DEF Crash
    <3>3. CASE ~Crash(w)
      <4>1. crashes' = crashes
        BY <3>1, <3>3 DEF BeginAppend, Unlink, Rename, ReadTip, WriteLine
      <4> QED BY <4>1
    <3> QED BY <3>2, <3>3
  <2> QED BY <2>1, <2>2
<1> QED BY <1>1, <1>2, PTL DEF Spec

(* With one writer a rotation never goes past the files there are, and every *)
(* line names a record or the genesis, wherever a process ends.              *)
THEOREM LogTyped == ASSUME OneWriter PROVE Spec => []TypeOK
<1>1. IInv /\ crashes \in 0..MaxCrashes => TypeOK
  BY DEF IInv, Typed, TypeOK, Points
<1> QED BY <1>1, LogInvariant, CrashesBounded, PTL

-----------------------------------------------------------------------------
(* How much is kept: as long as no process ends inside an append, every    *)
(* rotation moves a file of MaxLines lines, so the last line of a rotated  *)
(* file tells how many lines were written behind it.                       *)

Lines(n) == n * MaxLines

Rotates(w) == pc[w] \in {"unlink", "rename"}

\* What is above the file that a rotation has come to has been moved.
Spaced(w) ==
  IF Rotates(w)
  THEN /\ Len(file[Active]) = MaxLines
       /\ \A i \in 1..Keep : file[i] # <<>> =>
            Last(file[i]) + Lines(IF i <= index[w] + 1 THEN i ELSE i - 1) = written
  ELSE /\ Len(file[Active]) <= MaxLines
       /\ pc[w] # "idle" => Len(file[Active]) < MaxLines
       /\ \A i \in 1..Keep : file[i] # <<>> =>
            Last(file[i]) + Lines(i - 1) + Len(file[Active]) = written

LateKept == \A a \in 1..written : written < a + Lines(Keep) => a \in Retained

EInv == crashes = 0 => LateKept /\ \A w \in Writer : Spaced(w)

LEMMA LinesNext ==
  \A n \in Nat : Lines(n) \in Nat /\ Lines(n + 1) = Lines(n) + MaxLines /\ Lines(0) = 0
<1> TAKE n \in Nat
<1>1. MaxLines \in Nat
  BY AuditConstantsOK
<1> QED BY <1>1 DEF Lines

LEMMA LastTyped ==
  ASSUME Typed, NEW i \in 0..Keep, file[i] # <<>> PROVE Last(file[i]) \in Nat
<1>1. file[i] \in Seq(Record)
  BY DEF Typed
<1> QED BY <1>1, LastIsAnId

\* The last line of the active file is the newest.
LEMMA NewestInActive ==
  ASSUME IInv, file[Active] # <<>> PROVE Last(file[Active]) = written
<1> USE AuditConstantsOK
<1>1. Active \in 0..Keep /\ file[Active] \in Seq(Record) /\ written \in Nat
  BY DEF IInv, Typed, Active
<1>2. Last(file[Active]) \in IdsOf(file[Active]) /\ Last(file[Active]) \in Nat
  BY <1>1, LastIsAnId
<1>3. Last(file[Active]) \in 1..written
  BY <1>1, <1>2, InRetained DEF IInv
<1>4. written \in Retained
  <2>1. PICK r \in 1..(written + 1) : KeptFrom(r) /\ (written > 0 => r <= written)
    BY DEF IInv
  <2> QED BY <1>1, <1>3, <2>1 DEF KeptFrom
<1>5. PICK i \in 0..Keep : written \in IdsOf(file[i])
  BY <1>4, InRetained
<1>6. CASE i = Active
  BY <1>1, <1>2, <1>3, <1>5, <1>6 DEF IInv, Sorted
<1>7. CASE i # Active
  <2>1. Active < i
    BY <1>7 DEF Active
  <2>2. written < Last(file[Active])
    BY <1>1, <1>2, <1>5, <2>1 DEF IInv, Sorted
  <2> QED BY <1>1, <1>3, <2>2
<1> QED BY <1>6, <1>7

\* A file that is unlinked behind a full set of files of MaxLines lines has no
\* line that must be kept.
LEMMA UnlinkKeepsLate ==
  ASSUME IInv, LateKept, NEW g \in 1..Keep, file' = [file EXCEPT ![g] = <<>>],
         written' = written, g = Keep \/ file[g] = <<>>,
         file[g] # <<>> => Last(file[g]) + Lines(g) = written
  PROVE  LateKept'
<1> USE AuditConstantsOK
<1>1. /\ g \in 0..Keep /\ written \in Nat
      /\ file \in [0..Keep -> Seq(Record)]
  BY DEF IInv, Typed
<1>2. \A i \in 0..Keep : i # g => file'[i] = file[i]
  BY <1>1
<1>3. \A a : a \in Retained' <=> \E i \in 0..Keep : a \in IdsOf(file'[i])
  BY DEF Retained, IdsOf
<1>4. \A a \in Retained : a \in Retained' \/ a \in IdsOf(file[g])
  BY <1>2, <1>3, InRetained
<1>5. ASSUME NEW a \in IdsOf(file[g]) PROVE a + Lines(Keep) <= written
  <2>1. file[g] # <<>> /\ g = Keep
    BY <1>5, IdsEmpty
  <2>2. a <= Last(file[g]) /\ a \in Nat
    BY <1>1, <1>5, IdsTyped DEF IInv, Sorted
  <2>3. Last(file[g]) + Lines(Keep) = written
    BY <2>1
  <2>4. Last(file[g]) \in Nat /\ Lines(Keep) \in Nat
    BY <1>1, <2>1, LastTyped, LinesNext DEF IInv
  <2> QED BY <2>2, <2>3, <2>4
<1> SUFFICES ASSUME NEW a \in 1..written, written < a + Lines(Keep) PROVE a \in Retained'
  BY DEF LateKept
<1>6. a \in Retained
  BY DEF LateKept
<1>7. Lines(Keep) \in Nat
  BY LinesNext
<1> QED BY <1>1, <1>4, <1>5, <1>6, <1>7

LEMMA BeginSpaced ==
  ASSUME IInv, NEW w \in Writer, Spaced(w), BeginAppend(w) PROVE Spaced(w)'
<1> USE AuditConstantsOK
<1>1. /\ pc[w] = "idle" /\ file' = file /\ written' = written
      /\ Len(file[Active]) \in Nat /\ file[Active] \in Seq(Record) /\ written \in Nat
  BY DEF BeginAppend, IInv, Typed, Active
<1>2. /\ Len(file[Active]) <= MaxLines
      /\ \A i \in 1..Keep : file[i] # <<>> =>
           Last(file[i]) + Lines(i - 1) + Len(file[Active]) = written
  BY <1>1 DEF Spaced, Rotates
<1>3. CASE Len(file[Active]) < MaxLines
  <2>1. pc'[w] = "tip"
    BY <1>3 DEF BeginAppend, Goto, IInv, Typed
  <2> QED BY <1>1, <1>2, <1>3, <2>1 DEF Spaced, Rotates
<1>4. CASE ~(Len(file[Active]) < MaxLines)
  <2>1. pc'[w] = "unlink" /\ index'[w] = Keep - 1
    BY <1>4 DEF BeginAppend, Goto, IInv, Typed
  <2>2. Rotates(w)' /\ index'[w] + 1 = Keep
    BY <2>1 DEF Rotates
  <2>3. Len(file[Active]) = MaxLines
    BY <1>1, <1>2, <1>4
  <2>4. ASSUME NEW i \in 1..Keep, file[i] # <<>> PROVE Last(file[i]) + Lines(i) = written
    <3>1. Last(file[i]) + Lines(i - 1) + MaxLines = written
      BY <1>2, <2>3, <2>4
    <3>2. i - 1 \in Nat /\ (i - 1) + 1 = i /\ i \in 0..Keep
      OBVIOUS
    <3>3. Lines(i - 1) \in Nat /\ Lines(i) = Lines(i - 1) + MaxLines
      BY <3>2, LinesNext
    <3>4. Last(file[i]) \in Nat
      BY <2>4, <3>2, LastTyped DEF IInv
    <3> QED BY <3>1, <3>3, <3>4
  <2>5. \A i \in 1..Keep : i <= index'[w] + 1
    BY <2>2
  <2> QED BY <1>1, <2>2, <2>3, <2>4, <2>5 DEF Spaced
<1> QED BY <1>3, <1>4

LEMMA UnlinkSpaced ==
  ASSUME IInv, NEW w \in Writer, Spaced(w), Unlink(w) PROVE Spaced(w)'
<1> USE AuditConstantsOK
<1>1. /\ index[w] + 1 \in 1..Keep /\ Rotates(w) /\ Rotates(w)'
      /\ index' = index /\ written' = written
      /\ file' = [file EXCEPT ![index[w] + 1] = <<>>]
  BY DEF Unlink, Goto, IInv, Typed, Rotates
<1>2. /\ file'[Active] = file[Active]
      /\ \A i \in 1..Keep : file'[i] # <<>> => file'[i] = file[i]
  BY <1>1 DEF IInv, Typed, Active
<1> QED BY <1>1, <1>2 DEF Spaced

\* The file that moves up is as far from the newest line in its new place as
\* the numbering after the rotation says.
LEMMA RenameSpaced ==
  ASSUME IInv, NEW w \in Writer, Spaced(w), Rename(w) PROVE Spaced(w)'
<1> USE AuditConstantsOK
<1> DEFINE f == index[w]
<1>1. /\ f \in 0..(Keep - 1) /\ f \in 0..Keep /\ f + 1 \in 1..Keep /\ f # f + 1
      /\ Rotates(w) /\ file[f + 1] = <<>> /\ file[Active] # <<>>
      /\ Move(f, f + 1) /\ written' = written /\ written \in Nat
  <2>1. pc[w] = "rename" /\ Move(f, f + 1) /\ written' = written
    BY DEF Rename
  <2>2. f \in 0..(Keep - 1) /\ file[f + 1] = <<>> /\ file[Active] # <<>> /\ written \in Nat
    BY <2>1 DEF IInv, Typed, Rotating
  <2>3. Rotates(w)
    BY <2>1 DEF Rotates
  <2> HIDE DEF f
  <2> QED BY <2>1, <2>2, <2>3
<1>2. /\ file'[f] = <<>> /\ file'[f + 1] = file[f]
      /\ \A i \in 0..Keep : i # f /\ i # f + 1 => file'[i] = file[i]
  <2>1. CASE file[f] = <<>>
    BY <1>1, <2>1 DEF Move
  <2>2. CASE file[f] # <<>>
    <3>1. file' = [file EXCEPT ![f + 1] = file[f], ![f] = <<>>]
      BY <1>1, <2>2 DEF Move
    <3>2. f + 1 \in 0..Keep /\ file \in [0..Keep -> Seq(Record)]
      BY <1>1 DEF IInv, Typed
    <3> QED BY <1>1, <3>1, <3>2
  <2> QED BY <2>1, <2>2
<1>3. \/ f = 0 /\ pc'[w] = "tip"
      \/ f # 0 /\ pc'[w] = "unlink" /\ index'[w] = f - 1
  BY DEF Rename, Goto, IInv, Typed, Active
<1>4. /\ Len(file[Active]) = MaxLines
      /\ \A i \in 1..Keep : file[i] # <<>> =>
           Last(file[i]) + Lines(IF i <= f + 1 THEN i ELSE i - 1) = written
  BY <1>1 DEF Spaced
<1>5. Last(file[0]) = written
  BY <1>1, NewestInActive DEF Active
<1> HIDE DEF f
<1>6. ASSUME NEW i \in 1..Keep, file'[i] # <<>>
      PROVE  Last(file'[i]) + Lines(IF i <= f THEN i ELSE i - 1) = written
  <2>1. CASE i = f + 1
    <3>1. ~(i <= f) /\ i - 1 = f
      BY <1>1, <2>1
    <3>2. CASE f = 0
      BY <1>1, <1>2, <1>5, <2>1, <3>1, <3>2, LinesNext
    <3>3. CASE f # 0
      <4>1. Last(file[f]) + Lines(f) = written
        BY <1>1, <1>2, <1>4, <1>6, <2>1, <3>3
      <4> QED BY <1>2, <2>1, <3>1, <4>1
    <3> QED BY <3>2, <3>3
  <2>2. CASE i # f + 1
    <3>1. i # f /\ i \in 0..Keep /\ (i <= f + 1) = (i <= f)
      BY <1>1, <1>2, <1>6, <2>2
    <3>2. file'[i] = file[i]
      BY <1>2, <2>2, <3>1
    <3> QED BY <1>4, <1>6, <3>1, <3>2
  <2> QED BY <2>1, <2>2
<1>7. FilesGood'
  BY <1>1, MoveKeeps DEF IInv, FilesGood, Typed
<1>8. CASE f = 0
  <2>1. Len(file'[Active]) = 0 /\ ~Rotates(w)' /\ pc'[w] # "idle"
    BY <1>2, <1>3, <1>8 DEF Active, Rotates
  <2>2. ASSUME NEW i \in 1..Keep, file'[i] # <<>>
        PROVE  Last(file'[i]) + Lines(i - 1) + 0 = written
    <3>1. Last(file'[i]) + Lines(i - 1) = written
      BY <1>6, <1>8, <2>2
    <3>2. i \in 0..Keep /\ i - 1 \in Nat /\ file'[i] \in Seq(Record)
      BY <1>7 DEF FilesGood
    <3>3. Last(file'[i]) \in Nat /\ Lines(i - 1) \in Nat
      <4>1. Last(file'[i]) \in 1..MaxRecords
        BY <2>2, <3>2, LastIsAnId
      <4>2. Lines(i - 1) \in Nat
        BY <3>2, LinesNext
      <4> QED BY <4>1, <4>2
    <3> QED BY <3>1, <3>3
  <2> QED BY <1>1, <2>1, <2>2 DEF Spaced
<1>9. CASE f # 0
  <2>1. Rotates(w)' /\ index'[w] + 1 = f
    BY <1>1, <1>3, <1>9 DEF Rotates
  <2>2. file'[Active] = file[Active]
    BY <1>1, <1>2, <1>9 DEF Active
  <2> QED BY <1>1, <1>4, <1>6, <2>1, <2>2 DEF Spaced
<1> QED BY <1>8, <1>9

LEMMA WriteSpaced ==
  ASSUME IInv, NEW w \in Writer, Spaced(w), LateKept, WriteLine(w)
  PROVE  Spaced(w)' /\ LateKept'
<1> USE AuditConstantsOK
<1> DEFINE e == [id |-> written + 1, prev |-> tip[w]]
           old == file[Active]
<1>1. Active \in 0..Keep /\ old \in Seq(Record) /\ Len(old) \in Nat /\ written \in Nat
  BY DEF IInv, Typed, Active
<1>2. e \in Record /\ e.id = written + 1 /\ written' = written + 1 /\ pc'[w] = "idle"
  BY DEF IInv, Typed, WriteLine, Record, Goto
<1>3. /\ file'[Active] = Append(old, e)
      /\ \A i \in 1..Keep : file'[i] = file[i]
      /\ \A i \in 0..Keep : i # Active => file'[i] = file[i]
  BY <1>1, <1>2 DEF IInv, Typed, WriteLine, Active
<1>4. /\ Len(old) < MaxLines
      /\ \A i \in 1..Keep : file[i] # <<>> => Last(file[i]) + Lines(i - 1) + Len(old) = written
  BY DEF Spaced, Rotates, WriteLine
<1> HIDE DEF old, e
<1>5. Len(file'[Active]) = Len(old) + 1
  BY <1>1, <1>2, <1>3
<1>6. ASSUME NEW i \in 1..Keep, file'[i] # <<>>
      PROVE  Last(file'[i]) + Lines(i - 1) + Len(file'[Active]) = written'
  <2>1. Last(file[i]) + Lines(i - 1) + Len(old) = written /\ file'[i] = file[i]
    BY <1>3, <1>4, <1>6
  <2>2. i \in 0..Keep /\ i - 1 \in Nat
    OBVIOUS
  <2>3. Last(file[i]) \in Nat /\ Lines(i - 1) \in Nat
    BY <1>6, <2>1, <2>2, LastTyped, LinesNext DEF IInv
  <2>4. Len(old) \in Nat
    BY <1>1
  <2>5. Len(file'[Active]) = Len(old) + 1 /\ written' = written + 1
    BY <1>2, <1>5
  <2> HIDE DEF Lines, Last
  <2> QED BY <2>1, <2>3, <2>4, <2>5, SMTT(30)
<1>7. Spaced(w)'
  BY <1>1, <1>2, <1>4, <1>5, <1>6 DEF Spaced, Rotates
<1>8. \A a : a \in Retained' <=> \E i \in 0..Keep : a \in IdsOf(file'[i])
  BY DEF Retained, IdsOf
<1>9. IdsOf(file'[Active]) = IdsOf(old) \cup {written + 1}
  BY <1>1, <1>2, <1>3, IdsAppend
<1>10. written + 1 \in Retained' /\ Retained \subseteq Retained'
  BY <1>1, <1>3, <1>8, <1>9, InRetained DEF old
<1>11. LateKept'
  <2> SUFFICES ASSUME NEW a \in 1..written + 1, written + 1 < a + Lines(Keep)
               PROVE  a \in Retained'
    BY <1>2 DEF LateKept
  <2>1. Lines(Keep) \in Nat
    BY LinesNext
  <2>2. CASE a = written + 1
    BY <1>10, <2>2
  <2>3. CASE a # written + 1
    <3>1. a \in 1..written /\ written < a + Lines(Keep)
      BY <1>1, <2>1, <2>3
    <3> QED BY <1>10, <3>1 DEF LateKept
  <2> QED BY <2>2, <2>3
<1> QED BY <1>7, <1>11

LEMMA NextSpaced ==
  ASSUME OneWriter, IInv, EInv, [Next]_vars, crashes \in Nat PROVE EInv'
<1> USE AuditConstantsOK
<1> SUFFICES ASSUME crashes' = 0 PROVE LateKept' /\ \A w \in Writer : Spaced(w)'
  BY DEF EInv
<1>1. CASE UNCHANGED vars
  <2>1. crashes = 0
    BY <1>1 DEF vars
  <2> QED BY <1>1, <2>1 DEF vars, EInv, LateKept, Retained, Spaced, Rotates
<1>2. CASE Next
  <2>1. PICK w \in Writer : BeginAppend(w) \/ Unlink(w) \/ Rename(w) \/ ReadTip(w)
                           \/ WriteLine(w) \/ Crash(w)
    BY <1>2 DEF Next
  <2>2. ~Crash(w)
    BY DEF Crash
  <2>3. crashes = 0
    BY <2>1, <2>2 DEF BeginAppend, Unlink, Rename, ReadTip, WriteLine
  <2>4. LateKept /\ Spaced(w)
    BY <2>3 DEF EInv
  <2>5. ASSUME FilesStay PROVE LateKept'
    BY <2>4, <2>5 DEF FilesStay, LateKept, Retained
  <2>6. LateKept' /\ Spaced(w)'
    <3>1. CASE BeginAppend(w)
      BY <2>4, <2>5, <3>1, BeginSpaced DEF BeginAppend, FilesStay
    <3>2. CASE ReadTip(w)
      <4>1. FilesStay /\ pc[w] = "tip" /\ pc'[w] = "write"
        BY <3>2 DEF ReadTip, FilesStay, Goto, IInv, Typed
      <4>2. Spaced(w)'
        BY <2>4, <4>1 DEF Spaced, Rotates, FilesStay
      <4> QED BY <2>5, <4>1, <4>2
    <3>3. CASE WriteLine(w)
      BY <2>4, <3>3, WriteSpaced
    <3>4. CASE Unlink(w)
      <4> DEFINE g == index[w] + 1
      <4>1. /\ g \in 1..Keep
            /\ g = Keep \/ file[g] = <<>>
            /\ file' = [file EXCEPT ![g] = <<>>] /\ written' = written
            /\ Rotates(w) /\ g <= index[w] + 1
        BY <3>4 DEF Unlink, IInv, Typed, Rotating, Rotates
      <4>2. file[g] # <<>> => Last(file[g]) + Lines(g) = written
        BY <2>4, <4>1 DEF Spaced
      <4> HIDE DEF g
      <4>3. LateKept'
        BY <2>4, <4>1, <4>2, UnlinkKeepsLate
      <4> QED BY <2>4, <3>4, <4>3, UnlinkSpaced
    <3>5. CASE Rename(w)
      <4>1. /\ index[w] \in 0..(Keep - 1) /\ file[index[w] + 1] = <<>>
            /\ Move(index[w], index[w] + 1) /\ written' = written
        BY <3>5 DEF Rename, IInv, Typed, Rotating
      <4>2. Retained' = Retained
        BY <4>1, MoveKeeps DEF IInv, FilesGood, Typed
      <4>3. LateKept'
        BY <2>4, <4>1, <4>2 DEF LateKept
      <4> QED BY <2>4, <3>5, <4>3, RenameSpaced
    <3> QED BY <2>1, <2>2, <3>1, <3>2, <3>3, <3>4, <3>5
  <2> QED BY <2>6 DEF OneWriter
<1> QED BY <1>1, <1>2

(* With one writer whose process never ends inside an append, the log holds *)
(* at least the lines of a full set of rotated files, or all of them:       *)
(* nothing is dropped before every rotated file is full.                    *)
THEOREM EnoughCorrect == ASSUME OneWriter PROVE Spec => []EnoughIsKept
<1> USE AuditConstantsOK
<1>1. Init => EInv
  <2> SUFFICES ASSUME Init PROVE LateKept /\ \A w \in Writer : Spaced(w)
    BY DEF EInv
  <2>1. \A i \in 0..Keep : file[i] = <<>>
    BY DEF Init
  <2>2. file[Active] = <<>> /\ written = 0
    BY <2>1 DEF Init, Active
  <2> QED BY <2>1, <2>2 DEF Init, LateKept, Spaced, Rotates
<1>2. IInv /\ EInv /\ crashes \in 0..MaxCrashes /\ [Next]_vars => EInv'
  BY NextSpaced
<1>3. IInv /\ EInv => EnoughIsKept
  <2> SUFFICES ASSUME IInv, LateKept
               PROVE  Cardinality(Retained) >=
                        (IF written < Keep * MaxLines THEN written ELSE Keep * MaxLines)
    BY DEF EInv, EnoughIsKept
  <2> DEFINE most == Keep * MaxLines
             lo == IF written < most THEN 1 ELSE written + 1 - most
  <2>1. written \in Nat /\ most \in Nat /\ most = Lines(Keep)
    BY DEF IInv, Typed, Lines
  <2> HIDE DEF most
  <2>2. lo \in Nat /\ lo >= 1 /\ written + 1 - lo = (IF written < most THEN written ELSE most)
    BY <2>1
  <2>3. \A a \in lo..written : a \in 1..written /\ written < a + most
    BY <2>1
  <2>4. lo..written \subseteq Retained
    BY <2>1, <2>3 DEF LateKept
  <2>5. IsFiniteSet(1..written)
    BY <2>1, FS_Interval
  <2>6. IsFiniteSet(Retained)
    BY <2>5, FS_Subset DEF IInv
  <2>7. Cardinality(lo..written) <= Cardinality(Retained) /\ Cardinality(Retained) \in Nat
    BY <2>4, <2>6, FS_Subset, FS_CardinalityType
  <2> HIDE DEF lo
  <2>8. Cardinality(lo..written) = (IF lo > written THEN 0 ELSE written - lo + 1)
    <3>1. lo \in Int /\ written \in Int
      BY <2>1, <2>2
    <3> QED BY <3>1, FS_Interval
  <2>9. Cardinality(Retained) >= (IF written < most THEN written ELSE most)
    BY <2>1, <2>2, <2>7, <2>8
  <2> QED BY <2>9 DEF most
<1> QED BY <1>1, <1>2, <1>3, LogInvariant, CrashesBounded, PTL DEF Spec

=============================================================================
