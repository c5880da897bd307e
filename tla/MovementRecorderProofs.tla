----------------------- MODULE MovementRecorderProofs -----------------------
(***************************************************************************)
(* For any sessions, listings and ingests, and wherever processes end: the *)
(* history of the recorder stays within the slips and the crashes of what  *)
(* the snapshots have changed, below and above; slips have a cause; and so *)
(* has every listing that is reported as sold.                             *)
(*                                                                         *)
(* The first part balances the books of each session by itself, IInv.  The *)
(* other two bound sums over the sessions by a potential, PInv and SInv:   *)
(* what the recordings under way may still cost, which is less for one     *)
(* that records alone than for each of a crowd.                            *)
(***************************************************************************)
EXTENDS MovementRecorder, FiniteSetTheorems, WellFoundedInduction, TLAPS

Recording == {"append", "truncate", "write"}

\* The units that the recording under way has already appended.
Said(s, e) ==
  IF pc[s] \in {"truncate", "write"} \/ (pc[s] = "append" /\ e \notin pending[s])
  THEN UnitsOf(e, base[s], current[s]) ELSE 0

\* History and snapshots agree but for what is said and not yet due; a slip may
\* cost or repeat a movement, and the end of a process may repeat one.
Balanced(s, e) ==
  /\ history[s][e] + slips[s] * Most(e) >= due[s][e] + Said(s, e)
  /\ history[s][e] <= due[s][e] + Said(s, e) + (crashes[s] + slips[s]) * Most(e)

Kept(s) ==
  /\ pc[s] \in Recording => base[s] \in Inventory
  /\ pc[s] \notin Recording => base[s] = Torn
  /\ \A e \in Event : Balanced(s, e)

IInv == TypeOK /\ \A s \in Session : Kept(s)

-----------------------------------------------------------------------------
LEMMA MostInNat ==
  ASSUME NEW e \in Event
  PROVE  Most(e) \in Nat
BY RecorderConstantsOK DEF Most

\* The units of a movement are a number, and at most Most.
LEMMA UnitsBounded ==
  ASSUME NEW e \in Event, NEW from \in Inventory, NEW to \in Inventory
  PROVE  UnitsOf(e, from, to) \in Nat /\ UnitsOf(e, from, to) <= Most(e)
<1>1. PICK m \in Movement, l \in Listing : e = <<m, l>>
  BY DEF Event
<1>2. /\ from[l] \in Signal \cup {Absent} /\ to[l] \in Signal \cup {Absent}
      /\ e[1] = m /\ e[2] = l
  BY <1>1 DEF Inventory
<1>3. \A g \in Signal : g.sold \in 0..MaxSold
  BY DEF Signal
<1>4. MaxSold \in Nat
  BY RecorderConstantsOK
<1>5. /\ Units(m, from[l], to[l]) \in Nat
      /\ Units(m, from[l], to[l]) <= IF m = "sold_quantity_increased" THEN MaxSold ELSE 1
  BY <1>2, <1>3, <1>4, SMT DEF Units
<1> QED
  BY <1>2, <1>5 DEF UnitsOf, Most

\* An event that is not among the changes has no units.
LEMMA OtherUnits ==
  ASSUME NEW e \in Event, NEW from, NEW to, e \notin Changes(from, to)
  PROVE  UnitsOf(e, from, to) = 0
BY DEF Changes

LEMMA NowhereIsInventory == Nowhere \in Inventory
BY DEF Nowhere, Inventory

\* One more of n times m, which keeps the products out of the sums below.
LEMMA OneMore ==
  ASSUME NEW n \in Nat, NEW m \in Nat
  PROVE  n * m \in Nat /\ (n + 1) * m = n * m + m
OBVIOUS

\* The numbers of a session, and what it has said.
LEMMA Numbers ==
  ASSUME IInv, NEW s \in Session, NEW e \in Event
  PROVE  /\ history[s][e] \in Nat /\ due[s][e] \in Nat
         /\ slips[s] \in Nat /\ crashes[s] \in Nat
         /\ Most(e) \in Nat /\ slips[s] * Most(e) \in Nat
         /\ (crashes[s] + slips[s]) * Most(e) \in Nat
         /\ Said(s, e) \in Nat /\ Said(s, e) <= Most(e)
<1>1. /\ history[s][e] \in Nat /\ due[s][e] \in Nat
      /\ slips[s] \in Nat /\ crashes[s] \in Nat /\ current[s] \in Inventory
  BY RecorderConstantsOK DEF IInv, TypeOK
<1>2. Most(e) \in Nat
  BY MostInNat
<1>3. slips[s] * Most(e) \in Nat /\ (crashes[s] + slips[s]) * Most(e) \in Nat
  <2>1. crashes[s] + slips[s] \in Nat
    BY <1>1
  <2> QED
    BY <1>1, <1>2, <2>1, OneMore
<1>4. Said(s, e) \in Nat /\ Said(s, e) <= Most(e)
  <2>1. CASE pc[s] \in Recording
    <3>1. base[s] \in Inventory
      BY <2>1 DEF IInv, Kept
    <3> QED
      BY <1>1, <1>2, <3>1, UnitsBounded DEF Said
  <2>2. CASE pc[s] \notin Recording
    BY <1>2, <2>2 DEF Said, Recording
  <2> QED
    BY <2>1, <2>2
<1> QED
  BY <1>1, <1>2, <1>3, <1>4

-----------------------------------------------------------------------------
LEMMA InitIInv == Init => IInv
<1> SUFFICES ASSUME Init PROVE IInv
  OBVIOUS
<1>1. TypeOK
  BY RecorderConstantsOK, NowhereIsInventory DEF Init, TypeOK, NoUnits
<1>2. ASSUME NEW s \in Session PROVE Kept(s)
  <2>1. pc[s] = "idle" /\ base[s] = Torn /\ slips[s] = 0 /\ crashes[s] = 0
    BY DEF Init
  <2>2. ASSUME NEW e \in Event PROVE Balanced(s, e)
    <3>1. history[s][e] = 0 /\ due[s][e] = 0 /\ Said(s, e) = 0
      BY <2>1 DEF Init, NoUnits, Said
    <3>2. Most(e) \in Nat
      BY MostInNat
    <3> QED
      BY <2>1, <3>1, <3>2 DEF Balanced
  <2> QED
    BY <2>1, <2>2 DEF Kept, Recording
<1> QED
  BY <1>1, <1>2 DEF IInv

\* A session that takes no part in a step keeps its balance.
LEMMA KeptStill ==
  ASSUME NEW s \in Session, Kept(s),
         pc'[s] = pc[s], base'[s] = base[s], current'[s] = current[s],
         pending'[s] = pending[s], history'[s] = history[s], due'[s] = due[s],
         slips'[s] = slips[s], crashes'[s] = crashes[s]
  PROVE  Kept(s)'
<1>1. \A e \in Event : Said(s, e)' = Said(s, e) /\ Most(e)' = Most(e)
  BY DEF Said, UnitsOf, Units, Most
<1> QED
  BY <1>1 DEF Kept, Balanced

\* The step of one session is none of the others.
LEMMA OthersKept ==
  ASSUME IInv, NEW s \in Session, NEW t \in Session, t # s, Record(s)
  PROVE  Kept(t)'
<1>1. pc'[t] = pc[t]
  BY DEF IInv, TypeOK, Record, Ingest, Begin, AppendEvent, AppendSynced, Truncate, Write,
     Seed, Seeded, Crash, Step
<1>2. base'[t] = base[t] /\ current'[t] = current[t] /\ pending'[t] = pending[t]
  BY DEF IInv, TypeOK, Record, Ingest, Begin, AppendEvent, AppendSynced, Truncate, Write,
     Seed, Seeded, Crash, Forget, local
<1>3. history'[t] = history[t] /\ crashes'[t] = crashes[t]
  BY DEF IInv, TypeOK, Record, Ingest, Begin, AppendEvent, AppendSynced, Truncate, Write,
     Seed, Seeded, Crash, ghosts
<1>4. due'[t] = due[t] /\ slips'[t] = slips[t]
  BY DEF IInv, TypeOK, Record, Ingest, Begin, AppendEvent, AppendSynced, Truncate, Write,
     Seed, Seeded, Crash, WriteSnapshot, ghosts
<1>5. Kept(t)
  BY DEF IInv
<1> QED
  BY <1>1, <1>2, <1>3, <1>4, <1>5, KeptStill

-----------------------------------------------------------------------------
LEMMA TradeIInv == ASSUME IInv, Trade PROVE IInv'
<1>1. shop' \in Inventory /\ moves' \in 0..MaxMoves /\ left' \in [Listing -> Nat]
  BY RecorderConstantsOK DEF IInv, TypeOK, Trade
<1>2. TypeOK'
  BY <1>1 DEF IInv, TypeOK, Trade, files, local, ghosts, counts
<1>3. \A s \in Session : Kept(s)'
  BY KeptStill DEF IInv, Trade, files, local, ghosts, counts
<1> QED
  BY <1>2, <1>3 DEF IInv

LEMMA IngestIInv == ASSUME IInv, NEW s \in Session, Ingest(s) PROVE IInv'
<1>1. /\ pc[s] = "idle" /\ pc' = [pc EXCEPT ![s] = "loaded"]
      /\ ingests' \in 0..MaxIngests /\ gaps' \in 0..MaxGaps /\ overlaps' \in Nat
  BY RecorderConstantsOK DEF IInv, TypeOK, Ingest, Step
<1>2. PICK passed \in SUBSET Listing :
        current' = [current EXCEPT ![s] = [l \in Listing |->
                                             IF l \in passed THEN Absent ELSE shop[l]]]
  BY DEF Ingest
<1>3. current' \in [Session -> Inventory]
  <2>1. [l \in Listing |-> IF l \in passed THEN Absent ELSE shop[l]] \in Inventory
    BY DEF IInv, TypeOK, Inventory
  <2> QED
    BY <1>2, <2>1 DEF IInv, TypeOK
<1>4. TypeOK'
  BY <1>1, <1>3 DEF IInv, TypeOK, Ingest, files, ghosts, world
<1>5. Kept(s)'
  <2>1. pc'[s] = "loaded" /\ base'[s] = Torn
    BY <1>1 DEF IInv, TypeOK, Kept, Recording, Ingest
  <2>2. \A e \in Event : Said(s, e)' = 0 /\ Said(s, e) = 0 /\ Most(e)' = Most(e)
    BY <1>1, <2>1 DEF Said, Most
  <2> QED
    BY <2>1, <2>2 DEF IInv, Kept, Balanced, Recording, Ingest, ghosts
<1> QED
  BY <1>4, <1>5, OthersKept DEF IInv, Record

\* What is not among the changes has no units: nothing is said yet.
LEMMA BeginIInv == ASSUME IInv, NEW s \in Session, Begin(s) PROVE IInv'
<1>1. /\ pc[s] = "loaded"
      /\ pc' = [pc EXCEPT ![s] = IF snapshot = Torn THEN "seed" ELSE "append"]
      /\ base' = [base EXCEPT ![s] = snapshot]
  BY DEF Begin, Step
<1>2. snapshot # Torn => snapshot \in Inventory
  BY DEF IInv, TypeOK
<1>3. pending' \in [Session -> SUBSET Event]
  BY DEF IInv, TypeOK, Begin, Changes
<1>4. TypeOK'
  BY <1>1, <1>3 DEF IInv, TypeOK, Begin, files, ghosts, world, counts
<1>5. Kept(s)'
  <2>1. /\ pc'[s] = IF snapshot = Torn THEN "seed" ELSE "append"
        /\ base'[s] = snapshot /\ current'[s] = current[s]
        /\ snapshot # Torn => pending'[s] = Changes(snapshot, current[s])
    BY <1>1 DEF IInv, TypeOK, Begin
  <2>2. ASSUME NEW e \in Event PROVE Said(s, e)' = 0 /\ Said(s, e) = 0 /\ Most(e)' = Most(e)
    <3>1. e \notin Changes(snapshot, current[s]) => UnitsOf(e, snapshot, current[s]) = 0
      BY OtherUnits
    <3> QED
      BY <1>1, <2>1, <3>1 DEF Said, Most, UnitsOf, Units
  <2> QED
    BY <1>2, <2>1, <2>2 DEF IInv, Kept, Balanced, Recording, Begin, ghosts
<1> QED
  BY <1>4, <1>5, OthersKept DEF IInv, Record

\* An event that is appended is said from then on.
LEMMA AppendEventIInv == ASSUME IInv, NEW s \in Session, AppendEvent(s) PROVE IInv'
<1>1. PICK e \in pending[s] :
        /\ history' = [history EXCEPT ![s][e] = @ + UnitsOf(e, base[s], current[s])]
        /\ pending' = [pending EXCEPT ![s] = @ \ {e}]
  BY DEF AppendEvent
<1>2. /\ pc[s] = "append" /\ pc' = pc /\ e \in Event
      /\ base[s] \in Inventory /\ current[s] \in Inventory
      /\ history[s] \in [Event -> Nat] /\ pending[s] \in SUBSET Event
  BY <1>1 DEF AppendEvent, Step, IInv, TypeOK, Kept, Recording
<1>3. /\ history'[s] = [history[s] EXCEPT ![e] = @ + UnitsOf(e, base[s], current[s])]
      /\ pending'[s] = pending[s] \ {e}
  BY <1>1, <1>2 DEF IInv, TypeOK
<1>4. UnitsOf(e, base[s], current[s]) \in Nat
  BY <1>2, UnitsBounded
<1>5. history' \in [Session -> [Event -> Nat]] /\ pending' \in [Session -> SUBSET Event]
  <2>1. history'[s] \in [Event -> Nat]
    BY <1>2, <1>3, <1>4
  <2>2. history' = [history EXCEPT ![s] = history'[s]]
    BY <1>1, <1>3
  <2>3. pending'[s] \in SUBSET Event
    BY <1>2, <1>3
  <2> QED
    BY <1>1, <2>1, <2>2, <2>3 DEF IInv, TypeOK
<1>6. TypeOK'
  BY <1>2, <1>5 DEF IInv, TypeOK, AppendEvent, files, ghosts, world, counts
<1>7. ASSUME NEW f \in Event PROVE Balanced(s, f)'
  <2>1. /\ Said(s, f) = IF f \in pending[s] THEN 0 ELSE UnitsOf(f, base[s], current[s])
        /\ Said(s, f)' = IF f \in pending'[s] THEN 0 ELSE UnitsOf(f, base[s], current[s])
    BY <1>2 DEF Said, AppendEvent, UnitsOf, Units
  <2>2. history'[s][f] - history[s][f] = Said(s, f)' - Said(s, f)
    <3>1. CASE f = e
      BY <1>1, <1>2, <1>3, <1>4, <2>1, <3>1
    <3>2. CASE f # e
      <4>1. history'[s][f] = history[s][f] /\ Said(s, f)' = Said(s, f)
        BY <1>3, <2>1, <3>2, <1>2
      <4> QED
        BY <4>1, Numbers
    <3> QED
      BY <3>1, <3>2
  <2>3. Said(s, f) \in Nat /\ Said(s, f)' \in Nat /\ history'[s][f] \in Nat
    <3>1. UnitsOf(f, base[s], current[s]) \in Nat
      BY <1>2, UnitsBounded
    <3> QED
      BY <1>5, <2>1, <3>1
  <2>4. Balanced(s, f)
    BY DEF IInv, Kept
  <2>5. due' = due /\ slips' = slips /\ crashes' = crashes /\ Most(f)' = Most(f)
    BY DEF AppendEvent, ghosts, Most
  <2> QED
    BY <2>2, <2>3, <2>4, <2>5, Numbers DEF Balanced
<1>8. Kept(s)'
  BY <1>2, <1>7 DEF Kept, Recording, AppendEvent
<1> QED
  BY <1>6, <1>8, OthersKept DEF IInv, Record

\* With nothing pending, all is said, and neither the event of the ingest nor
\* the emptied file says more.
LEMMA AppendSyncedIInv == ASSUME IInv, NEW s \in Session, AppendSynced(s) PROVE IInv'
<1>1. pc[s] = "append" /\ pc' = [pc EXCEPT ![s] = "truncate"] /\ pending[s] = {}
  BY DEF AppendSynced, Step
<1>2. TypeOK'
  BY <1>1 DEF IInv, TypeOK, AppendSynced, files, local, ghosts, world, counts
<1>3. pc'[s] = "truncate"
  BY <1>1 DEF IInv, TypeOK
<1>4. \A e \in Event : Said(s, e)' = Said(s, e) /\ Most(e)' = Most(e)
  BY <1>1, <1>3 DEF AppendSynced, local, Said, UnitsOf, Units, Most
<1>5. Kept(s)'
  BY <1>1, <1>3, <1>4 DEF IInv, Kept, Balanced, Recording, AppendSynced, local, ghosts
<1> QED
  BY <1>2, <1>5, OthersKept DEF IInv, Record

LEMMA TruncateIInv == ASSUME IInv, NEW s \in Session, Truncate(s) PROVE IInv'
<1>1. \/ pc[s] = "truncate" /\ pc' = [pc EXCEPT ![s] = "write"]
      \/ pc[s] = "seed" /\ pc' = [pc EXCEPT ![s] = "seedwrite"]
  BY DEF Truncate, Step
<1>2. TypeOK'
  BY <1>1 DEF IInv, TypeOK, Truncate, local, ghosts, world, counts
<1>3. \/ pc[s] = "truncate" /\ pc'[s] = "write"
      \/ pc[s] = "seed" /\ pc'[s] = "seedwrite"
  BY <1>1 DEF IInv, TypeOK
<1>4. \A e \in Event : Said(s, e)' = Said(s, e) /\ Most(e)' = Most(e)
  BY <1>3 DEF Truncate, local, Said, UnitsOf, Units, Most
<1>5. Kept(s)'
  BY <1>3, <1>4 DEF IInv, Kept, Balanced, Recording, Truncate, local, ghosts
<1> QED
  BY <1>2, <1>5, OthersKept DEF IInv, Record

\* The snapshot that is written makes due what it changes of the latest one,
\* which is what the session has said unless it is a slip.
LEMMA SnapshotDue ==
  ASSUME IInv, NEW s \in Session, pc[s] \in {"write", "seedwrite"}, WriteSnapshot(s),
         NEW e \in Event
  PROVE  /\ due'[s][e] - due[s][e] \in Nat /\ due'[s][e] - due[s][e] <= Most(e)
         /\ due'[s][e] \in Nat
         /\ \/ slips'[s] = slips[s] /\ due'[s][e] - due[s][e] = Said(s, e)
            \/ slips'[s] = slips[s] + 1
<1>1. /\ due[s][e] \in Nat /\ current[s] \in Inventory /\ slips[s] \in Nat
      /\ due[s] \in [Event -> Nat]
  BY DEF IInv, TypeOK
<1>2. Most(e) \in Nat
  BY MostInNat
<1>3. CASE UNCHANGED <<last, due>> /\ slips' = [slips EXCEPT ![s] = @ + 1]
  <2>1. due'[s][e] = due[s][e] /\ slips'[s] = slips[s] + 1
    BY <1>3 DEF IInv, TypeOK
  <2> QED
    BY <1>1, <1>2, <2>1
<1>4. CASE /\ due' = IF last = Torn THEN due
                     ELSE [due EXCEPT ![s] = [f \in Event |-> @[f] + UnitsOf(f, last, SnapshotOf(s))]]
           /\ slips' = [slips EXCEPT ![s] = @ + IF base[s] = last THEN 0 ELSE 1]
  <2>1. slips'[s] = IF base[s] = last THEN slips[s] ELSE slips[s] + 1
    BY <1>1, <1>4 DEF IInv, TypeOK
  <2>2. CASE last = Torn
    <3>1. due'[s][e] = due[s][e]
      BY <1>4, <2>2
    <3>2. base[s] = last => Said(s, e) = 0
      <4>1. Torn \notin Inventory
        BY RecorderConstantsOK
      <4>2. pc[s] = "write" => base[s] \in Inventory
        BY DEF IInv, Kept, Recording
      <4> QED
        BY <2>2, <4>1, <4>2 DEF Said
    <3> QED
      BY <1>1, <1>2, <2>1, <3>1, <3>2
  <2>3. CASE last # Torn
    <3>1. last \in Inventory
      BY <2>3 DEF IInv, TypeOK
    <3>2. due'[s][e] = due[s][e] + UnitsOf(e, last, current[s])
      BY <1>4, <2>3 DEF IInv, TypeOK, SnapshotOf
    <3>3. UnitsOf(e, last, current[s]) \in Nat /\ UnitsOf(e, last, current[s]) <= Most(e)
      BY <1>1, <3>1, UnitsBounded
    <3>4. base[s] = last => Said(s, e) = UnitsOf(e, last, current[s])
      BY <2>3 DEF IInv, Kept, Recording, Said
    <3> QED
      BY <1>1, <1>2, <2>1, <3>2, <3>3, <3>4
  <2> QED
    BY <2>2, <2>3
<1> QED
  BY <1>3, <1>4 DEF WriteSnapshot

LEMMA SnapshotTyped ==
  ASSUME IInv, NEW s \in Session, WriteSnapshot(s)
  PROVE  /\ snapshot' \in Inventory \cup {Torn} /\ last' \in Inventory \cup {Torn}
         /\ slips' \in [Session -> Nat] /\ due' \in [Session -> [Event -> Nat]]
<1>1. current[s] \in Inventory /\ due[s] \in [Event -> Nat]
  BY DEF IInv, TypeOK
<1>2. last # Torn =>
        [f \in Event |-> due[s][f] + UnitsOf(f, last, current[s])] \in [Event -> Nat]
  <2> SUFFICES ASSUME last # Torn, NEW f \in Event
               PROVE  due[s][f] + UnitsOf(f, last, current[s]) \in Nat
    OBVIOUS
  <2>1. UnitsOf(f, last, current[s]) \in Nat
    BY <1>1, UnitsBounded DEF IInv, TypeOK
  <2> QED
    BY <1>1, <2>1
<1>3. due' \in [Session -> [Event -> Nat]]
  BY <1>2 DEF IInv, TypeOK, WriteSnapshot, SnapshotOf
<1>4. slips' \in [Session -> Nat]
  <2>1. slips[s] + 1 \in Nat /\ slips[s] + 0 \in Nat
    BY DEF IInv, TypeOK
  <2>2. \/ slips' = [slips EXCEPT ![s] = slips[s] + 1]
        \/ slips' = [slips EXCEPT ![s] = slips[s] + 0]
    BY DEF WriteSnapshot
  <2> QED
    BY <2>1, <2>2 DEF IInv, TypeOK
<1>5. snapshot' \in Inventory \cup {Torn} /\ last' \in Inventory \cup {Torn}
  BY <1>1 DEF IInv, TypeOK, WriteSnapshot, SnapshotOf
<1> QED
  BY <1>3, <1>4, <1>5

\* With the snapshot in place the session has nothing said that is not due.
LEMMA SnapshotBalanced ==
  ASSUME IInv, NEW s \in Session, pc[s] \in {"write", "seedwrite"}, WriteSnapshot(s),
         history' = history, crashes' = crashes, pc'[s] \notin Recording, NEW e \in Event
  PROVE  Balanced(s, e)'
<1> DEFINE M == Most(e)
           N == slips[s] * M
           K == (crashes[s] + slips[s]) * M
<1>1. /\ due'[s][e] - due[s][e] \in Nat /\ due'[s][e] - due[s][e] <= M /\ due'[s][e] \in Nat
      /\ \/ slips'[s] = slips[s] /\ due'[s][e] - due[s][e] = Said(s, e)
         \/ slips'[s] = slips[s] + 1
  BY SnapshotDue
<1>2. /\ history[s][e] \in Nat /\ due[s][e] \in Nat /\ M \in Nat /\ N \in Nat /\ K \in Nat
      /\ slips[s] \in Nat /\ crashes[s] \in Nat
      /\ Said(s, e) \in Nat /\ Said(s, e) <= M
  BY Numbers
<1>3. history[s][e] + N >= due[s][e] + Said(s, e) /\ history[s][e] <= due[s][e] + Said(s, e) + K
  BY DEF IInv, Kept, Balanced
<1>4. Said(s, e)' = 0 /\ Most(e)' = M
  BY DEF Said, Recording, Most
<1>5. (slips[s] + 1) * M = N + M
  BY <1>2, OneMore
<1>6. (crashes[s] + (slips[s] + 1)) * M = K + M
  <2>1. crashes[s] + slips[s] \in Nat /\ crashes[s] + (slips[s] + 1) = (crashes[s] + slips[s]) + 1
    BY <1>2
  <2> QED
    BY <1>2, <2>1, OneMore
<1>7. /\ history[s][e] + slips'[s] * M >= due'[s][e]
      /\ history[s][e] <= due'[s][e] + (crashes[s] + slips'[s]) * M
  <2>1. CASE slips'[s] = slips[s] /\ due'[s][e] - due[s][e] = Said(s, e)
    <3>1. slips'[s] * M = N /\ (crashes[s] + slips'[s]) * M = K
      BY <2>1
    <3> HIDE DEF M, N, K
    <3> QED
      BY <1>1, <1>2, <1>3, <2>1, <3>1
  <2>2. CASE slips'[s] = slips[s] + 1
    <3>1. slips'[s] * M = N + M /\ (crashes[s] + slips'[s]) * M = K + M
      BY <1>5, <1>6, <2>2
    <3> HIDE DEF M, N, K
    <3> QED
      BY <1>1, <1>2, <1>3, <3>1
  <2> QED
    BY <1>1, <2>1, <2>2
<1>8. history'[s][e] = history[s][e] /\ crashes'[s] = crashes[s]
  OBVIOUS
<1>9. due'[s][e] + 0 = due'[s][e]
  BY <1>1
<1> QED
  BY <1>4, <1>7, <1>8, <1>9 DEF Balanced

LEMMA ForgetTyped ==
  ASSUME IInv, NEW s \in Session, Forget(s)
  PROVE  /\ base' \in [Session -> Inventory \cup {Torn}] /\ current' \in [Session -> Inventory]
         /\ pending' \in [Session -> SUBSET Event] /\ base'[s] = Torn
BY NowhereIsInventory DEF IInv, TypeOK, Forget

LEMMA WriteIInv == ASSUME IInv, NEW s \in Session, Write(s) PROVE IInv'
<1>1. pc[s] = "write" /\ pc' = [pc EXCEPT ![s] = "idle"] /\ Forget(s) /\ WriteSnapshot(s)
  BY DEF Write, Step
<1>2. TypeOK'
  BY <1>1, SnapshotTyped, ForgetTyped DEF IInv, TypeOK, Write, world, counts
<1>3. pc'[s] = "idle"
  BY <1>1 DEF IInv, TypeOK
<1>4. \A e \in Event : Balanced(s, e)'
  BY <1>1, <1>3, SnapshotBalanced DEF Write, Recording
<1>5. Kept(s)'
  BY <1>1, <1>3, <1>4, ForgetTyped DEF Kept, Recording
<1> QED
  BY <1>2, <1>5, OthersKept DEF IInv, Record

LEMMA SeedIInv == ASSUME IInv, NEW s \in Session, Seed(s) PROVE IInv'
<1>1. pc[s] = "seedwrite" /\ pc' = [pc EXCEPT ![s] = "seeded"] /\ WriteSnapshot(s)
  BY DEF Seed, Step
<1>2. TypeOK'
  BY <1>1, SnapshotTyped DEF IInv, TypeOK, Seed, local, world, counts
<1>3. pc'[s] = "seeded" /\ base'[s] = Torn
  BY <1>1 DEF IInv, TypeOK, Seed, local, Kept, Recording
<1>4. \A e \in Event : Balanced(s, e)'
  BY <1>1, <1>3, SnapshotBalanced DEF Seed, Recording
<1>5. Kept(s)'
  BY <1>3, <1>4 DEF Kept, Recording
<1> QED
  BY <1>2, <1>5, OthersKept DEF IInv, Record

LEMMA SeededIInv == ASSUME IInv, NEW s \in Session, Seeded(s) PROVE IInv'
<1>1. pc[s] = "seeded" /\ pc' = [pc EXCEPT ![s] = "idle"] /\ Forget(s)
  BY DEF Seeded, Step
<1>2. TypeOK'
  BY <1>1, ForgetTyped DEF IInv, TypeOK, Seeded, files, ghosts, world, counts
<1>3. pc'[s] = "idle"
  BY <1>1 DEF IInv, TypeOK
<1>4. \A e \in Event : Said(s, e)' = Said(s, e) /\ Most(e)' = Most(e)
  BY <1>1, <1>3 DEF Said, Most
<1>5. Kept(s)'
  BY <1>1, <1>3, <1>4, ForgetTyped DEF IInv, Kept, Balanced, Recording, Seeded, ghosts
<1> QED
  BY <1>2, <1>5, OthersKept DEF IInv, Record

\* What a process had said when it ended may be said again, once.
LEMMA CrashIInv == ASSUME IInv, NEW s \in Session, Crash(s) PROVE IInv'
<1>1. /\ pc' = [pc EXCEPT ![s] = "idle"] /\ Forget(s)
      /\ crashes[s] < MaxCrashes /\ crashes' = [crashes EXCEPT ![s] = @ + 1]
  BY DEF Crash
<1>2. TypeOK'
  BY <1>1, RecorderConstantsOK, ForgetTyped DEF IInv, TypeOK, Crash, files, world, counts
<1>3. pc'[s] = "idle" /\ crashes'[s] = crashes[s] + 1
  BY <1>1 DEF IInv, TypeOK
<1>4. ASSUME NEW e \in Event PROVE Balanced(s, e)'
  <2> DEFINE M == Most(e)
             K == (crashes[s] + slips[s]) * M
  <2>1. /\ history[s][e] \in Nat /\ due[s][e] \in Nat /\ M \in Nat /\ K \in Nat
        /\ slips[s] * M \in Nat /\ slips[s] \in Nat /\ crashes[s] \in Nat
        /\ Said(s, e) \in Nat /\ Said(s, e) <= M
    BY Numbers
  <2>2. /\ history[s][e] + slips[s] * M >= due[s][e] + Said(s, e)
        /\ history[s][e] <= due[s][e] + Said(s, e) + K
    BY DEF IInv, Kept, Balanced
  <2>3. ((crashes[s] + 1) + slips[s]) * M = K + M
    <3>1. crashes[s] + slips[s] \in Nat /\ (crashes[s] + 1) + slips[s] = (crashes[s] + slips[s]) + 1
      BY <2>1
    <3> QED
      BY <2>1, <3>1, OneMore
  <2>4. Said(s, e)' = 0 /\ Most(e)' = M
    BY <1>3 DEF Said, Most
  <2>5. history[s][e] + slips[s] * M >= due[s][e] /\ history[s][e] <= due[s][e] + (K + M)
    <3> HIDE DEF M, K
    <3> QED
      BY <2>1, <2>2
  <2>6. history' = history /\ due' = due /\ slips' = slips
    BY DEF Crash
  <2>7. due[s][e] + 0 = due[s][e]
    BY <2>1
  <2> QED
    BY <1>3, <2>3, <2>4, <2>5, <2>6, <2>7 DEF Balanced
<1>5. Kept(s)'
  BY <1>1, <1>3, <1>4, ForgetTyped DEF Kept, Recording
<1> QED
  BY <1>2, <1>5, OthersKept DEF IInv, Record

LEMMA NextIInv == IInv /\ [Next]_vars => IInv'
<1> SUFFICES ASSUME IInv, [Next]_vars PROVE IInv'
  OBVIOUS
<1>1. CASE UNCHANGED vars
  <2>1. TypeOK'
    BY <1>1 DEF IInv, TypeOK, vars, files, local, ghosts, world, counts
  <2>2. \A s \in Session : Kept(s)'
    BY <1>1, KeptStill DEF IInv, vars, files, local, ghosts, world, counts
  <2> QED
    BY <2>1, <2>2 DEF IInv
<1>2. CASE Trade
  BY <1>2, TradeIInv
<1>3. ASSUME NEW s \in Session, Record(s) PROVE IInv'
  BY <1>3, IngestIInv, BeginIInv, AppendEventIInv, AppendSyncedIInv, TruncateIInv,
     WriteIInv, SeedIInv, SeededIInv, CrashIInv DEF Record
<1> QED
  BY <1>1, <1>2, <1>3 DEF Next

-----------------------------------------------------------------------------
\* The files and the local state of every session stay well typed, and no
\* movement of record_after_ingest has a negative number of units.
THEOREM RecorderTyped == Spec => []TypeOK
<1>1. IInv => TypeOK
  BY DEF IInv
<1> QED
  BY <1>1, InitIInv, NextIInv, PTL DEF Spec

\* record_after_ingest forgets no movement before it is in the history, for any
\* sessions, listings and ingests and wherever processes end: only a snapshot
\* that replaces one its session has not seen can hide a movement.
THEOREM MovementsReported == Spec => []NothingUnreported
<1>1. ASSUME IInv, NEW s \in Session, NEW e \in Event
      PROVE  history[s][e] + slips[s] * Most(e) >= due[s][e]
  <2>1. history[s][e] + slips[s] * Most(e) >= due[s][e] + Said(s, e)
    BY <1>1 DEF IInv, Kept, Balanced
  <2> QED
    BY <1>1, <2>1, Numbers
<1>2. IInv => NothingUnreported
  BY <1>1 DEF NothingUnreported
<1> QED
  BY <1>2, InitIInv, NextIInv, PTL DEF Spec

\* record_after_ingest repeats a movement at most once for each end of a process
\* and each slip of its session.
THEOREM MovementsNotRepeated == Spec => []NothingRepeated
<1>1. ASSUME IInv, NEW s \in Session, pc[s] = "idle", NEW e \in Event
      PROVE  history[s][e] <= due[s][e] + (crashes[s] + slips[s]) * Most(e)
  <2>1. Said(s, e) = 0
    BY <1>1 DEF Said
  <2>2. history[s][e] <= due[s][e] + Said(s, e) + (crashes[s] + slips[s]) * Most(e)
    BY <1>1 DEF IInv, Kept, Balanced
  <2>3. due[s][e] \in Nat
    BY <1>1, Numbers
  <2> QED
    BY <2>1, <2>2, <2>3
<1>2. IInv => NothingRepeated
  BY <1>1 DEF NothingRepeated
<1> QED
  BY <1>2, InitIInv, NextIInv, PTL DEF Spec
-----------------------------------------------------------------------------
(* Sums over the sessions. *)

\* A set of finite sets that is not empty has a member with no other inside.
LEMMA SmallestMember ==
  ASSUME NEW S, IsFiniteSet(S), NEW F \in SUBSET (SUBSET S), F # {}
  PROVE  \E U \in F : \A V \in F : V \subseteq U => V = U
<1> DEFINE R == StrictSubsetOrdering(S)
<1>1. IsWellFoundedOn(R, FiniteSubsetsOf(S))
  BY FS_StrictSubsetOrderingWellFounded
<1>2. FiniteSubsetsOf(S) = SUBSET S
  BY FS_FiniteSubsetsOfFinite
<1> HIDE DEF R
<1>3. PICK U \in F : \A V \in F : ~(<<V, U>> \in R)
  BY <1>1, <1>2, WFMin
<1>4. ASSUME NEW V \in F, V \subseteq U PROVE V = U
  <2>1. V # U => <<V, U>> \in R
    BY <1>4 DEF R, StrictSubsetOrdering
  <2> QED BY <1>3, <2>1
<1> QED BY <1>4

\* The sum as it is computed: one session after the other, from none on.
Body(f, g, U) == IF U = {} THEN 0 ELSE LET x == CHOOSE x \in U : TRUE IN f[x] + g[U \ {x}]
Sums(f, g) == g = [U \in SUBSET Session |-> Body(f, g, U)]

\* One pair for each unit that a session of U counts.
Pairs(f, U) == {p \in U \X Nat : p[2] < f[p[1]]}

LEMMA TotalIsSum == ASSUME NEW f PROVE Total(f) = (CHOOSE g : Sums(f, g))[Session]
BY DEF Total, MapThenSumSet, MapThenFoldSet, Sums, Body

LEMMA OneSession ==
  ASSUME NEW f \in [Session -> Nat], NEW x \in Session
  PROVE  IsFiniteSet(Pairs(f, {x})) /\ Cardinality(Pairs(f, {x})) = f[x]
<1> DEFINE n == f[x]
<1>1. n \in Nat
  OBVIOUS
<1>2. IsFiniteSet(0..(n - 1)) /\ Cardinality(0..(n - 1)) = n
  <2>1. 0 \in Int /\ n - 1 \in Int
    BY <1>1
  <2> QED BY <1>1, <2>1, FS_Interval
<1>3. Pairs(f, {x}) = {x} \X (0..(n - 1))
  <2>1. \A p : p \in Pairs(f, {x}) <=> p \in {x} \X (0..(n - 1))
    BY <1>1 DEF Pairs
  <2> QED BY <2>1
<1>4. IsFiniteSet({x}) /\ Cardinality({x}) = 1
  BY FS_Singleton
<1> DEFINE I == 0..(n - 1)
<1> HIDE DEF n, I
<1>5. IsFiniteSet({x} \X I) /\ Cardinality({x} \X I) = Cardinality({x}) * Cardinality(I)
  BY <1>2, <1>4, FS_Product DEF I
<1>6. Cardinality({x}) * Cardinality(I) = n
  BY <1>1, <1>2, <1>4 DEF I
<1>7. IsFiniteSet(Pairs(f, {x})) /\ Cardinality(Pairs(f, {x})) = n
  BY <1>3, <1>5, <1>6 DEF I
<1> QED BY <1>7 DEF n

LEMMA PairsFinite ==
  ASSUME NEW f \in [Session -> Nat], NEW U \in SUBSET Session
  PROVE  IsFiniteSet(Pairs(f, U)) /\ Cardinality(Pairs(f, U)) \in Nat
<1> DEFINE h == [x \in U |-> Pairs(f, {x})]
           T == {Pairs(f, {x}) : x \in U}
<1>1. h \in Surjection(U, T)
  BY DEF Surjection
<1>2. IsFiniteSet(U)
  BY RecorderConstantsOK, FS_Subset
<1>3. IsFiniteSet(T)
  BY <1>1, <1>2, FS_Surjection
<1>4. IsFiniteSet(UNION T)
  <2>1. \A V \in T : IsFiniteSet(V)
    BY OneSession
  <2> QED BY <1>3, <2>1, FS_UNION
<1>5. Pairs(f, U) = UNION T
  BY DEF Pairs
<1> QED BY <1>4, <1>5, FS_CardinalityType

LEMMA OneSessionMore ==
  ASSUME NEW f \in [Session -> Nat], NEW U \in SUBSET Session, NEW x \in U
  PROVE  Cardinality(Pairs(f, U)) = f[x] + Cardinality(Pairs(f, U \ {x}))
<1> DEFINE A == Pairs(f, {x})
           B == Pairs(f, U \ {x})
<1>1. IsFiniteSet(A) /\ Cardinality(A) = f[x] /\ f[x] \in Nat
  BY OneSession
<1>2. IsFiniteSet(B) /\ Cardinality(B) \in Nat
  BY PairsFinite
<1>3. Pairs(f, U) = A \cup B /\ A \cap B = {}
  BY DEF Pairs
<1> HIDE DEF A, B
<1>4. Cardinality(A \cup B) = Cardinality(A) + Cardinality(B) - Cardinality({})
  BY <1>1, <1>2, <1>3, FS_Union
<1> QED BY <1>1, <1>2, <1>3, <1>4, FS_EmptySet DEF B

\* A sum is the number of the pairs: both count what one session adds.
LEMMA TotalCounts ==
  ASSUME NEW f \in [Session -> Nat]
  PROVE  Total(f) = Cardinality(Pairs(f, Session))
<1> DEFINE N == [U \in SUBSET Session |-> Cardinality(Pairs(f, U))]
           g == CHOOSE h : Sums(f, h)
<1>1. Sums(f, N)
  <2>1. ASSUME NEW U \in SUBSET Session PROVE N[U] = Body(f, N, U)
    <3>1. CASE U = {}
      <4>1. Pairs(f, {}) = {}
        BY DEF Pairs
      <4> QED BY <3>1, <4>1, FS_EmptySet DEF Body
    <3>2. CASE U # {}
      <4> DEFINE x == CHOOSE x \in U : TRUE
      <4>1. x \in U
        BY <3>2
      <4> HIDE DEF x
      <4>2. N[U] = f[x] + N[U \ {x}]
        BY <4>1, OneSessionMore
      <4> QED BY <3>2, <4>2 DEF Body, x
    <3> QED BY <3>1, <3>2
  <2> HIDE DEF N
  <2>2. N = [U \in SUBSET Session |-> N[U]]
    BY DEF N
  <2> QED BY <2>1, <2>2 DEF Sums
<1>2. Sums(f, g)
  <2> HIDE DEF N
  <2> QED BY <1>1
<1> HIDE DEF g
<1>3. \A U \in SUBSET Session : g[U] = Body(f, g, U)
  BY <1>2 DEF Sums
<1>4. ASSUME NEW U \in SUBSET Session, g[U] # N[U] PROVE FALSE
  <2> DEFINE Bad == {V \in SUBSET Session : g[V] # N[V]}
  <2>1. Bad \in SUBSET (SUBSET Session) /\ Bad # {}
    BY <1>4
  <2>2. PICK V \in Bad : \A W \in Bad : W \subseteq V => W = V
    <3> HIDE DEF Bad
    <3> QED BY <2>1, RecorderConstantsOK, SmallestMember
  <2>3. N[V] = Body(f, N, V) /\ g[V] = Body(f, g, V)
    BY <1>1, <1>3 DEF Sums
  <2>4. V # {}
    BY <2>3 DEF Body
  <2> DEFINE x == CHOOSE x \in V : TRUE
  <2>5. x \in V
    BY <2>4
  <2> HIDE DEF x
  <2>6. V \ {x} \notin Bad /\ V \ {x} \in SUBSET Session
    BY <2>2, <2>5
  <2>7. g[V \ {x}] = N[V \ {x}]
    BY <2>6
  <2>8. Body(f, g, V) = Body(f, N, V)
    BY <2>4, <2>7 DEF Body, x
  <2> QED BY <2>3, <2>8
<1>5. g[Session] = N[Session]
  BY <1>4
<1> QED BY <1>5, TotalIsSum DEF g

\* What becomes of a sum when one session counts n more.
LEMMA TotalOfMore ==
  ASSUME NEW f \in [Session -> Nat], NEW g \in [Session -> Nat], NEW s \in Session, NEW n \in Nat,
         g[s] = f[s] + n, \A t \in Session \ {s} : g[t] = f[t]
  PROVE  Total(f) \in Nat /\ Total(g) = Total(f) + n
<1> DEFINE rest == Session \ {s}
<1>1. Pairs(g, rest) = Pairs(f, rest)
  BY DEF Pairs
<1>2. /\ Cardinality(Pairs(f, Session)) = f[s] + Cardinality(Pairs(f, rest))
      /\ Cardinality(Pairs(g, Session)) = g[s] + Cardinality(Pairs(g, rest))
  BY OneSessionMore
<1>3. Cardinality(Pairs(f, rest)) \in Nat /\ f[s] \in Nat
  BY PairsFinite
<1> QED BY <1>1, <1>2, <1>3, TotalCounts

LEMMA TotalOfNone == Total([s \in Session |-> 0]) = 0
<1> DEFINE f == [s \in Session |-> 0]
<1>1. f \in [Session -> Nat] /\ Pairs(f, Session) = {}
  BY DEF Pairs
<1> HIDE DEF f
<1> QED BY <1>1, TotalCounts, FS_EmptySet DEF f
-----------------------------------------------------------------------------
(* What recordings may still cost.  A session at work costs a slip at most,  *)
(* and what they leave behind one more, the cold start.  A session that      *)
(* records alone, on a file that is the latest snapshot, costs less: it sees *)
(* what it replaces.  The second recording of two at once turns the one      *)
(* bound into the other, which is what the three slips of an overlap pay.    *)

Unwritten == {"loaded", "append", "truncate", "write", "seed", "seedwrite"}
Working == {s \in Session : pc[s] \in Unwritten}

\* The snapshot file is the latest snapshot, or it has none to show.
FileAgrees == snapshot \in {Torn, last}

\* What a session that records alone knows of the file.
Coherent(s) ==
  /\ pc[s] \in {"append", "truncate"} => base[s] = last /\ snapshot = last /\ last # Torn
  /\ pc[s] = "write" => base[s] = last /\ snapshot = Torn
  /\ pc[s] \in {"seed", "seedwrite"} => snapshot = Torn

Solo(s) == Working = {s} /\ Coherent(s)

\* A snapshot was lost: the next recording starts cold.
Damage == IF snapshot = Torn /\ last # Torn THEN 1 ELSE 0
SlipsToCome(s) == IF pc[s] = "write" THEN 0 ELSE Damage

\* Sums of the slips, and of what pays for them.
Costs == Total(crashes) + 3 * overlaps

SlipsPaid ==
  \/ Total(slips) + Cardinality(Working) + 1 <= Costs
  \/ Working = {} /\ Total(slips) + Damage <= Costs
  \/ \E s \in Session : Solo(s) /\ Total(slips) + SlipsToCome(s) <= Costs

PInv == IInv /\ FileAgrees /\ SlipsPaid

LEMMA WorkingFinite ==
  /\ IsFiniteSet(Working) /\ Cardinality(Working) \in Nat
  /\ \A s \in Session :
       /\ s \notin Working => Cardinality(Working \cup {s}) = Cardinality(Working) + 1
       /\ s \in Working => Cardinality(Working \ {s}) = Cardinality(Working) - 1
<1>1. Working \in SUBSET Session
  BY DEF Working
<1>2. IsFiniteSet(Working)
  BY <1>1, RecorderConstantsOK, FS_Subset
<1> QED BY <1>2, FS_AddElement, FS_RemoveElement, FS_CardinalityType

LEMMA TotalInNat == ASSUME NEW f \in [Session -> Nat] PROVE Total(f) \in Nat
BY TotalCounts, PairsFinite

LEMMA CostsInNat ==
  ASSUME IInv PROVE Total(slips) \in Nat /\ Total(crashes) \in Nat /\ overlaps \in Nat
<1>1. slips \in [Session -> Nat] /\ crashes \in [Session -> Nat] /\ overlaps \in Nat
  BY RecorderConstantsOK DEF IInv, TypeOK
<1> QED BY <1>1, TotalInNat

\* Who is at work after a step of s.
LEMMA WorkingAfter ==
  ASSUME IInv, NEW s \in Session, NEW to, pc' = [pc EXCEPT ![s] = to]
  PROVE  /\ pc'[s] = to /\ \A t \in Session \ {s} : pc'[t] = pc[t]
         /\ to \in Unwritten => Working' = Working \cup {s}
         /\ to \notin Unwritten => Working' = Working \ {s}
BY DEF IInv, TypeOK, Working

-----------------------------------------------------------------------------
(* Slips: what each kind of step leaves of the bound.                      *)

LEMMA SlipsStay ==
  ASSUME SlipsPaid, pc' = pc, base' = base, snapshot' = snapshot, last' = last,
         slips' = slips, crashes' = crashes, overlaps' = overlaps
  PROVE  SlipsPaid'
<1>1. Working' = Working /\ Damage' = Damage /\ Costs' = Costs
  BY DEF Working, Damage, Costs
<1>2. \A s \in Session : (Solo(s)' <=> Solo(s)) /\ SlipsToCome(s)' = SlipsToCome(s)
  BY <1>1 DEF Solo, Coherent, SlipsToCome
<1> QED BY <1>1, <1>2 DEF SlipsPaid

\* A session at work goes on.
LEMMA SlipsGoOn ==
  ASSUME IInv, SlipsPaid, NEW s \in Session, pc[s] \in Unwritten, NEW to \in Unwritten,
         pc' = [pc EXCEPT ![s] = to],
         slips' = slips, crashes' = crashes, overlaps' = overlaps,
         Coherent(s) => Coherent(s)' /\ SlipsToCome(s)' <= SlipsToCome(s)
  PROVE  SlipsPaid'
<1>1. Working' = Working
  BY WorkingAfter DEF Working
<1>2. Costs' = Costs
  BY DEF Costs
<1>3. CASE Total(slips) + Cardinality(Working) + 1 <= Costs
  BY <1>1, <1>2, <1>3 DEF SlipsPaid
<1>4. CASE Working = {} /\ Total(slips) + Damage <= Costs
  BY <1>4 DEF Working
<1>5. ASSUME NEW u \in Session, Solo(u), Total(slips) + SlipsToCome(u) <= Costs
      PROVE  SlipsPaid'
  <2>1. u = s
    BY <1>5 DEF Solo, Working
  <2>2. Solo(s)' /\ SlipsToCome(s)' <= SlipsToCome(s)
    BY <1>1, <1>5, <2>1 DEF Solo
  <2>3. Total(slips) \in Nat /\ SlipsToCome(s) \in Nat /\ SlipsToCome(s)' \in Nat /\ Costs \in Nat
    BY CostsInNat DEF SlipsToCome, Damage, Costs
  <2>4. Total(slips)' + SlipsToCome(s)' <= Costs'
    BY <1>2, <1>5, <2>1, <2>2, <2>3
  <2> QED BY <2>2, <2>4 DEF SlipsPaid
<1> QED BY <1>3, <1>4, <1>5 DEF SlipsPaid

\* A session ends its work, with a slip or by the end of its process.
LEMMA SlipsEnd ==
  ASSUME IInv, SlipsPaid, NEW s \in Session, pc[s] \in Unwritten, NEW to, to \notin Unwritten,
         pc' = [pc EXCEPT ![s] = to], overlaps' = overlaps,
         NEW n \in 0..1, Total(slips') = Total(slips) + n,
         NEW k \in 0..1, Total(crashes') = Total(crashes) + k,
         Coherent(s) => n + Damage' <= SlipsToCome(s) + k
  PROVE  SlipsPaid'
<1>1. s \in Working /\ Working' = Working \ {s}
  BY WorkingAfter DEF Working
<1>2. Cardinality(Working') = Cardinality(Working) - 1 /\ Cardinality(Working) \in Nat
  BY <1>1, WorkingFinite
<1>3. /\ Total(slips) \in Nat /\ Costs \in Nat /\ Costs' = Costs + k
      /\ SlipsToCome(s) \in 0..1 /\ Damage' \in 0..1
  BY CostsInNat DEF Costs, SlipsToCome, Damage
<1>4. CASE Total(slips) + Cardinality(Working) + 1 <= Costs
  <2>1. Total(slips') + Cardinality(Working') + 1 <= Costs'
    BY <1>2, <1>3, <1>4
  <2> QED BY <2>1 DEF SlipsPaid
<1>5. CASE Working = {} /\ Total(slips) + Damage <= Costs
  BY <1>1, <1>5
<1>6. ASSUME NEW u \in Session, Solo(u), Total(slips) + SlipsToCome(u) <= Costs
      PROVE  SlipsPaid'
  <2>1. u = s /\ Working' = {}
    BY <1>1, <1>6 DEF Solo
  <2>2. n + Damage' <= SlipsToCome(s) + k
    BY <1>6, <2>1 DEF Solo
  <2>3. Total(slips') + Damage' <= Costs'
    BY <1>3, <1>6, <2>1, <2>2
  <2> QED BY <2>1, <2>3 DEF SlipsPaid
<1> QED BY <1>4, <1>5, <1>6 DEF SlipsPaid

\* A session that has written, or the end of its process, changes no file.
LEMMA SlipsElsewhere ==
  ASSUME IInv, SlipsPaid, NEW s \in Session, pc[s] \notin Unwritten, NEW to, to \notin Unwritten,
         pc' = [pc EXCEPT ![s] = to], \A t \in Session \ {s} : base'[t] = base[t],
         snapshot' = snapshot, last' = last, slips' = slips, overlaps' = overlaps,
         NEW k \in 0..1, Total(crashes') = Total(crashes) + k
  PROVE  SlipsPaid'
<1>1. Working' = Working /\ \A t \in Session \ {s} : pc'[t] = pc[t]
  BY WorkingAfter DEF Working
<1>2. /\ Total(slips) \in Nat /\ Costs \in Nat /\ Costs' = Costs + k
      /\ Cardinality(Working) \in Nat /\ Damage' = Damage /\ Damage \in 0..1
  BY CostsInNat, WorkingFinite DEF Costs, Damage
<1>3. CASE Total(slips) + Cardinality(Working) + 1 <= Costs
  <2>1. Total(slips)' + Cardinality(Working') + 1 <= Costs'
    BY <1>1, <1>2, <1>3
  <2> QED BY <2>1 DEF SlipsPaid
<1>4. CASE Working = {} /\ Total(slips) + Damage <= Costs
  <2>1. Working' = {} /\ Total(slips)' + Damage' <= Costs'
    BY <1>1, <1>2, <1>4
  <2> QED BY <2>1 DEF SlipsPaid
<1>5. ASSUME NEW u \in Session, Solo(u), Total(slips) + SlipsToCome(u) <= Costs
      PROVE  SlipsPaid'
  <2>1. u # s /\ pc'[u] = pc[u] /\ base'[u] = base[u]
    BY <1>1, <1>5 DEF Solo, Working
  <2>2. Solo(u)'
    BY <1>1, <1>5, <2>1 DEF Solo, Coherent
  <2>3. SlipsToCome(u)' = SlipsToCome(u) /\ SlipsToCome(u) \in 0..1
    BY <1>2, <2>1 DEF SlipsToCome
  <2>4. Total(slips)' + SlipsToCome(u)' <= Costs'
    BY <1>2, <1>5, <2>3
  <2> QED BY <2>2, <2>4 DEF SlipsPaid
<1> QED BY <1>3, <1>4, <1>5 DEF SlipsPaid

\* A session begins: alone, it sees what there is; otherwise the overlap pays.
LEMMA SlipsIngest ==
  ASSUME IInv, SlipsPaid, NEW s \in Session, Ingest(s)
  PROVE  SlipsPaid'
<1>1. /\ pc[s] = "idle" /\ pc' = [pc EXCEPT ![s] = "loaded"]
      /\ slips' = slips /\ crashes' = crashes /\ snapshot' = snapshot /\ last' = last
      /\ overlaps' = overlaps + IF \E t \in Session \ {s} : pc[t] # "idle" THEN 1 ELSE 0
  BY DEF Ingest, Step, ghosts, files
<1>2. s \notin Working /\ Working' = Working \cup {s} /\ pc'[s] = "loaded"
  BY <1>1, WorkingAfter DEF Working, Unwritten
<1>3. Cardinality(Working') = Cardinality(Working) + 1 /\ Cardinality(Working) \in Nat
  BY <1>2, WorkingFinite
<1>4. /\ Total(slips) \in Nat /\ Total(crashes) \in Nat /\ overlaps \in Nat
      /\ Damage' = Damage /\ Damage \in 0..1 /\ \A u \in Session : SlipsToCome(u) \in 0..1
  BY <1>1, CostsInNat DEF SlipsToCome, Damage
<1>5. CASE \E t \in Session \ {s} : pc[t] # "idle"
  <2>1. Costs' = Costs + 3 /\ Costs \in Nat
    BY <1>1, <1>4, <1>5 DEF Costs
  <2>2. Total(slips) + Cardinality(Working) <= Costs + 1
    <3>1. CASE Total(slips) + Cardinality(Working) + 1 <= Costs
      BY <1>3, <1>4, <2>1, <3>1
    <3>2. CASE Working = {} /\ Total(slips) + Damage <= Costs
      BY <1>4, <2>1, <3>2, FS_EmptySet
    <3>3. ASSUME NEW u \in Session, Solo(u), Total(slips) + SlipsToCome(u) <= Costs
          PROVE  Total(slips) + Cardinality(Working) <= Costs + 1
      <4>1. Cardinality(Working) = 1
        BY <3>3, FS_Singleton DEF Solo
      <4> QED BY <1>4, <2>1, <3>3, <4>1
    <3> QED BY <3>1, <3>2, <3>3 DEF SlipsPaid
  <2>3. Total(slips)' + Cardinality(Working') + 1 <= Costs'
    BY <1>1, <1>3, <1>4, <2>1, <2>2
  <2> QED BY <2>3 DEF SlipsPaid
<1>6. CASE \A t \in Session \ {s} : pc[t] = "idle"
  <2>1. Working = {} /\ Working' = {s}
    BY <1>1, <1>2, <1>6 DEF Working, Unwritten
  <2>2. Solo(s)' /\ SlipsToCome(s)' = Damage
    BY <1>2, <1>4, <2>1 DEF Solo, Coherent, SlipsToCome
  <2>3. Costs' = Costs /\ Costs \in Nat
    BY <1>1, <1>4, <1>6 DEF Costs
  <2>4. Total(slips) + Damage <= Costs
    <3>1. CASE Total(slips) + Cardinality(Working) + 1 <= Costs
      BY <1>4, <2>1, <2>3, <3>1, FS_EmptySet
    <3>2. ~ \E u \in Session : Solo(u)
      BY <2>1 DEF Solo
    <3> QED BY <3>1, <3>2 DEF SlipsPaid
  <2> QED BY <1>1, <2>2, <2>3, <2>4 DEF SlipsPaid
<1> QED BY <1>5, <1>6

LEMMA SlipsBegin == ASSUME PInv, NEW s \in Session, Begin(s) PROVE SlipsPaid'
<1> DEFINE to == IF snapshot = Torn THEN "seed" ELSE "append"
<1>1. /\ pc[s] \in Unwritten /\ pc[s] = "loaded" /\ to \in Unwritten /\ pc' = [pc EXCEPT ![s] = to]
      /\ slips' = slips /\ crashes' = crashes /\ overlaps' = overlaps
      /\ snapshot' = snapshot /\ last' = last /\ base' = [base EXCEPT ![s] = snapshot]
  BY DEF Begin, Step, Unwritten, ghosts, counts, files
<1>2. pc'[s] = to /\ base'[s] = snapshot
  BY <1>1 DEF PInv, IInv, TypeOK
<1>3. Coherent(s)' /\ SlipsToCome(s)' = SlipsToCome(s) /\ SlipsToCome(s) \in 0..1
  BY <1>1, <1>2 DEF PInv, FileAgrees, Coherent, SlipsToCome, Damage
<1>4. Coherent(s) => Coherent(s)' /\ SlipsToCome(s)' <= SlipsToCome(s)
  BY <1>3
<1> HIDE DEF to
<1> QED BY <1>1, <1>4, SlipsGoOn DEF PInv

LEMMA SlipsAppendEvent == ASSUME PInv, NEW s \in Session, AppendEvent(s) PROVE SlipsPaid'
<1>1. /\ pc' = pc /\ base' = base /\ snapshot' = snapshot /\ last' = last
      /\ slips' = slips /\ crashes' = crashes /\ overlaps' = overlaps
  BY DEF AppendEvent, Step, PInv, IInv, TypeOK, ghosts, counts, files
<1> QED BY <1>1, SlipsStay DEF PInv

LEMMA SlipsAppendSynced == ASSUME PInv, NEW s \in Session, AppendSynced(s) PROVE SlipsPaid'
<1>1. /\ pc[s] \in Unwritten /\ pc[s] = "append" /\ "truncate" \in Unwritten
      /\ pc' = [pc EXCEPT ![s] = "truncate"]
      /\ slips' = slips /\ crashes' = crashes /\ overlaps' = overlaps
      /\ snapshot' = snapshot /\ last' = last /\ base' = base
  BY DEF AppendSynced, Step, Unwritten, ghosts, counts, files, local
<1>2. pc'[s] = "truncate"
  BY <1>1 DEF PInv, IInv, TypeOK
<1>3. /\ Coherent(s) => Coherent(s)'
      /\ SlipsToCome(s)' = SlipsToCome(s) /\ SlipsToCome(s) \in 0..1
  BY <1>1, <1>2 DEF Coherent, SlipsToCome, Damage
<1>4. Coherent(s) => Coherent(s)' /\ SlipsToCome(s)' <= SlipsToCome(s)
  BY <1>3
<1> QED BY <1>1, <1>4, SlipsGoOn DEF PInv

LEMMA SlipsTruncate == ASSUME PInv, NEW s \in Session, Truncate(s) PROVE SlipsPaid'
<1>1. /\ slips' = slips /\ crashes' = crashes /\ overlaps' = overlaps
      /\ snapshot' = Torn /\ last' = last /\ base' = base
  BY DEF Truncate, ghosts, counts, local
<1>2. CASE Step(s, "truncate", "write")
  <2>1. /\ pc[s] = "truncate" /\ pc[s] \in Unwritten /\ "write" \in Unwritten
        /\ pc' = [pc EXCEPT ![s] = "write"] /\ pc'[s] = "write"
    BY <1>2 DEF Step, Unwritten, PInv, IInv, TypeOK
  <2>2. Coherent(s) => Coherent(s)' /\ SlipsToCome(s)' <= SlipsToCome(s)
    BY <1>1, <2>1 DEF Coherent, SlipsToCome, Damage
  <2> QED BY <1>1, <2>1, <2>2, SlipsGoOn DEF PInv
<1>3. CASE Step(s, "seed", "seedwrite")
  <2>1. /\ pc[s] = "seed" /\ pc[s] \in Unwritten /\ "seedwrite" \in Unwritten
        /\ pc' = [pc EXCEPT ![s] = "seedwrite"] /\ pc'[s] = "seedwrite"
    BY <1>3 DEF Step, Unwritten, PInv, IInv, TypeOK
  <2>2. Coherent(s) => Coherent(s)' /\ SlipsToCome(s)' <= SlipsToCome(s)
    BY <1>1, <2>1 DEF Coherent, SlipsToCome, Damage
  <2> QED BY <1>1, <2>1, <2>2, SlipsGoOn DEF PInv
<1> QED BY <1>2, <1>3 DEF Truncate

\* What the write of a snapshot makes of the slips, and of the file.
LEMMA SlipOfWrite ==
  ASSUME PInv, NEW s \in Session, pc[s] \in {"write", "seedwrite"}, WriteSnapshot(s)
  PROVE  /\ snapshot' \in {Torn, last'}
         /\ \E n \in 0..1 : /\ Total(slips') = Total(slips) + n
                            /\ Coherent(s) => n + Damage' <= SlipsToCome(s)
<1>1. /\ slips \in [Session -> Nat] /\ slips' \in [Session -> Nat]
      /\ current[s] \in Inventory /\ Torn \notin Inventory
  BY SnapshotTyped, RecorderConstantsOK DEF PInv, IInv, TypeOK
<1>2. CASE /\ snapshot' = SnapshotOf(s) /\ last' = SnapshotOf(s)
           /\ slips' = [slips EXCEPT ![s] = @ + IF base[s] = last THEN 0 ELSE 1]
  <2> DEFINE n == IF base[s] = last THEN 0 ELSE 1
  <2>1. n \in 0..1 /\ n \in Nat
    OBVIOUS
  <2>2. slips'[s] = slips[s] + n /\ \A t \in Session \ {s} : slips'[t] = slips[t]
    BY <1>1, <1>2
  <2>3. Coherent(s) => n + Damage' <= SlipsToCome(s)
    <3>1. Damage' = 0
      BY <1>1, <1>2 DEF Damage, SnapshotOf
    <3>2. pc[s] = "seedwrite" => base[s] = Torn
      BY DEF PInv, IInv, Kept, Recording
    <3>3. Coherent(s) => n <= SlipsToCome(s)
      BY <3>2 DEF Coherent, SlipsToCome, Damage
    <3> QED BY <3>1, <3>3 DEF SlipsToCome, Damage
  <2> HIDE DEF n
  <2>4. Total(slips') = Total(slips) + n
    BY <1>1, <2>1, <2>2, TotalOfMore
  <2> QED BY <1>2, <2>1, <2>3, <2>4
<1>3. CASE /\ snapshot # Torn /\ snapshot' = Torn
           /\ slips' = [slips EXCEPT ![s] = @ + 1]
  <2>1. slips'[s] = slips[s] + 1 /\ \A t \in Session \ {s} : slips'[t] = slips[t]
    BY <1>1, <1>3
  <2>2. Total(slips') = Total(slips) + 1
    BY <1>1, <2>1, TotalOfMore
  <2>3. ~Coherent(s)
    BY <1>3 DEF Coherent
  <2> QED BY <1>3, <2>2, <2>3
<1> QED BY <1>2, <1>3 DEF WriteSnapshot

LEMMA SlipsWrite ==
  ASSUME PInv, NEW s \in Session, Write(s) \/ Seed(s)
  PROVE  SlipsPaid' /\ FileAgrees'
<1>1. PICK to \in {"idle", "seeded"} :
        /\ pc[s] \in {"write", "seedwrite"} /\ pc' = [pc EXCEPT ![s] = to]
        /\ crashes' = crashes /\ overlaps' = overlaps /\ WriteSnapshot(s)
  BY DEF Write, Seed, Step, counts
<1>2. pc[s] \in Unwritten /\ to \notin Unwritten
  BY <1>1 DEF Unwritten
<1>3. PICK n \in 0..1 : /\ Total(slips') = Total(slips) + n
                        /\ Coherent(s) => n + Damage' <= SlipsToCome(s)
  BY <1>1, SlipOfWrite
<1>4. Total(crashes') = Total(crashes) + 0
  BY <1>1, CostsInNat DEF PInv
<1>5. Coherent(s) => n + Damage' <= SlipsToCome(s) + 0
  BY <1>3 DEF SlipsToCome, Damage
<1>6. SlipsPaid'
  <2>1. 0 \in 0..1 /\ IInv /\ SlipsPaid
    BY DEF PInv
  <2> QED BY <1>1, <1>2, <1>3, <1>4, <1>5, <2>1, SlipsEnd
<1> QED BY <1>1, <1>6, SlipOfWrite DEF FileAgrees

LEMMA SlipsSeeded == ASSUME PInv, NEW s \in Session, Seeded(s) PROVE SlipsPaid'
<1>1. /\ pc[s] \notin Unwritten /\ "idle" \notin Unwritten /\ pc' = [pc EXCEPT ![s] = "idle"]
      /\ \A t \in Session \ {s} : base'[t] = base[t]
      /\ slips' = slips /\ crashes' = crashes /\ overlaps' = overlaps
      /\ snapshot' = snapshot /\ last' = last
  BY DEF Seeded, Step, Forget, Unwritten, ghosts, counts, files, PInv, IInv, TypeOK
<1>2. Total(crashes') = Total(crashes) + 0 /\ 0 \in 0..1
  BY <1>1, CostsInNat DEF PInv
<1>3. IInv /\ SlipsPaid
  BY DEF PInv
<1> QED BY <1>1, <1>2, <1>3, SlipsElsewhere

LEMMA CrashCounts ==
  ASSUME IInv, NEW s \in Session, Crash(s)
  PROVE  Total(crashes') = Total(crashes) + 1
<1>1. crashes \in [Session -> Nat] /\ crashes' = [crashes EXCEPT ![s] = @ + 1]
  BY RecorderConstantsOK DEF IInv, TypeOK, Crash
<1> DEFINE f == crashes
           g == crashes'
<1>2. /\ f \in [Session -> Nat] /\ g \in [Session -> Nat] /\ g[s] = f[s] + 1
      /\ 1 \in Nat /\ \A t \in Session \ {s} : g[t] = f[t]
  BY <1>1
<1> HIDE DEF f, g
<1>3. Total(g) = Total(f) + 1
  BY <1>2, TotalOfMore
<1> QED BY <1>3 DEF f, g

LEMMA SlipsCrash == ASSUME PInv, NEW s \in Session, Crash(s) PROVE SlipsPaid'
<1>1. /\ "idle" \notin Unwritten /\ pc' = [pc EXCEPT ![s] = "idle"]
      /\ \A t \in Session \ {s} : base'[t] = base[t]
      /\ slips' = slips /\ overlaps' = overlaps /\ snapshot' = snapshot /\ last' = last
  BY DEF Crash, Forget, Unwritten, counts, files, PInv, IInv, TypeOK
<1>2. Total(crashes') = Total(crashes) + 1 /\ 0 \in 0..1 /\ 1 \in 0..1 /\ IInv /\ SlipsPaid
  BY CrashCounts DEF PInv
<1>3. CASE pc[s] \in Unwritten
  <2>1. Total(slips') = Total(slips) + 0
    BY <1>1, CostsInNat DEF PInv
  <2>2. 0 + Damage' <= SlipsToCome(s) + 1
    BY <1>1 DEF SlipsToCome, Damage
  <2> QED BY <1>1, <1>2, <1>3, <2>1, <2>2, SlipsEnd
<1>4. CASE pc[s] \notin Unwritten
  BY <1>1, <1>2, <1>4, SlipsElsewhere
<1> QED BY <1>3, <1>4

LEMMA InitPInv == Init => PInv
<1> SUFFICES ASSUME Init PROVE PInv
  OBVIOUS
<1>1. IInv
  BY InitIInv
<1>2. Total(slips) = 0 /\ Total(crashes) = 0 /\ overlaps = 0
  BY TotalOfNone DEF Init
<1>3. Working = {} /\ Damage = 0 /\ FileAgrees
  BY DEF Init, Working, Unwritten, Damage, FileAgrees
<1> QED BY <1>1, <1>2, <1>3 DEF PInv, SlipsPaid, Costs

LEMMA NextPInv == PInv /\ [Next]_vars => PInv'
<1> SUFFICES ASSUME PInv, [Next]_vars PROVE PInv'
  OBVIOUS
<1>1. IInv'
  BY NextIInv DEF PInv
<1>2. FileAgrees'
  <2>1. ASSUME NEW s \in Session, Record(s), ~Write(s), ~Seed(s) PROVE FileAgrees'
    BY <2>1 DEF PInv, FileAgrees, Record, Ingest, Begin, AppendEvent, AppendSynced, Truncate,
       Seeded, Crash, files
  <2>2. CASE Trade \/ UNCHANGED vars
    BY <2>2 DEF PInv, FileAgrees, Trade, vars, files
  <2> QED BY <2>1, <2>2, SlipsWrite DEF Next
<1>3. SlipsPaid'
  <2>1. CASE Trade \/ UNCHANGED vars
    <3>1. /\ pc' = pc /\ base' = base /\ snapshot' = snapshot /\ last' = last
          /\ slips' = slips /\ crashes' = crashes /\ overlaps' = overlaps
      BY <2>1 DEF Trade, vars, files, local, ghosts, counts
    <3> QED BY <3>1, SlipsStay DEF PInv
  <2>2. ASSUME NEW s \in Session, Record(s) PROVE SlipsPaid'
    BY <2>2, SlipsIngest, SlipsBegin, SlipsAppendEvent, SlipsAppendSynced, SlipsTruncate,
       SlipsWrite, SlipsSeeded, SlipsCrash DEF Record, PInv
  <2> QED BY <2>1, <2>2 DEF Next
<1> QED BY <1>1, <1>2, <1>3 DEF PInv

\* record_after_ingest replaces a snapshot it has not seen only for a cause: the
\* end of a process costs one slip at most and two recordings at once three, for
\* any sessions and however their steps mix.
THEOREM SlipsCorrect == Spec => []SlipsHaveCause
<1>1. ASSUME PInv PROVE SlipsHaveCause
  <2>1. /\ Total(slips) \in Nat /\ Costs \in Nat /\ Cardinality(Working) \in Nat
        /\ Damage \in 0..1 /\ \A s \in Session : SlipsToCome(s) \in 0..1
    BY <1>1, CostsInNat, WorkingFinite DEF PInv, Costs, Damage, SlipsToCome
  <2>2. Total(slips) <= Costs
    BY <1>1, <2>1 DEF PInv, SlipsPaid
  <2> QED BY <2>2 DEF SlipsHaveCause, Costs
<1>2. PInv => SlipsHaveCause
  BY <1>1
<1> QED
  BY <1>2, InitPInv, NextPInv, PTL DEF Spec

-----------------------------------------------------------------------------
(* Sales: what recordings may still report as removed of a listing.  A       *)
(* session that records alone reports a removal only when the listing has    *)
(* left the shop or was passed over; the crowd is paid for as the slips are. *)

Removal(l) == <<"listing_removed", l>>
Removed(l) == Total([s \in Session |-> history[s][Removal(l)]])

\* The sessions that may report the listing as removed.
Reporting(l) ==
  {s \in Session : pc[s] = "loaded" \/ (pc[s] = "append" /\ Removal(l) \in pending[s])}

\* Whether the session does.
ToReport(s, l) ==
  IF \/ /\ pc[s] = "loaded" /\ snapshot # Torn
        /\ snapshot[l] # Absent /\ current[s][l] = Absent
     \/ pc[s] = "append" /\ Removal(l) \in pending[s]
  THEN 1 ELSE 0

\* The listing has left the shop and the inventory still shows it.
Owed(inv, l) == IF inv # Torn /\ inv[l] # Absent /\ shop[l] = Absent THEN 1 ELSE 0

Allowed(l) == left[l] + gaps + Total(crashes) + 3 * overlaps

SalesPaid(l) ==
  \/ Removed(l) + Cardinality(Reporting(l)) + 1 <= Allowed(l)
  \/ Working = {} /\ Removed(l) + Owed(snapshot, l) <= Allowed(l)
  \/ \E s \in Session :
       Solo(s) /\ Removed(l) + ToReport(s, l) + Owed(current[s], l) <= Allowed(l)

SInv == PInv /\ \A l \in Listing : SalesPaid(l)

LEMMA SaleNumbers ==
  ASSUME IInv, NEW l \in Listing
  PROVE  /\ Removal(l) \in Event
         /\ Removed(l) \in Nat /\ Allowed(l) \in Nat
         /\ IsFiniteSet(Reporting(l)) /\ Cardinality(Reporting(l)) \in Nat
         /\ Reporting(l) \subseteq Working
         /\ \A s \in Session : ToReport(s, l) \in 0..1
         /\ \A inv : Owed(inv, l) \in 0..1
<1>1. Removal(l) \in Event
  BY DEF Removal, Event, Movement
<1>2. [s \in Session |-> history[s][Removal(l)]] \in [Session -> Nat]
  BY <1>1 DEF IInv, TypeOK
<1>3. Removed(l) \in Nat
  BY <1>2, TotalInNat DEF Removed
<1>4. Allowed(l) \in Nat
  <2>1. left[l] \in Nat /\ gaps \in Nat
    BY RecorderConstantsOK DEF IInv, TypeOK
  <2> QED BY <2>1, CostsInNat DEF Allowed
<1>5. Reporting(l) \subseteq Working /\ Reporting(l) \in SUBSET Session
  BY DEF Reporting, Working, Unwritten
<1>6. IsFiniteSet(Reporting(l)) /\ Cardinality(Reporting(l)) \in Nat
  BY <1>5, RecorderConstantsOK, FS_Subset, FS_CardinalityType
<1> QED BY <1>1, <1>3, <1>4, <1>5, <1>6 DEF ToReport, Owed

\* Fewer sessions report no more.
LEMMA FewerReport ==
  ASSUME IInv, NEW l \in Listing, Reporting(l)' \subseteq Reporting(l)
  PROVE  Cardinality(Reporting(l)') \in Nat /\ Cardinality(Reporting(l)') <= Cardinality(Reporting(l))
<1>1. IsFiniteSet(Reporting(l))
  BY SaleNumbers
<1> QED BY <1>1, FS_Subset, FS_CardinalityType

\* A session at work goes on, and reports n removals of the listing.
LEMMA SalesGoOn ==
  ASSUME IInv, NEW l \in Listing, SalesPaid(l), NEW s \in Session, pc[s] \in Unwritten,
         Working' = Working, Allowed(l)' = Allowed(l),
         NEW n \in 0..1, Removed(l)' = Removed(l) + n,
         Cardinality(Reporting(l)') \in Nat,
         Cardinality(Reporting(l)') + n <= Cardinality(Reporting(l)),
         Coherent(s) => /\ Coherent(s)'
                        /\ n + ToReport(s, l)' + Owed(current[s], l)'
                             <= ToReport(s, l) + Owed(current[s], l)
  PROVE  SalesPaid(l)'
<1>1. /\ Removed(l) \in Nat /\ Allowed(l) \in Nat /\ Cardinality(Reporting(l)) \in Nat
      /\ ToReport(s, l) \in 0..1 /\ Owed(current[s], l) \in 0..1
  BY SaleNumbers
<1>2. ToReport(s, l)' \in 0..1 /\ Owed(current[s], l)' \in 0..1
  BY DEF ToReport, Owed
<1>3. CASE Removed(l) + Cardinality(Reporting(l)) + 1 <= Allowed(l)
  <2>1. Removed(l)' + Cardinality(Reporting(l)') + 1 <= Allowed(l)'
    BY <1>1, <1>3
  <2> QED BY <2>1 DEF SalesPaid
<1>4. CASE Working = {}
  BY <1>4 DEF Working
<1>5. ASSUME NEW u \in Session, Solo(u),
             Removed(l) + ToReport(u, l) + Owed(current[u], l) <= Allowed(l)
      PROVE  SalesPaid(l)'
  <2>1. u = s
    BY <1>5 DEF Solo, Working
  <2>2. Solo(s)'
    BY <1>5, <2>1 DEF Solo
  <2>3. n + ToReport(s, l)' + Owed(current[s], l)' <= ToReport(s, l) + Owed(current[s], l)
    BY <1>5, <2>1 DEF Solo
  <2>4. Removed(l)' + ToReport(s, l)' + Owed(current[s], l)' <= Allowed(l)'
    BY <1>1, <1>2, <1>5, <2>1, <2>3
  <2> QED BY <2>2, <2>4 DEF SalesPaid
<1> QED BY <1>3, <1>4, <1>5 DEF SalesPaid

\* A session ends its work.
LEMMA SalesEnd ==
  ASSUME IInv, NEW l \in Listing, SalesPaid(l), NEW s \in Session, pc[s] \in Unwritten,
         Working' = Working \ {s},
         NEW k \in 0..1, Allowed(l)' = Allowed(l) + k,
         Removed(l)' = Removed(l), Reporting(l)' \subseteq Reporting(l),
         Coherent(s) => Owed(snapshot, l)' <= Owed(current[s], l) + k
  PROVE  SalesPaid(l)'
<1>1. /\ Removed(l) \in Nat /\ Allowed(l) \in Nat /\ Cardinality(Reporting(l)) \in Nat
      /\ ToReport(s, l) \in 0..1 /\ Owed(current[s], l) \in 0..1
  BY SaleNumbers
<1>2. Owed(snapshot, l)' \in 0..1
  BY DEF Owed
<1>3. CASE Removed(l) + Cardinality(Reporting(l)) + 1 <= Allowed(l)
  <2>1. Removed(l)' + Cardinality(Reporting(l)') + 1 <= Allowed(l)'
    BY <1>1, <1>3, FewerReport
  <2> QED BY <2>1 DEF SalesPaid
<1>4. CASE Working = {}
  BY <1>4 DEF Working
<1>5. ASSUME NEW u \in Session, Solo(u),
             Removed(l) + ToReport(u, l) + Owed(current[u], l) <= Allowed(l)
      PROVE  SalesPaid(l)'
  <2>1. u = s /\ Working' = {}
    BY <1>5 DEF Solo, Working
  <2>2. Owed(snapshot, l)' <= Owed(current[s], l) + k
    BY <1>5, <2>1 DEF Solo
  <2>3. Removed(l)' + Owed(snapshot, l)' <= Allowed(l)'
    BY <1>1, <1>2, <1>5, <2>1, <2>2
  <2> QED BY <2>1, <2>3 DEF SalesPaid
<1> QED BY <1>3, <1>4, <1>5 DEF SalesPaid

\* A session that has written, or the end of its process, reports nothing.
LEMMA SalesElsewhere ==
  ASSUME IInv, NEW l \in Listing, SalesPaid(l), NEW s \in Session, pc[s] \notin Unwritten,
         NEW to, to \notin Unwritten, pc' = [pc EXCEPT ![s] = to],
         \A t \in Session \ {s} : /\ base'[t] = base[t] /\ current'[t] = current[t]
                                  /\ pending'[t] = pending[t],
         snapshot' = snapshot, last' = last, shop' = shop, history' = history,
         NEW k \in 0..1, Allowed(l)' = Allowed(l) + k
  PROVE  SalesPaid(l)'
<1>1. /\ Working' = Working /\ pc'[s] = to /\ \A t \in Session \ {s} : pc'[t] = pc[t]
  BY WorkingAfter DEF Working
<1>2. Removed(l)' = Removed(l) /\ Owed(snapshot, l)' = Owed(snapshot, l)
  BY DEF Removed, Removal, Owed
<1>3. Reporting(l)' \subseteq Reporting(l)
  BY <1>1 DEF Reporting, Removal, Unwritten
<1>4. /\ Removed(l) \in Nat /\ Allowed(l) \in Nat /\ Cardinality(Reporting(l)) \in Nat
      /\ \A u \in Session : ToReport(u, l) \in 0..1
      /\ \A inv : Owed(inv, l) \in 0..1
  BY SaleNumbers
<1>5. CASE Removed(l) + Cardinality(Reporting(l)) + 1 <= Allowed(l)
  <2>1. Removed(l)' + Cardinality(Reporting(l)') + 1 <= Allowed(l)'
    BY <1>2, <1>3, <1>4, <1>5, FewerReport
  <2> QED BY <2>1 DEF SalesPaid
<1>6. CASE Working = {} /\ Removed(l) + Owed(snapshot, l) <= Allowed(l)
  <2>1. Working' = {} /\ Removed(l)' + Owed(snapshot, l)' <= Allowed(l)'
    BY <1>1, <1>2, <1>4, <1>6
  <2> QED BY <2>1 DEF SalesPaid
<1>7. ASSUME NEW u \in Session, Solo(u),
             Removed(l) + ToReport(u, l) + Owed(current[u], l) <= Allowed(l)
      PROVE  SalesPaid(l)'
  <2>1. /\ u # s /\ pc'[u] = pc[u] /\ base'[u] = base[u] /\ current'[u] = current[u]
        /\ pending'[u] = pending[u]
    BY <1>1, <1>7 DEF Solo, Working
  <2>2. Solo(u)'
    BY <1>1, <1>7, <2>1 DEF Solo, Coherent
  <2>3. ToReport(u, l)' = ToReport(u, l) /\ Owed(current[u], l)' = Owed(current[u], l)
    BY <2>1 DEF ToReport, Owed, Removal
  <2>4. Removed(l)' + ToReport(u, l)' + Owed(current[u], l)' <= Allowed(l)'
    BY <1>2, <1>4, <1>7, <2>3
  <2> QED BY <2>2, <2>4 DEF SalesPaid
<1> QED BY <1>5, <1>6, <1>7 DEF SalesPaid

\* What the shop changes is paid for by left, which counts the listing that goes.
LEMMA SalesTrade ==
  ASSUME IInv, NEW l \in Listing, SalesPaid(l), Trade
  PROVE  SalesPaid(l)'
<1> DEFINE gone == IF shop[l] # Absent /\ shop'[l] = Absent THEN 1 ELSE 0
<1>1. /\ pc' = pc /\ snapshot' = snapshot /\ last' = last /\ history' = history
      /\ base' = base /\ current' = current /\ pending' = pending
      /\ crashes' = crashes /\ gaps' = gaps /\ overlaps' = overlaps
      /\ left'[l] = left[l] + gone
  BY DEF Trade, files, local, ghosts, counts
<1>2. left[l] \in Nat /\ gaps \in Nat /\ gone \in 0..1
  BY RecorderConstantsOK DEF IInv, TypeOK
<1>3. /\ Removed(l)' = Removed(l) /\ Reporting(l)' = Reporting(l) /\ Working' = Working
      /\ \A s \in Session : /\ Solo(s)' <=> Solo(s)
                            /\ ToReport(s, l)' = ToReport(s, l)
  BY <1>1 DEF Removed, Removal, Reporting, Working, Solo, Coherent, ToReport
<1>4. Allowed(l)' = Allowed(l) + gone
  <2>1. /\ Allowed(l) = left[l] + gaps + Total(crashes) + 3 * overlaps
        /\ Allowed(l)' = left'[l] + gaps + Total(crashes) + 3 * overlaps
    BY <1>1 DEF Allowed
  <2> HIDE DEF gone
  <2> QED BY <1>1, <1>2, <2>1, CostsInNat
<1>5. ASSUME NEW inv
      PROVE  Owed(inv, l) \in 0..1 /\ Owed(inv, l)' \in 0..1 /\ Owed(inv, l)' <= Owed(inv, l) + gone
  BY DEF Owed
<1>6. Owed(snapshot, l)' \in 0..1 /\ Owed(snapshot, l)' <= Owed(snapshot, l) + gone
  BY <1>1 DEF Owed
<1>7. \A s \in Session : /\ Owed(current[s], l)' \in 0..1
                         /\ Owed(current[s], l)' <= Owed(current[s], l) + gone
  BY <1>1 DEF Owed
<1> HIDE DEF gone
<1>8. /\ Removed(l) \in Nat /\ Allowed(l) \in Nat /\ Cardinality(Reporting(l)) \in Nat
      /\ \A s \in Session : ToReport(s, l) \in 0..1
      /\ \A inv : Owed(inv, l) \in 0..1
  BY SaleNumbers
<1>9. CASE Removed(l) + Cardinality(Reporting(l)) + 1 <= Allowed(l)
  <2>1. Removed(l)' + Cardinality(Reporting(l)') + 1 <= Allowed(l)'
    BY <1>2, <1>3, <1>4, <1>8, <1>9
  <2> QED BY <2>1 DEF SalesPaid
<1>10. CASE Working = {} /\ Removed(l) + Owed(snapshot, l) <= Allowed(l)
  <2>1. Working' = {} /\ Removed(l)' + Owed(snapshot, l)' <= Allowed(l)'
    BY <1>2, <1>3, <1>4, <1>6, <1>8, <1>10
  <2> QED BY <2>1 DEF SalesPaid
<1>11. ASSUME NEW u \in Session, Solo(u),
              Removed(l) + ToReport(u, l) + Owed(current[u], l) <= Allowed(l)
       PROVE  SalesPaid(l)'
  <2>1. Solo(u)' /\ Removed(l)' + ToReport(u, l)' + Owed(current[u], l)' <= Allowed(l)'
    BY <1>2, <1>3, <1>4, <1>7, <1>8, <1>11
  <2> QED BY <2>1 DEF SalesPaid
<1> QED BY <1>9, <1>10, <1>11 DEF SalesPaid

\* What an ingest misses of the shop is a listing that has left it before, which
\* the snapshot still shows, or a gap.
LEMMA IngestSees ==
  ASSUME IInv, NEW l \in Listing, NEW s \in Session, Ingest(s)
  PROVE  /\ gaps' \in Nat /\ gaps' >= gaps
         /\ ToReport(s, l)' + Owed(current[s], l)' <= Owed(snapshot, l) + (gaps' - gaps)
<1>1. PICK passed \in SUBSET {m \in Listing : shop[m] # Absent} :
        /\ gaps' = gaps + IF passed = {} THEN 0 ELSE 1
        /\ current' = [current EXCEPT ![s] = [m \in Listing |->
                                                IF m \in passed THEN Absent ELSE shop[m]]]
  BY DEF Ingest
<1>2. /\ pc'[s] = "loaded" /\ snapshot' = snapshot /\ shop' = shop
      /\ current'[s][l] = IF l \in passed THEN Absent ELSE shop[l]
      /\ gaps \in Nat
  BY <1>1, RecorderConstantsOK DEF IInv, TypeOK, Ingest, Step, files, world
<1>3. ToReport(s, l)' = IF /\ snapshot # Torn /\ snapshot[l] # Absent
                           /\ current'[s][l] = Absent
                        THEN 1 ELSE 0
  BY <1>2 DEF ToReport
<1>4. Owed(current[s], l)' = 0
  BY <1>2 DEF Owed
<1>5. gaps' \in Nat /\ gaps' >= gaps /\ (l \in passed => gaps' - gaps = 1)
  BY <1>1, <1>2
<1>6. ToReport(s, l)' <= Owed(snapshot, l) + (gaps' - gaps)
  <2>1. Owed(snapshot, l) \in 0..1 /\ ToReport(s, l)' \in 0..1
    BY <1>3 DEF Owed
  <2>2. CASE l \in passed
    <3>1. gaps' - gaps = 1
      BY <1>5, <2>2
    <3> QED BY <2>1, <3>1
  <2>3. CASE l \notin passed
    <3>1. ToReport(s, l)' <= Owed(snapshot, l)
      BY <1>2, <1>3, <2>3 DEF Owed
    <3> QED BY <1>2, <1>5, <2>1, <3>1
  <2> QED BY <2>2, <2>3
<1>7. ToReport(s, l)' \in 0..1
  BY <1>3
<1> QED BY <1>4, <1>5, <1>6, <1>7

LEMMA SalesIngest ==
  ASSUME IInv, NEW l \in Listing, SalesPaid(l), NEW s \in Session, Ingest(s)
  PROVE  SalesPaid(l)'
<1>1. /\ pc[s] = "idle" /\ pc' = [pc EXCEPT ![s] = "loaded"]
      /\ crashes' = crashes /\ snapshot' = snapshot /\ last' = last
      /\ history' = history /\ pending' = pending /\ left' = left
      /\ overlaps' = overlaps + IF \E t \in Session \ {s} : pc[t] # "idle" THEN 1 ELSE 0
  BY DEF Ingest, Step, ghosts, files, world
<1>2. s \notin Working /\ Working' = Working \cup {s} /\ pc'[s] = "loaded"
  BY <1>1, WorkingAfter DEF Working, Unwritten
<1>3. /\ Removed(l) \in Nat /\ Allowed(l) \in Nat
      /\ IsFiniteSet(Reporting(l)) /\ Cardinality(Reporting(l)) \in Nat
      /\ Reporting(l) \subseteq Working
      /\ \A u \in Session : ToReport(u, l) \in 0..1
      /\ \A inv : Owed(inv, l) \in 0..1
  BY SaleNumbers
<1>4. Removed(l)' = Removed(l)
  BY <1>1 DEF Removed, Removal
<1>5. Cardinality(Reporting(l)') \in Nat /\ Cardinality(Reporting(l)') <= Cardinality(Reporting(l)) + 1
  <2>1. s \notin Reporting(l) /\ Reporting(l)' = Reporting(l) \cup {s}
    BY <1>1, <1>2, WorkingAfter DEF Reporting, Removal, IInv, TypeOK
  <2>2. Cardinality(Reporting(l) \cup {s}) = Cardinality(Reporting(l)) + 1
    BY <1>3, <2>1, FS_AddElement
  <2>3. Cardinality(Reporting(l)') = Cardinality(Reporting(l)) + 1
    BY <2>1, <2>2
  <2> QED BY <1>3, <2>3
<1>6. /\ left[l] \in Nat /\ gaps \in Nat /\ gaps' \in Nat /\ gaps' >= gaps
      /\ Total(crashes) \in Nat /\ overlaps \in Nat
  BY RecorderConstantsOK, CostsInNat, IngestSees DEF IInv, TypeOK
<1>7. CASE \E t \in Session \ {s} : pc[t] # "idle"
  <2>1. Allowed(l)' \in Nat /\ Allowed(l)' >= Allowed(l) + 3
    BY <1>1, <1>6, <1>7 DEF Allowed
  <2>2. Removed(l) + Cardinality(Reporting(l)) <= Allowed(l) + 1
    <3>1. CASE Removed(l) + Cardinality(Reporting(l)) + 1 <= Allowed(l)
      BY <1>3, <3>1
    <3>2. CASE Working = {} /\ Removed(l) + Owed(snapshot, l) <= Allowed(l)
      <4>1. Cardinality(Reporting(l)) = 0
        BY <1>3, <3>2, FS_EmptySet
      <4>2. Owed(snapshot, l) \in 0..1
        BY <1>3
      <4> QED BY <1>3, <3>2, <4>1, <4>2
    <3>3. ASSUME NEW u \in Session, Solo(u),
                 Removed(l) + ToReport(u, l) + Owed(current[u], l) <= Allowed(l)
          PROVE  Removed(l) + Cardinality(Reporting(l)) <= Allowed(l) + 1
      <4>1. Reporting(l) \subseteq {u} /\ IsFiniteSet({u}) /\ Cardinality({u}) = 1
        BY <1>3, <3>3, FS_Singleton DEF Solo
      <4>2. Cardinality(Reporting(l)) <= 1
        BY <4>1, FS_Subset
      <4>3. ToReport(u, l) \in 0..1 /\ Owed(current[u], l) \in 0..1
        BY <1>3
      <4> QED BY <1>3, <3>3, <4>2, <4>3
    <3> QED BY <3>1, <3>2, <3>3 DEF SalesPaid
  <2>3. Removed(l)' + Cardinality(Reporting(l)') + 1 <= Allowed(l)'
    BY <1>3, <1>4, <1>5, <2>1, <2>2
  <2> QED BY <2>3 DEF SalesPaid
<1>8. CASE \A t \in Session \ {s} : pc[t] = "idle"
  <2>1. Working = {} /\ Working' = {s}
    BY <1>1, <1>2, <1>8 DEF Working, Unwritten
  <2>2. Solo(s)'
    BY <1>2, <2>1 DEF Solo, Coherent
  <2>3. Allowed(l)' = Allowed(l) + (gaps' - gaps)
    BY <1>1, <1>6, <1>8 DEF Allowed
  <2>4. Removed(l) + Owed(snapshot, l) <= Allowed(l)
    <3>1. CASE Removed(l) + Cardinality(Reporting(l)) + 1 <= Allowed(l)
      <4>1. Owed(snapshot, l) \in 0..1
        BY <1>3
      <4> QED BY <1>3, <3>1, <4>1
    <3>2. ~ \E u \in Session : Solo(u)
      BY <2>1 DEF Solo
    <3> QED BY <3>1, <3>2 DEF SalesPaid
  <2>5. ToReport(s, l)' + Owed(current[s], l)' <= Owed(snapshot, l) + (gaps' - gaps)
    BY IngestSees
  <2>6. ToReport(s, l)' \in 0..1 /\ Owed(current[s], l)' \in 0..1 /\ Owed(snapshot, l) \in 0..1
    BY DEF ToReport, Owed
  <2>7. Removed(l)' + ToReport(s, l)' + Owed(current[s], l)' <= Allowed(l)'
    BY <1>3, <1>4, <1>6, <2>3, <2>4, <2>5, <2>6
  <2> QED BY <2>2, <2>7 DEF SalesPaid
<1> QED BY <1>7, <1>8

\* The session reports as removed what the snapshot shows and it has not seen.
LEMMA SalesBegin ==
  ASSUME PInv, NEW l \in Listing, SalesPaid(l), NEW s \in Session, Begin(s)
  PROVE  SalesPaid(l)'
<1> DEFINE to == IF snapshot = Torn THEN "seed" ELSE "append"
<1>1. /\ pc[s] \in Unwritten /\ pc[s] = "loaded" /\ to \in Unwritten /\ pc' = [pc EXCEPT ![s] = to]
      /\ snapshot' = snapshot /\ last' = last /\ base' = [base EXCEPT ![s] = snapshot]
      /\ pending' = [pending EXCEPT ![s] = IF snapshot = Torn THEN {} ELSE Changes(snapshot, current[s])]
      /\ current' = current /\ history' = history /\ shop' = shop /\ left' = left
      /\ gaps' = gaps /\ crashes' = crashes /\ overlaps' = overlaps
  BY DEF Begin, Step, Unwritten, ghosts, counts, files, world
<1>2. /\ pc'[s] = to /\ base'[s] = snapshot
      /\ pending'[s] = IF snapshot = Torn THEN {} ELSE Changes(snapshot, current[s])
      /\ \A t \in Session \ {s} : pc'[t] = pc[t] /\ pending'[t] = pending[t]
  BY <1>1 DEF PInv, IInv, TypeOK
<1>3. Working' = Working /\ Allowed(l)' = Allowed(l) /\ Removed(l)' = Removed(l) + 0 /\ 0 \in 0..1
  <2>1. Working' = Working
    BY <1>1, <1>2, WorkingAfter DEF PInv, Working
  <2>2. Allowed(l)' = Allowed(l) /\ Removed(l)' = Removed(l)
    BY <1>1 DEF Allowed, Removed, Removal
  <2>3. Removed(l) \in Nat
    BY SaleNumbers DEF PInv
  <2> QED BY <2>1, <2>2, <2>3
<1>4. Reporting(l)' \subseteq Reporting(l)
  BY <1>1, <1>2 DEF Reporting, Removal
<1>5. /\ Cardinality(Reporting(l)') \in Nat
      /\ Cardinality(Reporting(l)') + 0 <= Cardinality(Reporting(l))
  BY <1>4, FewerReport, SaleNumbers DEF PInv
<1>6. Coherent(s)'
  BY <1>1, <1>2 DEF PInv, FileAgrees, Coherent
<1>7. ToReport(s, l)' = ToReport(s, l) /\ Owed(current[s], l)' = Owed(current[s], l)
  <2>1. Removal(l) \in Event /\ Removal(l)' = Removal(l)
    BY SaleNumbers DEF PInv, Removal
  <2>2. snapshot # Torn =>
          (Removal(l) \in Changes(snapshot, current[s])
             <=> (snapshot[l] # Absent /\ current[s][l] = Absent))
    BY <2>1 DEF Changes, UnitsOf, Units, Removal
  <2>3. ToReport(s, l)' = ToReport(s, l)
    BY <1>1, <1>2, <2>1, <2>2 DEF ToReport
  <2>4. Owed(current[s], l)' = Owed(current[s], l)
    BY <1>1 DEF Owed
  <2> QED BY <2>3, <2>4
<1>8. Coherent(s) => /\ Coherent(s)'
                     /\ 0 + ToReport(s, l)' + Owed(current[s], l)'
                          <= ToReport(s, l) + Owed(current[s], l)
  BY <1>6, <1>7 DEF ToReport, Owed
<1> HIDE DEF to
<1>9. IInv
  BY DEF PInv
<1> QED BY <1>1, <1>3, <1>5, <1>8, <1>9, SalesGoOn

\* A removal that is appended is no longer to report.
LEMMA SalesAppendEvent ==
  ASSUME IInv, NEW l \in Listing, SalesPaid(l), NEW s \in Session, AppendEvent(s)
  PROVE  SalesPaid(l)'
<1>1. PICK e \in pending[s] :
        /\ history' = [history EXCEPT ![s][e] = @ + UnitsOf(e, base[s], current[s])]
        /\ pending' = [pending EXCEPT ![s] = @ \ {e}]
  BY DEF AppendEvent
<1>2. /\ pc' = pc /\ pc[s] = "append" /\ pc[s] \in Unwritten /\ e \in Event
      /\ base' = base /\ current' = current /\ snapshot' = snapshot /\ last' = last
      /\ shop' = shop /\ left' = left /\ gaps' = gaps /\ crashes' = crashes /\ overlaps' = overlaps
      /\ base[s] \in Inventory /\ current[s] \in Inventory
  BY <1>1 DEF AppendEvent, Step, IInv, TypeOK, Kept, Recording, Unwritten, ghosts, counts,
     files, world
<1>3. /\ pending'[s] = pending[s] \ {e}
      /\ \A t \in Session \ {s} : pending'[t] = pending[t] /\ history'[t] = history[t]
      /\ history'[s] = [history[s] EXCEPT ![e] = @ + UnitsOf(e, base[s], current[s])]
      /\ history[s] \in [Event -> Nat]
  BY <1>1 DEF IInv, TypeOK
<1>4. /\ Working' = Working /\ Allowed(l)' = Allowed(l)
      /\ Coherent(s) => Coherent(s)'
      /\ Owed(current[s], l)' = Owed(current[s], l)
  BY <1>2 DEF Working, Allowed, Coherent, Owed
<1>5. /\ Removed(l) \in Nat /\ IsFiniteSet(Reporting(l)) /\ Cardinality(Reporting(l)) \in Nat
      /\ Removal(l) \in Event /\ Removal(l)' = Removal(l)
      /\ ToReport(s, l) \in 0..1 /\ Owed(current[s], l) \in 0..1
  BY SaleNumbers DEF Removal
<1>6. CASE e = Removal(l)
  <2> DEFINE n == UnitsOf(e, base[s], current[s])
             f == [t \in Session |-> history[t][Removal(l)]]
             g == [t \in Session |-> history'[t][Removal(l)]]
  <2>1. n \in Nat /\ n <= 1
    BY <1>2, <1>6, UnitsBounded DEF Most, Removal
  <2>2. f \in [Session -> Nat]
    BY <1>5 DEF IInv, TypeOK
  <2>3. history'[s][e] = history[s][e] + n /\ history[s][e] \in Nat
    BY <1>2, <1>3
  <2>4. g[s] = f[s] + n /\ \A t \in Session \ {s} : g[t] = f[t]
    BY <1>3, <1>6, <2>3
  <2>5. g \in [Session -> Nat]
    <3> HIDE DEF n
    <3>1. \A t \in Session : g[t] \in Nat
      BY <2>1, <2>2, <2>4
    <3> QED BY <3>1
  <2>6. Total(f) = Removed(l) /\ Total(g) = Removed(l)'
    BY <1>5 DEF Removed
  <2> HIDE DEF n, f, g
  <2>7. Removed(l)' = Removed(l) + n /\ n \in 0..1
    BY <2>1, <2>2, <2>4, <2>5, <2>6, TotalOfMore
  <2>8. s \in Reporting(l) /\ Reporting(l)' = Reporting(l) \ {s}
    BY <1>1, <1>2, <1>3, <1>5, <1>6 DEF Reporting
  <2>9. /\ Cardinality(Reporting(l)') \in Nat
        /\ Cardinality(Reporting(l)') + n <= Cardinality(Reporting(l))
    <3>1. /\ Cardinality(Reporting(l) \ {s}) = Cardinality(Reporting(l)) - 1
          /\ IsFiniteSet(Reporting(l) \ {s})
      BY <1>5, <2>8, FS_RemoveElement
    <3>2. Cardinality(Reporting(l) \ {s}) \in Nat
      BY <3>1, FS_CardinalityType
    <3>3. Cardinality(Reporting(l)') = Cardinality(Reporting(l) \ {s})
      BY <2>8
    <3> QED BY <1>5, <2>7, <3>1, <3>2, <3>3
  <2>10. ToReport(s, l) = 1 /\ ToReport(s, l)' = 0
    BY <1>1, <1>2, <1>3, <1>5, <1>6 DEF ToReport
  <2>11. Coherent(s) => /\ Coherent(s)'
                        /\ n + ToReport(s, l)' + Owed(current[s], l)'
                             <= ToReport(s, l) + Owed(current[s], l)
    BY <1>4, <1>5, <2>7, <2>10
  <2> QED BY <1>2, <1>4, <2>7, <2>9, <2>11, SalesGoOn
<1>7. CASE e # Removal(l)
  <2>1. \A t \in Session : history'[t][Removal(l)] = history[t][Removal(l)]
    BY <1>3, <1>5, <1>7
  <2>2. Removed(l)' = Removed(l) + 0 /\ 0 \in 0..1
    BY <1>5, <2>1 DEF Removed
  <2>3. Reporting(l)' = Reporting(l)
    BY <1>2, <1>3, <1>5, <1>7 DEF Reporting
  <2>4. /\ Cardinality(Reporting(l)') \in Nat
        /\ Cardinality(Reporting(l)') + 0 <= Cardinality(Reporting(l))
    BY <1>5, <2>3
  <2>5. ToReport(s, l)' = ToReport(s, l)
    BY <1>2, <1>3, <1>5, <1>7 DEF ToReport
  <2>6. Coherent(s) => /\ Coherent(s)'
                       /\ 0 + ToReport(s, l)' + Owed(current[s], l)'
                            <= ToReport(s, l) + Owed(current[s], l)
    BY <1>4, <1>5, <2>5
  <2> QED BY <1>2, <1>4, <2>2, <2>4, <2>6, SalesGoOn
<1> QED BY <1>6, <1>7

\* With nothing left to append, neither the event of the ingest nor the emptied
\* file reports a removal.
LEMMA SalesQuiet ==
  ASSUME IInv, NEW l \in Listing, SalesPaid(l), NEW s \in Session,
         AppendSynced(s) \/ Truncate(s)
  PROVE  SalesPaid(l)'
<1>1. PICK to \in {"truncate", "write", "seedwrite"} :
        /\ pc[s] \in {"append", "truncate", "seed"} /\ pc' = [pc EXCEPT ![s] = to]
        /\ pc[s] = "append" => pending[s] = {}
        /\ to = "truncate" => pc[s] = "append" /\ snapshot' = snapshot
        /\ to = "write" => pc[s] = "truncate" /\ snapshot' = Torn
        /\ to = "seedwrite" => pc[s] = "seed" /\ snapshot' = Torn
  BY DEF AppendSynced, Truncate, Step, files
<1>2. /\ pc[s] \in Unwritten /\ to \in Unwritten /\ pc'[s] = to
      /\ \A t \in Session \ {s} : pc'[t] = pc[t]
      /\ last' = last /\ base' = base /\ current' = current /\ pending' = pending
      /\ history' = history /\ shop' = shop /\ left' = left
      /\ gaps' = gaps /\ crashes' = crashes /\ overlaps' = overlaps
  BY <1>1 DEF AppendSynced, Truncate, Unwritten, IInv, TypeOK, ghosts, counts, files, world, local
<1>3. Working' = Working
  BY <1>1, <1>2, WorkingAfter DEF Working
<1>4. /\ Allowed(l)' = Allowed(l) /\ Removed(l)' = Removed(l) + 0 /\ 0 \in 0..1
  <2>1. Allowed(l)' = Allowed(l) /\ Removed(l)' = Removed(l)
    BY <1>2 DEF Allowed, Removed, Removal
  <2>2. Removed(l) \in Nat
    BY SaleNumbers
  <2> QED BY <2>1, <2>2
<1>5. Reporting(l)' \subseteq Reporting(l)
  BY <1>1, <1>2 DEF Reporting, Removal
<1>6. /\ Cardinality(Reporting(l)') \in Nat
      /\ Cardinality(Reporting(l)') + 0 <= Cardinality(Reporting(l))
  BY <1>5, FewerReport, SaleNumbers
<1>7. /\ Coherent(s) => Coherent(s)'
      /\ ToReport(s, l) = 0 /\ ToReport(s, l)' = 0
      /\ Owed(current[s], l)' = Owed(current[s], l) /\ Owed(current[s], l) \in 0..1
  BY <1>1, <1>2 DEF Coherent, ToReport, Owed, Removal
<1>8. Coherent(s) => /\ Coherent(s)'
                     /\ 0 + ToReport(s, l)' + Owed(current[s], l)'
                          <= ToReport(s, l) + Owed(current[s], l)
  BY <1>7
<1> QED BY <1>2, <1>3, <1>4, <1>6, <1>8, SalesGoOn

\* Alone, the snapshot that is written is what the session has ingested.
LEMMA SalesWrite ==
  ASSUME IInv, NEW l \in Listing, SalesPaid(l), NEW s \in Session, Write(s) \/ Seed(s)
  PROVE  SalesPaid(l)'
<1>1. PICK to \in {"idle", "seeded"} :
        pc[s] \in {"write", "seedwrite"} /\ pc' = [pc EXCEPT ![s] = to] /\ WriteSnapshot(s)
  BY DEF Write, Seed, Step
<1>2. /\ pc[s] \in Unwritten /\ to \notin Unwritten /\ pc'[s] = to
      /\ \A t \in Session \ {s} : pc'[t] = pc[t] /\ pending'[t] = pending[t]
      /\ history' = history /\ shop' = shop /\ left' = left
      /\ gaps' = gaps /\ crashes' = crashes /\ overlaps' = overlaps
  BY <1>1 DEF Write, Seed, Forget, Unwritten, IInv, TypeOK, counts, world, local
<1>3. Working' = Working \ {s}
  BY <1>1, <1>2, WorkingAfter
<1>4. Allowed(l)' = Allowed(l) + 0 /\ Removed(l)' = Removed(l) /\ 0 \in 0..1
  <2>1. Allowed(l)' = Allowed(l) /\ Removed(l)' = Removed(l)
    BY <1>2 DEF Allowed, Removed, Removal
  <2>2. Allowed(l) \in Nat
    BY SaleNumbers
  <2> QED BY <2>1, <2>2
<1>5. Reporting(l)' \subseteq Reporting(l)
  BY <1>1, <1>2 DEF Reporting, Removal
<1>6. Coherent(s) => Owed(snapshot, l)' <= Owed(current[s], l) + 0
  <2>1. Coherent(s) => snapshot' = current[s]
    BY <1>1 DEF Coherent, WriteSnapshot, SnapshotOf
  <2>2. Coherent(s) => Owed(snapshot, l)' = Owed(current[s], l)
    BY <1>2, <2>1 DEF Owed
  <2> QED BY <2>2 DEF Owed
<1> QED BY <1>2, <1>3, <1>4, <1>5, <1>6, SalesEnd

LEMMA SalesSeeded ==
  ASSUME IInv, NEW l \in Listing, SalesPaid(l), NEW s \in Session, Seeded(s)
  PROVE  SalesPaid(l)'
<1>1. /\ pc[s] \notin Unwritten /\ "idle" \notin Unwritten /\ pc' = [pc EXCEPT ![s] = "idle"]
      /\ \A t \in Session \ {s} : /\ base'[t] = base[t] /\ current'[t] = current[t]
                                  /\ pending'[t] = pending[t]
      /\ snapshot' = snapshot /\ last' = last /\ shop' = shop /\ history' = history
      /\ left' = left /\ gaps' = gaps /\ crashes' = crashes /\ overlaps' = overlaps
  BY DEF Seeded, Step, Forget, Unwritten, ghosts, counts, files, world, IInv, TypeOK
<1>2. Allowed(l)' = Allowed(l) + 0 /\ 0 \in 0..1
  <2>1. Allowed(l)' = Allowed(l) /\ Allowed(l) \in Nat
    BY <1>1, SaleNumbers DEF Allowed
  <2> QED BY <2>1
<1> QED BY <1>1, <1>2, SalesElsewhere

\* The end of a process may cost what it has reported and not yet written.
LEMMA SalesCrash ==
  ASSUME IInv, NEW l \in Listing, SalesPaid(l), NEW s \in Session, Crash(s)
  PROVE  SalesPaid(l)'
<1>1. /\ "idle" \notin Unwritten /\ pc' = [pc EXCEPT ![s] = "idle"] /\ pc'[s] = "idle"
      /\ \A t \in Session \ {s} : /\ base'[t] = base[t] /\ current'[t] = current[t]
                                  /\ pending'[t] = pending[t] /\ pc'[t] = pc[t]
      /\ snapshot' = snapshot /\ last' = last /\ shop' = shop /\ history' = history
      /\ left' = left /\ gaps' = gaps /\ overlaps' = overlaps
  BY DEF Crash, Forget, Unwritten, counts, files, world, IInv, TypeOK
<1>2. Allowed(l)' = Allowed(l) + 1 /\ 1 \in 0..1
  <2>1. Total(crashes') = Total(crashes) + 1 /\ Total(crashes) \in Nat /\ overlaps \in Nat
    BY CrashCounts, CostsInNat
  <2>2. left[l] \in Nat /\ gaps \in Nat
    BY RecorderConstantsOK DEF IInv, TypeOK
  <2>3. Allowed(l)' = left[l] + gaps + Total(crashes') + 3 * overlaps
    BY <1>1 DEF Allowed
  <2> QED BY <2>1, <2>2, <2>3 DEF Allowed
<1>3. CASE pc[s] \in Unwritten
  <2>1. Working' = Working \ {s}
    BY <1>1, WorkingAfter
  <2>2. Removed(l)' = Removed(l) /\ Reporting(l)' \subseteq Reporting(l)
    BY <1>1 DEF Removed, Reporting, Removal
  <2>3. Owed(snapshot, l)' <= Owed(current[s], l) + 1
    BY DEF Owed
  <2> QED BY <1>2, <1>3, <2>1, <2>2, <2>3, SalesEnd
<1>4. CASE pc[s] \notin Unwritten
  BY <1>1, <1>2, <1>4, SalesElsewhere
<1> QED BY <1>3, <1>4

LEMMA InitSInv == Init => SInv
<1> SUFFICES ASSUME Init PROVE SInv
  OBVIOUS
<1>1. PInv /\ IInv
  BY InitPInv DEF PInv
<1>2. ASSUME NEW l \in Listing PROVE SalesPaid(l)
  <2>1. Removal(l) \in Event
    BY <1>1, SaleNumbers
  <2>2. [s \in Session |-> history[s][Removal(l)]] = [s \in Session |-> 0]
    BY <2>1 DEF Init, NoUnits
  <2>3. Removed(l) = 0
    BY <2>2, TotalOfNone DEF Removed
  <2>4. Working = {} /\ Owed(snapshot, l) = 0
    BY DEF Init, Working, Unwritten, Owed
  <2>5. Allowed(l) \in Nat
    BY <1>1, SaleNumbers
  <2> QED BY <2>3, <2>4, <2>5 DEF SalesPaid
<1> QED BY <1>1, <1>2 DEF SInv

LEMMA NextSInv == SInv /\ [Next]_vars => SInv'
<1> SUFFICES ASSUME SInv, [Next]_vars PROVE SInv'
  OBVIOUS
<1>1. PInv' /\ PInv /\ IInv
  BY NextPInv DEF SInv, PInv
<1>2. ASSUME NEW l \in Listing PROVE SalesPaid(l)'
  <2>1. SalesPaid(l)
    BY DEF SInv
  <2>2. CASE UNCHANGED vars
    <3>1. /\ Removed(l)' = Removed(l) /\ Reporting(l)' = Reporting(l) /\ Working' = Working
          /\ Allowed(l)' = Allowed(l) /\ Owed(snapshot, l)' = Owed(snapshot, l)
      BY <2>2 DEF vars, files, local, ghosts, world, counts, Removed, Removal, Reporting,
         Working, Allowed, Owed
    <3>2. \A s \in Session : /\ Solo(s)' <=> Solo(s)
                             /\ ToReport(s, l)' = ToReport(s, l)
                             /\ Owed(current[s], l)' = Owed(current[s], l)
      BY <2>2 DEF vars, files, local, ghosts, world, counts, Solo, Coherent, Working, ToReport,
         Owed, Removal
    <3> QED BY <2>1, <3>1, <3>2 DEF SalesPaid
  <2>3. ASSUME NEW s \in Session, Record(s) PROVE SalesPaid(l)'
    BY <1>1, <2>1, <2>3, SalesIngest, SalesBegin, SalesAppendEvent, SalesQuiet, SalesWrite,
       SalesSeeded, SalesCrash DEF Record
  <2> QED BY <1>1, <2>1, <2>2, <2>3, SalesTrade DEF Next
<1> QED BY <1>1, <1>2 DEF SInv

\* The history shows a listing as sold only when it has left the shop, or a read
\* passed it over, or a recording ended early or overlapped, and no more often,
\* for any sessions and however their steps mix with what the shop does.
THEOREM SalesCorrect == Spec => []SalesAreReal
<1>1. ASSUME SInv, NEW l \in Listing PROVE Removed(l) <= Allowed(l)
  <2>1. IInv /\ SalesPaid(l)
    BY <1>1 DEF SInv, PInv
  <2>2. /\ Removed(l) \in Nat /\ Allowed(l) \in Nat /\ Cardinality(Reporting(l)) \in Nat
        /\ \A s \in Session : ToReport(s, l) \in 0..1
        /\ \A inv : Owed(inv, l) \in 0..1
    BY <2>1, SaleNumbers
  <2>3. CASE Removed(l) + Cardinality(Reporting(l)) + 1 <= Allowed(l)
    BY <2>2, <2>3
  <2>4. CASE Removed(l) + Owed(snapshot, l) <= Allowed(l)
    <3>1. Owed(snapshot, l) \in 0..1
      BY <2>2
    <3> QED BY <2>2, <2>4, <3>1
  <2>5. ASSUME NEW s \in Session, Removed(l) + ToReport(s, l) + Owed(current[s], l) <= Allowed(l)
        PROVE  Removed(l) <= Allowed(l)
    <3>1. ToReport(s, l) \in 0..1 /\ Owed(current[s], l) \in 0..1
      BY <2>2
    <3> QED BY <2>2, <2>5, <3>1
  <2> QED BY <2>1, <2>3, <2>4, <2>5 DEF SalesPaid
<1>2. SInv => SalesAreReal
  BY <1>1 DEF SalesAreReal, Removed, Removal, Allowed
<1> QED
  BY <1>2, InitSInv, NextSInv, PTL DEF Spec

=============================================================================
