-------------------------- MODULE MovementRecorder --------------------------
(***************************************************************************)
(* services/inventory_movement_recorder.py: what has changed between two   *)
(* ingests, as events of the operational history.                          *)
(*                                                                         *)
(* A session ingests the listings, which may pass over some of them, and   *)
(* then records: it compares them with the snapshot of the ingest before,  *)
(* appends one event after the other to the history, and writes the new    *)
(* snapshot over the old one.  Every session has a recorder of its own     *)
(* over the same two files, so that the steps of several recordings mix,   *)
(* and a process may end between any two of them.                          *)
(***************************************************************************)
EXTENDS Integers, FiniteSets, FiniteSetsExt

CONSTANTS
  Session,
  Listing,
  Absent,        \* a listing that is not there
  Torn,          \* a snapshot file that is missing, empty or spoilt
  Shops,         \* what the shop may have
  MaxSold,       \* bound: units sold of a listing
  MaxIngests,    \* bound: ingests that are modelled
  MaxMoves,      \* bound: changes of the shop
  MaxGaps,       \* bound: ingests that pass a listing over
  MaxCrashes     \* bound: ends of processes

\* What is kept of a listing: days_active >= 90, is_stale and sold_90d.
Signal == [old: BOOLEAN, stale: BOOLEAN, sold: 0..MaxSold]
Inventory == [Listing -> Signal \cup {Absent}]

ASSUME RecorderConstantsOK ==
  /\ MaxSold \in Nat /\ MaxIngests \in Nat /\ MaxMoves \in Nat /\ MaxGaps \in Nat
  /\ MaxCrashes \in Nat
  /\ IsFiniteSet(Session)
  /\ Shops \subseteq Inventory
  /\ Absent \notin Signal /\ Torn \notin Inventory

VARIABLES
  shop,       \* what is for sale
  snapshot,   \* the snapshot file
  pc,         \* where each session is
  base,       \* the snapshot it has read
  current,    \* the listings it has ingested
  pending,    \* events it is still to append
  history,    \* the units of each event that it has appended
  due,        \* history: the units of what its snapshots have changed
  slips,      \* history: its snapshots that took the place of another than base
  crashes,    \* history: how often its process has ended
  last,       \* history: the latest snapshot that was complete
  left,       \* history: how often each listing has gone from the shop
  ingests, moves, gaps,
  overlaps    \* history: ingests begun while another session was at work

files  == <<snapshot, last>>
local  == <<base, current, pending>>
ghosts == <<due, slips, crashes>>
world  == <<shop, left, moves>>
counts == <<ingests, gaps, overlaps>>
vars == <<pc, files, local, history, ghosts, world, counts>>

Movement == {"listing_created", "listing_removed", "stale_crossed_90d",
             "stale_cleared", "sold_quantity_increased"}
Event == Movement \X Listing

TypeOK ==
  /\ shop \in Inventory /\ snapshot \in Inventory \cup {Torn} /\ last \in Inventory \cup {Torn}
  /\ pc \in [Session -> {"idle", "loaded", "append", "truncate", "write",
                         "seed", "seedwrite", "seeded"}]
  /\ base \in [Session -> Inventory \cup {Torn}] /\ current \in [Session -> Inventory]
  /\ pending \in [Session -> SUBSET Event]
  /\ history \in [Session -> [Event -> Nat]] /\ due \in [Session -> [Event -> Nat]]
  /\ slips \in [Session -> Nat] /\ crashes \in [Session -> 0..MaxCrashes]
  /\ left \in [Listing -> Nat]
  /\ ingests \in 0..MaxIngests /\ moves \in 0..MaxMoves /\ gaps \in 0..MaxGaps
  /\ overlaps \in Nat

Nowhere == [l \in Listing |-> Absent]
NoUnits == [e \in Event |-> 0]

Init ==
  /\ shop \in Shops
  /\ snapshot = Torn /\ last = Torn
  /\ pc = [s \in Session |-> "idle"]
  /\ base = [s \in Session |-> Torn] /\ current = [s \in Session |-> Nowhere]
  /\ pending = [s \in Session |-> {}]
  /\ history = [s \in Session |-> NoUnits] /\ due = [s \in Session |-> NoUnits]
  /\ slips = [s \in Session |-> 0] /\ crashes = [s \in Session |-> 0]
  /\ left = [l \in Listing |-> 0]
  /\ ingests = 0 /\ moves = 0 /\ gaps = 0 /\ overlaps = 0

-----------------------------------------------------------------------------
\* Variant for mutation: a figure that went down is a movement too.
UnitsSigned(m, p, c) ==
  IF m = "sold_quantity_increased" /\ p # Absent /\ c # Absent THEN c.sold - p.sold ELSE 0

\* Variant for mutation: the difference of the two sets is taken the wrong way.
UnitsSwapped(m, p, c) ==
  IF \/ m = "listing_removed" /\ p = Absent /\ c # Absent
     \/ m = "listing_created" /\ p # Absent /\ c = Absent
  THEN 1 ELSE 0

\* The units an event of kind m has for a listing that was p and is c.
Units(m, p, c) ==
  IF p = Absent \/ c = Absent
  THEN IF \/ m = "listing_created" /\ p = Absent /\ c # Absent
          \/ m = "listing_removed" /\ p # Absent /\ c = Absent
       THEN 1 ELSE 0
  ELSE IF \/ m = "stale_crossed_90d" /\ ~p.old /\ c.old
          \/ m = "stale_cleared" /\ p.stale /\ ~c.stale
       THEN 1
       ELSE IF m = "sold_quantity_increased" /\ c.sold > p.sold THEN c.sold - p.sold ELSE 0

UnitsOf(e, from, to) == Units(e[1], from[e[2]], to[e[2]])
Changes(from, to) == {e \in Event : UnitsOf(e, from, to) # 0}

\* New listings first, then removed ones, then the listings that stayed, each
\* with its crossing, its clearing and its sales in that order.
Before(e, f) ==
  \/ e[1] = "listing_created" /\ f[1] # "listing_created"
  \/ e[1] = "listing_removed" /\ f[1] \notin {"listing_created", "listing_removed"}
  \/ e[2] = f[2] /\ e[1] = "stale_crossed_90d"
       /\ f[1] \in {"stale_cleared", "sold_quantity_increased"}
  \/ e[2] = f[2] /\ e[1] = "stale_cleared" /\ f[1] = "sold_quantity_increased"

Step(s, from, to) == pc[s] = from /\ pc' = [pc EXCEPT ![s] = to]
Forget(s) ==
  /\ base' = [base EXCEPT ![s] = Torn]
  /\ current' = [current EXCEPT ![s] = Nowhere]
  /\ pending' = [pending EXCEPT ![s] = {}]

\* A listing is listed, sold, ended or looks different.
Trade ==
  /\ moves < MaxMoves /\ moves' = moves + 1
  /\ shop' \in Shops
  /\ left' = [l \in Listing |-> left[l] + IF shop[l] # Absent /\ shop'[l] = Absent THEN 1 ELSE 0]
  /\ UNCHANGED <<pc, files, local, history, ghosts, counts>>

\* load_listings of the orchestrator reads the listings; a read that is partial,
\* or passes an item over, has fewer than there are.
Ingest(s) ==
  /\ Step(s, "idle", "loaded")
  /\ ingests < MaxIngests /\ ingests' = ingests + 1
  /\ \E passed \in SUBSET {l \in Listing : shop[l] # Absent} :
       /\ gaps + (IF passed = {} THEN 0 ELSE 1) <= MaxGaps
       /\ gaps' = gaps + IF passed = {} THEN 0 ELSE 1
       /\ current' = [current EXCEPT ![s] = [l \in Listing |->
                                               IF l \in passed THEN Absent ELSE shop[l]]]
  /\ overlaps' = overlaps + IF \E t \in Session \ {s} : pc[t] # "idle" THEN 1 ELSE 0
  /\ UNCHANGED <<files, base, pending, history, ghosts, world>>

\* Variant for mutation: a snapshot without a listing counts as none.
BeginColdWhenEmpty(s) ==
  LET seen == IF snapshot = Nowhere THEN Torn ELSE snapshot
  IN  /\ Step(s, "loaded", IF seen = Torn THEN "seed" ELSE "append")
      /\ base' = [base EXCEPT ![s] = seen]
      /\ pending' = [pending EXCEPT ![s] = IF seen = Torn THEN {} ELSE Changes(seen, current[s])]
      /\ UNCHANGED <<files, current, history, ghosts, world, counts>>

\* record_after_ingest reads the snapshot; without one the start is cold.
Begin(s) ==
  /\ Step(s, "loaded", IF snapshot = Torn THEN "seed" ELSE "append")
  /\ base' = [base EXCEPT ![s] = snapshot]
  /\ pending' = [pending EXCEPT ![s] = IF snapshot = Torn THEN {} ELSE Changes(snapshot, current[s])]
  /\ UNCHANGED <<files, current, history, ghosts, world, counts>>

AppendEvent(s) ==
  /\ Step(s, "append", "append")
  /\ \E e \in pending[s] :
       /\ \A f \in pending[s] : ~Before(f, e)
       /\ history' = [history EXCEPT ![s][e] = @ + UnitsOf(e, base[s], current[s])]
       /\ pending' = [pending EXCEPT ![s] = @ \ {e}]
  /\ UNCHANGED <<files, base, current, ghosts, world, counts>>

\* Variant for mutation: the snapshot is replaced when an append has failed, too.
AppendSyncedAnyway(s) ==
  /\ Step(s, "append", "truncate")
  /\ UNCHANGED <<files, local, history, ghosts, world, counts>>

\* listing_synced, the event of the ingest itself, which is not counted here.
AppendSynced(s) ==
  /\ Step(s, "append", "truncate")
  /\ pending[s] = {}
  /\ UNCHANGED <<files, local, history, ghosts, world, counts>>

\* write_text opens the file, which empties it, and then writes.
Truncate(s) ==
  /\ Step(s, "truncate", "write") \/ Step(s, "seed", "seedwrite")
  /\ snapshot' = Torn
  /\ UNCHANGED <<last, local, history, ghosts, world, counts>>

\* Variant for mutation: the new snapshot is merged into the old one.
SnapshotOfMerged(s) ==
  [l \in Listing |-> IF current[s][l] = Absent /\ base[s] # Torn THEN base[s][l] ELSE current[s][l]]

SnapshotOf(s) == current[s]

\* What is written.  The file is spoilt if another session has written since it
\* was emptied, and wrote more.  What the new snapshot changes of the latest one
\* is due by now; it is a slip if the session had compared with another.
WriteSnapshot(s) ==
  \/ /\ snapshot' = SnapshotOf(s) /\ last' = SnapshotOf(s)
     /\ due' = IF last = Torn THEN due
               ELSE [due EXCEPT ![s] = [e \in Event |-> @[e] + UnitsOf(e, last, SnapshotOf(s))]]
     /\ slips' = [slips EXCEPT ![s] = @ + IF base[s] = last THEN 0 ELSE 1]
  \/ /\ snapshot # Torn
     /\ snapshot' = Torn
     /\ slips' = [slips EXCEPT ![s] = @ + 1]
     /\ UNCHANGED <<last, due>>

Write(s) ==
  /\ Step(s, "write", "idle") /\ Forget(s)
  /\ WriteSnapshot(s)
  /\ UNCHANGED <<history, crashes, world, counts>>

\* A cold start writes the snapshot, and appends only the event of the ingest.
Seed(s) ==
  /\ Step(s, "seedwrite", "seeded")
  /\ WriteSnapshot(s)
  /\ UNCHANGED <<local, history, crashes, world, counts>>

Seeded(s) ==
  /\ Step(s, "seeded", "idle") /\ Forget(s)
  /\ UNCHANGED <<files, history, ghosts, world, counts>>

\* The process ends, and the next ingest finds the files as they are.
Crash(s) ==
  /\ pc[s] # "idle" /\ pc' = [pc EXCEPT ![s] = "idle"] /\ Forget(s)
  /\ crashes[s] < MaxCrashes /\ crashes' = [crashes EXCEPT ![s] = @ + 1]
  /\ UNCHANGED <<files, history, due, slips, world, counts>>

Record(s) ==
  \/ Ingest(s) \/ Begin(s) \/ AppendEvent(s) \/ AppendSynced(s)
  \/ Truncate(s) \/ Write(s) \/ Seed(s) \/ Seeded(s) \/ Crash(s)

Next == Trade \/ \E s \in Session : Record(s)

Spec == Init /\ [][Next]_vars

-----------------------------------------------------------------------------
\* The most units that one event may have.
Most(e) == IF e[1] = "sold_quantity_increased" THEN MaxSold ELSE 1

\* What a session changes of the snapshot it has reported before, with all its
\* units, wherever it ended and whatever the others did: only a slip, a snapshot
\* that takes the place of one the session did not see, can hide a movement.
NothingUnreported ==
  \A s \in Session : \A e \in Event : history[s][e] + slips[s] * Most(e) >= due[s][e]

\* A movement is reported again only after a process ended or a slip, and once
\* for each: the history does not drift away from the snapshots otherwise.
NothingRepeated ==
  \A s \in Session : pc[s] = "idle" =>
    \A e \in Event : history[s][e] <= due[s][e] + (crashes[s] + slips[s]) * Most(e)

Total(count) == MapThenSumSet(LAMBDA s : count[s], Session)

\* Slips have a cause: the end of a process costs one, the cold start after a
\* snapshot it left empty, and two recordings at once cost three at most, one
\* each and the cold start after a snapshot they spoilt together.
SlipsHaveCause == Total(slips) <= Total(crashes) + 3 * overlaps

\* A listing is reported as sold when it has gone, or was passed over by a read,
\* or as often as recordings ended early or overlapped.
SalesAreReal ==
  \A l \in Listing :
    Total([s \in Session |-> history[s][<<"listing_removed", l>>]])
      <= left[l] + gaps + Total(crashes) + 3 * overlaps

=============================================================================
