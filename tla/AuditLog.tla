------------------------------ MODULE AuditLog ------------------------------
(***************************************************************************)
(* audit/store.py: the JSONL audit log, its rotation by renaming, and the  *)
(* hash chain over its lines.                                              *)
(*                                                                         *)
(* Every component builds an AuditLogStore of its own over the same path,  *)
(* and several processes may append.  An append looks at the size of the   *)
(* active file, perhaps unlinks and renames a row of files one by one,     *)
(* reads the last line for the chain, and writes one line: other writers,  *)
(* and the end of the process, come between any two of these.  A rename    *)
(* replaces the file it comes to, as POSIX has it, and the write of one    *)
(* line is taken to be atomic.  A record is known by its number, in the    *)
(* order of writing; its hash is taken to be as good as its number.        *)
(***************************************************************************)
EXTENDS Naturals, Sequences, FiniteSets

CONSTANTS
  Writer,
  Keep,             \* audit_log_rotation_keep
  MaxLines,         \* audit_log_max_bytes, in lines
  Genesis,          \* AUDIT_CHAIN_GENESIS_PREV
  MaxRecords,       \* bound: appends that are modelled
  MaxCrashes        \* bound: ends of a process inside an append

ASSUME AuditConstantsOK ==
  /\ Keep \in Nat \ {0} /\ MaxLines \in Nat \ {0}
  /\ MaxRecords \in Nat /\ MaxCrashes \in Nat
  /\ Genesis \notin Nat

VARIABLES
  file,      \* file[0] is the active file, file[i] the rotated one of index i;
             \* a file that does not exist is empty
  pc,        \* where each writer is in its append
  index,     \* the file that its rotation has come to
  tip,       \* the hash it has read for the chain
  written,   \* records written so far
  crashes    \* processes that ended inside an append

vars == <<file, pc, index, tip, written, crashes>>

Record == [id: 1..MaxRecords, prev: 1..MaxRecords \cup {Genesis}]
Active == 0

TypeOK ==
  /\ file \in [0..Keep -> Seq(Record)]
  /\ pc \in [Writer -> {"idle", "unlink", "rename", "tip", "write"}]
  /\ index \in [Writer -> 0..(Keep - 1)]
  /\ tip \in [Writer -> 1..MaxRecords \cup {Genesis}]
  /\ written \in 0..MaxRecords
  /\ crashes \in 0..MaxCrashes

Init ==
  /\ file = [i \in 0..Keep |-> <<>>]
  /\ pc = [w \in Writer |-> "idle"]
  /\ index = [w \in Writer |-> 0]
  /\ tip = [w \in Writer |-> Genesis]
  /\ written = 0
  /\ crashes = 0

Goto(w, point) == pc' = [pc EXCEPT ![w] = point]

-----------------------------------------------------------------------------
\* Variant for mutation: the range of the loop starts one file too early and
\* never makes room for the oldest.
AppendSkipOldest(w) ==
  /\ pc[w] = "idle"
  /\ written < MaxRecords
  /\ IF Len(file[Active]) < MaxLines
     THEN Goto(w, "tip") /\ UNCHANGED index
     ELSE /\ Goto(w, "unlink")
          /\ index' = [index EXCEPT ![w] = IF Keep > 1 THEN Keep - 2 ELSE 0]
  /\ UNCHANGED <<file, tip, written, crashes>>

\* Variant for mutation: the range of the loop starts one file too late.
AppendFromKeep(w) ==
  /\ pc[w] = "idle"
  /\ written < MaxRecords
  /\ IF Len(file[Active]) < MaxLines
     THEN Goto(w, "tip") /\ UNCHANGED index
     ELSE Goto(w, "unlink") /\ index' = [index EXCEPT ![w] = Keep]
  /\ UNCHANGED <<file, tip, written, crashes>>

\* _maybe_rotate looks at the size of the active file.
BeginAppend(w) ==
  /\ pc[w] = "idle"
  /\ written < MaxRecords
  /\ IF Len(file[Active]) < MaxLines
     THEN Goto(w, "tip") /\ UNCHANGED index
     ELSE Goto(w, "unlink") /\ index' = [index EXCEPT ![w] = Keep - 1]
  /\ UNCHANGED <<file, tip, written, crashes>>

\* Variant for mutation: the file that is to be moved is unlinked.
UnlinkSource(w) ==
  /\ pc[w] = "unlink"
  /\ file' = [file EXCEPT ![index[w]] = <<>>]
  /\ Goto(w, "rename")
  /\ UNCHANGED <<index, tip, written, crashes>>

\* One round of the rotation makes room in the file above ...
Unlink(w) ==
  /\ pc[w] = "unlink"
  /\ file' = [file EXCEPT ![index[w] + 1] = <<>>]
  /\ Goto(w, "rename")
  /\ UNCHANGED <<index, tip, written, crashes>>

\* rename(from, to), which fails silently if from is missing.
Move(from, to) ==
  IF file[from] = <<>> THEN UNCHANGED file
  ELSE file' = [file EXCEPT ![to] = file[from], ![from] = <<>>]

\* ... and moves the file there; the last one to be moved is the active file.
Rename(w) ==
  /\ pc[w] = "rename"
  /\ Move(index[w], index[w] + 1)
  /\ IF index[w] = Active
     THEN Goto(w, "tip") /\ UNCHANGED index
     ELSE Goto(w, "unlink") /\ index' = [index EXCEPT ![w] = @ - 1]
  /\ UNCHANGED <<tip, written, crashes>>

\* Variant for mutation: the chain goes on over a rotation.
ReadTipAcrossFiles(w) ==
  /\ pc[w] = "tip"
  /\ tip' = [tip EXCEPT ![w] = IF written = 0 THEN Genesis ELSE written]
  /\ Goto(w, "write")
  /\ UNCHANGED <<file, index, written, crashes>>

\* _read_last_chain_tip: the chain starts anew in an empty file.
ReadTip(w) ==
  /\ pc[w] = "tip"
  /\ tip' = [tip EXCEPT ![w] =
       IF file[Active] = <<>> THEN Genesis ELSE file[Active][Len(file[Active])].id]
  /\ Goto(w, "write")
  /\ UNCHANGED <<file, index, written, crashes>>

WriteLine(w) ==
  /\ pc[w] = "write"
  /\ written < MaxRecords
  /\ written' = written + 1
  /\ file' = [file EXCEPT ![Active] = Append(@, [id |-> written', prev |-> tip[w]])]
  /\ Goto(w, "idle")
  /\ UNCHANGED <<index, tip, crashes>>

\* The process of a writer ends, and a new one takes its place.
Crash(w) ==
  /\ pc[w] # "idle"
  /\ crashes < MaxCrashes
  /\ crashes' = crashes + 1
  /\ Goto(w, "idle")
  /\ UNCHANGED <<file, index, tip, written>>

Next ==
  \E w \in Writer :
    BeginAppend(w) \/ Unlink(w) \/ Rename(w) \/ ReadTip(w) \/ WriteLine(w) \/ Crash(w)

Spec == Init /\ [][Next]_vars

-----------------------------------------------------------------------------
\* Each line names the line before it, and the first line of a file the
\* genesis: a reader who checks a file finds no trace of tampering
\* ("Tamper-evident chained hash over audit lines", config/settings.py).
ChainHolds ==
  \A i \in 0..Keep : \A k \in 1..Len(file[i]) :
    file[i][k].prev = (IF k = 1 THEN Genesis ELSE file[i][k - 1].id)

Retained == UNION {{file[i][k].id : k \in 1..Len(file[i])} : i \in 0..Keep}

\* What is kept are the latest records, without a gap, wherever a process ended:
\* nothing but the oldest file is ever dropped.
LatestAreKept == written > 0 => \E r \in 1..written : Retained = r..written

\* The newest record is never lost ("Append-only JSONL audit log").
NewestIsKept == written > 0 => written \in Retained

\* As long as no process ends inside an append, a full set of rotated files is
\* kept.
EnoughIsKept ==
  crashes = 0 =>
    Cardinality(Retained) >= (IF written < Keep * MaxLines THEN written ELSE Keep * MaxLines)

=============================================================================
