-------------------------- MODULE OutcomeLinksProofs --------------------------
(***************************************************************************)
(* Theorems about the links from outcomes to earlier actions, for any      *)
(* history, however late its lines come, and any window.  A link is the    *)
(* choice of the latest of some lines; that there is one is what the       *)
(* proofs need of the choice, and that there is only one.                  *)
(***************************************************************************)
EXTENDS OutcomeLinks, FiniteSetTheorems, WellFoundedInduction, TLAPS

\* The history is a sequence of events, none of them after now.
Typed ==
  /\ history \in Seq(Event) /\ now \in 0..MaxTime
  /\ \A i \in DOMAIN history : At(i) <= now

LEMMA InSeq == ASSUME NEW S, NEW s \in Seq(S) PROVE \A i \in DOMAIN s : s[i] \in S
OBVIOUS

LEMMA Lines ==
  ASSUME Typed
  PROVE  /\ DOMAIN history = 1..Len(history) /\ Len(history) \in Nat /\ now \in Int
         /\ \A i \in DOMAIN history : At(i) \in Int
<1>1. \A i \in DOMAIN history : history[i] \in Event
  BY InSeq DEF Typed
<1>2. \A i \in DOMAIN history : history[i].at \in 0..MaxTime
  BY <1>1 DEF Event
<1> QED BY <1>2, AttributionConstantsOK DEF Typed, At

\* What a new line leaves of the history.
LEMMA NewLine ==
  ASSUME Typed, NEW e, history' = Append(history, e)
  PROVE  LET new == Len(history) + 1
         IN  /\ Len(history') = new /\ history'[new] = e
             /\ DOMAIN history' = DOMAIN history \cup {new} /\ new \notin DOMAIN history
             /\ \A i \in DOMAIN history : history'[i] = history[i]
BY DEF Typed

LEMMA HistoryTyped == Spec => []Typed
<1> USE AttributionConstantsOK
<1>1. Init => Typed
  BY DEF Init, Typed
<1>2. Typed /\ [Next]_vars => Typed'
  <2> SUFFICES ASSUME Typed, [Next]_vars PROVE Typed'
    OBVIOUS
  <2>1. CASE AppendEvent
    <3>1. PICK e \in Event : e.at <= now /\ history' = Append(history, e)
      BY <2>1 DEF AppendEvent
    <3>2. now' = now /\ history' \in Seq(Event)
      BY <2>1, <3>1 DEF AppendEvent, Typed
    <3>3. \A i \in DOMAIN history' : history'[i].at <= now
      BY <3>1, NewLine DEF Typed, At
    <3> QED BY <3>2, <3>3 DEF Typed, At
  <2>2. CASE Tick
    <3>1. history' = history /\ now' = now + 1 /\ now' \in 0..MaxTime
      BY <2>2 DEF Tick, Typed
    <3>2. \A i \in DOMAIN history : At(i) \in Int /\ At(i) <= now
      BY Lines DEF Typed
    <3>3. \A i \in DOMAIN history' : At(i)' <= now'
      BY <3>1, <3>2, Lines DEF At
    <3> QED BY <3>1, <3>3 DEF Typed
  <2>3. CASE UNCHANGED vars
    BY <2>3 DEF vars, Typed, At
  <2> QED BY <2>1, <2>2, <2>3 DEF Next
<1> QED BY <1>1, <1>2, PTL DEF Spec

-----------------------------------------------------------------------------
(* The latest of some lines. *)

\* i is later than j, or at the same time and earlier in the file.
AtLeast(i, j) == At(j) < At(i) \/ (At(j) = At(i) /\ i <= j)

\* A set of finite sets that is not empty has a member with no other inside.
LEMMA SmallestMember ==
  ASSUME NEW S, IsFiniteSet(S), NEW F \in SUBSET (SUBSET S), F # {}
  PROVE  \E U \in F : \A V \in F : V \subseteq U => V = U
<1> DEFINE R == StrictSubsetOrdering(S)
<1>1. IsWellFoundedOn(R, FiniteSubsetsOf(S))
  BY FS_StrictSubsetOrderingWellFounded
<1>2. FiniteSubsetsOf(S) = SUBSET S
  BY FS_FiniteSubsetsOfFinite
<1> HIDE DEF R
<1>3. PICK U \in F : \A V \in F : ~(<<V, U>> \in R)
  BY <1>1, <1>2, WFMin
<1>4. ASSUME NEW V \in F, V \subseteq U PROVE V = U
  <2>1. V # U => <<V, U>> \in R
    BY <1>4 DEF R, StrictSubsetOrdering
  <2> QED BY <1>3, <2>1
<1> QED BY <1>4

LEMMA LatestThere ==
  ASSUME Typed, NEW C \in SUBSET DOMAIN history, C # {}
  PROVE  \E i \in C : \A j \in C : AtLeast(i, j)
<1> DEFINE From(c) == {d \in C : AtLeast(d, c)}
           F == {From(c) : c \in C}
<1>1. /\ \A i \in C : i \in Int /\ At(i) \in Int
      /\ IsFiniteSet(C)
  <2>1. IsFiniteSet(1..Len(history))
    BY Lines, FS_Interval
  <2> QED BY <2>1, Lines, FS_Subset
<1>2. PICK U \in F : \A V \in F : V \subseteq U => V = U
  <2>1. F \in SUBSET (SUBSET C) /\ F # {}
    OBVIOUS
  <2> HIDE DEF F
  <2> QED BY <1>1, <2>1, SmallestMember
<1>3. PICK c \in C : U = From(c)
  OBVIOUS
<1>4. ASSUME NEW d \in C PROVE AtLeast(c, d)
  <2> SUFFICES ASSUME ~AtLeast(c, d) PROVE FALSE
    OBVIOUS
  <2>1. \A e \in C : AtLeast(e, d) => AtLeast(e, c)
    BY <1>1 DEF AtLeast
  <2>2. AtLeast(c, c)
    BY <1>1 DEF AtLeast
  <2>3. From(d) \subseteq From(c) /\ c \in From(c) /\ c \notin From(d)
    BY <2>1, <2>2
  <2> QED BY <1>2, <1>3, <2>3
<1> QED BY <1>4

\* The latest of some lines is the only one that is at least each of them.
IsLatest(C) ==
  /\ Latest(C) \in C
  /\ \A j \in C : AtLeast(Latest(C), j)
  /\ \A i \in C : (\A j \in C : AtLeast(i, j)) => i = Latest(C)

LEMMA LatestIsLatest == Typed => \A C \in SUBSET DOMAIN history : C # {} => IsLatest(C)
<1> SUFFICES ASSUME Typed, NEW C \in SUBSET DOMAIN history, C # {} PROVE IsLatest(C)
  OBVIOUS
<1> DEFINE First(i) == \A j \in C : AtLeast(i, j)
<1>1. \E i \in C : First(i)
  BY LatestThere
<1>2. Latest(C) = CHOOSE i \in C : First(i)
  BY DEF Latest, AtLeast
<1>3. ASSUME NEW i \in C, NEW k \in C, First(i), First(k) PROVE i = k
  <2>1. i \in Int /\ k \in Int /\ At(i) \in Int /\ At(k) \in Int
    BY Lines
  <2>2. AtLeast(i, k) /\ AtLeast(k, i)
    BY <1>3
  <2> QED BY <2>1, <2>2 DEF AtLeast
<1> HIDE DEF First
<1>4. Latest(C) \in C /\ First(Latest(C))
  BY <1>1, <1>2
<1>5. \A i \in C : First(i) => i = Latest(C)
  BY <1>3, <1>4
<1> QED BY <1>4, <1>5 DEF IsLatest, First

LEMMA LatestIsLatestLater ==
  Typed' => (\A C \in SUBSET DOMAIN history : C # {} => IsLatest(C))'
BY LatestIsLatest, PTL

-----------------------------------------------------------------------------
(* What a new line leaves of a link. *)

Rest(o) == Candidates(o) \ {Primary(o)}
Second(o) == Latest(Rest(o))

\* The line that a link names, and the next one, which decides whether it is
\* ambiguous: each is the first of its set in the order of AtLeast.
Chosen(o) ==
  /\ Candidates(o) \subseteq DOMAIN history
  /\ Candidates(o) # {} =>
       Primary(o) \in Candidates(o) /\ \A j \in Candidates(o) : AtLeast(Primary(o), j)
  /\ Rest(o) # {} => Second(o) \in Rest(o) /\ \A j \in Rest(o) : AtLeast(Second(o), j)

LEMMA LinkChosen == Typed => \A o : Chosen(o)
<1> SUFFICES ASSUME Typed, NEW o PROVE Chosen(o)
  OBVIOUS
<1>1. Candidates(o) \in SUBSET DOMAIN history
  BY DEF Candidates
<1>2. Rest(o) \in SUBSET DOMAIN history
  BY <1>1 DEF Rest
<1> QED BY <1>1, <1>2, LatestIsLatest DEF Chosen, IsLatest, Primary, Second

LEMMA LinkChosenLater == Typed' => (\A o : Chosen(o))'
BY LinkChosen, PTL

LEMMA OnlyOneFirst ==
  ASSUME Typed, NEW C \in SUBSET DOMAIN history, NEW i \in C, NEW k \in C,
         AtLeast(i, k), AtLeast(k, i)
  PROVE  i = k
<1>1. i \in Int /\ k \in Int /\ At(i) \in Int /\ At(k) \in Int
  BY Lines
<1> QED BY <1>1 DEF AtLeast

\* The line of an action that an outcome may be linked to.
Eligible(e, o) ==
  /\ e.what \in Prior /\ e.listing = history[o].listing
  /\ e.at < At(o) /\ At(o) - e.at <= Window

\* Any other line leaves the link alone.
LEMMA LinkKept ==
  ASSUME Typed, Typed', NEW e, history' = Append(history, e),
         NEW o \in DOMAIN history, e \in Event, ~Eligible(e, o)
  PROVE  Link(o)' = Link(o)
<1> DEFINE new == Len(history) + 1
<1>1. /\ history'[new] = e /\ DOMAIN history' = DOMAIN history \cup {new}
      /\ new \notin DOMAIN history /\ \A i \in DOMAIN history : history'[i] = history[i]
  BY NewLine
<1>2. \A i \in DOMAIN history : At(i)' = At(i)
  BY <1>1 DEF At
<1> HIDE DEF new
<1>3. Candidates(o)' = Candidates(o)
  <2>1. ASSUME NEW i \in DOMAIN history PROVE i \in Candidates(o)' <=> i \in Candidates(o)
    BY <1>1, <1>2 DEF Candidates, IsPrior
  <2>2. new \notin Candidates(o)'
    <3> SUFFICES ASSUME new \in Candidates(o)' PROVE FALSE
      OBVIOUS
    <3>1. /\ e.what \in Prior /\ e.listing = history'[o].listing
          /\ history'[o].at - Window <= e.at /\ e.at < history'[o].at
      BY <1>1 DEF Candidates, IsPrior, At
    <3>2. At(o) \in Int /\ e.at \in Int /\ Window \in Int /\ At(o) = history'[o].at
      BY <1>1, Lines, AttributionConstantsOK DEF Event, At
    <3>3. At(o) - e.at <= Window
      BY <3>1, <3>2
    <3> QED BY <1>1, <3>1, <3>2, <3>3 DEF Eligible
  <2>3. Candidates(o)' \subseteq DOMAIN history' /\ Candidates(o) \subseteq DOMAIN history
    BY DEF Candidates
  <2> QED BY <1>1, <2>1, <2>2, <2>3
<1>4. Chosen(o) /\ Chosen(o)'
  BY LinkChosen, LinkChosenLater
<1>5. \A i, j \in DOMAIN history : AtLeast(i, j)' <=> AtLeast(i, j)
  BY <1>2 DEF AtLeast
<1>6. CASE Candidates(o) = {}
  BY <1>3, <1>6 DEF Link, Linked
<1>7. CASE Candidates(o) # {}
  <2>1. /\ Candidates(o) \in SUBSET DOMAIN history
        /\ Primary(o) \in Candidates(o) /\ \A j \in Candidates(o) : AtLeast(Primary(o), j)
    BY <1>4, <1>7 DEF Chosen
  <2>2. Primary(o)' \in Candidates(o) /\ \A j \in Candidates(o) : AtLeast(Primary(o)', j)
    <3>1. /\ Primary(o)' \in Candidates(o)'
          /\ \A j \in Candidates(o)' : AtLeast(Primary(o), j)'
      BY <1>3, <1>4, <1>7 DEF Chosen
    <3> QED BY <1>2, <1>3, <2>1, <3>1 DEF AtLeast, At
  <2>3. Primary(o)' = Primary(o)
    BY <2>1, <2>2, OnlyOneFirst
  <2>4. Rest(o)' = Rest(o)
    BY <1>3, <2>3 DEF Rest
  <2>5. Ambiguous(o)' = Ambiguous(o)
    <3>1. CASE Rest(o) = {}
      BY <2>4, <3>1 DEF Ambiguous, Rest
    <3>2. CASE Rest(o) # {}
      <4>1. /\ Rest(o) \in SUBSET DOMAIN history
            /\ Second(o) \in Rest(o) /\ \A j \in Rest(o) : AtLeast(Second(o), j)
        BY <1>4, <2>1, <3>2 DEF Chosen, Rest
      <4>2. Second(o)' \in Rest(o) /\ \A j \in Rest(o) : AtLeast(Second(o)', j)
        <5>1. Second(o)' \in Rest(o)' /\ \A j \in Rest(o)' : AtLeast(Second(o), j)'
          BY <1>4, <2>4, <3>2 DEF Chosen
        <5> QED BY <1>2, <2>4, <4>1, <5>1 DEF AtLeast, At
      <4>3. Second(o)' = Second(o)
        BY <4>1, <4>2, OnlyOneFirst
      <4>4. At(Primary(o))' = At(Primary(o)) /\ At(Second(o))' = At(Second(o))
        BY <1>2, <2>1, <2>3, <4>1, <4>3 DEF At
      <4>5. Ambiguous(o) = (At(Primary(o)) - At(Second(o)) < Ambiguity)
        BY <3>2 DEF Ambiguous, Rest, Second
      <4>6. Ambiguous(o)' = (At(Primary(o))' - At(Second(o))' < Ambiguity)
        BY <2>4, <3>2 DEF Ambiguous, Rest, Second
      <4> QED BY <4>4, <4>5, <4>6
    <3> QED BY <3>1, <3>2
  <2> QED BY <1>3, <1>7, <2>3, <2>5 DEF Link, Linked
<1> QED BY <1>6, <1>7

\* One step of LinksStand.
Stands ==
  Len(history') > Len(history) =>
    \A o \in DOMAIN history :
      Link(o)' # Link(o) =>
        LET new == history'[Len(history')]
        IN  /\ new.what \in Prior /\ new.listing = history[o].listing
            /\ new.at < At(o) /\ At(o) - new.at <= Window

\* A link changes only when a line comes late, of an action on the listing before
\* its outcome and within the window; what happens with or after the outcome
\* never claims it, in any history (outcome_attribution.py:190).
THEOREM LinksCorrect == Spec => LinksStand
<1>1. Typed /\ Typed' /\ [Next]_vars => [Stands]_vars
  <2> SUFFICES ASSUME Typed, Typed', [Next]_vars, Len(history') > Len(history),
                      NEW o \in DOMAIN history, Link(o)' # Link(o)
               PROVE  Eligible(history'[Len(history')], o)
    BY DEF Stands, Eligible
  <2>1. AppendEvent
    BY Lines DEF Next, vars, Tick
  <2>2. PICK e \in Event : history' = Append(history, e)
    BY <2>1 DEF AppendEvent
  <2>3. history'[Len(history')] = e
    BY <2>2, NewLine
  <2> QED BY <2>2, <2>3, LinkKept
<1> QED BY <1>1, HistoryTyped, PTL DEF Spec, LinksStand, Stands

=============================================================================
