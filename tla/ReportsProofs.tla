----------------------------- MODULE ReportsProofs -----------------------------
(***************************************************************************)
(* What holds of the reports on live writes for every log of events, and   *)
(* of the advice on a price for every listing, market, age and cap.        *)
(*                                                                         *)
(* Most statements are about one state, so that the invariant needs to say *)
(* only of what kind the parts are; the arguments follow the layers of the *)
(* advice, one lemma for each.  That following the advice ends in the      *)
(* market is about the cuts of a whole behaviour: its invariant ties the   *)
(* ask of the pending row to the basis the row was given.  The latest      *)
(* attempts are what a loop lists: an induction over its rounds, by the    *)
(* least round that would go wrong.                                        *)
(***************************************************************************)
EXTENDS Reports, FiniteSetTheorems, TLAPS

Known == quality \in Quality /\ age \in Nat /\ cap \in 0..100

LEMMA KnownHolds == ListingSpec => []Known
<1>1. ListingInit => Known
  <2> SUFFICES ASSUME ListingInit PROVE Known
    OBVIOUS
  <2>1. PICK l \in Listings : ask = l.ask /\ quality = l.quality
    BY DEF ListingInit
  <2>2. l \in [ask: Nat, quality: Quality]
    BY <2>1, PriceConstantsOK
  <2>3. age \in Ages /\ cap \in Caps
    BY DEF ListingInit
  <2> QED
    BY <2>1, <2>2, <2>3, PriceConstantsOK DEF Known
<1>2. Known /\ [ListingNext]_listingVars => Known'
  <2> SUFFICES ASSUME Known, [ListingNext]_listingVars PROVE Known'
    OBVIOUS
  <2>1. CASE RunPipeline
    BY <2>1 DEF RunPipeline, Known
  <2>2. CASE FollowCut
    BY <2>2 DEF FollowCut, Known
  <2>3. CASE Improve
    BY <2>3 DEF Improve, Known, Quality
  <2>4. CASE Pass
    BY <2>4, PriceConstantsOK DEF Pass, Known
  <2>5. CASE UNCHANGED listingVars
    BY <2>5 DEF listingVars, Known
  <2> QED
    BY <2>1, <2>2, <2>3, <2>4, <2>5 DEF ListingNext
<1> QED
  BY <1>1, <1>2, PTL DEF ListingSpec

-----------------------------------------------------------------------------
(* The layers.                                                             *)

\* Dead stock has been offered a way out before: the path for it is not taken.
LEMMA NeverAgingRisk ==
  ASSUME NEW price, NEW q \in Quality, NEW day \in Nat, DeadAge >= 120
  PROVE  BaselinePath(price, q, day) # "AGING_RISK"
<1>1. q.watchers \in Nat
  BY DEF Quality
<1>2. RiskBase \in Nat /\ DeadAge \in Nat
  BY PriceConstantsOK
<1>3. ASSUME day >= 90, Dead(q, day)
      PROVE  day >= 120 /\ StaleRisk(q, day) > 1560 /\ q.watchers <= 1
  BY <1>1, <1>2, <1>3 DEF Dead, StaleRisk, Least
<1> QED
  BY <1>3 DEF BaselinePath

LEMMA EngagedPath ==
  ASSUME NEW price, NEW q \in Quality, NEW day \in Nat, NEW m, EngagedPremium(q, day)
  PROVE  MarketPath(BaselinePath(price, q, day), q, day, m) = "PREMIUM_PATIENCE"
<1>1. q.watchers \in Nat /\ q.watchers >= 2
  BY DEF Quality, EngagedPremium
<1>2. BaselinePath(price, q, day) = "PREMIUM_PATIENCE"
  BY DEF BaselinePath
<1> QED
  BY <1>1, <1>2 DEF MarketPath, GapsFirst, Velocity

LEMMA PatienceAction ==
  ASSUME NEW q \in Quality, NEW day \in Nat, NEW most, EngagedPremium(q, day)
  PROVE  /\ ActionFor("PREMIUM_PATIENCE", q, day, most)
              \in {"IMPROVE_TITLE", "FILL_SPECIFICS", "HOLD"}
         /\ OfferFirst(ActionFor("PREMIUM_PATIENCE", q, day, most), q, day)
              \in {"IMPROVE_TITLE", "FILL_SPECIFICS", "HOLD"}
  BY DEF ActionFor, OfferFirst, EngagedPremium, Quality

\* In no market does a cut come of patience.
LEMMA EngagedMarket ==
  ASSUME NEW q \in Quality, NEW day \in Nat, NEW m, NEW path, EngagedPremium(q, day),
         NEW action \in {"IMPROVE_TITLE", "FILL_SPECIFICS", "HOLD"}
  PROVE  MarketAction(action, path, q, day, m) \notin Markdown
  BY DEF MarketAction, EngagedPremium, Quality, Markdown, Spared

LEMMA EngagedState == Known => EngagedPremiumKept
<1> SUFFICES ASSUME Known, quality.premium, quality.watchers >= 2, age < 100
             PROVE  AdviceNow \notin Markdown
  BY DEF EngagedPremiumKept
<1>1. quality \in Quality /\ age \in Nat /\ EngagedPremium(quality, age)
  BY DEF Known, EngagedPremium
<1> QED
  BY <1>1, EngagedPath, PatienceAction, EngagedMarket DEF AdviceNow, Advised

\* A premium listing that is watched keeps its price for 100 days
\* (strategy_scoring.py:279, pricing_agent.py:233), whatever was sold.
THEOREM PremiumCorrect == ListingSpec => []EngagedPremiumKept
BY KnownHolds, EngagedState, PTL

-----------------------------------------------------------------------------
\* At a fair price, a listing with gaps is not on a path that cuts deeply.
LEMMA FairPath ==
  ASSUME NEW base \in Path \ {"AGING_RISK"}, NEW q, NEW day, NEW m,
         Reliable(m), m.position = "at", WeakListing(q)
  PROVE  MarketPath(base, q, day, m)
           \in {"OPTIMIZE_AND_HOLD", "PREMIUM_PATIENCE", "REPACKAGE", "END_AND_SELL_SIMILAR"}
  BY DEF MarketPath, Path, GapsFirst, Velocity

LEMMA BaselineIsPath ==
  ASSUME NEW price, NEW q, NEW day
  PROVE  BaselinePath(price, q, day) \in Path
  BY DEF BaselinePath, Path

LEMMA FairAction ==
  ASSUME NEW q \in Quality, NEW day \in Nat, NEW most, NEW m,
         Reliable(m), m.position = "at",
         NEW path \in {"OPTIMIZE_AND_HOLD", "PREMIUM_PATIENCE", "REPACKAGE",
                       "END_AND_SELL_SIMILAR"}
  PROVE  MarketAction(OfferFirst(ActionFor(path, q, day, most), q, day), path, q, day, m)
           \notin Markdown
<1>1. ActionFor(path, q, day, most) \notin Markdown
  BY DEF ActionFor, Markdown
<1>2. OfferFirst(ActionFor(path, q, day, most), q, day) \notin Markdown
  BY <1>1 DEF OfferFirst, Markdown
<1> QED
  BY <1>2 DEF MarketAction, Markdown

LEMMA FairState == Known => FairPriceFixedFirst
<1> SUFFICES ASSUME Known, DeadAge >= 120, Reliable(MarketNow), MarketNow.position = "at",
                    WeakListing(quality)
             PROVE  AdviceNow \notin Markdown
  BY DEF FairPriceFixedFirst
<1> DEFINE base == BaselinePath(ask, quality, age)
           path == MarketPath(base, quality, age, MarketNow)
<1>1. quality \in Quality /\ age \in Nat
  BY DEF Known
<1>2. base \in Path \ {"AGING_RISK"}
  BY <1>1, BaselineIsPath, NeverAgingRisk
<1>3. path \in {"OPTIMIZE_AND_HOLD", "PREMIUM_PATIENCE", "REPACKAGE", "END_AND_SELL_SIMILAR"}
  <2> HIDE DEF base
  <2> QED BY <1>2, FairPath
<1>4. AdviceNow = MarketAction(OfferFirst(ActionFor(path, quality, age, cap), quality, age),
                               path, quality, age, MarketNow)
  BY DEF AdviceNow, Advised, MarketNow
<1> HIDE DEF path
<1> QED
  BY <1>1, <1>3, <1>4, FairAction

\* A fair price is not cut while the listing has gaps (pricing_agent.py:213,
\* strategy_scoring.py:238).
THEOREM FairPriceCorrect == ListingSpec => []FairPriceFixedFirst
BY KnownHolds, FairState, PTL

-----------------------------------------------------------------------------
LEMMA MarkdownWithin ==
  ASSUME NEW q, NEW day, NEW most \in 0..100, most >= 10
  PROVE  LET a == MarkdownOf(MarkdownPercent(q, day, most)) IN a \in Markdown /\ PercentOf[a] <= most
<1> DEFINE steps == IF day >= 100 THEN 30 ELSE IF day >= 75 THEN 20 ELSE 10
           pct   == IF (q.premium /\ q.watchers >= 2) /\ steps > 10 THEN steps - 10 ELSE steps
<1>1. pct \in {10, 20, 30}
  OBVIOUS
<1>2. MarkdownPercent(q, day, most) = Least(most, pct)
  BY DEF MarkdownPercent
<1> HIDE DEF pct
<1>3. Least(most, pct) \in Nat /\ Least(most, pct) <= most
  BY <1>1 DEF Least
<1> DEFINE given == Least(most, pct)
<1>4. CASE given >= 30
  BY <1>2, <1>3, <1>4 DEF MarkdownOf, Markdown, PercentOf
<1>5. CASE given < 30 /\ given >= 20
  BY <1>2, <1>3, <1>5 DEF MarkdownOf, Markdown, PercentOf
<1>6. CASE given < 20
  BY <1>2, <1>3, <1>6 DEF MarkdownOf, Markdown, PercentOf
<1> QED
  BY <1>3, <1>4, <1>5, <1>6

\* Off the path for dead stock, a cut is of the smallest step or asked for the cap.
LEMMA ActionWithin ==
  ASSUME NEW path \in Path \ {"AGING_RISK"}, NEW q, NEW day, NEW most \in 0..100, most >= 10,
         ActionFor(path, q, day, most) \in Markdown
  PROVE  PercentOf[ActionFor(path, q, day, most)] <= most
<1>1. CASE path = "REPRICE_NOW"
  BY <1>1, MarkdownWithin DEF ActionFor
<1>2. CASE path # "REPRICE_NOW"
  <2>1. ActionFor(path, q, day, most) = "MARKDOWN_10"
    BY <1>2 DEF ActionFor, Path, Markdown
  <2> QED
    BY <2>1 DEF PercentOf
<1> QED
  BY <1>1, <1>2

LEMMA PathKnown ==
  ASSUME NEW base \in Path \ {"AGING_RISK"}, NEW q, NEW day, NEW m
  PROVE  MarketPath(base, q, day, m) \in Path \ {"AGING_RISK"}
  BY DEF MarketPath, Path

LEMMA LayersKeepCut ==
  ASSUME NEW action, NEW path, NEW q, NEW day, NEW m,
         MarketAction(OfferFirst(action, q, day), path, q, day, m) \in Markdown
  PROVE  MarketAction(OfferFirst(action, q, day), path, q, day, m) \in {action, "MARKDOWN_10"}
  BY DEF MarketAction, OfferFirst, Markdown, Spared

LEMMA CapState == Known => AdviceWithinCap
<1> SUFFICES ASSUME Known, cap >= 10, DeadAge >= 120, AdviceNow \in Markdown
             PROVE  PercentOf[AdviceNow] <= cap
  BY DEF AdviceWithinCap
<1> DEFINE base == BaselinePath(ask, quality, age)
           path == MarketPath(base, quality, age, MarketNow)
           first == ActionFor(path, quality, age, cap)
<1>1. quality \in Quality /\ age \in Nat /\ cap \in 0..100
  BY DEF Known
<1>2. base \in Path \ {"AGING_RISK"}
  BY <1>1, BaselineIsPath, NeverAgingRisk
<1>3. path \in Path \ {"AGING_RISK"}
  <2> HIDE DEF base
  <2> QED BY <1>2, PathKnown
<1>4. AdviceNow = MarketAction(OfferFirst(first, quality, age), path, quality, age, MarketNow)
  BY DEF AdviceNow, Advised, MarketNow
<1>5. AdviceNow \in {first, "MARKDOWN_10"}
  <2> HIDE DEF first, path
  <2> QED BY <1>4, LayersKeepCut
<1>6. CASE AdviceNow = "MARKDOWN_10"
  BY <1>1, <1>6 DEF PercentOf
<1>7. CASE AdviceNow = first
  <2> HIDE DEF path
  <2> QED BY <1>1, <1>3, <1>7, ActionWithin
<1> QED
  BY <1>5, <1>6, <1>7

\* The agent advises no cut that policy rejects for its size (safety.py:155),
\* although some paths do not ask for the cap (pricing_agent.py:101, 115).
THEOREM CapCorrect == ListingSpec => []AdviceWithinCap
BY KnownHolds, CapState, PTL
-----------------------------------------------------------------------------
(* The log of live writes. *)

LEMMA LogInit == Init => TypeOK
BY ReportConstantsOK DEF Init, TypeOK

LEMMA LogStep == TypeOK /\ [Next]_vars => TypeOK'
<1> USE ReportConstantsOK
<1> SUFFICES ASSUME TypeOK, [Next]_vars PROVE TypeOK'
  OBVIOUS
<1>1. CASE Apply
  <2>1. PICK e \in Outcomes : log' = Append(log, [day |-> today, event |-> e])
    BY <1>1 DEF Apply
  <2>2. [day |-> today, event |-> e] \in [day: 0..LastDay, event: Outcomes]
    BY DEF TypeOK
  <2>3. log' \in Seq([day: 0..LastDay, event: Outcomes]) /\ Len(log') = Len(log) + 1
    BY <2>1, <2>2 DEF TypeOK
  <2> QED BY <1>1, <2>3 DEF Apply, TypeOK
<1>2. CASE NextDay
  BY <1>2 DEF NextDay, TypeOK
<1>3. CASE UNCHANGED vars
  BY <1>3 DEF vars, TypeOK
<1> QED BY <1>1, <1>2, <1>3 DEF Next

LEMMA LogTyped == Spec => []TypeOK
BY LogInit, LogStep, PTL DEF Spec

LEMMA InSeq == ASSUME NEW S, NEW s \in Seq(S) PROVE \A i \in DOMAIN s : s[i] \in S
OBVIOUS

\* The days of the events are days, and a window is a finite set of places.
LEMMA PlacesFinite ==
  ASSUME TypeOK
  PROVE  /\ DOMAIN log = 1..Len(log) /\ Len(log) \in Nat
         /\ \A i \in DOMAIN log : log[i].day \in Int
         /\ \A I \in SUBSET DOMAIN log : IsFiniteSet(I)
<1>1. DOMAIN log = 1..Len(log) /\ Len(log) \in Nat
  BY DEF TypeOK
<1>2. \A i \in DOMAIN log : log[i].day \in Int
  <2>1. \A i \in DOMAIN log : log[i] \in [day: 0..LastDay, event: Outcomes]
    BY InSeq DEF TypeOK
  <2> QED BY <2>1, ReportConstantsOK
<1>3. IsFiniteSet(1..Len(log))
  BY <1>1, FS_Interval
<1> QED BY <1>1, <1>2, <1>3, FS_Subset

\* This week and the week before meet at a midnight, and a week later the one
\* has become the other, for weeks and months of any number of days
\* (live_write_visibility.py:213, 534).
THEOREM WeeksCorrect == Spec => []WeeksMeet
<1>1. TypeOK => WeeksMeet
  <2> SUFFICES ASSUME TypeOK PROVE WeeksMeet
    OBVIOUS
  <2>1. /\ today \in Int /\ Week \in Int /\ Month \in Int /\ Week >= 1 /\ Month >= 2 * Week
        /\ \A i \in DOMAIN log : log[i].day \in Int
    BY ReportConstantsOK, PlacesFinite DEF TypeOK
  <2>2. ThisWeek(today) = WeekBefore(today + Week)
    BY <2>1 DEF ThisWeek, WeekBefore, Between
  <2>3. ThisWeek(today) \cap WeekBefore(today) = {}
    BY <2>1 DEF ThisWeek, WeekBefore, Between
  <2>4. ThisWeek(today) \cup WeekBefore(today) \subseteq LastMonth(today)
    BY <2>1 DEF ThisWeek, WeekBefore, LastMonth, Between
  <2> QED BY <2>2, <2>3, <2>4 DEF WeeksMeet
<1> QED BY <1>1, LogTyped, PTL

-----------------------------------------------------------------------------
(* What the week shows of its failures.                                    *)

\* Messages that fit into the list are all in it.
LEMMA TopIsAll ==
  ASSUME NEW I, IsFiniteSet(Messages(Named(I))), Cardinality(Messages(Named(I))) <= TopN
  PROVE  TopMessages(I) = Messages(Named(I))
<1> DEFINE all == Messages(Named(I))
           Fits(top) == /\ Cardinality(top) <= TopN
                        /\ Cardinality(top) < TopN => top = all
                        /\ \A m \in top, n \in all \ top : Times(I, m) >= Times(I, n)
<1>1. TopN \in Nat /\ Cardinality(all) \in Nat
  BY ReportConstantsOK, FS_CardinalityType
<1>2. all \in SUBSET all /\ Fits(all)
  OBVIOUS
<1>3. ASSUME NEW top \in SUBSET all, Fits(top) PROVE top = all
  <2>1. Cardinality(top) \in Nat /\ Cardinality(top) <= Cardinality(all)
        /\ (Cardinality(all) = Cardinality(top) => all = top)
    BY FS_Subset, FS_CardinalityType
  <2> QED BY <1>1, <1>3, <2>1
<1>4. TopMessages(I) = CHOOSE top \in SUBSET all : Fits(top)
  BY DEF TopMessages
<1> HIDE DEF Fits, all
<1>5. TopMessages(I) \in SUBSET all /\ Fits(TopMessages(I))
  BY <1>2, <1>4
<1> QED BY <1>3, <1>5 DEF all

LEMMA MessagesFinite == ASSUME NEW I, IsFiniteSet(I) PROVE IsFiniteSet(Messages(I))
<1> DEFINE f == [i \in I |-> MessageOf(log[i].event.why)]
<1>1. f \in Surjection(I, Messages(I))
  BY DEF Surjection, Messages
<1> QED BY <1>1, FS_Surjection

\* Each of the failures without a bucket is counted while the samples do not
\* fill the list.
LEMMA AllCounted ==
  ASSUME NEW I, IsFiniteSet(InBucket(I, "other")),
         Cardinality(Messages(InBucket(I, "other"))) < MaxSamples
  PROVE  OtherCount(I) = Cardinality(InBucket(I, "other"))
<1> DEFINE other == InBucket(I, "other")
           Before(i) == Messages({j \in other : j < i})
<1>1. IsFiniteSet(Messages(other))
  BY MessagesFinite
<1>2. ASSUME NEW i \in other PROVE Cardinality(Before(i)) < MaxSamples
  <2>1. Before(i) \in SUBSET Messages(other)
    BY DEF Messages
  <2>2. Cardinality(Before(i)) <= Cardinality(Messages(other))
        /\ Cardinality(Before(i)) \in Nat /\ Cardinality(Messages(other)) \in Nat
    BY <1>1, <2>1, FS_Subset, FS_CardinalityType
  <2> QED BY <2>2, ReportConstantsOK
<1>3. other = {i \in other : Cardinality(Before(i)) < MaxSamples}
  BY <1>2
<1> QED BY <1>3 DEF OtherCount
\* While neither list is full, each failure of the week is under one of the
\* messages or in the count of the others (live_write_visibility.py:294, 360).
THEOREM FailuresShown == Spec => []EveryFailureShown
<1>1. TypeOK => EveryFailureShown
  <2> DEFINE I == ThisWeek(today)
             other == InBucket(I, "other")
             shown == {i \in Named(I) : MessageOf(log[i].event.why) \in TopMessages(I)}
  <2> SUFFICES ASSUME TypeOK, Cardinality(Messages(Named(I))) <= TopN,
                      Cardinality(Messages(other)) < MaxSamples
               PROVE  Cardinality(Failures(I)) = Cardinality(shown) + OtherCount(I)
    BY DEF EveryFailureShown
  <2>1. Failures(I) \in SUBSET DOMAIN log /\ other \subseteq Failures(I)
        /\ Named(I) = Failures(I) \ other
    BY DEF Failures, ThisWeek, Between, InBucket, Named
  <2>2. IsFiniteSet(Failures(I)) /\ IsFiniteSet(other) /\ IsFiniteSet(Named(I))
    BY <2>1, PlacesFinite, FS_Subset, FS_Difference
  <2>3. TopMessages(I) = Messages(Named(I))
    BY <2>2, MessagesFinite, TopIsAll
  <2>4. shown = Named(I)
    BY <2>3 DEF Messages
  <2>5. OtherCount(I) = Cardinality(other)
    BY <2>2, AllCounted
  <2> HIDE DEF I, other, shown
  <2>6. Cardinality(Failures(I)) = Cardinality(Failures(I) \ other) + Cardinality(other)
    <3>1. Failures(I) \cap other = other
      BY <2>1
    <3>2. Cardinality(Failures(I) \ other) = Cardinality(Failures(I)) - Cardinality(other)
      BY <2>2, <3>1, FS_Difference
    <3>3. Cardinality(Failures(I)) \in Nat /\ Cardinality(other) \in Nat
      BY <2>2, FS_CardinalityType
    <3> QED BY <3>2, <3>3
  <2> QED BY <2>1, <2>4, <2>5, <2>6
<1> QED BY <1>1, LogTyped, PTL
-----------------------------------------------------------------------------
(* The advice on more live writes, when an event comes in.                 *)

Tracked == {"title_drift", "auth_failure", "provider_failure", "missing_identifier"}

\* Figures of a week: the attempts are the successes and the failures.
Sound(m) ==
  /\ m.successes \in Nat /\ m.failures \in Nat /\ m.attempts = m.successes + m.failures
  /\ \A b \in Tracked : m.buckets[b] \in Nat

\* A share of the successes, before and after one more attempt.
LEMMA ShareOfMore ==
  ASSUME NEW s \in Nat, NEW a \in Nat, NEW x \in 0..100
  PROVE  LET Base(n) == IF n = 0 THEN 1 ELSE n
         IN  /\ 100 * s < x * Base(a) => 100 * s < x * Base(a + 1)
             /\ 100 * (s + 1) < x * Base(a + 1) => 100 * s < x * Base(a)
<1>1. x * (a + 1) = x * a + x /\ x * 1 = x /\ x * a \in Nat
  OBVIOUS
<1>2. CASE a = 0
  BY <1>1, <1>2
<1>3. CASE a # 0
  BY <1>1, <1>3
<1> QED BY <1>2, <1>3

LEMMA PolicyTyped ==
  /\ Policy.minReadiness \in Nat /\ Policy.minRate \in Nat /\ Policy.priorMin \in Nat
  /\ Policy.jumpMin \in Nat /\ Policy.jumpDelta \in Nat
  /\ Policy.critical \in 0..100 /\ Policy.floor \in 0..100 /\ Policy.ready \in 0..100
BY ReportConstantsOK

\* One failure more, and what spoke against more live writes still does.
LEMMA FailureTells ==
  ASSUME NEW m, NEW n, NEW p, Sound(m), Sound(n), Sound(p), m.attempts >= Policy.minRate,
         n.successes = m.successes, n.failures = m.failures + 1,
         \A b \in Tracked : n.buckets[b] >= m.buckets[b],
         Alarming(m, p) \/ RateBelow(m, Policy.ready)
  PROVE  n.attempts >= Policy.minRate /\ (Alarming(n, p) \/ RateBelow(n, Policy.ready))
<1> USE PolicyTyped
<1>1. m.attempts \in Nat /\ n.attempts = m.attempts + 1 /\ m.successes \in Nat
  BY DEF Sound
<1>2. ASSUME NEW x \in 0..100, RateBelow(m, x) PROVE RateBelow(n, x)
  BY <1>1, <1>2, ShareOfMore DEF RateBelow
<1>3. ASSUME Jumped(m, p) PROVE Jumped(n, p)
  BY <1>3 DEF Jumped, Sound, Tracked
<1>4. ASSUME m.failures > p.failures PROVE n.failures > p.failures
  BY <1>4 DEF Sound
<1>5. n.attempts >= Policy.minRate
  BY <1>1
<1> QED BY <1>2, <1>3, <1>4, <1>5 DEF Alarming

\* One success more, and still nothing speaks against them.
LEMMA SuccessTells ==
  ASSUME NEW m, NEW n, NEW p, Sound(m), Sound(n), Sound(p), m.attempts >= Policy.minRate,
         n.successes = m.successes + 1, n.failures = m.failures,
         \A b \in Tracked : n.buckets[b] = m.buckets[b],
         ~Alarming(m, p), ~RateBelow(m, Policy.ready)
  PROVE  n.attempts >= Policy.minRate /\ ~Alarming(n, p) /\ ~RateBelow(n, Policy.ready)
<1> USE PolicyTyped
<1>1. m.attempts \in Nat /\ n.attempts = m.attempts + 1 /\ m.successes \in Nat
  BY DEF Sound
<1>2. ASSUME NEW x \in 0..100, RateBelow(n, x) PROVE RateBelow(m, x)
  BY <1>1, <1>2, ShareOfMore DEF RateBelow
<1>3. ASSUME Jumped(n, p) PROVE Jumped(m, p)
  BY <1>3 DEF Jumped, Sound, Tracked
<1> QED BY <1>1, <1>2, <1>3 DEF Alarming

\* The figures of a set of events are what is counted in it.
Told(I) ==
  /\ IsFiniteSet(I) /\ IsFiniteSet(Successes(I)) /\ IsFiniteSet(Failures(I))
  /\ \A b : IsFiniteSet(InBucket(I, b))
  /\ Sound(Metrics(I))
  /\ Metrics(I).successes = Cardinality(Successes(I))
  /\ Metrics(I).failures = Cardinality(Failures(I))
  /\ \A b \in Tracked : Metrics(I).buckets[b] = Cardinality(InBucket(I, b))

LEMMA FiguresTold == ASSUME NEW I, IsFiniteSet(I) PROVE Told(I)
<1>1. /\ Metrics(I).successes = Cardinality(Successes(I))
      /\ Metrics(I).failures = Cardinality(Failures(I))
      /\ Metrics(I).attempts = Cardinality(Successes(I)) + Cardinality(Failures(I))
  BY DEF Metrics, Attempts
<1>2. Tracked \subseteq {BucketOf(w) : w \in Failure}
  <2>1. /\ "title_drift" = BucketOf("title_drift") /\ "auth_failure" = BucketOf("get_401")
        /\ "provider_failure" = BucketOf("missing_product")
        /\ "missing_identifier" = BucketOf("missing_sku")
    BY DEF BucketOf
  <2>2. {"title_drift", "get_401", "missing_product", "missing_sku"} \subseteq Failure
    BY DEF Failure
  <2> QED BY <2>1, <2>2 DEF Tracked
<1>3. \A b \in Tracked : Metrics(I).buckets[b] = Cardinality(InBucket(I, b))
  BY <1>2 DEF Metrics
<1>4. IsFiniteSet(Successes(I)) /\ IsFiniteSet(Failures(I))
      /\ \A b : IsFiniteSet(InBucket(I, b))
  <2>1. Successes(I) \in SUBSET I /\ Failures(I) \in SUBSET I
        /\ \A b : InBucket(I, b) \in SUBSET I
    BY DEF Successes, Failures, InBucket
  <2> QED BY <2>1, FS_Subset
<1> QED BY <1>1, <1>3, <1>4, FS_CardinalityType DEF Sound, Told
LEMMA WeeksTold == TypeOK => Told(ThisWeek(today)) /\ Told(WeekBefore(today))
<1> SUFFICES ASSUME TypeOK PROVE Told(ThisWeek(today)) /\ Told(WeekBefore(today))
  OBVIOUS
<1>1. ThisWeek(today) \in SUBSET DOMAIN log /\ WeekBefore(today) \in SUBSET DOMAIN log
  BY DEF ThisWeek, WeekBefore, Between
<1> QED BY <1>1, PlacesFinite, FiguresTold

LEMMA WeeksToldLater == TypeOK' => (Told(ThisWeek(today)) /\ Told(WeekBefore(today)))'
BY WeeksTold, PTL

\* What an event of today changes: it is the last place of this week.
LEMMA EventOfToday ==
  ASSUME TypeOK, NEW e, log' = Append(log, [day |-> today, event |-> e]), today' = today
  PROVE  LET I == ThisWeek(today)
             new == Len(log) + 1
             tried == e.type # "blocked" /\ e.guarded /\ e.live
         IN  /\ new \notin I /\ log'[Len(log')].event = e
             /\ ThisWeek(today)' = I \cup {new}
             /\ Successes(ThisWeek(today))'
                  = Successes(I) \cup {i \in {new} : tried /\ e.type = "success"}
             /\ Failures(ThisWeek(today))'
                  = Failures(I) \cup {i \in {new} : tried /\ e.type = "failure"}
             /\ \A b : InBucket(ThisWeek(today), b)'
                  = InBucket(I, b) \cup
                      {i \in {new} : tried /\ e.type = "failure" /\ BucketOf(e.why) = b}
             /\ Successes(WeekBefore(today))' = Successes(WeekBefore(today))
             /\ Failures(WeekBefore(today))' = Failures(WeekBefore(today))
             /\ \A b : InBucket(WeekBefore(today), b)' = InBucket(WeekBefore(today), b)
<1> DEFINE I == ThisWeek(today)
           J == WeekBefore(today)
           new == Len(log) + 1
           tried == e.type # "blocked" /\ e.guarded /\ e.live
<1>1. /\ DOMAIN log = 1..Len(log) /\ Len(log) \in Nat /\ today \in Int
      /\ \A i \in DOMAIN log : log[i].day \in Int
      /\ Week \in Int /\ Week >= 1
  BY PlacesFinite, ReportConstantsOK DEF TypeOK
<1>2. /\ DOMAIN log' = DOMAIN log \cup {new} /\ new \notin DOMAIN log /\ Len(log') = new
      /\ log'[new] = [day |-> today, event |-> e]
      /\ \A i \in DOMAIN log : log'[i] = log[i]
  BY <1>1 DEF TypeOK
<1>3. ThisWeek(today)' = I \cup {new} /\ WeekBefore(today)' = J
      /\ I \subseteq DOMAIN log /\ J \subseteq DOMAIN log
  BY <1>1, <1>2 DEF ThisWeek, WeekBefore, Between
<1>4. Attempted(log'[new]) <=> tried
  BY <1>2 DEF Attempted
<1> HIDE DEF I, J, new, tried
<1>5. /\ Successes(ThisWeek(today))' = Successes(I) \cup {i \in {new} : tried /\ e.type = "success"}
      /\ Successes(WeekBefore(today))' = Successes(J)
  BY <1>2, <1>3, <1>4 DEF Successes, Attempted
<1>6. /\ Failures(ThisWeek(today))' = Failures(I) \cup {i \in {new} : tried /\ e.type = "failure"}
      /\ Failures(WeekBefore(today))' = Failures(J)
  BY <1>2, <1>3, <1>4 DEF Failures, Attempted
<1>7. ASSUME NEW b
      PROVE  /\ InBucket(ThisWeek(today), b)' = InBucket(I, b) \cup
                  {i \in {new} : tried /\ e.type = "failure" /\ BucketOf(e.why) = b}
             /\ InBucket(WeekBefore(today), b)' = InBucket(J, b)
  <2>1. Failures(I) \subseteq DOMAIN log /\ Failures(J) \subseteq DOMAIN log
    BY <1>3 DEF Failures
  <2>2. log'[new].event.why = e.why
    BY <1>2
  <2> QED BY <1>2, <1>6, <2>1, <2>2 DEF InBucket
<1>8. new \notin I /\ log'[Len(log')].event = e
  BY <1>2, <1>3
<1>9. \A b : /\ InBucket(ThisWeek(today), b)' = InBucket(I, b) \cup
                    {i \in {new} : tried /\ e.type = "failure" /\ BucketOf(e.why) = b}
            /\ InBucket(WeekBefore(today), b)' = InBucket(J, b)
  BY <1>7
<1> QED BY <1>3, <1>5, <1>6, <1>8, <1>9 DEF I, J, new, tried
LEMMA OneMoreCounted ==
  ASSUME NEW S, IsFiniteSet(S), NEW x, x \notin S, NEW here \in BOOLEAN
  PROVE  Cardinality(S \cup {i \in {x} : here}) = Cardinality(S) + (IF here THEN 1 ELSE 0)
<1>1. Cardinality(S) \in Nat
  BY FS_CardinalityType
<1>2. CASE here
  <2>1. S \cup {i \in {x} : here} = S \cup {x}
    BY <1>2
  <2> QED BY <1>2, <2>1, FS_AddElement
<1>3. CASE ~here
  <2>1. S \cup {i \in {x} : here} = S
    BY <1>3
  <2> QED BY <1>1, <1>3, <2>1
<1> QED BY <1>2, <1>3

\* The figures of this week after an event of today, and those of the week before.
LEMMA FiguresAfter ==
  ASSUME TypeOK, TypeOK', NEW e, today' = today,
         log' = Append(log, [day |-> today, event |-> e])
  PROVE  LET m == Metrics(ThisWeek(today))
             n == Metrics(ThisWeek(today))'
             p == Metrics(WeekBefore(today))
             q == Metrics(WeekBefore(today))'
             tried == e.type # "blocked" /\ e.guarded /\ e.live
         IN  /\ Sound(m) /\ Sound(n) /\ Sound(p) /\ Sound(q)
             /\ n.successes = m.successes + (IF tried /\ e.type = "success" THEN 1 ELSE 0)
             /\ n.failures = m.failures + (IF tried /\ e.type = "failure" THEN 1 ELSE 0)
             /\ \A b \in Tracked :
                  n.buckets[b] = m.buckets[b] +
                    (IF tried /\ e.type = "failure" /\ BucketOf(e.why) = b THEN 1 ELSE 0)
             /\ q.successes = p.successes /\ q.failures = p.failures
             /\ \A b \in Tracked : q.buckets[b] = p.buckets[b]
<1> DEFINE I == ThisWeek(today)
           m == Metrics(I)
           n == Metrics(ThisWeek(today))'
           p == Metrics(WeekBefore(today))
           q == Metrics(WeekBefore(today))'
           tried == e.type # "blocked" /\ e.guarded /\ e.live
           new == Len(log) + 1
<1>1. Told(I) /\ Told(WeekBefore(today))
  BY WeeksTold
<1>2. Told(ThisWeek(today))' /\ Told(WeekBefore(today))'
  BY WeeksToldLater
<1>3. Sound(m) /\ Sound(n) /\ Sound(p) /\ Sound(q)
  BY <1>1, <1>2 DEF Told
<1>4. /\ new \notin I
      /\ Successes(ThisWeek(today))' = Successes(I) \cup {i \in {new} : tried /\ e.type = "success"}
      /\ Failures(ThisWeek(today))' = Failures(I) \cup {i \in {new} : tried /\ e.type = "failure"}
      /\ \A b : InBucket(ThisWeek(today), b)' = InBucket(I, b) \cup
                  {i \in {new} : tried /\ e.type = "failure" /\ BucketOf(e.why) = b}
  BY EventOfToday
<1>5. /\ Successes(WeekBefore(today))' = Successes(WeekBefore(today))
      /\ Failures(WeekBefore(today))' = Failures(WeekBefore(today))
      /\ \A b : InBucket(WeekBefore(today), b)' = InBucket(WeekBefore(today), b)
  BY EventOfToday
<1>6. /\ m.successes = Cardinality(Successes(I)) /\ m.failures = Cardinality(Failures(I))
      /\ \A b \in Tracked : m.buckets[b] = Cardinality(InBucket(I, b))
      /\ IsFiniteSet(Successes(I)) /\ IsFiniteSet(Failures(I))
      /\ \A b : IsFiniteSet(InBucket(I, b))
  BY <1>1 DEF Told
<1>7. /\ n.successes = Cardinality(Successes(ThisWeek(today))')
      /\ n.failures = Cardinality(Failures(ThisWeek(today))')
      /\ \A b \in Tracked : n.buckets[b] = Cardinality(InBucket(ThisWeek(today), b)')
  BY <1>2 DEF Told
<1>8. /\ q.successes = p.successes /\ q.failures = p.failures
      /\ \A b \in Tracked : q.buckets[b] = p.buckets[b]
  BY <1>1, <1>2, <1>5 DEF Told
<1>9. new \notin Successes(I) /\ new \notin Failures(I) /\ \A b : new \notin InBucket(I, b)
  BY <1>4 DEF Successes, Failures, InBucket
<1> HIDE DEF m, n, p, q, I, tried, new
<1>10. n.successes = m.successes + (IF tried /\ e.type = "success" THEN 1 ELSE 0)
  BY <1>4, <1>6, <1>7, <1>9, OneMoreCounted
<1>11. n.failures = m.failures + (IF tried /\ e.type = "failure" THEN 1 ELSE 0)
  BY <1>4, <1>6, <1>7, <1>9, OneMoreCounted
<1>12. ASSUME NEW b \in Tracked
       PROVE  n.buckets[b] = m.buckets[b] +
                (IF tried /\ e.type = "failure" /\ BucketOf(e.why) = b THEN 1 ELSE 0)
  BY <1>4, <1>6, <1>7, <1>9, OneMoreCounted
<1> QED BY <1>3, <1>8, <1>10, <1>11, <1>12 DEF m, n, p, q, I, tried

Judged(m, p) ==
  IF m.attempts < Policy.minReadiness THEN "insufficient_data"
  ELSE IF ~Alarming(m, p) /\ m.attempts >= Policy.minRate /\ ~RateBelow(m, Policy.ready)
    THEN "ready"
  ELSE "not_ready"

LEMMA AdviceIsJudged ==
  /\ Advice(today) = Judged(Metrics(ThisWeek(today)), Metrics(WeekBefore(today)))
  /\ Advice(today)' = Judged(Metrics(ThisWeek(today))', Metrics(WeekBefore(today))')
BY DEF Advice, Judged

\* The week before counts for the advice by its failures, attempts and buckets.
LEMMA SamePast ==
  ASSUME NEW n, NEW p, NEW q, Sound(p), Sound(q),
         q.successes = p.successes, q.failures = p.failures,
         \A b \in Tracked : q.buckets[b] = p.buckets[b]
  PROVE  Judged(n, q) = Judged(n, p)
<1>1. q.attempts = p.attempts
  BY DEF Sound
<1>2. Jumped(n, q) <=> Jumped(n, p)
  BY DEF Jumped, Tracked
<1>3. Alarming(n, q) <=> Alarming(n, p)
  BY <1>1, <1>2 DEF Alarming
<1> QED BY <1>3 DEF Judged

\* With the figures as they were, the judgement is as it was.
LEMMA SameFigures ==
  ASSUME NEW m, NEW n, NEW p, Sound(m), Sound(n),
         n.successes = m.successes, n.failures = m.failures,
         \A b \in Tracked : n.buckets[b] = m.buckets[b]
  PROVE  Judged(n, p) = Judged(m, p)
<1>1. n.attempts = m.attempts
  BY DEF Sound
<1>2. Jumped(n, p) <=> Jumped(m, p)
  BY DEF Jumped, Tracked
<1>3. \A x : RateBelow(n, x) <=> RateBelow(m, x)
  BY <1>1 DEF RateBelow
<1>4. Alarming(n, p) <=> Alarming(m, p)
  BY <1>1, <1>2, <1>3 DEF Alarming
<1> QED BY <1>1, <1>3, <1>4 DEF Judged
\* One step of AdviceFollowsEvidence.
Follows ==
  /\ Len(log') > Len(log)
  /\ Attempts(ThisWeek(today)) >= Policy.minRate
  =>
  LET new == log'[Len(log')]
  IN  /\ Attempted(new) /\ new.event.type = "failure" /\ Advice(today) = "not_ready"
           => Advice(today)' # "ready"
      /\ new.event.type # "failure" /\ Advice(today) = "ready" => Advice(today)' = "ready"

LEMMA FollowsStep == ASSUME TypeOK, TypeOK', [Next]_vars PROVE Follows
<1> SUFFICES ASSUME Len(log') > Len(log), Attempts(ThisWeek(today)) >= Policy.minRate
             PROVE  LET new == log'[Len(log')]
                    IN  /\ Attempted(new) /\ new.event.type = "failure"
                             /\ Advice(today) = "not_ready" => Advice(today)' # "ready"
                        /\ new.event.type # "failure" /\ Advice(today) = "ready"
                             => Advice(today)' = "ready"
  BY DEF Follows
<1>1. Len(log) \in Nat
  BY DEF TypeOK
<1>2. Apply
  BY <1>1 DEF Next, vars, NextDay
<1>3. PICK e \in Outcomes : log' = Append(log, [day |-> today, event |-> e])
  BY <1>2 DEF Apply
<1>4. today' = today
  BY <1>2 DEF Apply
<1> DEFINE m == Metrics(ThisWeek(today))
           n == Metrics(ThisWeek(today))'
           p == Metrics(WeekBefore(today))
           q == Metrics(WeekBefore(today))'
           tried == e.type # "blocked" /\ e.guarded /\ e.live
<1>5. /\ Sound(m) /\ Sound(n) /\ Sound(p) /\ Sound(q)
      /\ n.successes = m.successes + (IF tried /\ e.type = "success" THEN 1 ELSE 0)
      /\ n.failures = m.failures + (IF tried /\ e.type = "failure" THEN 1 ELSE 0)
      /\ \A b \in Tracked :
           n.buckets[b] = m.buckets[b] +
             (IF tried /\ e.type = "failure" /\ BucketOf(e.why) = b THEN 1 ELSE 0)
      /\ q.successes = p.successes /\ q.failures = p.failures
      /\ \A b \in Tracked : q.buckets[b] = p.buckets[b]
  BY <1>3, <1>4, FiguresAfter
<1>6. m.attempts = Attempts(ThisWeek(today))
  BY DEF Metrics
<1>7. log'[Len(log')].event = e
  BY <1>3, <1>4, EventOfToday
<1>8. Attempted(log'[Len(log')]) <=> tried
  BY <1>7 DEF Attempted
<1>9. Advice(today) = Judged(m, p) /\ Advice(today)' = Judged(n, q)
  BY AdviceIsJudged
<1> HIDE DEF m, n, p, q, tried
<1>10. Judged(n, q) = Judged(n, p)
  BY <1>5, SamePast
<1>11. \A b \in Tracked : m.buckets[b] \in Nat
  BY <1>5 DEF Sound
<1>12. m.successes \in Nat /\ m.failures \in Nat
  BY <1>5 DEF Sound
<1>13. ASSUME tried, e.type = "failure", Judged(m, p) = "not_ready"
       PROVE  Judged(n, p) # "ready"
  <2>1. n.successes = m.successes /\ n.failures = m.failures + 1
        /\ \A b \in Tracked : n.buckets[b] >= m.buckets[b]
    BY <1>5, <1>11, <1>12, <1>13
  <2>2. Alarming(m, p) \/ RateBelow(m, Policy.ready)
    BY <1>6, <1>13 DEF Judged
  <2>3. Alarming(n, p) \/ RateBelow(n, Policy.ready)
    BY <1>5, <1>6, <2>1, <2>2, FailureTells
  <2> QED BY <2>3 DEF Judged
<1>14. ASSUME e.type # "failure", Judged(m, p) = "ready" PROVE Judged(n, p) = "ready"
  <2>1. n.failures = m.failures /\ \A b \in Tracked : n.buckets[b] = m.buckets[b]
    BY <1>5, <1>11, <1>12, <1>14
  <2>2. CASE tried /\ e.type = "success"
    <3>1. n.successes = m.successes + 1
      BY <1>5, <2>2
    <3>2. ~Alarming(m, p) /\ ~RateBelow(m, Policy.ready) /\ ~(m.attempts < Policy.minReadiness)
      BY <1>14 DEF Judged
    <3>3. n.attempts >= Policy.minRate /\ ~Alarming(n, p) /\ ~RateBelow(n, Policy.ready)
      BY <1>5, <1>6, <2>1, <3>1, <3>2, SuccessTells
    <3>4. ~(n.attempts < Policy.minReadiness)
      BY <1>5, <2>1, <3>1, <3>2, PolicyTyped DEF Sound
    <3> QED BY <3>3, <3>4 DEF Judged
  <2>3. CASE ~(tried /\ e.type = "success")
    <3>1. n.successes = m.successes
      BY <1>5, <1>12, <2>3
    <3> QED BY <1>5, <1>14, <2>1, <3>1, SameFigures
  <2> QED BY <2>2, <2>3
<1> QED BY <1>7, <1>8, <1>9, <1>10, <1>13, <1>14

\* Once there are attempts enough to judge the rate, a failure never turns the
\* advice into "ready" and a success never takes it away, for every policy of
\* percentages (live_write_visibility.py:434).
THEOREM AdviceCorrect == Spec => AdviceFollowsEvidence
<1>1. TypeOK /\ TypeOK' /\ [Next]_vars => [Follows]_vars
  BY FollowsStep
<1> QED BY <1>1, LogTyped, PTL DEF Spec, AdviceFollowsEvidence, Follows
-----------------------------------------------------------------------------
(* The sold items in the order of their prices.                            *)

\* A set of finite sets that is not empty has a member with no other inside.
LEMMA SmallestMember ==
  ASSUME NEW S, IsFiniteSet(S), NEW F \in SUBSET (SUBSET S), F # {}
  PROVE  \E U \in F : \A V \in F : V \subseteq U => V = U
<1> DEFINE R == StrictSubsetOrdering(S)
<1>1. IsWellFoundedOn(R, FiniteSubsetsOf(S))
  BY FS_StrictSubsetOrderingWellFounded
<1>2. FiniteSubsetsOf(S) = SUBSET S
  BY FS_FiniteSubsetsOfFinite
<1> HIDE DEF R
<1>3. PICK U \in F : \A V \in F : ~(<<V, U>> \in R)
  BY <1>1, <1>2, WFMin
<1>4. ASSUME NEW V \in F, V \subseteq U PROVE V = U
  <2>1. V # U => <<V, U>> \in R
    BY <1>4 DEF R, StrictSubsetOrdering
  <2> QED BY <1>3, <2>1
<1> QED BY <1>4

\* One of the items is the dearest.
LEMMA Dearest ==
  ASSUME NEW S \in SUBSET SoldItem, IsFiniteSet(S), S # {}
  PROVE  \E c \in S : \A d \in S : d.price <= c.price
<1> DEFINE From(c) == {d \in S : d.price >= c.price}
           F == {From(c) : c \in S}
<1>1. PICK U \in F : \A V \in F : V \subseteq U => V = U
  <2>1. F \in SUBSET (SUBSET S) /\ F # {}
    OBVIOUS
  <2> HIDE DEF F
  <2> QED BY <2>1, SmallestMember
<1>2. PICK c \in S : U = From(c)
  OBVIOUS
<1>3. \A d \in S : d.price \in Nat
  BY DEF SoldItem
<1>4. ASSUME NEW d \in S PROVE d.price <= c.price
  <2> SUFFICES ASSUME d.price > c.price PROVE FALSE
    BY <1>3
  <2>1. From(d) \subseteq From(c) /\ c \in From(c) /\ c \notin From(d)
    BY <1>3
  <2> QED BY <1>1, <1>2, <2>1
<1> QED BY <1>4

\* There is a price at each place of the order.
LEMMA PlaceHasPrice ==
  ASSUME NEW S \in SUBSET SoldItem, IsFiniteSet(S), NEW k \in 1..Cardinality(S)
  PROVE  PriceAt(S, k) \in {c.price : c \in S}
<1> DEFINE Dense(U) == /\ \A c \in U, d \in S : d.price <= c.price => d \in U
                       /\ Cardinality(U) >= k
           F == {U \in SUBSET S : Dense(U)}
           Placed(p) == /\ Cardinality({c \in S : c.price < p}) < k
                        /\ Cardinality({c \in S : c.price <= p}) >= k
<1>1. k \in Nat /\ k >= 1 /\ Cardinality(S) \in Nat /\ \A c \in S : c.price \in Nat
  BY FS_CardinalityType DEF SoldItem
<1>2. PICK U \in F : \A V \in F : V \subseteq U => V = U
  <2>1. S \in F
    BY <1>1
  <2>2. F \in SUBSET (SUBSET S) /\ F # {}
    BY <2>1
  <2> HIDE DEF F
  <2> QED BY <2>2, SmallestMember
<1>3. U \in SUBSET S /\ Dense(U) /\ IsFiniteSet(U) /\ Cardinality(U) \in Nat
  BY FS_Subset, FS_CardinalityType
<1>4. U # {}
  BY <1>1, <1>3, FS_EmptySet
<1>5. PICK c \in U : \A d \in U : d.price <= c.price
  BY <1>3, <1>4, Dearest
<1>6. {d \in S : d.price <= c.price} = U
  BY <1>3, <1>5
<1> DEFINE L == {d \in S : d.price < c.price}
<1>7. Cardinality(L) < k
  <2>1. L \in SUBSET S /\ L \subseteq U /\ L # U /\ \A a \in L, d \in S : d.price <= a.price => d \in L
    BY <1>1, <1>3, <1>5
  <2>2. Cardinality(L) \in Nat
    BY <2>1, FS_Subset, FS_CardinalityType
  <2>3. L \notin F
    BY <1>2, <2>1
  <2> QED BY <1>1, <2>1, <2>2, <2>3
<1>8. Placed(c.price) /\ c.price \in {a.price : a \in S}
  BY <1>3, <1>6, <1>7
<1>9. PriceAt(S, k) = CHOOSE p \in {a.price : a \in S} : Placed(p)
  BY DEF PriceAt
<1> HIDE DEF Placed
<1> QED BY <1>8, <1>9

LEMMA MedianPositive ==
  ASSUME NEW S \in SUBSET SoldItem, IsFiniteSet(S), S # {}
  PROVE  TwiceMedian(S) \in Nat \ {0}
<1> DEFINE n == Cardinality(S)
<1>1. n \in Nat \ {0}
  BY FS_CardinalityType, FS_EmptySet
<1> HIDE DEF n
<1>2. (n + 1) \div 2 \in 1..n /\ n \div 2 + 1 \in 1..n
  BY <1>1
<1>3. \A k \in 1..n : PriceAt(S, k) \in Nat \ {0}
  <2>1. \A c \in S : c.price \in Nat \ {0}
    BY DEF SoldItem
  <2> QED BY <2>1, PlaceHasPrice DEF n
<1>4. PriceAt(S, (n + 1) \div 2) \in Nat \ {0} /\ PriceAt(S, n \div 2 + 1) \in Nat \ {0}
  BY <1>2, <1>3
<1> QED BY <1>4 DEF TwiceMedian, n

\* What rounding to the nearest leaves.
LEMMA RoundedBounds ==
  ASSUME NEW a \in Int, NEW b \in Nat \ {0}
  PROVE  /\ Rounded(a, b) \in Int
         /\ 2 * b * Rounded(a, b) <= 2 * a + b
         /\ 2 * a + b < 2 * b * Rounded(a, b) + 2 * b
  BY DEF Rounded
-----------------------------------------------------------------------------
(* Cut after cut. *)

LEMMA RecentTyped ==
  ASSUME NEW items \in Samples, NEW day
  PROVE  RecentlySold(items, day) \in SUBSET SoldItem /\ IsFiniteSet(RecentlySold(items, day))
<1>1. items \subseteq SoldItem /\ IsFiniteSet(items)
  BY PriceConstantsOK
<1>2. RecentlySold(items, day) \in SUBSET items
  BY DEF RecentlySold
<1> QED BY <1>1, <1>2, FS_Subset

\* The basis of an advice is an amount.
LEMMA BasisTyped ==
  ASSUME NEW price, NEW items \in Samples, NEW day
  PROVE  Basis(Market(price, items, day)) \in Nat
<1> DEFINE recent == RecentlySold(items, day)
<1>1. CASE recent = {}
  BY <1>1 DEF Basis, Market
<1>2. CASE recent # {}
  <2>1. TwiceMedian(recent) \in Nat
    BY <1>2, RecentTyped, MedianPositive
  <2>2. Market(price, items, day).median2 = TwiceMedian(recent)
    BY <1>2 DEF Market
  <2> QED BY <2>1, <2>2 DEF Basis
<1> QED BY <1>1, <1>2

\* An ask that is not below the market is above 91.99 % of the median.
LEMMA NotBelow ==
  ASSUME NEW price \in Nat, NEW S \in SUBSET SoldItem, IsFiniteSet(S), Cardinality(S) >= 2,
         Position(price, S) \notin {"below", "unknown"}
  PROVE  40000 * price >= 18399 * TwiceMedian(S)
<1> DEFINE M == TwiceMedian(S)
           pct == Above(price, S)
<1>1. M \in Nat \ {0}
  <2>1. S # {}
    BY FS_EmptySet
  <2> QED BY <2>1, MedianPositive
<1>2. Cardinality(S) \in Nat /\ Cardinality(S) # 1
  BY FS_CardinalityType
<1>3. pct \in Int /\ 2 * M * pct <= 2 * ((2 * price - M) * 10000) + M
  <2> DEFINE a == (2 * price - M) * 10000
  <2>1. pct = Rounded(a, M)
    BY DEF Above
  <2>2. a \in Int
    BY <1>1
  <2> HIDE DEF a, M, pct
  <2>3. pct \in Int /\ 2 * M * pct <= 2 * a + M
    BY <1>1, <2>1, <2>2, RoundedBounds
  <2> QED BY <2>3 DEF a
<1> HIDE DEF M, pct
<1>4. pct >= -800
  BY <1>2, <1>3 DEF Position, pct
<1>5. 2 * M * pct >= 2 * M * (-800)
  BY <1>1, <1>3, <1>4
<1>6. 2 * M * (-800) = -1600 * M
  BY <1>1
<1>7. 40000 * price >= 18399 * M
  BY <1>1, <1>3, <1>5, <1>6
<1> QED BY <1>7 DEF M

\* Where the sold items are reliable, a cut is advised of such an ask only.
LEMMA CutNotBelow ==
  ASSUME AdviceTypeOK, AdviceNow \in Markdown, Reliable(MarketNow)
  PROVE  40000 * ask >= 18399 * MarketNow.median2
<1> DEFINE recent == RecentlySold(sample, age)
<1>1. MarketNow.position # "below" /\ MarketNow.position # "unknown"
  BY DEF AdviceNow, Advised, MarketNow, MarketAction, Spared, Markdown, Reliable
<1>2. recent # {}
  BY DEF MarketNow, Market, Reliable
<1>3. /\ MarketNow.count = Cardinality(recent) /\ MarketNow.median2 = TwiceMedian(recent)
      /\ MarketNow.position = Position(ask, recent)
  BY <1>2 DEF MarketNow, Market
<1>4. recent \in SUBSET SoldItem /\ IsFiniteSet(recent) /\ ask \in Nat
  BY RecentTyped DEF AdviceTypeOK
<1>5. Cardinality(recent) >= 2
  BY <1>3 DEF Reliable
<1> HIDE DEF recent
<1> QED BY <1>1, <1>3, <1>4, <1>5, NotBelow

LEMMA CutRounded ==
  ASSUME NEW price \in Nat, NEW action \in Markdown
  PROVE  LET cut == Rounded(price * (100 - PercentOf[action]), 100)
         IN  cut \in Nat /\ 200 * cut + 100 >= 140 * price
<1> DEFINE part == price * (100 - PercentOf[action])
           cut == Rounded(part, 100)
<1>1. PercentOf[action] \in {10, 20, 30}
  BY DEF Markdown, PercentOf
<1>2. part \in Nat /\ part >= 70 * price
  BY <1>1
<1> HIDE DEF part
<1>3. cut \in Int /\ 2 * part + 100 < 200 * cut + 200
  BY <1>2, RoundedBounds
<1>4. cut >= 0
  BY <1>2, <1>3
<1> HIDE DEF cut
<1>5. cut \in Nat /\ 200 * cut + 100 >= 140 * price
  BY <1>2, <1>3, <1>4
<1> QED BY <1>5 DEF cut, part

\* The pending row leads to an ask that the basis of its advice bears.
RowFollowsBasis ==
  row # NoRow =>
    /\ row.basis \in bases
    /\ row.basis # 0 => 200 * row.ask + 100 >= 64 * row.basis

CInv == AdviceTypeOK /\ CutsStopAtMarket /\ RowFollowsBasis

LEMMA CutsInit == ListingInit => CInv
<1> SUFFICES ASSUME ListingInit PROVE CInv
  OBVIOUS
<1>1. PICK l \in Listings : ask = l.ask /\ quality = l.quality
  BY DEF ListingInit
<1>2. l \in [ask: Nat, quality: Quality]
  BY PriceConstantsOK
<1>3. AdviceTypeOK
  BY <1>1, <1>2 DEF ListingInit, AdviceTypeOK, NoRow
<1> QED BY <1>3 DEF CInv, ListingInit, CutsStopAtMarket, RowFollowsBasis
LEMMA RunKeepsCuts == ASSUME CInv, RunPipeline PROVE CInv'
<1> DEFINE cut == Rounded(ask * (100 - PercentOf[AdviceNow]), 100)
           basis == Basis(MarketNow)
           next == [ask |-> cut, basis |-> basis]
<1>1. AdviceTypeOK /\ ask \in Nat /\ bases \subseteq Nat
  BY DEF CInv, AdviceTypeOK
<1>2. AdviceNow \in Markdown
  BY DEF RunPipeline, AdviceNow
<1>3. cut \in Nat /\ 200 * cut + 100 >= 140 * ask
  BY <1>1, <1>2, CutRounded
<1>4. basis \in Nat
  BY <1>1, BasisTyped DEF MarketNow, AdviceTypeOK
<1>5. basis # 0 => 40000 * ask >= 18399 * basis
  BY <1>1, <1>2, CutNotBelow DEF Basis
<1>6. /\ ask' = ask /\ quality' = quality /\ age' = age /\ sample' = sample /\ cap' = cap
      /\ \/ row' = next /\ bases' = bases \cup {basis}
         \/ row' = NoRow /\ bases' = bases
  BY DEF RunPipeline, AdviceNow, MarketNow
<1> HIDE DEF cut, basis
<1>7. next \in [ask: Nat, basis: Nat] /\ NoRow \in [ask: Nat, basis: Nat]
  BY <1>3, <1>4 DEF NoRow
<1>8. basis # 0 => 200 * cut + 100 >= 64 * basis /\ 200 * ask + 100 >= 64 * basis
  BY <1>1, <1>3, <1>4, <1>5
<1>9. AdviceTypeOK'
  BY <1>1, <1>4, <1>6, <1>7 DEF AdviceTypeOK
<1>10. RowFollowsBasis'
  BY <1>6, <1>8 DEF RowFollowsBasis
<1>11. CutsStopAtMarket'
  BY <1>6, <1>8 DEF CInv, CutsStopAtMarket
<1> QED BY <1>9, <1>10, <1>11 DEF CInv

LEMMA CutsStep == CInv /\ [ListingNext]_listingVars => CInv'
<1> SUFFICES ASSUME CInv, [ListingNext]_listingVars PROVE CInv'
  OBVIOUS
<1>1. CASE RunPipeline
  BY <1>1, RunKeepsCuts
<1>2. CASE FollowCut
  <2>1. row \in [ask: Nat, basis: Nat] /\ NoRow \in [ask: Nat, basis: Nat]
    BY DEF CInv, AdviceTypeOK, NoRow
  <2>2. AdviceTypeOK' /\ RowFollowsBasis'
    BY <1>2, <2>1 DEF FollowCut, CInv, AdviceTypeOK, RowFollowsBasis
  <2>3. CutsStopAtMarket'
    BY <1>2 DEF FollowCut, CInv, CutsStopAtMarket, RowFollowsBasis
  <2> QED BY <2>2, <2>3 DEF CInv
<1>3. CASE Improve
  <2>1. quality' \in Quality
    BY <1>3 DEF Improve, CInv, AdviceTypeOK, Quality
  <2> QED BY <1>3, <2>1 DEF Improve, CInv, AdviceTypeOK, CutsStopAtMarket, RowFollowsBasis
<1>4. CASE Pass
  BY <1>4 DEF Pass, CInv, AdviceTypeOK, CutsStopAtMarket, RowFollowsBasis
<1>5. CASE UNCHANGED listingVars
  BY <1>5 DEF listingVars, CInv, AdviceTypeOK, CutsStopAtMarket, RowFollowsBasis
<1> QED BY <1>1, <1>2, <1>3, <1>4, <1>5 DEF ListingNext

\* Cut after cut, with reliable markets, the ask ends in the market: not below
\* 64 % of a median that a cut was based on, for any sold items and any ages
\* (pricing_agent.py:196, orchestrator.py:267).
THEOREM CutsCorrect == ListingSpec => []CutsStopAtMarket
<1>1. CInv => CutsStopAtMarket
  BY DEF CInv
<1> QED BY <1>1, CutsInit, CutsStep, PTL DEF ListingSpec

-----------------------------------------------------------------------------
(* The latest attempts.                                                    *)

Entry == [day: 0..LastDay, event: Outcomes]
Tries == {i \in DOMAIN log : Attempted(log[i])}
Newest(n) == {i \in Tries : i > Len(log) - n}

\* The loop over the newest m events, as the function of its rounds.
Loop(f, m) ==
  f = [n \in 0..m |-> IF n = 0 THEN <<>> ELSE Extended(f[n - 1], log[Len(log) + 1 - n])]

\* What the loop has listed after n rounds: each row has fewer attempts after it
\* than its place says.
Listed(rows, n) ==
  /\ rows \in Seq(Entry)
  /\ Len(rows) = IF Cardinality(Newest(n)) < Limit THEN Cardinality(Newest(n)) ELSE Limit
  /\ \A k \in 1..Len(rows) : \E j \in Newest(n) :
       rows[k] = log[j] /\ Cardinality({i \in Tries : i > j}) < k

\* A set of numbers up to m that is not empty has a least.
LEMMA LeastNumber ==
  ASSUME NEW m \in Nat, NEW B \in SUBSET (0..m), B # {}
  PROVE  \E b \in B : \A c \in B : b <= c
<1> DEFINE F == {0..b : b \in B}
           S == 0..m
<1>1. IsFiniteSet(S)
  BY FS_Interval
<1>2. F \in SUBSET (SUBSET S) /\ F # {}
  <2>1. \A b \in B : 0..b \subseteq S
    OBVIOUS
  <2> HIDE DEF S
  <2> QED BY <2>1
<1>3. PICK U \in F : \A V \in F : V \subseteq U => V = U
  <2> HIDE DEF F, S
  <2> QED BY <1>1, <1>2, SmallestMember
<1>4. PICK b \in B : U = 0..b
  BY <1>3
<1>5. ASSUME NEW c \in B, ~(b <= c) PROVE FALSE
  <2>1. 0..c \in F /\ 0..c \subseteq U /\ b \in U /\ b \notin 0..c
    BY <1>4, <1>5
  <2> QED BY <1>3, <2>1
<1> QED BY <1>5

\* The loop ends: each of its rounds is one after the round before.
LEMMA LoopEnds ==
  ASSUME TypeOK
  PROVE  \E f : Loop(f, Len(log))
<1> DEFINE B == {m \in 0..Len(log) : ~\E f : Loop(f, m)}
<1> SUFFICES ASSUME B # {} PROVE FALSE
  BY PlacesFinite
<1>1. PICK m \in B : \A c \in B : m <= c
  <2>1. B \in SUBSET (0..Len(log)) /\ Len(log) \in Nat
    BY PlacesFinite
  <2> HIDE DEF B
  <2> QED BY <2>1, LeastNumber
<1>2. m \in 0..Len(log) /\ Len(log) \in Nat
  BY PlacesFinite
<1>3. CASE m = 0
  <2>1. Loop([n \in 0..0 |-> <<>>], 0)
    BY DEF Loop
  <2> QED BY <1>3, <2>1
<1>4. CASE m # 0
  <2>1. m - 1 \in 0..Len(log) /\ m - 1 \notin B
    BY <1>1, <1>2, <1>4
  <2>2. PICK g : Loop(g, m - 1)
    BY <2>1
  <2> DEFINE f == [n \in 0..m |-> IF n = m THEN Extended(g[m - 1], log[Len(log) + 1 - m]) ELSE g[n]]
  <2>3. ASSUME NEW n \in 0..m
        PROVE  f[n] = IF n = 0 THEN <<>> ELSE Extended(f[n - 1], log[Len(log) + 1 - n])
    <3>1. CASE n = m
      <4>1. f[n - 1] = g[m - 1] /\ n # 0
        BY <1>2, <1>4, <3>1
      <4> QED BY <3>1, <4>1
    <3>2. CASE n # m
      <4>1. n \in 0..(m - 1) /\ f[n] = g[n] /\ (n # 0 => f[n - 1] = g[n - 1])
        BY <1>2, <3>2
      <4>2. g[n] = IF n = 0 THEN <<>> ELSE Extended(g[n - 1], log[Len(log) + 1 - n])
        BY <2>2, <4>1 DEF Loop
      <4> QED BY <4>1, <4>2
    <3> QED BY <3>1, <3>2
  <2>4. f = [n \in 0..m |-> f[n]]
    OBVIOUS
  <2> HIDE DEF f
  <2>5. Loop(f, m)
    BY <2>3, <2>4 DEF Loop
  <2> QED BY <1>1, <2>5
<1> QED BY <1>3, <1>4

LEMMA NewestFinite ==
  ASSUME TypeOK
  PROVE  /\ IsFiniteSet(Tries)
         /\ \A I \in SUBSET Tries : IsFiniteSet(I) /\ Cardinality(I) \in Nat
BY PlacesFinite, FS_Subset, FS_CardinalityType DEF Tries

\* A round lists an attempt if there is room.
LEMMA RoundLists ==
  ASSUME TypeOK, NEW n \in 1..Len(log), NEW rows, Listed(rows, n - 1)
  PROVE  Listed(Extended(rows, log[Len(log) + 1 - n]), n)
<1> DEFINE i == Len(log) + 1 - n
           A == Newest(n - 1)
<1>1. /\ i \in DOMAIN log /\ log[i] \in Entry /\ Limit \in Nat /\ Limit >= 1
      /\ i = Len(log) + 1 - n /\ Len(log) \in Nat /\ \A j \in Tries : j \in Int
  <2>1. Len(log) \in Nat /\ DOMAIN log = 1..Len(log) /\ log \in Seq(Entry)
    BY PlacesFinite DEF TypeOK, Entry
  <2>2. i \in DOMAIN log /\ \A j \in Tries : j \in Int
    BY <2>1 DEF Tries
  <2>3. log[i] \in Entry
    BY <2>1, <2>2, InSeq
  <2> QED BY <2>1, <2>2, <2>3, ReportConstantsOK
<1>2. /\ IsFiniteSet(A) /\ Cardinality(A) \in Nat /\ A \subseteq Newest(n) /\ i \notin A
      /\ A = {j \in Tries : j > i}
  <2>1. A \in SUBSET Tries
    BY DEF Newest
  <2>2. A \subseteq Newest(n) /\ i \notin A /\ A = {j \in Tries : j > i}
    BY <1>1 DEF Newest
  <2> QED BY <2>1, <2>2, NewestFinite
<1>3. /\ Newest(n) = IF Attempted(log[i]) THEN A \cup {i} ELSE A
  <2>1. \A j \in Tries : j > Len(log) - n <=> (j > Len(log) - (n - 1) \/ j = i)
    BY <1>1
  <2>2. Newest(n) = A \cup {j \in Tries : j = i}
    BY <2>1 DEF Newest
  <2>3. i \in Tries <=> Attempted(log[i])
    BY <1>1 DEF Tries
  <2> QED BY <2>2, <2>3
<1>4. /\ rows \in Seq(Entry) /\ Len(rows) \in Nat
      /\ Len(rows) = IF Cardinality(A) < Limit THEN Cardinality(A) ELSE Limit
      /\ \A k \in 1..Len(rows) : \E j \in A :
           rows[k] = log[j] /\ Cardinality({h \in Tries : h > j}) < k
  BY SMTT(20) DEF Listed
<1> HIDE DEF i, A
<1>5. CASE ~Attempted(log[i])
  <2>1. Extended(rows, log[i]) = rows /\ Newest(n) = A
    BY <1>3, <1>5 DEF Extended
  <2> QED BY <1>4, <2>1 DEF Listed, i
<1>6. CASE Attempted(log[i])
  <2>1. Newest(n) = A \cup {i} /\ Cardinality(A \cup {i}) = Cardinality(A) + 1
    BY <1>2, <1>3, <1>6, FS_AddElement
  <2>2. Cardinality(Newest(n)) = Cardinality(A) + 1
    BY <2>1
  <2>3. CASE Len(rows) < Limit
    <3> DEFINE r == Append(rows, log[i])
    <3>1. Extended(rows, log[i]) = r
      BY <1>6, <2>3 DEF Extended
    <3>2. /\ r \in Seq(Entry) /\ Len(r) = Len(rows) + 1
          /\ \A k \in 1..Len(rows) : r[k] = rows[k]
          /\ r[Len(rows) + 1] = log[i]
      BY <1>1, <1>4
    <3> HIDE DEF r
    <3>3. Len(rows) = Cardinality(A)
      BY <1>1, <1>2, <1>4, <2>3
    <3>4. Len(r) = IF Cardinality(Newest(n)) < Limit THEN Cardinality(Newest(n)) ELSE Limit
      BY <1>1, <1>2, <2>2, <2>3, <3>2, <3>3
    <3>5. ASSUME NEW k \in 1..Len(r)
          PROVE  \E j \in Newest(n) : r[k] = log[j] /\ Cardinality({h \in Tries : h > j}) < k
      <4>1. CASE k = Len(rows) + 1
        <5>1. Cardinality({h \in Tries : h > i}) < k
          BY <1>2, <3>3, <4>1
        <5> QED BY <2>1, <3>2, <4>1, <5>1
      <4>2. CASE k # Len(rows) + 1
        <5>1. k \in 1..Len(rows)
          BY <1>4, <3>2, <4>2
        <5> QED BY <1>2, <1>4, <3>2, <5>1
      <4> QED BY <4>1, <4>2
    <3> QED BY <3>1, <3>2, <3>4, <3>5 DEF Listed, i
  <2>4. CASE ~(Len(rows) < Limit)
    <3>1. Extended(rows, log[i]) = rows
      BY <2>4 DEF Extended
    <3>2. Len(rows) = IF Cardinality(Newest(n)) < Limit THEN Cardinality(Newest(n)) ELSE Limit
      BY <1>1, <1>2, <1>4, <2>2, <2>4
    <3>3. \A k \in 1..Len(rows) : \E j \in Newest(n) :
            rows[k] = log[j] /\ Cardinality({h \in Tries : h > j}) < k
      BY <1>2, <1>4
    <3> QED BY <1>4, <3>1, <3>2, <3>3 DEF Listed, i
  <2> QED BY <2>3, <2>4
<1> QED BY <1>5, <1>6

\* At its end the loop has listed the latest attempts.
LEMMA RecentListed == ASSUME TypeOK PROVE Listed(Recent, Len(log))
<1> DEFINE f == CHOOSE g : Loop(g, Len(log))
<1>1. Recent = f[Len(log)]
  BY DEF Recent, Loop
<1>2. Loop(f, Len(log))
  BY LoopEnds
<1> HIDE DEF f
<1>3. Len(log) \in Nat /\ Limit \in Nat
  BY PlacesFinite, ReportConstantsOK
<1> DEFINE B == {n \in 0..Len(log) : ~Listed(f[n], n)}
<1>4. B = {}
  <2> SUFFICES ASSUME B # {} PROVE FALSE
    OBVIOUS
  <2>1. PICK m \in B : \A c \in B : m <= c
    <3>1. B \in SUBSET (0..Len(log))
      OBVIOUS
    <3> HIDE DEF B
    <3> QED BY <1>3, <3>1, LeastNumber
  <2>2. f[m] = IF m = 0 THEN <<>> ELSE Extended(f[m - 1], log[Len(log) + 1 - m])
    BY <1>2 DEF Loop
  <2>3. CASE m = 0
    <3>1. Newest(0) = {} /\ Cardinality({}) = 0
      BY <1>3, PlacesFinite, FS_EmptySet DEF Newest, Tries
    <3>2. Limit >= 1
      BY ReportConstantsOK
    <3>3. Listed(<<>>, 0)
      <4>1. <<>> \in Seq(Entry) /\ Len(<<>>) = 0 /\ 1..0 = {}
        OBVIOUS
      <4>2. Cardinality(Newest(0)) = 0
        BY <3>1
      <4> QED BY <1>3, <3>2, <4>1, <4>2 DEF Listed
    <3> QED BY <2>1, <2>2, <2>3, <3>3
  <2>4. CASE m # 0
    <3>1. m \in 1..Len(log) /\ m - 1 \in 0..Len(log) /\ m - 1 \notin B
      BY <1>3, <2>1, <2>4
    <3>2. Listed(f[m - 1], m - 1)
      BY <3>1
    <3>3. Listed(f[m], m)
      BY <2>2, <2>4, <3>1, <3>2, RoundLists
    <3> QED BY <2>1, <3>3
  <2> QED BY <2>3, <2>4
<1>5. Len(log) \in 0..Len(log) /\ Len(log) \notin B
  BY <1>3, <1>4
<1> QED BY <1>1, <1>5

\* The log is in the order of the days, and none of them is to come.
Dated ==
  /\ TypeOK
  /\ \A i \in DOMAIN log : log[i].day <= today
  /\ \A i, j \in DOMAIN log : i <= j => log[i].day <= log[j].day

LEMMA DatedHolds == Spec => []Dated
<1>1. Init => Dated
  BY LogInit DEF Init, Dated
<1>2. Dated /\ [Next]_vars => Dated'
  <2> SUFFICES ASSUME Dated, [Next]_vars PROVE Dated'
    OBVIOUS
  <2>1. TypeOK /\ TypeOK' /\ today \in Nat
    BY LogStep, ReportConstantsOK DEF Dated, TypeOK
  <2>2. DOMAIN log = 1..Len(log) /\ Len(log) \in Nat /\ \A i \in DOMAIN log : log[i].day \in Int
    BY <2>1, PlacesFinite
  <2>3. CASE Apply
    <3>1. PICK e \in Outcomes : log' = Append(log, [day |-> today, event |-> e])
      BY <2>3 DEF Apply
    <3>2. /\ Len(log') = Len(log) + 1 /\ DOMAIN log' = 1..(Len(log) + 1)
          /\ \A i \in DOMAIN log : log'[i] = log[i]
          /\ log'[Len(log) + 1] = [day |-> today, event |-> e]
      <4>1. log \in Seq([day: 0..LastDay, event: Outcomes])
        BY <2>1 DEF TypeOK
      <4> QED BY <2>2, <3>1, <4>1
    <3>3. \A i \in DOMAIN log' : log'[i].day <= today
      BY <2>1, <2>2, <3>2 DEF Dated
    <3>4. ASSUME NEW i \in DOMAIN log', NEW j \in DOMAIN log', i <= j
          PROVE  log'[i].day <= log'[j].day
      <4>1. CASE j = Len(log) + 1
        BY <3>2, <3>3, <4>1
      <4>2. CASE j # Len(log) + 1
        <5>1. i \in DOMAIN log /\ j \in DOMAIN log
          BY <2>2, <3>2, <3>4, <4>2
        <5> QED BY <3>2, <3>4, <5>1 DEF Dated
      <4> QED BY <4>1, <4>2
    <3>5. today' = today
      BY <2>3 DEF Apply
    <3> QED BY <2>1, <3>3, <3>4, <3>5 DEF Dated
  <2>4. CASE NextDay
    BY <2>1, <2>2, <2>4 DEF NextDay, Dated
  <2>5. CASE UNCHANGED vars
    BY <2>1, <2>5 DEF vars, Dated
  <2> QED BY <2>3, <2>4, <2>5 DEF Next
<1> QED BY <1>1, <1>2, PTL DEF Spec

LEMMA LatestAreShown == Dated => LatestShown
<1> SUFFICES ASSUME Dated PROVE LatestShown
  OBVIOUS
<1> DEFINE attempts == Failures(DOMAIN log) \cup Successes(DOMAIN log)
<1>1. TypeOK /\ Len(log) \in Nat /\ DOMAIN log = 1..Len(log)
      /\ \A i \in DOMAIN log : log[i].day \in Int
  BY PlacesFinite DEF Dated
<1>2. attempts = Tries
  <2>1. \A i \in DOMAIN log : log[i].event \in Outcome
    <3>1. \A i \in DOMAIN log : log[i] \in [day: 0..LastDay, event: Outcomes]
      BY <1>1, InSeq DEF TypeOK
    <3> QED BY <3>1, ReportConstantsOK
  <2>2. \A i \in DOMAIN log : log[i].event.type \in {"success", "failure", "blocked"}
    BY <2>1 DEF Outcome
  <2> QED BY <2>2 DEF Failures, Successes, Tries, Attempted
<1>3. Newest(Len(log)) = Tries
  BY <1>1 DEF Newest, Tries
<1>4. Listed(Recent, Len(log))
  BY <1>1, RecentListed
<1>5. Len(Recent) = IF Cardinality(attempts) < Limit THEN Cardinality(attempts) ELSE Limit
  BY <1>2, <1>3, <1>4 DEF Listed
<1>6. ASSUME NEW k \in DOMAIN Recent
      PROVE  Cardinality({i \in attempts : log[i].day > Recent[k].day}) < k
  <2>1. k \in 1..Len(Recent) /\ k \in Nat
    BY <1>4, <1>6 DEF Listed
  <2>2. PICK j \in Tries : Recent[k] = log[j] /\ Cardinality({i \in Tries : i > j}) < k
    BY <1>3, <1>4, <2>1 DEF Listed
  <2> DEFINE later == {i \in Tries : i > j}
             younger == {i \in attempts : log[i].day > Recent[k].day}
  <2>3. younger \subseteq later
    <3>1. ASSUME NEW i \in younger PROVE i \in later
      <4>1. i \in Tries /\ i \in DOMAIN log /\ j \in DOMAIN log /\ log[i].day > log[j].day
        BY <1>2, <2>2 DEF Tries
      <4>2. ~(i <= j)
        BY <1>1, <4>1 DEF Dated
      <4> QED BY <1>1, <4>1, <4>2
    <3> QED BY <3>1
  <2>4. IsFiniteSet(later) /\ Cardinality(later) \in Nat
    BY <1>1, NewestFinite
  <2> HIDE DEF later, younger
  <2>5. IsFiniteSet(younger) /\ Cardinality(younger) <= Cardinality(later)
    BY <2>3, <2>4, FS_Subset
  <2>6. Cardinality(younger) \in Nat
    BY <2>5, FS_CardinalityType
  <2>7. Cardinality(younger) < k
    BY <2>1, <2>2, <2>4, <2>5, <2>6 DEF later
  <2> QED BY <2>7 DEF younger
<1> QED BY <1>5, <1>6 DEF LatestShown

\* The dashboard hides neither a failure of the week, as long as its lists have
\* room, nor a late attempt (live_write_visibility.py:294, 360, 604): what its
\* loops count and where they stop, for every log, limit and number of samples.
THEOREM HidesNothing == Spec => []NothingHidden
<1>1. Spec => []LatestShown
  BY DatedHolds, LatestAreShown, PTL
<1>2. EveryFailureShown /\ LatestShown => NothingHidden
  BY DEF NothingHidden
<1> QED BY <1>1, <1>2, FailuresShown, PTL

-----------------------------------------------------------------------------
\* The log and the listing keep their types, whichever a behaviour follows.
THEOREM ReportsTyped == ReportsSpec => []ReportsTypeOK
<1>1. ReportsInit => TypeOK /\ CInv
  BY LogInit, CutsInit DEF ReportsInit
<1>2. TypeOK /\ CInv /\ [ReportsNext]_<<vars, listingVars, subject>> => (TypeOK /\ CInv)'
  <2> SUFFICES ASSUME TypeOK, CInv, [ReportsNext]_<<vars, listingVars, subject>>
               PROVE  TypeOK' /\ CInv'
    OBVIOUS
  <2>1. [Next]_vars /\ [ListingNext]_listingVars
    BY DEF ReportsNext
  <2> QED BY <2>1, LogStep, CutsStep
<1>3. TypeOK /\ CInv => ReportsTypeOK
  BY DEF CInv, ReportsTypeOK
<1> QED BY <1>1, <1>2, <1>3, PTL DEF ReportsSpec

=============================================================================
