----------------------------- MODULE PriceAdvice -----------------------------
(***************************************************************************)
(* What a run of the pipeline advises on the price of one listing, from    *)
(* its age, its quality and the items like it that were sold: the summary  *)
(* of the sold items (services/comp_market.py), the strategy               *)
(* (analytics/strategy_scoring.py), the action (agents/pricing_agent.py),  *)
(* the row in the queue (services/orchestrator.py) and the verdict of      *)
(* policy (policies/safety.py).                                            *)
(*                                                                         *)
(* The listing ages, the items sold get old, and the operator follows, at  *)
(* any later time, the cut that is pending.  Money is in cents.  Scores    *)
(* are whole numbers of the smallest fraction that makes the weights of    *)
(* the code whole, so that a comparison decides as over the reals.         *)
(***************************************************************************)
EXTENDS Integers, FiniteSets, FiniteSetsExt

CONSTANTS
  Listings,    \* the listings that are looked at
  Samples,     \* sets of sold items that an adapter finds for one of them
  Ages,        \* days of a listing on which something is done
  Caps,        \* values of max_auto_markdown_pct
  RiskBase,    \* stale_risk_base, in parts of 2400
  DeadAge,     \* age_threshold_days_180
  LowestAsk    \* bound: no ask below it is modelled

Quality == [premium: BOOLEAN, watchers: Nat, views: Nat, weakTitles: Nat, missing: Nat,
            weakDescription: BOOLEAN]
SoldItem == [price: Nat \ {0}, day: Int, quality: 0..100]

ASSUME PriceConstantsOK ==
  /\ Listings \subseteq [ask: Nat, quality: Quality]
  /\ \A sample \in Samples : sample \subseteq SoldItem /\ IsFiniteSet(sample)
  /\ Ages \subseteq Nat /\ Caps \subseteq 0..100
  /\ RiskBase \in 0..2400 /\ DeadAge \in Nat /\ LowestAsk \in Nat

Path == {"FAST_MOVE", "OPTIMIZE_AND_HOLD", "PREMIUM_PATIENCE", "AGING_RISK", "REPRICE_NOW",
         "REPACKAGE", "END_AND_SELL_SIMILAR"}
Velocity == {"REPRICE_NOW", "FAST_MOVE"}

Markdown == {"MARKDOWN_10", "MARKDOWN_20", "MARKDOWN_30"}
Action == Markdown \cup {"HOLD", "REVIEW", "IMPROVE_TITLE", "FILL_SPECIFICS", "SEND_OFFER",
                         "END_AND_SELL_SIMILAR", "BUNDLE_CANDIDATE"}

\* _markdown_pct of the orchestrator.
PercentOf == [MARKDOWN_10 |-> 10, MARKDOWN_20 |-> 20, MARKDOWN_30 |-> 30]

NoRow == [ask |-> 0, basis |-> 0]

VARIABLES
  ask,      \* price_amount of the listing
  quality,  \* what else of the listing the advice reads
  age,      \* its days_active
  sample,   \* the sold items
  cap,      \* max_auto_markdown_pct of this installation
  row,      \* the pending markdown: the ask it leads to, and the basis of the advice
  bases     \* history: the basis of every cut that was advised

listingVars == <<ask, quality, age, sample, cap, row, bases>>

-----------------------------------------------------------------------------
(* summarize_sold_comps, with a window of 90 days.                         *)

Least(a, b) == IF a <= b THEN a ELSE b
Rounded(a, b) == (2 * a + b) \div (2 * b)

RecentlySold(items, day) == {c \in items : c.day >= day - 90}

\* The price at a place in the order of prices, and twice the median.
PriceAt(items, k) ==
  CHOOSE p \in {c.price : c \in items} :
    /\ Cardinality({c \in items : c.price < p}) < k
    /\ Cardinality({c \in items : c.price <= p}) >= k
TwiceMedian(items) ==
  LET n == Cardinality(items)
  IN  PriceAt(items, (n + 1) \div 2) + PriceAt(items, n \div 2 + 1)

\* In thousandths: the number of items, and how well they match.
Confidence(items) ==
  LET n   == Cardinality(items)
      sum == MapThenSumSet(LAMBDA c : c.quality, items)
  IN  Least(IF n = 1 THEN 550 ELSE 1000, 220 + 95 * Least(n, 4) + Rounded(4 * sum, n))

\* The ask against the median, in hundredths of a percent.
Above(price, items) == Rounded((2 * price - TwiceMedian(items)) * 10000, TwiceMedian(items))

Position(price, items) ==
  LET single == Cardinality(items) = 1
      pct    == Above(price, items)
  IN  IF Confidence(items) < 350 THEN "unknown"
      ELSE IF pct > (IF single THEN 1800 ELSE 1000) THEN "above"
      ELSE IF pct < (IF single THEN -1200 ELSE -800) THEN "below"
      ELSE "at"

Market(price, items, day) ==
  LET recent == RecentlySold(items, day)
  IN  IF recent = {} THEN [count |-> 0, confidence |-> 0, median2 |-> 0, position |-> "unknown"]
      ELSE [count |-> Cardinality(recent), confidence |-> Confidence(recent),
            median2 |-> TwiceMedian(recent), position |-> Position(price, recent)]

\* _market_sample_reliable, "strong" in the pricing agent.
Reliable(m) == m.count >= 2 /\ m.confidence >= 450 /\ m.position # "unknown"

-----------------------------------------------------------------------------
(* StrategyScorer.                                                         *)

\* dead_stock_likely of the analyst.
Dead(q, day) == day >= DeadAge /\ q.watchers <= 1

\* In parts of 2400.
StaleRisk(q, day) ==
  Least(2400, RiskBase + 11 * Least(day, 120) + (IF q.watchers >= 2 THEN 0 ELSE 360)
                + (IF Dead(q, day) THEN 600 ELSE 0))

\* In percent.
OptimizationNeed(q) ==
  Least(100, 25 * q.weakTitles + 12 * q.missing + (IF q.weakDescription THEN 20 ELSE 0))

\* In parts of 864000000, which is 90 * 4800 * 2000.
Likelihood(percent) == 8640000 * percent
SaleLikelihood(q, day) ==
  LET remaining == IF day < 90 THEN 90 - day ELSE 0
      demand    == Least(500, 50 * q.watchers + q.views)
  IN  Least(Likelihood(100),
            remaining * (4800 - StaleRisk(q, day)) * (2000 - 7 * OptimizationNeed(q))
              + 259200 * demand + (IF q.premium THEN Likelihood(8) ELSE 0))

\* Variant for mutation: engagement protects for the 90 days only.
EngagedPremiumFor90(q, day) == q.premium /\ q.watchers >= 2 /\ day < 90

\* A premium listing that is watched, before age forces action.
EngagedPremium(q, day) == q.premium /\ q.watchers >= 2 /\ day < 100

\* _pick_path_baseline: the first rule that applies.
BaselinePath(price, q, day) ==
  LET need == OptimizationNeed(q)
      sale == SaleLikelihood(q, day)
  IN  IF EngagedPremium(q, day) THEN "PREMIUM_PATIENCE"
      ELSE IF day >= 95 /\ price < 3500 /\ q.watchers = 0 /\ ~q.premium THEN "REPACKAGE"
      ELSE IF day >= 120 /\ StaleRisk(q, day) > 1560 /\ q.watchers <= 1
        THEN "END_AND_SELL_SIMILAR"
      ELSE IF day >= 75 /\ sale < Likelihood(35) /\ need < 35 THEN "REPRICE_NOW"
      ELSE IF day >= 60 /\ need >= 45 THEN "OPTIMIZE_AND_HOLD"
      ELSE IF day >= 90 /\ Dead(q, day) THEN "AGING_RISK"
      ELSE IF day >= 45 /\ need >= 50 THEN "OPTIMIZE_AND_HOLD"
      ELSE IF q.premium /\ day < 90 THEN "PREMIUM_PATIENCE"
      ELSE IF day >= 30 /\ sale < Likelihood(45) /\ ~q.premium THEN "FAST_MOVE"
      ELSE IF q.weakTitles >= 2 /\ day >= 45 THEN "OPTIMIZE_AND_HOLD"
      ELSE "FAST_MOVE"

\* Quality gaps, as the scorer sees them and as the pricing agent does.
Gaps(q) == q.weakTitles >= 2 \/ q.missing >= 2
WeakListing(q) == OptimizationNeed(q) >= 35 \/ Gaps(q)

\* Variant for mutation: gaps are put before the default path only.
GapsFirstUnlessAged(base, q, m) == m.position = "at" /\ WeakListing(q) /\ base = "FAST_MOVE"

\* The price is fair, and the listing is not.
GapsFirst(base, q, m) == m.position = "at" /\ WeakListing(q) /\ base \in Velocity

\* _apply_market_strategy_layer: one position, so one rule at most applies.
MarketPath(base, q, day, m) ==
  LET weakDemand == SaleLikelihood(q, day) < Likelihood(42) /\ q.watchers <= 1
  IN  IF ~Reliable(m) THEN base
      ELSE IF m.position = "above" /\ q.premium /\ q.watchers >= 2 /\ base \in Velocity
        THEN "PREMIUM_PATIENCE"
      ELSE IF m.position = "above" /\ day >= 75 /\ q.watchers <= 1
                /\ base \in {"PREMIUM_PATIENCE", "OPTIMIZE_AND_HOLD", "FAST_MOVE", "AGING_RISK"}
        THEN "REPRICE_NOW"
      ELSE IF m.position = "below" /\ weakDemand /\ base \in Velocity THEN "OPTIMIZE_AND_HOLD"
      ELSE IF GapsFirst(base, q, m) THEN "OPTIMIZE_AND_HOLD"
      ELSE base

-----------------------------------------------------------------------------
(* PricingAgent.                                                           *)

\* Variant for mutation: the cap is left to policy.
MarkdownPercentUncapped(q, day, most) ==
  IF day >= 100 THEN 30 ELSE IF day >= 75 THEN 20 ELSE 10

\* _markdown_pct of the agent.
MarkdownPercent(q, day, most) ==
  LET steps   == IF day >= 100 THEN 30 ELSE IF day >= 75 THEN 20 ELSE 10
      engaged == q.premium /\ q.watchers >= 2
  IN  Least(most, IF engaged /\ steps > 10 THEN steps - 10 ELSE steps)

MarkdownOf(percent) ==
  IF percent >= 30 THEN "MARKDOWN_30" ELSE IF percent >= 20 THEN "MARKDOWN_20" ELSE "MARKDOWN_10"

\* recommend: the action that the strategy leads to.
ActionFor(path, q, day, most) ==
  IF path = "END_AND_SELL_SIMILAR" THEN "END_AND_SELL_SIMILAR"
  ELSE IF path = "REPRICE_NOW" THEN MarkdownOf(MarkdownPercent(q, day, most))
  ELSE IF path = "OPTIMIZE_AND_HOLD" \/ Gaps(q)
    THEN IF q.weakTitles >= 1 THEN "IMPROVE_TITLE" ELSE "FILL_SPECIFICS"
  ELSE IF path = "PREMIUM_PATIENCE" THEN IF q.watchers >= 2 THEN "HOLD" ELSE "REVIEW"
  ELSE IF path = "FAST_MOVE" THEN "MARKDOWN_10"
  ELSE IF path = "REPACKAGE" THEN "BUNDLE_CANDIDATE"
  ELSE "MARKDOWN_20"

\* Those who watch get an offer first.
OfferFirst(action, q, day) ==
  IF q.watchers >= 3 /\ day < 90 /\ action \in {"MARKDOWN_20", "MARKDOWN_30"}
  THEN "SEND_OFFER" ELSE action

\* Variant for mutation: an ask below the market is spared the light cut only.
SparedLightly(action) == action = "MARKDOWN_10"

\* The cuts that an ask below the market is spared.
Spared(action) == action \in Markdown

\* _apply_market_layer.
MarketAction(action, path, q, day, m) ==
  IF ~Reliable(m) THEN action
  ELSE IF m.position = "below" THEN IF Spared(action) THEN "REVIEW" ELSE action
  ELSE IF m.position = "at"
    THEN IF Gaps(q) /\ path # "END_AND_SELL_SIMILAR" /\ action \in {"MARKDOWN_10", "MARKDOWN_20"}
         THEN "IMPROVE_TITLE" ELSE action
  ELSE IF q.premium /\ q.watchers >= 2 /\ day >= 45 THEN "HOLD"
  ELSE IF ~Gaps(q) /\ day >= 45 /\ action = "HOLD" THEN "MARKDOWN_10"
  ELSE IF Gaps(q) /\ action \in Markdown THEN "IMPROVE_TITLE"
  ELSE action

\* The scorer, and the agent on what it says.
Advised(price, q, day, items, most) ==
  LET m    == Market(price, items, day)
      path == MarketPath(BaselinePath(price, q, day), q, day, m)
  IN  MarketAction(OfferFirst(ActionFor(path, q, day, most), q, day), path, q, day, m)

-----------------------------------------------------------------------------
(* The pipeline, the queue and the operator.                               *)

\* _compute_outcome, for the rows of the pricing agent.
PolicyAllows(action, q, most) ==
  /\ action = "END_AND_SELL_SIMILAR" => q.watchers = 0
  /\ action \in Markdown => PercentOf[action] <= most

\* What a cut rests on: twice the median of a reliable sample, or nothing.
Basis(m) == IF Reliable(m) THEN m.median2 ELSE 0

ListingInit ==
  /\ \E l \in Listings : ask = l.ask /\ quality = l.quality
  /\ age \in Ages /\ \A d \in Ages : age <= d
  /\ sample \in Samples /\ cap \in Caps
  /\ row = NoRow /\ bases = {}

\* run_pipeline on this listing: a markdown replaces the one that is pending,
\* and is rejected at once if policy forbids it; other advice leaves it there.
RunPipeline ==
  LET action == Advised(ask, quality, age, sample, cap)
      basis  == Basis(Market(ask, sample, age))
  IN  /\ action \in Markdown
      /\ IF PolicyAllows(action, quality, cap)
         THEN /\ row' = [ask |-> Rounded(ask * (100 - PercentOf[action]), 100), basis |-> basis]
              /\ bases' = bases \cup {basis}
         ELSE row' = NoRow /\ UNCHANGED bases
  /\ UNCHANGED <<ask, quality, age, sample, cap>>

\* The operator approves the cut and asks on eBay what it says.
FollowCut ==
  /\ row # NoRow /\ row.ask >= LowestAsk
  /\ ask' = row.ask
  /\ row' = NoRow
  /\ UNCHANGED <<quality, age, sample, cap, bases>>

\* Title, specifics and description are put right.
Improve ==
  /\ quality' = [quality EXCEPT !.weakTitles = 0, !.missing = 0, !.weakDescription = FALSE]
  /\ UNCHANGED <<ask, age, sample, cap, row, bases>>

Pass ==
  /\ age' \in Ages /\ age' > age
  /\ UNCHANGED <<ask, quality, sample, cap, row, bases>>

ListingNext == RunPipeline \/ FollowCut \/ Improve \/ Pass

ListingSpec == ListingInit /\ [][ListingNext]_listingVars

-----------------------------------------------------------------------------
AdviceNow == Advised(ask, quality, age, sample, cap)
MarketNow == Market(ask, sample, age)

\* Run after run, each cut follows the one before, and nothing remembers it.
\* While the sold items are reliable, following the advice ends in the market:
\* the ask is not below 64 % of a median that a cut was based on (half a cent
\* apart), however late a row is followed and whatever became of the sample.
CutsStopAtMarket ==
  bases # {} /\ 0 \notin bases => \E median2 \in bases : 200 * ask + 100 >= 64 * median2

\* A premium listing that is watched keeps its price for 100 days, in every
\* market: three layers give a reason to cut it.
EngagedPremiumKept ==
  quality.premium /\ quality.watchers >= 2 /\ age < 100 => AdviceNow \notin Markdown

\* A fair price is not cut while the listing has gaps: the agent spares it the
\* lighter cuts, and the scorer the path to the deepest.
FairPriceFixedFirst ==
  /\ DeadAge >= 120
  /\ Reliable(MarketNow) /\ MarketNow.position = "at" /\ WeakListing(quality)
  => AdviceNow \notin Markdown

\* The agent never advises a cut that policy then rejects, if policy allows any
\* of its steps: of the paths that do not ask for the cap, some advise the
\* lightest cut, and the one that advises a deeper cut is never taken.
AdviceWithinCap ==
  cap >= 10 /\ DeadAge >= 120 /\ AdviceNow \in Markdown => PercentOf[AdviceNow] <= cap

AdviceTypeOK ==
  /\ ask \in Nat /\ quality \in Quality /\ age \in Ages
  /\ sample \in Samples /\ cap \in Caps
  /\ row \in [ask: Nat, basis: Nat] /\ bases \subseteq Nat

=============================================================================
