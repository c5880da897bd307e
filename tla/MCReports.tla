----------------------------- MODULE MCReports -----------------------------
(* Reports for TLC: the default policy, listings on both sides of each      *)
(* threshold of the advice, and a market for each position of the ask.      *)
EXTENDS Reports

Made(type, why) == [type |-> type, live |-> TRUE, guarded |-> TRUE, why |-> why]

MCOutcomes == {
  Made("success", "ok"),
  Made("failure", "title_drift"), Made("failure", "get_401"),
  Made("failure", "specifics_merge"),
  [Made("blocked", "identity") EXCEPT !.live = FALSE]}

\* The default policy, with fewer attempts asked for.
MCPolicy == [minReadiness |-> 2, minRate |-> 3, critical |-> 50, floor |-> 55, ready |-> 65,
             jumpMin |-> 2, jumpDelta |-> 2, priorMin |-> 1]

MCAges == {0, 30, 45, 60, 75, 90, 95, 100, 120, 180}

MCQualities == {
  q \in [premium: BOOLEAN, watchers: {0, 1, 2, 3}, views: {0, 400}, weakTitles: 0..2, missing: 0..2,
         weakDescription: BOOLEAN] :
  /\ q.views = 400 => q.watchers = 3
  /\ q.weakDescription => q.weakTitles < 2 }

MCListings == [ask: {3600, 10000}, quality: MCQualities]

Sold(price, day, match) == [price |-> price, day |-> day, quality |-> match]

MCSamples == {
  {},
  {Sold(10000, -10, 80)},
  {Sold(10000, 5, 0), Sold(9900, 10, 10)},
  {Sold(10600, 20, 70), Sold(10400, 70, 80)},
  {Sold(7000, 100, 80), Sold(8000, 95, 80), Sold(9000, 90, 80)},
  {Sold(3500, -20, 80), Sold(3700, 20, 70), Sold(4000, 60, 80)}}

=============================================================================
