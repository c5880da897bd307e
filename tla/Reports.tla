------------------------------ MODULE Reports ------------------------------
(***************************************************************************)
(* The two subjects of the dashboard's advice: the log of live writes, and *)
(* the price of a listing.  Neither reads the other, so a behaviour        *)
(* follows one of them, and the other stays as it begins.                  *)
(***************************************************************************)
EXTENDS LiveWrites, PriceAdvice

VARIABLE subject

\* A listing, a market and a cap for the behaviours that follow the log.
SomeListing ==
  CHOOSE v \in {<<l.ask, l.quality, s, c>> : l \in Listings, s \in Samples, c \in Caps} : TRUE

ReportsInit ==
  /\ Init /\ ListingInit /\ subject \in {"writes", "listing"}
  /\ subject = "writes" => <<ask, quality, sample, cap>> = SomeListing

ReportsNext ==
  \/ subject = "writes" /\ Next /\ UNCHANGED <<subject, listingVars>>
  \/ subject = "listing" /\ ListingNext /\ UNCHANGED <<subject, vars>>

ReportsSpec == ReportsInit /\ [][ReportsNext]_<<vars, listingVars, subject>>

ReportsTypeOK == TypeOK /\ AdviceTypeOK

=============================================================================
