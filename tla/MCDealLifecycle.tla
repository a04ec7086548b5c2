-------------------------- MODULE MCDealLifecycle --------------------------
(***************************************************************************)
(* Small instances of DealLifecycle.  Prices are in cents with the real    *)
(* thresholds of config/deal_rules.yaml; the unit of time is the confirm   *)
(* gap.                                                                    *)
(***************************************************************************)
EXTENDS DealLifecycle

Fetch(price, claimed) ==
    [price |-> price, shipping |-> 0, claimed |-> claimed, clearance |-> TRUE,
     avail |-> "IN_STOCK", variant |-> "v1", listing |-> "v1", guard |-> FALSE]

(* A reference of 10000: half price, a rise beyond the tolerance, and a     *)
(* price in the review band that is a large move.                           *)
HalfPrice == Fetch(5000, 10000)
Risen     == [HalfPrice EXCEPT !.price = 9000]
InReview  == [HalfPrice EXCEPT !.price = 1000]

Verified == [cents |-> 10000, sameScope |-> TRUE]
Foreign  == [cents |-> 10000, sameScope |-> FALSE]

PageReferences == {NoReference, Verified}

WideInputs ==
    {HalfPrice, InReview, Risen,
     [HalfPrice EXCEPT !.variant = "v2", !.listing = "v2"],
     [HalfPrice EXCEPT !.listing = "v2"],
     [HalfPrice EXCEPT !.avail = "OUT_OF_STOCK"], [HalfPrice EXCEPT !.guard = TRUE],
     [HalfPrice EXCEPT !.price = 5090], [HalfPrice EXCEPT !.claimed = 0],
     [HalfPrice EXCEPT !.price = 0],
     [HalfPrice EXCEPT !.shipping = 200, !.price = 4900]}
WideReferences == {NoReference, Verified, Foreign}

PairInputs  == {HalfPrice, InReview}

(* stale_hours, in the unit of time of these instances.                     *)
StaleDealsExpireAfterOne == StaleDealsExpire(1)
=============================================================================
