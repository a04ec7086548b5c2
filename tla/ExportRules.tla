---------------------------- MODULE ExportRules ----------------------------
(***************************************************************************)
(* The pure side of the feed export: which rows the queries select         *)
(* (fpt/export/queries.py), the documents made of them                     *)
(* (fpt/export/build.py) and what the validation asks of those             *)
(* (fpt/export/validate.py).                                               *)
(***************************************************************************)
EXTENDS Integers

STALE_AFTER_HOURS == 12
DEGRADED_BLOCK_RATE == 20   \* percent
Null == -1
Never == -1                 \* no fetch, no open breaker

-----------------------------------------------------------------------------
(* The vocabulary of the schema.                                            *)

Lanes == {"VERIFIED", "CLAIMED", "USED"}
SellerTypes == {"FIRST_PARTY", "RETAILER_RESALE", "MARKETPLACE_3P"}
Availabilities == {"IN_STOCK", "OUT_OF_STOCK", "STORE_ONLY", "BACKORDER", "UNKNOWN"}
ClaimedKinds == {"WAS", "MSRP", "LIST", "COMPARE_AT"}
Conditions == {"NEW", "NEW_OPEN_BOX", "REFURBISHED", "USED_LIKE_NEW",
               "USED_VERY_GOOD", "USED_GOOD", "USED_ACCEPTABLE", "USED_UNGRADED"}

(* The reference kinds the deal engine stores under each lane.              *)
KindsOf(lane) ==
    CASE lane = "VERIFIED" -> {"OWN_HISTORY_MEDIAN_90D", "CROSS_RETAILER_NEW"}
      [] lane = "CLAIMED"  -> {"RETAILER_CLAIMED"}
      [] lane = "USED"     -> {"CURRENT_NEW"}

(* A deals row joined with its offer, listing, seller and last observation. *)
(* host is whether its URL is https on a host of its retailer; cents are    *)
(* the amounts of money there are, of which the schema admits no free one   *)
(* but for shipping.  The kind and the amount of a claim are two columns.   *)
DealRow(cents) ==
    UNION {[status : {"CONFIRMING", "ACTIVE", "HELD_REVIEW", "EXPIRED"},
            lane : {lane}, kind : KindsOf(lane),
            confirmed : BOOLEAN, shipping : cents \union {0, Null}, price : cents \ {0},
            claimed : [kind : ClaimedKinds \union {"none"},
                       cents : (cents \ {0}) \union {Null}],
            condition : Conditions, seller : SellerTypes,
            availability : Availabilities, host : BOOLEAN] : lane \in Lanes}

-----------------------------------------------------------------------------
(* queries.py.                                                              *)

(* _ACTIVE_DEALS_SQL: confirmed deals only, and a used one only when its    *)
(* shipping is known.                                                       *)
Publishable(row) ==
    /\ row.status = "ACTIVE" /\ row.confirmed
    /\ row.lane # "USED" \/ row.shipping # Null

-----------------------------------------------------------------------------
(* build.py.                                                                *)

SellerType(raw) == IF raw = "MARKETPLACE_3P" THEN "MARKETPLACE" ELSE "FIRST_PARTY"

AvailabilityShown(raw) == IF raw \in {"IN_STOCK", "STORE_ONLY"} THEN raw ELSE "OUT_OF_STOCK"

ClaimedKind(raw) == IF raw \in {"WAS", "MSRP"} THEN raw ELSE "LIST"

(* Faulty: a kind of the used lane that the site does not know is passed on.*)
ReferenceKindRaw(raw) == raw

ReferenceKind(raw) == IF raw = "CURRENT_NEW" THEN "CROSS_RETAILER_NEW" ELSE raw

(* A verified reference or none; the retailer's claim never takes its place.*)
Reference(row) == IF row.kind = "RETAILER_CLAIMED" THEN "none" ELSE ReferenceKind(row.kind)

Claimed(row) ==
    IF row.claimed.cents = Null THEN [kind |-> "none", cents |-> Null]
    ELSE [kind |-> ClaimedKind(row.claimed.kind), cents |-> row.claimed.cents]

BuildDeal(row) ==
    [lane |-> row.lane, reference |-> Reference(row), claimed |-> Claimed(row),
     condition |-> row.condition, seller |-> SellerType(row.seller),
     price |-> row.price, shipping |-> row.shipping,
     availability |-> AvailabilityShown(row.availability), host |-> row.host]

(* A retailer's last OK fetch and breaker deadline, as hours on one clock,  *)
(* and its requests of the last 24 hours.                                   *)
Stale(r, now) == r.lastOk = Never \/ now - r.lastOk > STALE_AFTER_HOURS

BreakerOpen(r, now) == r.breaker # Never /\ r.breaker > now

Blocked(r) == r.fetched > 0 /\ r.blocked * 100 > DEGRADED_BLOCK_RATE * r.fetched

(* _retailer_health.                                                        *)
RetailerHealth(r, now) ==
    CASE BreakerOpen(r, now) -> [health |-> "FAILED", stale |-> TRUE]
      [] Stale(r, now) /\ ~BreakerOpen(r, now) -> [health |-> "DEGRADED", stale |-> TRUE]
      [] OTHER -> [health |-> IF Blocked(r) THEN "DEGRADED" ELSE "HEALTHY", stale |-> FALSE]

-----------------------------------------------------------------------------
(* validate.py: the enumerations of the site's types, the agreement of lane *)
(* and reference, and the URL.                                              *)

DealSchema ==
    [lane : Lanes,
     reference : {"OWN_HISTORY_MEDIAN_90D", "CROSS_RETAILER_NEW", "DATA_API_HISTORY", "none"},
     claimed : [kind : {"MSRP", "WAS", "LIST"}, cents : Nat \ {0}]
               \union {[kind |-> "none", cents |-> Null]},
     condition : Conditions, seller : {"FIRST_PARTY", "MARKETPLACE"},
     price : Nat \ {0}, shipping : Nat \union {Null},
     availability : {"IN_STOCK", "STORE_ONLY", "OUT_OF_STOCK"}, host : BOOLEAN]

ValidDeal(deal) ==
    /\ deal \in DealSchema
    /\ (deal.lane = "CLAIMED") = (deal.reference = "none")
    /\ deal.host

-----------------------------------------------------------------------------
(* Properties.                                                              *)

(* Whatever the deal engine stores, its row becomes a card that passes the  *)
(* validation, provided its URL does: no combination of the schema's        *)
(* enumerations, amounts and NULLs can stop the whole export.  A text that  *)
(* is empty, which the schema allows as well, is not among the rows here.   *)
RowsPublish(rows) ==
    \A row \in rows : Publishable(row) /\ row.host => ValidDeal(BuildDeal(row))

=============================================================================
