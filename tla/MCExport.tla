------------------------------ MODULE MCExport ------------------------------
(***************************************************************************)
(* Two deals of two products, with rows that are published, no longer      *)
(* active or invalid, and a retailer that is fresh or stale.               *)
(***************************************************************************)
EXTENDS Export, TLC

Row(lane, kind) ==
    [status |-> "ACTIVE", lane |-> lane, kind |-> kind, confirmed |-> TRUE,
     shipping |-> 0, price |-> 1, claimed |-> [kind |-> "none", cents |-> Null],
     condition |-> "NEW", seller |-> "FIRST_PARTY", availability |-> "IN_STOCK",
     host |-> TRUE]

Good1 == Row("VERIFIED", "CROSS_RETAILER_NEW")
Rows == {Good1, [Good1 EXCEPT !.status = "EXPIRED"], [Good1 EXCEPT !.host = FALSE]}

TwoDeals == {"d1", "d2"}
OneProductEach == "d1" :> "p1" @@ "d2" :> "p2"

Retailer(hour) == [lastOk |-> hour, breaker |-> Never, fetched |-> 0, blocked |-> 0]
Retailers == {Retailer(20), Retailer(3)}
=============================================================================
