------------------------------ MODULE MCCatalog ------------------------------
(***************************************************************************)
(* Two retailers.  One barcode is at both, at one of them under two SKUs;  *)
(* two products have one slug; a barcode appears only later; two variants  *)
(* of a page have no SKU; a used offer has its own SKU.                    *)
(*                                                                         *)
(* What comes before a page is ingested is checked here as well, over      *)
(* bounded inputs: the admission of a site and the parsers.                *)
(***************************************************************************)
EXTENDS Intake

Base == [retailer |-> "a", sku |-> "s1", brand |-> "B", category |-> "rod",
         model |-> "m1", slug |-> "x", attributes |-> "k1", label |-> "L1", gtin |-> {"b1"}, unit |-> 1, safe |-> TRUE,
         offer |-> "new", seller |-> "a", type |-> "FIRST_PARTY", group |-> "NEW",
         price |-> 10, ship |-> Null, stock |-> TRUE, clearance |-> FALSE, ok |-> TRUE]

Sale == [Base EXCEPT !.price = 6, !.clearance = TRUE]
Other == [Base EXCEPT !.retailer = "b", !.brand = "none", !.category = "other",
                      !.attributes = "none", !.price = 9]
Gone == [Other EXCEPT !.price = 7, !.stock = FALSE]
Twin == [Base EXCEPT !.sku = "s2", !.unit = 2, !.label = "L2", !.price = 18]
Late == [Base EXCEPT !.retailer = "b", !.sku = "s3", !.model = "m3", !.gtin = {}]
Used == [Base EXCEPT !.sku = "s4", !.model = "m4", !.offer = "used", !.group = "USED",
                     !.type = "RETAILER_RESALE", !.price = 5]
Bare(label, price) ==
    [Base EXCEPT !.sku = "", !.model = "m5", !.slug = "y", !.attributes = "none",
                 !.gtin = {}, !.label = label, !.price = price]

SomePages ==
    {<<Base, Twin>>, <<Sale>>, <<Other>>, <<Gone>>, <<Late>>,
     <<[Late EXCEPT !.gtin = {"b1"}]>>, <<Used>>,
     <<Bare("L1", 4), Bare("L2", 8)>>, <<[Base EXCEPT !.safe = FALSE]>>}

-----------------------------------------------------------------------------
RobotsLines ==
    [key : {"user-agent"}, value : {"ai", "bot", "*"}]
        \cup [key : {"disallow"}, value : {"/", "/*", "/p"}] \cup [key : {"allow"}, value : {"/"}]

SomeTexts == UNION {[1..n -> RobotsLines] : n \in 0..4}
SomePaths == {{"/"}, {"/", "/p"}}

SomeAmounts == {Null, 0, 1, 2}

(* Every product of up to two variants.                                     *)
SomeProducts ==
    [variants : UNION {[1..n -> Parsers!Variant] : n \in 1..2}, link : {"none", "shop"},
     decoy : {FALSE}, extremes : {FALSE}, used : {FALSE}, closeout : {FALSE}]

(* Those again that are linked and cost something, at sites that show       *)
(* ranges and that do not, used and on closeout or not.                     *)
PairProducts ==
    [variants : UNION {[1..n -> [price : {Null, 1, 2}, was : {Null, 1, 2},
                                 available : BOOLEAN]] : n \in 1..2},
     link : {"shop"}, decoy : {FALSE}, extremes : BOOLEAN, used : BOOLEAN, closeout : BOOLEAN]
=============================================================================
