----------------------------- MODULE MCDiscovery -----------------------------
(* Instances of Discovery: two retailers, the first with a cap of tracked   *)
(* URLs and a grid whose rows change from one fetch to the next, the second *)
(* with a URL that is shown as a deep discount, plainly, or in two rows.    *)
EXTENDS Discovery, TLC

(* No claim; a claim and a firm price; a claim and a range.                 *)
Plain(u) == [url |-> u, face |-> [price |-> 100, claimed |-> None, range |-> FALSE]]
Whole(u) == [url |-> u, face |-> [price |-> 50, claimed |-> 100, range |-> FALSE]]
Deep(u)  == [url |-> u, face |-> [price |-> 50, claimed |-> 100, range |-> TRUE]]

TwoShops == <<"tw", "jh">>
OnePageEach == "tw" :> <<"twSale">> @@ "jh" :> <<"jhSale">>
RodComesAndGoes ==
    "twSale" :> {{Plain("rod")}, {Whole("reel")}, {}} @@
    "jhSale" :> {{Deep("lure")}, {Plain("lure")}, {Plain("lure"), Whole("lure")}}
TwoThenOne == "twSale" :> 2 @@ "jhSale" :> 1
FirstCapped == "tw" :> 1 @@ "jh" :> None

=============================================================================
