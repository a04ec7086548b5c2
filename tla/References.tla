----------------------------- MODULE References -----------------------------
(***************************************************************************)
(* Reference prices (fpt/deals/references.py): pure functions of rows that *)
(* the store selects.                                                      *)
(***************************************************************************)
EXTENDS Integers, FiniteSets, Sequences, SequencesExt

Null == -1

(* Python's round() of half an integer: to the even neighbour.              *)
RoundHalf(twice) ==
    IF twice % 2 = 0 THEN twice \div 2 ELSE 2 * ((twice + 1) \div 4)

(* days: price by day.                                                      *)
Ordered(days) ==
    SetToSortSeq(DOMAIN days, LAMBDA d, e : days[d] < days[e] \/ (days[d] = days[e] /\ d < e))

(* statistics.median, rounded.                                              *)
Median(days) ==
    LET s == Ordered(days) IN
    RoundHalf(days[s[(Len(s) + 1) \div 2]] + days[s[Len(s) \div 2 + 1]])

Span(days) ==
    (CHOOSE d \in DOMAIN days : \A e \in DOMAIN days : e <= d)
    - (CHOOSE d \in DOMAIN days : \A e \in DOMAIN days : d <= e)

(* R1.  resolve_own_history_median.                                         *)
OwnHistoryMedian(days, minDays, minSpan) ==
    IF \/ DOMAIN days = {} \/ Cardinality(DOMAIN days) < minDays
       \/ Span(days) < minSpan
    THEN Null ELSE Median(days)

Verifying == {"auto_gtin", "auto_mpn", "manual"}

(* R2.  resolve_cross_retailer_new: the cheapest of the verifiable ones;    *)
(* a set, as two may cost the same.                                         *)
CrossRetailerNew(candidates) ==
    LET verifiable == {c \in candidates : c.match \in Verifying} IN
    {c \in verifiable : \A d \in verifiable : c.price <= d.price}

(* The least of the prices that are there.                                  *)
Least(prices) ==
    IF prices = {} THEN Null ELSE CHOOSE p \in prices : \A q \in prices : p <= q

(* U1.  resolve_used_reference.                                             *)
UsedReference(landed) == Least(landed)

=============================================================================
