----------------------------- MODULE DealRules -----------------------------
(***************************************************************************)
(* The pure decision rules of the tracker: the quality guards applied to a *)
(* stored observation (fpt/pipeline/validate.py), the three detection      *)
(* rules (fpt/deals/detect.py), the two-fetch confirmation verdict         *)
(* (fpt/deals/confirm.py) and the recheck of a live deal                   *)
(* (fpt/store/deals.py).                                                   *)
(*                                                                         *)
(* Money is in cents; 0 stands for the code's None (a missing price, no    *)
(* claimed price, no reference).  Percentages that the code rounds to two  *)
(* decimals are integers in hundredths of a percent.                       *)
(***************************************************************************)
EXTENDS Integers

CONSTANTS
    MinDiscount,    \* min_discount_pct (50.00 -> 5000)
    HeldUpper,      \* held_review_upper_pct (85.00 -> 8500)
    Implausible,    \* implausible_discount_pct (95.00 -> 9500)
    MinSaving,      \* min_saving_cents
    MaxIncrease,    \* max_price_increase_pct, a whole number of percent
    LargeMoveMin,   \* large_move_min_pct
    LargeMoveMax    \* large_move_max_pct

ASSUME RulesAssumption ==
    /\ MinDiscount \in Nat /\ HeldUpper \in Nat /\ Implausible \in Nat
    /\ 0 < MinDiscount /\ MinDiscount <= HeldUpper /\ HeldUpper <= Implausible
    /\ MinSaving \in Nat /\ MaxIncrease \in Nat
    /\ LargeMoveMin \in Nat /\ LargeMoveMax \in Nat

Rules == {"DEEP_DISCOUNT_NEW", "DEEP_DISCOUNT_CLAIMED", "USED_VS_CURRENT_NEW"}

(* The order in which _try_recheck_active and _try_confirm visit the rules. *)
RuleRank == [r \in Rules |-> CASE r = "DEEP_DISCOUNT_NEW"     -> 1
                               [] r = "DEEP_DISCOUNT_CLAIMED" -> 2
                               [] r = "USED_VS_CURRENT_NEW"   -> 3]

(* What the fetch of an offer yields.  variant is the offer's pair          *)
(* (variant_key_observed, unit_count) and listing the pair just written to  *)
(* the listing row, whose unit count is that of the page's FIRST offer;     *)
(* guard is TRUE when a guard other than the two price ones objects (out    *)
(* of band, unit mismatch, claimed not above price).                        *)
Inputs(variants) ==
    [price : Nat, shipping : Nat, claimed : Nat, clearance : BOOLEAN,
     avail : {"IN_STOCK", "STORE_ONLY", "OUT_OF_STOCK"},
     variant : variants, listing : variants, guard : BOOLEAN]

(* A freshly resolved reference price.  sameScope: the reference offer has  *)
(* this offer's variant key and unit count.  The reference's condition      *)
(* group is "NEW" on every path of build_confirm_context.                   *)
References == [cents : Nat, sameScope : BOOLEAN]
NoReference == [cents |-> 0, sameScope |-> TRUE]

(* round((1 - price / reference) * 100, 2), in hundredths of a percent.     *)
DiscountPct(price, reference) ==
    (20000 * (reference - price) + reference) \div (2 * reference)

(* "LARGE_MOVE" is the SUSPECT quality whose only reason is large_move.     *)
Qualities == {"OK", "LARGE_MOVE", "SUSPECT", "REJECTED"}

LargeMove(price, lastOk) ==
    /\ lastOk # 0
    /\ \/ price * 100 < LargeMoveMin * lastOk
       \/ price * 100 > LargeMoveMax * lastOk

Quality(in, lastOk) ==
    CASE in.price = 0                 -> "REJECTED"
      [] in.price # 0 /\ in.guard     -> "SUSPECT"
      [] in.price # 0 /\ ~in.guard /\ LargeMove(in.price, lastOk) -> "LARGE_MOVE"
      [] OTHER                        -> "OK"

-----------------------------------------------------------------------------
(* Detection.  Each predicate is the condition under which the rule of the  *)
(* same name yields a candidate.                                            *)

DeepEnough(price, reference) ==
    /\ reference - price >= MinSaving
    /\ DiscountPct(price, reference) >= MinDiscount

Landed(in) == in.price + in.shipping

DetectDeepDiscountNew(in, verified) ==
    /\ in.avail \in {"IN_STOCK", "STORE_ONLY"}
    /\ verified.cents # 0
    /\ DeepEnough(in.price, verified.cents)

DetectDeepDiscountClaimed(in, verified) ==
    /\ verified.cents = 0
    /\ in.claimed # 0 /\ in.clearance
    /\ DeepEnough(in.price, in.claimed)

DetectUsedVsCurrentNew(in, currentNew) ==
    /\ in.avail = "IN_STOCK"
    /\ currentNew.cents # 0
    /\ DeepEnough(Landed(in), currentNew.cents)

(* The rules that fire for an observation.  The NEW and CLAIMED rules       *)
(* exclude each other, so there is at most one.                             *)
Detected(in, used, ref) ==
    IF used
    THEN {r \in {"USED_VS_CURRENT_NEW"} : DetectUsedVsCurrentNew(in, ref)}
    ELSE {r \in {"DEEP_DISCOUNT_NEW"} : DetectDeepDiscountNew(in, ref)}
         \union {r \in {"DEEP_DISCOUNT_CLAIMED"} : DetectDeepDiscountClaimed(in, ref)}

(* The price and reference a rule stores on the candidate row.              *)
RulePrice(rule, in) == IF rule = "USED_VS_CURRENT_NEW" THEN Landed(in) ELSE in.price

RuleReference(rule, in, ref) ==
    IF rule = "DEEP_DISCOUNT_CLAIMED" THEN in.claimed ELSE ref.cents

-----------------------------------------------------------------------------
(* The reference used to confirm or recheck a deal of a rule: the resolved  *)
(* one, or for a CLAIMED deal without a verified reference the retailer's   *)
(* claim on the fetched page, which is about this very offer.               *)
CurrentReference(rule, in, ref) ==
    IF rule = "DEEP_DISCOUNT_CLAIMED" /\ ref.cents = 0
    THEN [cents |-> in.claimed, sameScope |-> TRUE]
    ELSE ref

WithinTolerance(price, base) == price * 100 <= base * (100 + MaxIncrease)

(* confirm_candidate.  C1 (gap) and C3 (offer identity) are met by every    *)
(* caller: the gap is tested before the call and the offer row is one and   *)
(* the same.  C2 never applies, detected_via being always PRODUCT_PAGE.     *)
(* C10, the category floor, is one of the guards behind in.guard.           *)
ConfirmChecks(d, in, quality, detectedVariant, used, ref) ==
    /\ detectedVariant = in.variant /\ in.listing = in.variant         \* C4
    /\ quality \in {"OK", "LARGE_MOVE"}                                \* C5
    /\ WithinTolerance(in.price, d.price)                              \* C6
    /\ ref.cents # 0
    /\ DiscountPct(in.price, ref.cents) >= MinDiscount                 \* C7
    /\ ref.sameScope /\ ~used                                          \* C8
    /\ DiscountPct(in.price, ref.cents) <= Implausible                 \* C9

Verdict(d, in, quality, detectedVariant, used, ref) ==
    IF ~ConfirmChecks(d, in, quality, detectedVariant, used, ref)
    THEN "REJECTED"
    ELSE IF DiscountPct(in.price, ref.cents) > HeldUpper
         THEN "HELD_REVIEW" ELSE "ACTIVE"

(* Faulty: a refresh trusts the tolerance and does not test the discount.   *)
StillInTolerance(d, in, ref) ==
    /\ in.avail \in {"IN_STOCK", "STORE_ONLY"}
    /\ ref.cents # 0
    /\ WithinTolerance(RulePrice(d.rule, in), d.price)

(* refresh_or_expire_active_deal: the deal survives the observation.        *)
StillADeal(d, in, ref) ==
    /\ in.avail \in {"IN_STOCK", "STORE_ONLY"}                         \* sold_out
    /\ ref.cents # 0                                                   \* reference_lost
    /\ WithinTolerance(RulePrice(d.rule, in), d.price)                 \* price_recovered
    /\ DiscountPct(RulePrice(d.rule, in), ref.cents) >= MinDiscount
=============================================================================
