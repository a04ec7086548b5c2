------------------------ MODULE DealLifecycle_proofs ------------------------
(***************************************************************************)
(* Proofs about DealLifecycle for every set of offers, every set of fetch  *)
(* results and references, and every value of the thresholds and bounds.   *)
(***************************************************************************)
EXTENDS DealLifecycle, SequenceTheorems, TLAPS

(* What every row carries from the moment it is found: an OK observation of *)
(* its offer, the price that observation showed as long as it is a          *)
(* candidate, numbers that make a deal, and, once confirmed, the evidence.  *)
Row(d, log) ==
    /\ d.detObs \in DOMAIN log
    /\ log[d.detObs].offer = d.offer
    /\ log[d.detObs].quality = "OK"
    /\ d.rule = "USED_VS_CURRENT_NEW" => Used(d.offer)
    /\ d.status = "CONFIRMING" /\ d.rule # "USED_VS_CURRENT_NEW"
          => d.price = log[d.detObs].price
    /\ Deep(d)
    /\ d.status \in Confirmed => LookedAtTwice(d, log)

RowsInv == \A i \in DOMAIN deals : Row(deals[i], obs)

(* A task refers to a deal that was found no later than the task was made.  *)
TasksInv ==
    \A t \in DOMAIN tasks :
       /\ tasks[t].deal \in DOMAIN deals
       /\ obs[deals[tasks[t].deal].detObs].at <= tasks[t].since

ClockInv == \A n \in DOMAIN obs : obs[n].at <= now

IInv == TypeOK /\ RowsInv /\ TasksInv /\ ClockInv /\ OneOpenDealPerRule /\ OneOpenTaskPerDeal

-----------------------------------------------------------------------------
(* Arithmetic.                                                              *)

(* A quotient by a positive number is an integer, and when it is at least   *)
(* one the dividend is at least the divisor.                                *)
LEMMA Quotient ==
    ASSUME NEW a \in Int, NEW b \in Int, b > 0
    PROVE  /\ a \div b \in Int
           /\ a \div b >= 1 => a >= b
  BY SMT

(* A price whose rounded discount reaches the threshold is below the        *)
(* reference: the CHECK (price_cents < reference_cents) of migration 008.   *)
LEMMA DeepIsCheaper ==
    ASSUME NEW p \in Nat, NEW r \in Nat, r > 0
    PROVE  /\ DiscountPct(p, r) \in Int
           /\ DiscountPct(p, r) >= MinDiscount => p < r
  <1> DEFINE a == 20000 * (r - p) + r
  <1>1. a \in Int /\ 2 * r \in Int /\ 2 * r > 0
    BY SMT
  <1>2. a \div (2 * r) \in Int /\ (a \div (2 * r) >= 1 => a >= 2 * r)
    <2> HIDE DEF a
    <2> QED BY <1>1, Quotient
  <1>3. MinDiscount \in Int /\ MinDiscount >= 1
    BY RulesAssumption
  <1>4. a >= 2 * r => p < r
    BY SMT
  <1> HIDE DEF a
  <1>5. DiscountPct(p, r) = a \div (2 * r)
    BY DEF DiscountPct, a
  <1> QED BY <1>2, <1>3, <1>4, <1>5

-----------------------------------------------------------------------------
(* Choosing a row.                                                          *)

(* FirstByRule picks a member of any nonempty set of rows.                  *)
LEMMA FirstByRuleIn ==
    ASSUME deals \in Seq(Deal), NEW rows, rows \subseteq DOMAIN deals, rows # {}
    PROVE  FirstByRule(rows) \in rows
  <1> DEFINE rank(i) == RuleRank[deals[i].rule]
  <1>1. \A i \in rows : rank(i) \in 1..3
    <2> SUFFICES ASSUME NEW i \in rows PROVE rank(i) \in 1..3
      OBVIOUS
    <2>1. deals[i] \in Deal
      BY ElementOfSeq
    <2> QED BY <2>1 DEF Deal, Rules, RuleRank
  <1>2. \E i \in rows : \A j \in rows : rank(i) <= rank(j)
    <2> HIDE DEF rank
    <2>1. CASE \E i \in rows : rank(i) = 1
      BY <1>1, <2>1
    <2>2. CASE (\A i \in rows : rank(i) # 1) /\ \E i \in rows : rank(i) = 2
      BY <1>1, <2>2
    <2>3. CASE \A i \in rows : rank(i) = 3
      BY <2>3
    <2> QED BY <1>1, <2>1, <2>2, <2>3
  <1> QED BY <1>2 DEF FirstByRule

-----------------------------------------------------------------------------
(* Inputs.                                                                  *)

(* The numbers of a fetch and of a resolved reference are naturals.         *)
LEMMA InputTypes ==
    ASSUME NEW in \in InputSet, NEW ref \in ReferenceSet
    PROVE  /\ in.price \in Nat /\ in.shipping \in Nat /\ in.claimed \in Nat
           /\ in.variant \in Variants
           /\ ref.cents \in Nat
  BY LifecycleAssumption DEF Inputs, References

(* A claim that stands in for a reference has the shape of one.             *)
LEMMA CurrentReferenceType ==
    ASSUME NEW rule, NEW in \in InputSet, NEW ref \in ReferenceSet
    PROVE  CurrentReference(rule, in, ref) \in References
  <1>1. ref \in References
    BY LifecycleAssumption
  <1>2. [cents |-> in.claimed, sameScope |-> TRUE] \in References
    BY InputTypes DEF References
  <1> QED BY <1>1, <1>2 DEF CurrentReference

(* Every fetch gets one of the four qualities, and only a positive price    *)
(* gets one better than REJECTED.                                           *)
LEMMA QualityTypes ==
    ASSUME NEW in \in InputSet, NEW last
    PROVE  /\ Quality(in, last) \in Qualities
           /\ in.price = 0 => Quality(in, last) = "REJECTED"
  BY DEF Quality, Qualities

(* The observation an Ingest step records.                                  *)
Recorded(o, in) ==
    [offer |-> o, at |-> now, price |-> in.price,
     quality |-> Quality(in, LastOkPrice(o)), variant |-> in.variant]

(* Recording keeps the table's type, every row in it and the order of       *)
(* times, and gives the new row the next id.                                *)
LEMMA Recording ==
    ASSUME TypeOK, NEW o \in Offers, NEW in \in InputSet, NEW ref \in ReferenceSet,
           obs' = Append(obs, Recorded(o, in)), now' = now
    PROVE  /\ obs' \in Seq(Observation)
           /\ Len(obs) \in Nat
           /\ DOMAIN obs' = 1..(Len(obs) + 1) /\ DOMAIN obs = 1..Len(obs)
           /\ \A n \in DOMAIN obs : obs'[n] = obs[n]
           /\ obs'[Len(obs) + 1] = Recorded(o, in)
           /\ ClockInv => ClockInv'
  <1>1. Recorded(o, in) \in Observation
    BY InputTypes, QualityTypes DEF Recorded, Observation, TypeOK
  <1>2. /\ obs' \in Seq(Observation) /\ Len(obs') = Len(obs) + 1
        /\ \A n \in 1..Len(obs) : obs'[n] = obs[n]
        /\ obs'[Len(obs) + 1] = Recorded(o, in)
    BY <1>1, AppendProperties DEF TypeOK
  <1>3. /\ Len(obs) \in Nat /\ DOMAIN obs = 1..Len(obs)
        /\ DOMAIN obs' = 1..(Len(obs) + 1)
    BY <1>2, LenProperties DEF TypeOK
  <1>4. ClockInv => ClockInv'
    BY <1>2, <1>3 DEF ClockInv, Recorded, TypeOK
  <1> QED BY <1>2, <1>3, <1>4

(* A log that continues another one: what is true of a row stays true.      *)
Continues(log, old) ==
    /\ DOMAIN old \subseteq DOMAIN log
    /\ \A n \in DOMAIN old : log[n] = old[n]

(* A row that was sound stays so when observations are added: the ids it    *)
(* holds keep naming the same observations.                                 *)
LEMMA RowKept ==
    ASSUME NEW d, NEW old, NEW log, Row(d, old), Continues(log, old)
    PROVE  Row(d, log)
  BY DEF Row, LookedAtTwice, Continues

(* A row's numbers: a positive price whose discount reaches the threshold.  *)
LEMMA DeepRow ==
    ASSUME NEW price \in Nat, NEW reference \in Nat, price # 0, reference # 0,
           DiscountPct(price, reference) >= MinDiscount
    PROVE  /\ 0 < price /\ price < reference
           /\ DiscountPct(price, reference) \in Int
  BY DeepIsCheaper

(* A rule that fires yields numbers that make a deal, on the right kind of  *)
(* offer.                                                                   *)
LEMMA DetectedIsDeep ==
    ASSUME NEW in \in InputSet, NEW ref \in ReferenceSet, NEW used \in BOOLEAN,
           NEW rule \in Detected(in, used, ref), in.price # 0
    PROVE  /\ rule \in Rules
           /\ used <=> rule = "USED_VS_CURRENT_NEW"
           /\ RulePrice(rule, in) \in Nat /\ RuleReference(rule, in, ref) \in Nat
           /\ 0 < RulePrice(rule, in)
           /\ RulePrice(rule, in) < RuleReference(rule, in, ref)
           /\ DiscountPct(RulePrice(rule, in), RuleReference(rule, in, ref)) >= MinDiscount
  <1> DEFINE p == RulePrice(rule, in)
             r == RuleReference(rule, in, ref)
  <1>1. /\ rule \in Rules /\ (used <=> rule = "USED_VS_CURRENT_NEW")
        /\ p \in Nat /\ r \in Nat /\ p > 0
    BY InputTypes DEF Detected, Rules, RulePrice, RuleReference, Landed
  <1>2. r # 0 /\ DeepEnough(p, r)
    BY InputTypes DEF Detected, DetectDeepDiscountNew, DetectDeepDiscountClaimed,
                      DetectUsedVsCurrentNew, RulePrice, RuleReference, Landed
  <1> HIDE DEF p, r
  <1>3. DiscountPct(p, r) >= MinDiscount
    BY <1>2 DEF DeepEnough
  <1>4. p < r
    BY <1>1, <1>2, <1>3, DeepRow
  <1> QED BY <1>1, <1>3, <1>4 DEF p, r

-----------------------------------------------------------------------------
(* Writing rows.                                                            *)

(* Rewriting one row keeps the invariants of the table when the new row is  *)
(* sound, is about the same candidate and does not reopen a closed one.     *)
LEMMA RowRewritten ==
    ASSUME TypeOK, RowsInv, OneOpenDealPerRule, Continues(obs', obs),
           NEW i \in DOMAIN deals, NEW d \in Deal, deals' = [deals EXCEPT ![i] = d],
           d.offer = deals[i].offer, d.rule = deals[i].rule, d.detObs = deals[i].detObs,
           d.status \in OpenStatus => deals[i].status \in OpenStatus,
           Row(d, obs')
    PROVE  /\ deals' \in Seq(Deal)
           /\ DOMAIN deals' = DOMAIN deals
           /\ \A j \in DOMAIN deals : deals'[j].detObs = deals[j].detObs
           /\ RowsInv'
           /\ OneOpenDealPerRule'
  <1>1. /\ deals' \in Seq(Deal) /\ DOMAIN deals' = DOMAIN deals
        /\ deals'[i] = d
        /\ \A j \in DOMAIN deals : j # i => deals'[j] = deals[j]
    BY DEF TypeOK
  <1>2. RowsInv'
    <2> SUFFICES ASSUME NEW j \in DOMAIN deals PROVE Row(deals'[j], obs')
      BY <1>1 DEF RowsInv
    <2>1. CASE j = i
      BY <1>1, <2>1
    <2>2. CASE j # i
      BY <1>1, <2>2, RowKept DEF RowsInv
    <2> QED BY <2>1, <2>2
  <1>3. OneOpenDealPerRule'
    BY <1>1 DEF OneOpenDealPerRule
  <1> QED BY <1>1, <1>2, <1>3

(* Adding a row keeps them too when no open row has its offer and rule.     *)
LEMMA RowAdded ==
    ASSUME TypeOK, RowsInv, OneOpenDealPerRule, Continues(obs', obs),
           NEW d \in Deal, deals' = Append(deals, d),
           OpenRows(d.offer, d.rule) = {},
           Row(d, obs')
    PROVE  /\ deals' \in Seq(Deal)
           /\ DOMAIN deals \subseteq DOMAIN deals'
           /\ Len(deals) + 1 \in DOMAIN deals'
           /\ \A j \in DOMAIN deals : deals'[j] = deals[j]
           /\ RowsInv'
           /\ OneOpenDealPerRule'
  <1>1. /\ deals' \in Seq(Deal) /\ Len(deals) \in Nat
        /\ DOMAIN deals = 1..Len(deals) /\ DOMAIN deals' = 1..(Len(deals) + 1)
        /\ \A j \in DOMAIN deals : deals'[j] = deals[j]
        /\ deals'[Len(deals) + 1] = d
    BY AppendProperties, LenProperties DEF TypeOK
  <1>2. RowsInv'
    <2> SUFFICES ASSUME NEW j \in 1..(Len(deals) + 1) PROVE Row(deals'[j], obs')
      BY <1>1 DEF RowsInv
    <2>1. CASE j = Len(deals) + 1
      BY <1>1, <2>1
    <2>2. CASE j \in DOMAIN deals
      BY <1>1, <2>2, RowKept DEF RowsInv
    <2> QED BY <1>1, <2>1, <2>2
  <1>3. OneOpenDealPerRule'
    BY <1>1 DEF OneOpenDealPerRule, OpenRows
  <1> QED BY <1>1, <1>2, <1>3

(* What a step does to the table of deals: rows are only rewritten or       *)
(* added, and every one of them stays sound.                                *)
RowsStay ==
    /\ deals' \in Seq(Deal)
    /\ DOMAIN deals \subseteq DOMAIN deals'
    /\ \A j \in DOMAIN deals : deals'[j].detObs = deals[j].detObs
    /\ RowsInv'
    /\ OneOpenDealPerRule'

-----------------------------------------------------------------------------
(* The three things an observation can do.                                  *)

(* A recheck refreshes its deal with numbers that make one, and this        *)
(* observation as the last look, or closes it.                              *)
LEMMA RecheckKeeps ==
    ASSUME IInv, NEW o \in Offers, NEW in \in InputSet, NEW ref \in ReferenceSet, NEW base,
           obs' = Append(obs, Recorded(o, in)), now' = now,
           Rechecks(o, Quality(in, LastOkPrice(o))),
           Recheck(o, in, ref, Len(obs) + 1, base)
    PROVE  RowsStay
  <1> DEFINE n == Len(obs) + 1
  <1>1. PICK i \in RowsOf(o, "ACTIVE") : i = FirstByRule(RowsOf(o, "ACTIVE"))
    BY FirstByRuleIn DEF Rechecks, RowsOf, IInv, TypeOK
  <1>2. PICK r \in References : r = CurrentReference(deals[i].rule, in, ref)
    BY CurrentReferenceType
  <1>3. PICK d : d = IF StillADeal(deals[i], in, r)
                     THEN [deals[i] EXCEPT !.price = RulePrice(deals[i].rule, in),
                                           !.ref = r.cents, !.lastObs = n]
                     ELSE [deals[i] EXCEPT !.status = "EXPIRED"]
    OBVIOUS
  <1>4. deals' = [deals EXCEPT ![i] = d]
    BY <1>1, <1>2, <1>3 DEF Recheck
  <1>5. /\ i \in DOMAIN deals /\ deals[i].offer = o /\ deals[i].status = "ACTIVE"
        /\ deals[i] \in Deal /\ Row(deals[i], obs)
    BY <1>1, ElementOfSeq DEF RowsOf, IInv, TypeOK, RowsInv
  <1>6. /\ n \in Nat /\ n \in DOMAIN obs' /\ obs'[n].offer = o
        /\ Continues(obs', obs) /\ DOMAIN obs = 1..Len(obs) /\ Len(obs) \in Nat
    BY Recording DEF IInv, Continues, Recorded
  <1>7. Row(deals[i], obs')
    BY <1>5, <1>6, RowKept
  <1>8. CASE StillADeal(deals[i], in, r)
    <2>1. d = [deals[i] EXCEPT !.price = RulePrice(deals[i].rule, in),
                               !.ref = r.cents, !.lastObs = n]
      BY <1>3, <1>8
    <2>2. in.price # 0
      BY QualityTypes DEF Rechecks
    <2>3. RulePrice(deals[i].rule, in) \in Nat /\ RulePrice(deals[i].rule, in) # 0
      BY <2>2, InputTypes DEF RulePrice, Landed
    <2>4. /\ r.cents \in Nat /\ r.cents # 0
          /\ DiscountPct(RulePrice(deals[i].rule, in), r.cents) >= MinDiscount
      BY <1>2, <1>8 DEF StillADeal, References
    <2>5. /\ d \in Deal /\ d.offer = o /\ d.rule = deals[i].rule /\ d.status = "ACTIVE"
          /\ d.detObs = deals[i].detObs /\ d.confObs = deals[i].confObs /\ d.lastObs = n
          /\ d.price = RulePrice(deals[i].rule, in) /\ d.ref = r.cents
      BY <2>1, <2>3, <2>4, <1>5, <1>6 DEF Deal
    <2>6. Deep(d)
      <3>1. d.price \in Nat /\ d.ref \in Nat /\ d.price # 0 /\ d.ref # 0
            /\ DiscountPct(d.price, d.ref) >= MinDiscount
        BY <2>3, <2>4, <2>5
      <3> QED BY <3>1, <2>5, DeepRow DEF Deep
    <2>7. LookedAtTwice(d, obs')
      <3>1. LookedAtTwice(deals[i], obs) /\ LookedAtTwice(deals[i], obs')
        BY <1>5, <1>7 DEF Row, Confirmed
      <3> QED BY <3>1, <2>5, <1>5, <1>6 DEF LookedAtTwice
    <2>8. Row(d, obs')
      BY <1>5, <1>7, <2>5, <2>6, <2>7 DEF Row
    <2> QED BY <1>4, <1>5, <1>6, <2>5, <2>8, RowRewritten DEF RowsStay, IInv, OpenStatus
  <1>9. CASE ~StillADeal(deals[i], in, r)
    <2>1. d = [deals[i] EXCEPT !.status = "EXPIRED"]
      BY <1>3, <1>9
    <2>2. /\ d \in Deal /\ d.offer = o /\ d.rule = deals[i].rule /\ d.status = "EXPIRED"
          /\ d.detObs = deals[i].detObs /\ d.confObs = deals[i].confObs
          /\ d.lastObs = deals[i].lastObs
          /\ d.price = deals[i].price /\ d.ref = deals[i].ref
      BY <2>1, <1>5 DEF Deal, DealStatus
    <2>3. Row(d, obs')
      BY <1>5, <1>7, <2>2 DEF Row, Deep, LookedAtTwice, Confirmed
    <2> QED BY <1>4, <1>5, <1>6, <2>2, <2>3, RowRewritten DEF RowsStay, IInv, OpenStatus
  <1> QED BY <1>8, <1>9

(* A confirmation rejects its candidate or publishes or holds it on the     *)
(* evidence of the two observations.                                        *)
LEMMA ConfirmKeeps ==
    ASSUME IInv, NEW o \in Offers, NEW in \in InputSet, NEW ref \in ReferenceSet, NEW base,
           obs' = Append(obs, Recorded(o, in)), now' = now,
           Ripe(o) # {}, in.price # 0,
           Confirm(o, in, Quality(in, LastOkPrice(o)), ref, Len(obs) + 1, base)
    PROVE  RowsStay
  <1> DEFINE n == Len(obs) + 1
             q == Quality(in, LastOkPrice(o))
  <1>1. PICK i \in Ripe(o) : i = FirstByRule(Ripe(o))
    BY FirstByRuleIn DEF Ripe, RowsOf, IInv, TypeOK
  <1>2. PICK r \in References : r = CurrentReference(deals[i].rule, in, ref)
    BY CurrentReferenceType
  <1>3. PICK v : v = Verdict(deals[i], in, q, obs[deals[i].detObs].variant, Used(o), r)
    OBVIOUS
  <1>4. PICK d : d = IF v = "REJECTED"
                     THEN [deals[i] EXCEPT !.status = "REJECTED", !.confObs = n]
                     ELSE [deals[i] EXCEPT !.status = v, !.confObs = n, !.lastObs = n,
                                           !.price = in.price, !.ref = r.cents]
    OBVIOUS
  <1>5. deals' = [deals EXCEPT ![i] = d]
    BY <1>1, <1>2, <1>3, <1>4 DEF Confirm
  <1>6. /\ i \in DOMAIN deals /\ deals[i].offer = o /\ deals[i].status = "CONFIRMING"
        /\ now - obs[deals[i].detObs].at >= MinGap
        /\ deals[i] \in Deal /\ Row(deals[i], obs)
    <2>1. /\ i \in DOMAIN deals /\ deals[i].offer = o /\ deals[i].status = "CONFIRMING"
          /\ now - obs[deals[i].detObs].at >= MinGap
      BY <1>1 DEF Ripe, RowsOf
    <2>2. deals[i] \in Deal
      BY <2>1, ElementOfSeq DEF IInv, TypeOK
    <2>3. Row(deals[i], obs)
      BY <2>1 DEF IInv, RowsInv
    <2> QED BY <2>1, <2>2, <2>3
  <1>7. /\ n \in Nat /\ n \in DOMAIN obs' /\ obs'[n] = Recorded(o, in)
        /\ Continues(obs', obs) /\ DOMAIN obs = 1..Len(obs) /\ Len(obs) \in Nat
    BY Recording DEF IInv, Continues
  <1>8. Row(deals[i], obs')
    BY <1>6, <1>7, RowKept
  <1>9. CASE v = "REJECTED"
    <2>1. d = [deals[i] EXCEPT !.status = "REJECTED", !.confObs = n]
      BY <1>4, <1>9
    <2>2. /\ d \in Deal /\ d.offer = o /\ d.rule = deals[i].rule /\ d.status = "REJECTED"
          /\ d.detObs = deals[i].detObs /\ d.price = deals[i].price /\ d.ref = deals[i].ref
      BY <2>1, <1>6, <1>7 DEF Deal, DealStatus
    <2>3. Row(d, obs')
      BY <1>6, <1>8, <2>2 DEF Row, Deep, Confirmed
    <2> QED BY <1>5, <1>6, <1>7, <2>2, <2>3, RowRewritten DEF RowsStay, IInv, OpenStatus
  <1>10. CASE v # "REJECTED"
    <2>1. d = [deals[i] EXCEPT !.status = v, !.confObs = n, !.lastObs = n,
                               !.price = in.price, !.ref = r.cents]
      BY <1>4, <1>10
    <2>2. /\ ConfirmChecks(deals[i], in, q, obs[deals[i].detObs].variant, Used(o), r)
          /\ v = IF DiscountPct(in.price, r.cents) > HeldUpper
                 THEN "HELD_REVIEW" ELSE "ACTIVE"
      BY <1>3, <1>10 DEF Verdict
    <2>3. /\ obs[deals[i].detObs].variant = in.variant
          /\ q \in {"OK", "LARGE_MOVE"}
          /\ WithinTolerance(in.price, deals[i].price)
          /\ r.cents # 0 /\ ~Used(o)
          /\ DiscountPct(in.price, r.cents) >= MinDiscount
          /\ DiscountPct(in.price, r.cents) <= Implausible
      BY <2>2 DEF ConfirmChecks
    <2>4. in.price \in Nat /\ r.cents \in Nat /\ v \in {"ACTIVE", "HELD_REVIEW"}
      BY <2>2, InputTypes DEF References
    <2>5. /\ d \in Deal /\ d.offer = o /\ d.rule = deals[i].rule /\ d.status = v
          /\ d.detObs = deals[i].detObs /\ d.confObs = n /\ d.lastObs = n
          /\ d.price = in.price /\ d.ref = r.cents
      BY <2>1, <2>4, <1>6, <1>7 DEF Deal, DealStatus
    <2>6. Deep(d)
      <3>1. /\ 0 < in.price /\ in.price < r.cents /\ DiscountPct(in.price, r.cents) \in Int
        BY <2>3, <2>4, DeepRow
      <3>2. v = "HELD_REVIEW" =>
               DiscountPct(in.price, r.cents) \in (HeldUpper + 1)..Implausible
        BY <2>2, <2>3, <3>1, RulesAssumption
      <3> QED BY <3>1, <3>2, <2>3, <2>5 DEF Deep
    <2>7. LookedAtTwice(d, obs')
      <3>1. /\ obs'[n].offer = o /\ obs'[n].at = now /\ obs'[n].price = in.price
            /\ obs'[n].quality = q /\ obs'[n].variant = in.variant
        BY <1>7 DEF Recorded
      <3>2. deals[i].price = obs[deals[i].detObs].price
        BY <1>6, <2>3 DEF Row
      <3>3. /\ deals[i].detObs \in DOMAIN obs
            /\ obs'[deals[i].detObs] = obs[deals[i].detObs]
            /\ obs[deals[i].detObs].offer = o /\ obs[deals[i].detObs].quality = "OK"
        BY <1>6, <1>7 DEF Row, Continues
      <3> QED BY <3>1, <3>2, <3>3, <2>3, <2>5, <1>6, <1>7 DEF LookedAtTwice, Continues
    <2>8. Row(d, obs')
      BY <1>6, <1>8, <2>4, <2>5, <2>6, <2>7 DEF Row
    <2> QED BY <1>5, <1>6, <1>7, <2>4, <2>5, <2>8, RowRewritten DEF RowsStay, IInv, OpenStatus
  <1> QED BY <1>9, <1>10

(* A detection adds a sound candidate, or leaves the table alone when the   *)
(* offer has an open row of the rule; the deal it enqueues a task for       *)
(* exists.                                                                  *)
LEMMA DetectKeeps ==
    ASSUME IInv, NEW o \in Offers, NEW in \in InputSet, NEW ref \in ReferenceSet, NEW base,
           obs' = Append(obs, Recorded(o, in)), now' = now,
           Quality(in, LastOkPrice(o)) = "OK",
           NEW rule \in Detected(in, Used(o), ref),
           Detect(o, rule, in, ref, Len(obs) + 1, base)
    PROVE  /\ RowsStay
           /\ tasks' = base \/ \E d \in DOMAIN deals' : tasks' = Enqueue(d, base)
  <1> DEFINE n == Len(obs) + 1
             open == OpenRows(o, rule)
  <1>1. /\ n \in Nat /\ n \in DOMAIN obs' /\ obs'[n] = Recorded(o, in)
        /\ Continues(obs', obs)
    BY Recording DEF IInv, Continues
  <1>2. CASE open = {}
    <2>1. PICK d : d = Candidate(o, rule, in, ref, n)
      OBVIOUS
    <2>2. /\ deals' = Append(deals, d)
          /\ tasks' = base \/ tasks' = Enqueue(Len(deals) + 1, base)
      BY <1>2, <2>1 DEF Detect
    <2>3. /\ rule \in Rules /\ (Used(o) <=> rule = "USED_VS_CURRENT_NEW")
          /\ RulePrice(rule, in) \in Nat /\ RuleReference(rule, in, ref) \in Nat
          /\ 0 < RulePrice(rule, in)
          /\ RulePrice(rule, in) < RuleReference(rule, in, ref)
          /\ DiscountPct(RulePrice(rule, in), RuleReference(rule, in, ref)) >= MinDiscount
      <3>1. Used(o) \in BOOLEAN
        BY DEF Used
      <3>2. in.price # 0
        BY QualityTypes
      <3> QED BY <3>1, <3>2, DetectedIsDeep
    <2>4. /\ d \in Deal /\ d.offer = o /\ d.rule = rule /\ d.status = "CONFIRMING"
          /\ d.detObs = n /\ d.price = RulePrice(rule, in)
          /\ d.ref = RuleReference(rule, in, ref)
      BY <1>1, <2>1, <2>3 DEF Candidate, Deal, DealStatus
    <2>5. Deep(d)
      BY <2>3, <2>4 DEF Deep
    <2>6. Row(d, obs')
      BY <1>1, <2>3, <2>4, <2>5 DEF Row, Recorded, Confirmed, RulePrice
    <2>7. /\ deals' \in Seq(Deal) /\ DOMAIN deals \subseteq DOMAIN deals'
          /\ Len(deals) + 1 \in DOMAIN deals'
          /\ \A j \in DOMAIN deals : deals'[j] = deals[j]
          /\ RowsInv' /\ OneOpenDealPerRule'
      BY <1>1, <1>2, <2>2, <2>4, <2>6, RowAdded DEF IInv
    <2> QED BY <2>2, <2>7 DEF RowsStay
  <1>3. CASE open # {}
    <2>1. PICK i \in open : i = CHOOSE j \in open : TRUE
      BY <1>3
    <2>2. deals' = deals /\ (tasks' = base \/ tasks' = Enqueue(i, base))
      BY <1>3, <2>1 DEF Detect
    <2>3. i \in DOMAIN deals
      BY <2>1 DEF OpenRows
    <2>4. RowsStay
      BY <1>1, <2>2, RowKept DEF RowsStay, IInv, TypeOK, RowsInv, OneOpenDealPerRule
    <2> QED BY <2>2, <2>3, <2>4
  <1> QED BY <1>2, <1>3

-----------------------------------------------------------------------------
(* The queue.                                                               *)

(* A rewriting of the queue that makes no task open again.                  *)
SameTasks(base) ==
    /\ base \in Seq(Task) /\ Len(base) = Len(tasks)
    /\ \A t \in DOMAIN tasks :
          /\ base[t].deal = tasks[t].deal /\ base[t].since = tasks[t].since
          /\ base[t].status = "QUEUED" => tasks[t].status = "QUEUED"

QueueStays == tasks' \in Seq(Task) /\ TasksInv' /\ OneOpenTaskPerDeal'

(* Closing tasks and opening none keeps the queue's invariants.             *)
LEMMA QueueRewritten ==
    ASSUME IInv, SameTasks(tasks'), RowsStay, Continues(obs', obs)
    PROVE  QueueStays
  <1>1. DOMAIN tasks' = DOMAIN tasks
    BY LenProperties DEF SameTasks, IInv, TypeOK
  <1>2. TasksInv'
    BY <1>1 DEF SameTasks, IInv, TasksInv, RowsStay, RowsInv, Row, Continues
  <1>3. OneOpenTaskPerDeal'
    BY <1>1 DEF SameTasks, IInv, OneOpenTaskPerDeal
  <1> QED BY <1>2, <1>3 DEF QueueStays, SameTasks

(* Enqueueing adds a task only for a deal without an open one.              *)
LEMMA QueueExtended ==
    ASSUME IInv, NEW base, SameTasks(base), RowsStay, Continues(obs', obs), ClockInv',
           now' = now, NEW d \in DOMAIN deals', tasks' = Enqueue(d, base)
    PROVE  QueueStays
  <1>1. CASE \E t \in DOMAIN tasks : tasks[t].deal = d /\ tasks[t].status = "QUEUED"
    <2>1. tasks' = base
      BY <1>1 DEF Enqueue
    <2> QED BY <2>1, QueueRewritten
  <1>2. CASE ~\E t \in DOMAIN tasks : tasks[t].deal = d /\ tasks[t].status = "QUEUED"
    <2> DEFINE new == [deal |-> d, since |-> now, status |-> "QUEUED"]
    <2>1. tasks' = Append(base, new)
      BY <1>2 DEF Enqueue
    <2>2. d \in Nat /\ new \in Task
      BY LenProperties DEF RowsStay, Task, TaskStatus, IInv, TypeOK
    <2>3. /\ DOMAIN base = DOMAIN tasks /\ DOMAIN base = 1..Len(base) /\ Len(base) \in Nat
      BY LenProperties DEF SameTasks, IInv, TypeOK
    <2>4. /\ tasks' \in Seq(Task) /\ DOMAIN tasks' = 1..(Len(base) + 1)
          /\ \A t \in DOMAIN base : tasks'[t] = base[t]
          /\ tasks'[Len(base) + 1] = new
      <3> HIDE DEF new
      <3> QED BY <2>1, <2>2, <2>3, AppendProperties, LenProperties DEF SameTasks
    <2>5. \A t \in DOMAIN tasks' : t \in DOMAIN tasks \/ t = Len(base) + 1
      BY <2>3, <2>4
    <2>6. TasksInv'
      <3> SUFFICES ASSUME NEW t \in DOMAIN tasks'
                   PROVE  /\ tasks'[t].deal \in DOMAIN deals'
                          /\ obs'[deals'[tasks'[t].deal].detObs].at <= tasks'[t].since
        BY DEF TasksInv
      <3>1. CASE t \in DOMAIN tasks
        BY <3>1, <2>3, <2>4
           DEF SameTasks, IInv, TasksInv, RowsStay, RowsInv, Row, Continues
      <3>2. CASE t = Len(base) + 1
        <4>1. tasks'[t].deal = d /\ tasks'[t].since = now
          BY <3>2, <2>4
        <4>2. deals'[d].detObs \in DOMAIN obs'
          BY DEF RowsStay, RowsInv, Row
        <4>3. obs'[deals'[d].detObs].at <= now
          BY <4>2 DEF ClockInv
        <4> QED BY <4>1, <4>3
      <3> QED BY <2>5, <3>1, <3>2
    <2>7. OneOpenTaskPerDeal'
      BY <1>2, <2>3, <2>4, <2>5 DEF SameTasks, IInv, OneOpenTaskPerDeal
    <2> QED BY <2>4, <2>6, <2>7 DEF QueueStays
  <1> QED BY <1>1, <1>2

(* Whatever an observation does, the tables keep their types and            *)
(* invariants; base is the queue with the task just fetched closed.         *)
LEMMA IngestKeeps ==
    ASSUME IInv, NEW o \in Offers, NEW in \in InputSet, NEW ref \in ReferenceSet, NEW base,
           SameTasks(base), Ingest(o, in, ref, base), now' = now
    PROVE  obs' \in Seq(Observation) /\ RowsStay /\ QueueStays /\ ClockInv'
  <1> DEFINE q == Quality(in, LastOkPrice(o))
             n == Len(obs) + 1
             recheck == Rechecks(o, q)
             confirm == Ripe(o) # {} /\ in.price # 0
  <1>1. obs' = Append(obs, Recorded(o, in))
    BY DEF Ingest, Recorded
  <1>2. obs' \in Seq(Observation) /\ Continues(obs', obs) /\ ClockInv'
    BY <1>1, Recording DEF IInv, Continues
  <1>3. \/ recheck /\ Recheck(o, in, ref, n, base)
        \/ confirm /\ Confirm(o, in, q, ref, n, base)
        \/ q = "OK" /\ \E rule \in Detected(in, Used(o), ref) : Detect(o, rule, in, ref, n, base)
        \/ deals' = deals /\ tasks' = base
    BY DEF Ingest
  <1>4. CASE recheck /\ Recheck(o, in, ref, n, base)
    <2>1. RowsStay
      BY <1>1, <1>4, RecheckKeeps
    <2>2. tasks' = base
      BY <1>4 DEF Recheck
    <2> QED BY <1>2, <2>1, <2>2, QueueRewritten
  <1>5. CASE confirm /\ Confirm(o, in, q, ref, n, base)
    <2>1. RowsStay
      BY <1>1, <1>5, ConfirmKeeps
    <2>2. tasks' = base
      BY <1>5 DEF Confirm
    <2> QED BY <1>2, <2>1, <2>2, QueueRewritten
  <1>6. CASE q = "OK" /\ \E rule \in Detected(in, Used(o), ref) : Detect(o, rule, in, ref, n, base)
    <2>1. PICK rule \in Detected(in, Used(o), ref) : Detect(o, rule, in, ref, n, base)
      BY <1>6
    <2>2. RowsStay /\ (tasks' = base \/ \E d \in DOMAIN deals' : tasks' = Enqueue(d, base))
      BY <1>1, <1>6, <2>1, DetectKeeps
    <2>3. CASE tasks' = base
      BY <1>2, <2>2, <2>3, QueueRewritten
    <2>4. CASE \E d \in DOMAIN deals' : tasks' = Enqueue(d, base)
      BY <1>2, <2>2, <2>4, QueueExtended
    <2> QED BY <2>2, <2>3, <2>4
  <1>7. CASE deals' = deals /\ tasks' = base
    <2>1. RowsStay
      BY <1>2, <1>7, RowKept DEF RowsStay, IInv, TypeOK, RowsInv, OneOpenDealPerRule
    <2> QED BY <1>2, <1>7, <2>1, QueueRewritten
  <1> QED BY <1>3, <1>4, <1>5, <1>6, <1>7

-----------------------------------------------------------------------------
(* The steps of the tick.                                                   *)

(* An observation of a grid row or of a product page, its own task aside.   *)
LEMMA SweepKeeps ==
    ASSUME IInv, NEW o \in Offers, GridSweep(o) \/ ProductFetch(o)
    PROVE  IInv'
  <1>1. PICK in \in InputSet, ref \in ReferenceSet : Ingest(o, in, ref, tasks)
    BY DEF GridSweep, ProductFetch
  <1>2. now' = now /\ phase' = phase /\ began' = began
    BY DEF GridSweep, ProductFetch
  <1>3. SameTasks(tasks)
    BY DEF SameTasks, IInv, TypeOK
  <1>4. obs' \in Seq(Observation) /\ RowsStay /\ QueueStays /\ ClockInv'
    BY <1>1, <1>2, <1>3, IngestKeeps
  <1> QED BY <1>2, <1>4 DEF IInv, TypeOK, RowsStay, QueueStays

(* Closing tasks is a rewriting of the queue.                               *)
LEMMA TaskClosed ==
    ASSUME IInv, NEW t \in DOMAIN tasks, NEW status \in TaskStatus \ {"QUEUED"}
    PROVE  SameTasks([tasks EXCEPT ![t].status = status])
  <1>1. tasks \in Seq(Task) /\ tasks[t] \in Task
    BY ElementOfSeq DEF IInv, TypeOK
  <1>2. PICK k : k = [tasks[t] EXCEPT !.status = status]
    OBVIOUS
  <1>3. /\ k \in Task /\ k.deal = tasks[t].deal /\ k.since = tasks[t].since
        /\ k.status # "QUEUED"
    BY <1>1, <1>2 DEF Task
  <1>4. [tasks EXCEPT ![t].status = status] = [tasks EXCEPT ![t] = k]
    BY <1>2
  <1>5. SameTasks([tasks EXCEPT ![t] = k])
    BY <1>1, <1>3 DEF SameTasks
  <1> QED BY <1>4, <1>5

(* A CONFIRM task that is fetched, its page showing the deal's offer.       *)
LEMMA ConfirmFetchKeeps ==
    ASSUME IInv, NEW t \in DOMAIN tasks, ConfirmFetch(t)
    PROVE  IInv'
  <1>1. tasks[t].deal \in DOMAIN deals
    BY DEF IInv, TasksInv
  <1>2. deals[tasks[t].deal] \in Deal
    BY <1>1, ElementOfSeq DEF IInv, TypeOK
  <1>3. PICK o \in Offers : o = deals[tasks[t].deal].offer
    BY <1>2 DEF Deal
  <1>4. PICK in \in InputSet, ref \in ReferenceSet :
           Ingest(o, in, ref, [tasks EXCEPT ![t].status = "DONE"])
    BY <1>3 DEF ConfirmFetch
  <1>5. now' = now /\ phase' = phase /\ began' = began
    BY DEF ConfirmFetch
  <1>6. SameTasks([tasks EXCEPT ![t].status = "DONE"])
    BY TaskClosed DEF TaskStatus
  <1>7. obs' \in Seq(Observation) /\ RowsStay /\ QueueStays /\ ClockInv'
    BY <1>4, <1>5, <1>6, IngestKeeps
  <1> QED BY <1>5, <1>7 DEF IInv, TypeOK, RowsStay, QueueStays

(* The tables of deals and observations as they were.                       *)
LEMMA RowsUnchanged ==
    ASSUME IInv, deals' = deals, obs' = obs
    PROVE  RowsStay /\ Continues(obs', obs)
  BY DEF RowsStay, Continues, IInv, TypeOK, RowsInv, OneOpenDealPerRule

(* One that ends without an observation.                                    *)
LEMMA ConfirmUnfetchedKeeps ==
    ASSUME IInv, NEW t \in DOMAIN tasks, ConfirmUnfetched(t)
    PROVE  IInv'
  <1>1. PICK status \in TaskStatus \ {"QUEUED"} :
           tasks' = [tasks EXCEPT ![t].status = status]
    BY DEF ConfirmUnfetched, TaskStatus
  <1>2. UNCHANGED <<now, phase, began, obs, deals>>
    BY DEF ConfirmUnfetched
  <1>3. RowsStay /\ Continues(obs', obs)
    BY <1>2, RowsUnchanged
  <1>4. SameTasks(tasks')
    BY <1>1, TaskClosed
  <1>5. QueueStays
    BY <1>3, <1>4, QueueRewritten
  <1> QED BY <1>2, <1>3, <1>5 DEF IInv, TypeOK, RowsStay, QueueStays, ClockInv

(* The overdue sweep rejects candidates and closes tasks, together.         *)
LEMMA DrainStartKeeps ==
    ASSUME IInv, DrainStart
    PROVE  IInv'
  <1>0. PICK clock \in began..now :
           /\ tasks' = [t \in DOMAIN tasks |->
                           IF t \in Overdue(clock) THEN [tasks[t] EXCEPT !.status = "EXPIRED"]
                                                   ELSE tasks[t]]
           /\ deals' = [i \in DOMAIN deals |->
                           IF Lapsing(i, clock) THEN [deals[i] EXCEPT !.status = "REJECTED"]
                                                ELSE deals[i]]
    BY DEF DrainStart
  <1>1. UNCHANGED <<now, began, obs>> /\ phase' = "drain"
    BY DEF DrainStart
  <1>2. deals \in Seq(Deal) /\ Len(deals) \in Nat /\ DOMAIN deals = 1..Len(deals)
    BY LenProperties DEF IInv, TypeOK
  <1>3. \A i \in DOMAIN deals :
           /\ i \in DOMAIN deals'
           /\ deals'[i] = IF Lapsing(i, clock) THEN [deals[i] EXCEPT !.status = "REJECTED"]
                                               ELSE deals[i]
    BY <1>0
  <1>4. DOMAIN deals' = DOMAIN deals
    BY <1>0
  <1>5. \A i \in DOMAIN deals :
           /\ deals'[i] \in Deal /\ Row(deals'[i], obs')
           /\ deals'[i].offer = deals[i].offer /\ deals'[i].rule = deals[i].rule
           /\ deals'[i].detObs = deals[i].detObs
           /\ deals'[i].status \in OpenStatus => deals[i].status \in OpenStatus
    <2> SUFFICES ASSUME NEW i \in DOMAIN deals
                 PROVE  /\ deals'[i] \in Deal /\ Row(deals'[i], obs')
                        /\ deals'[i].offer = deals[i].offer /\ deals'[i].rule = deals[i].rule
                        /\ deals'[i].detObs = deals[i].detObs
                        /\ deals'[i].status \in OpenStatus => deals[i].status \in OpenStatus
      OBVIOUS
    <2>1. deals[i] \in Deal /\ Row(deals[i], obs) /\ obs' = obs
      BY <1>1, <1>2, ElementOfSeq DEF IInv, RowsInv
    <2>2. PICK d : d = [deals[i] EXCEPT !.status = "REJECTED"]
      OBVIOUS
    <2>3. /\ d \in Deal /\ d.offer = deals[i].offer /\ d.rule = deals[i].rule
          /\ d.detObs = deals[i].detObs /\ d.status = "REJECTED"
          /\ d.price = deals[i].price /\ d.ref = deals[i].ref
      BY <2>1, <2>2 DEF Deal, DealStatus
    <2>4. Row(d, obs)
      BY <2>1, <2>3 DEF Row, Deep, Confirmed
    <2>5. deals'[i] = d \/ deals'[i] = deals[i]
      BY <1>3, <2>2
    <2> QED BY <2>1, <2>3, <2>4, <2>5 DEF OpenStatus
  <1>6. deals' \in Seq(Deal)
    <2>1. deals' = [i \in 1..Len(deals) |-> deals'[i]]
      BY <1>0, <1>2, <1>4
    <2>2. \A i \in 1..Len(deals) : deals'[i] \in Deal
      BY <1>2, <1>5
    <2> QED BY <2>1, <2>2, <1>2
  <1>7. RowsStay /\ Continues(obs', obs)
    BY <1>1, <1>4, <1>5, <1>6
       DEF RowsStay, RowsInv, Continues, IInv, OneOpenDealPerRule
  <1>8. SameTasks(tasks')
    <2>1. tasks \in Seq(Task) /\ Len(tasks) \in Nat /\ DOMAIN tasks = 1..Len(tasks)
      BY LenProperties DEF IInv, TypeOK
    <2>2. DOMAIN tasks' = DOMAIN tasks
      BY <1>0
    <2>3. \A t \in DOMAIN tasks :
             /\ tasks'[t] \in Task
             /\ tasks'[t].deal = tasks[t].deal /\ tasks'[t].since = tasks[t].since
             /\ tasks'[t].status = "QUEUED" => tasks[t].status = "QUEUED"
      <3> SUFFICES ASSUME NEW t \in DOMAIN tasks
                   PROVE  /\ tasks'[t] \in Task
                          /\ tasks'[t].deal = tasks[t].deal
                          /\ tasks'[t].since = tasks[t].since
                          /\ tasks'[t].status = "QUEUED" => tasks[t].status = "QUEUED"
        OBVIOUS
      <3>1. tasks[t] \in Task
        BY <2>1, ElementOfSeq
      <3>2. PICK k : k = [tasks[t] EXCEPT !.status = "EXPIRED"]
        OBVIOUS
      <3>3. k \in Task /\ k.deal = tasks[t].deal /\ k.since = tasks[t].since
            /\ k.status = "EXPIRED"
        BY <3>1, <3>2 DEF Task, TaskStatus
      <3>4. tasks'[t] = k \/ tasks'[t] = tasks[t]
        BY <1>0, <3>2
      <3> QED BY <3>1, <3>3, <3>4
    <2>4. tasks' = [t \in 1..Len(tasks) |-> tasks'[t]]
      BY <1>0, <2>1, <2>2
    <2>5. tasks' \in Seq(Task) /\ Len(tasks') = Len(tasks)
      BY <2>1, <2>3, <2>4
    <2> QED BY <2>3, <2>5 DEF SameTasks
  <1>9. QueueStays
    BY <1>7, <1>8, QueueRewritten
  <1> QED BY <1>1, <1>7, <1>9 DEF IInv, TypeOK, RowsStay, QueueStays, ClockInv

(* Beginning and ending a tick, and time passing.                           *)
LEMMA TablesUntouched ==
    ASSUME IInv, TickStart \/ TickEnd \/ Advance \/ UNCHANGED vars
    PROVE  IInv'
  <1>1. obs' = obs /\ deals' = deals /\ tasks' = tasks
    BY DEF TickStart, TickEnd, Advance, vars
  <1>2. /\ now' \in Nat /\ began' \in Nat /\ phase' \in {"idle", "crawl", "drain"}
        /\ now' = now \/ now' = now + 1
    BY DEF TickStart, TickEnd, Advance, vars, IInv, TypeOK
  <1>3. RowsStay
    BY <1>1, RowsUnchanged
  <1>4. TasksInv' /\ OneOpenTaskPerDeal'
    BY <1>1 DEF IInv, TasksInv, OneOpenTaskPerDeal
  <1>5. ClockInv'
    <2>1. now \in Nat /\ \A n \in DOMAIN obs : obs[n].at \in Nat /\ obs[n].at <= now
      <3>1. now \in Nat /\ obs \in Seq(Observation) /\ ClockInv
        BY DEF IInv, TypeOK
      <3>2. \A n \in DOMAIN obs : obs[n] \in Observation
        BY <3>1, ElementOfSeq
      <3> QED BY <3>1, <3>2 DEF ClockInv, Observation
    <2> QED BY <1>1, <1>2, <2>1 DEF ClockInv
  <1> QED BY <1>1, <1>2, <1>3, <1>4, <1>5 DEF IInv, TypeOK, RowsStay

(* The invariant holds at first and every step keeps it.                    *)
THEOREM Invariance == Spec => []IInv
  <1>1. Init => IInv
    BY DEF Init, IInv, TypeOK, RowsInv, TasksInv, ClockInv, OneOpenDealPerRule,
           OneOpenTaskPerDeal
  <1>2. IInv /\ [Next]_vars => IInv'
    BY SweepKeeps, ConfirmFetchKeeps, ConfirmUnfetchedKeeps, DrainStartKeeps,
       TablesUntouched DEF Next
  <1> QED BY <1>1, <1>2, PTL DEF Spec

(* Every row and task has its declared shape in every reachable state.      *)
THEOREM TypeCorrect == Spec => []TypeOK
  BY Invariance, PTL DEF IInv

(* No deal is published, held or expired on fewer than two acceptable looks *)
(* at the same offer, the confirm gap apart (migration 014).                *)
THEOREM SecondLookHolds == Spec => []SecondLook
  <1>1. IInv => SecondLook
    BY DEF IInv, RowsInv, Row, SecondLook
  <1> QED BY <1>1, Invariance, PTL

(* No write to deals ever breaks the table's CHECKs on prices or leaves a   *)
(* row whose own numbers do not make a deal (migration 008).                *)
THEOREM RowsDeepHolds == Spec => []RowsAreDeep
  <1>1. IInv => RowsAreDeep
    BY DEF IInv, RowsInv, Row, RowsAreDeep
  <1> QED BY <1>1, Invariance, PTL

(* The unique index deals_one_open_per_offer_rule never rejects a write.    *)
THEOREM OneOpenDeal == Spec => []OneOpenDealPerRule
  BY Invariance, PTL DEF IInv

(* A deal never has two CONFIRM tasks in the queue.                         *)
THEOREM OneOpenTask == Spec => []OneOpenTaskPerDeal
  BY Invariance, PTL DEF IInv

-----------------------------------------------------------------------------
(* The table implements its ledger.                                         *)

(* What the ledger shows of a row, and of the table.                        *)
Entry(d, log) == [offer |-> d.offer, rule |-> d.rule, status |-> d.status,
                  since |-> log[d.detObs].at]

Mapped == [i \in DOMAIN deals |-> Entry(deals[i], obs)]

(* Rewriting a row in place changes at most the status it shows.            *)
LEMMA EntryRewritten ==
    ASSUME IInv, Continues(obs', obs), NEW i \in DOMAIN deals, NEW d,
           deals' = [deals EXCEPT ![i] = d],
           d.offer = deals[i].offer, d.rule = deals[i].rule, d.detObs = deals[i].detObs
    PROVE  Mapped' = [Mapped EXCEPT ![i].status = d.status]
  <1>1. DOMAIN deals' = DOMAIN deals /\ deals'[i] = d
        /\ \A j \in DOMAIN deals : j # i => deals'[j] = deals[j]
    BY DEF IInv, TypeOK
  <1>2. \A j \in DOMAIN deals : obs'[deals[j].detObs] = obs[deals[j].detObs]
    BY DEF IInv, RowsInv, Row, Continues
  <1>3. \A j \in DOMAIN deals :
           Entry(deals'[j], obs') = IF j = i THEN [Entry(deals[j], obs) EXCEPT !.status = d.status]
                                             ELSE Entry(deals[j], obs)
    BY <1>1, <1>2 DEF Entry
  <1>4. Mapped' = [j \in DOMAIN deals |-> Entry(deals'[j], obs')]
    BY <1>1 DEF Mapped
  <1> QED BY <1>3, <1>4 DEF Mapped

(* A table that is not touched shows what it showed.                        *)
LEMMA EntriesUnchanged ==
    ASSUME IInv, Continues(obs', obs), deals' = deals
    PROVE  Mapped' = Mapped
  <1>1. \A j \in DOMAIN deals : obs'[deals[j].detObs] = obs[deals[j].detObs]
    BY DEF IInv, RowsInv, Row, Continues
  <1> QED BY <1>1 DEF Mapped, Entry

(* Appending, position by position.                                         *)
LEMMA AppendedFunction ==
    ASSUME NEW S, NEW s \in Seq(S), NEW e \in S
    PROVE  Append(s, e) = [j \in 1..(Len(s) + 1) |-> IF j = Len(s) + 1 THEN e ELSE s[j]]
  <1>1. /\ Append(s, e) \in Seq(S) /\ Len(Append(s, e)) = Len(s) + 1
        /\ \A j \in 1..Len(s) : Append(s, e)[j] = s[j]
        /\ Append(s, e)[Len(s) + 1] = e
    BY AppendProperties
  <1>2. Len(s) \in Nat /\ DOMAIN Append(s, e) = 1..(Len(s) + 1)
    BY <1>1, LenProperties
  <1>3. Append(s, e) = [j \in DOMAIN Append(s, e) |-> Append(s, e)[j]]
    <2>1. PICK a \in Seq(S) : a = Append(s, e)
      BY <1>1
    <2>2. \E m \in Nat : a \in [1..m -> S]
      BY SeqDef
    <2>3. a = [j \in DOMAIN a |-> a[j]]
      BY <2>2
    <2> QED BY <2>1, <2>3
  <1>4. \A j \in 1..(Len(s) + 1) : j = Len(s) + 1 \/ j \in 1..Len(s)
    BY <1>2
  <1> QED BY <1>1, <1>2, <1>3, <1>4

(* A new row is shown after all the others.                                 *)
LEMMA EntryAdded ==
    ASSUME IInv, Continues(obs', obs), NEW d, deals' = Append(deals, d)
    PROVE  Mapped' = Append(Mapped, Entry(d, obs'))
  <1>1. /\ deals \in Seq(Deal) /\ Len(deals) \in Nat
        /\ DOMAIN deals = 1..Len(deals) /\ DOMAIN deals' = 1..(Len(deals) + 1)
        /\ deals'[Len(deals) + 1] = d
        /\ \A j \in 1..Len(deals) : deals'[j] = deals[j]
    BY LenProperties DEF IInv, TypeOK
  <1>2. \A j \in DOMAIN deals : Entry(deals'[j], obs') = Entry(deals[j], obs)
    <2>1. \A j \in DOMAIN deals : obs'[deals[j].detObs] = obs[deals[j].detObs]
      BY DEF IInv, RowsInv, Row, Continues
    <2> QED BY <1>1, <2>1 DEF Entry
  <1>3. Mapped' = [j \in 1..(Len(deals) + 1) |->
                      IF j = Len(deals) + 1 THEN Entry(d, obs') ELSE Entry(deals[j], obs)]
    <2>1. Mapped' = [j \in 1..(Len(deals) + 1) |-> Entry(deals'[j], obs')]
      BY <1>1 DEF Mapped
    <2>2. \A j \in 1..(Len(deals) + 1) : j = Len(deals) + 1 \/ j \in DOMAIN deals
      BY <1>1
    <2> QED BY <1>1, <1>2, <2>1, <2>2
  <1>4. Mapped = [j \in 1..Len(deals) |-> Entry(deals[j], obs)]
    BY <1>1 DEF Mapped
  <1> DEFINE S == {Entry(deals[j], obs) : j \in 1..Len(deals)} \union {Entry(d, obs')}
  <1>5. Mapped \in Seq(S) /\ Len(Mapped) = Len(deals) /\ Entry(d, obs') \in S
    BY <1>1, <1>4
  <1>6. Append(Mapped, Entry(d, obs')) =
           [j \in 1..(Len(deals) + 1) |->
               IF j = Len(deals) + 1 THEN Entry(d, obs') ELSE Mapped[j]]
    <2> HIDE DEF S
    <2> QED BY <1>5, AppendedFunction
  <1> QED BY <1>1, <1>3, <1>4, <1>6

(* A recheck is a look that expires the deal, or none that the ledger shows.*)
LEMMA RecheckLedger ==
    ASSUME IInv, Continues(obs', obs), NEW o, NEW in, NEW ref, NEW n, NEW base,
           RowsOf(o, "ACTIVE") # {}, Recheck(o, in, ref, n, base), now' = now
    PROVE  Mapped' = Mapped \/ \E i \in DOMAIN Mapped : Ledger!Expire(i)
  <1>1. PICK i \in RowsOf(o, "ACTIVE") : i = FirstByRule(RowsOf(o, "ACTIVE"))
    BY FirstByRuleIn DEF RowsOf, IInv, TypeOK
  <1>2. i \in DOMAIN deals /\ deals[i].status = "ACTIVE" /\ deals[i] \in Deal
    BY <1>1, ElementOfSeq DEF RowsOf, IInv, TypeOK
  <1>3. PICK r : r = CurrentReference(deals[i].rule, in, ref)
    OBVIOUS
  <1>4. PICK d : d = IF StillADeal(deals[i], in, r)
                     THEN [deals[i] EXCEPT !.price = RulePrice(deals[i].rule, in),
                                           !.ref = r.cents, !.lastObs = n]
                     ELSE [deals[i] EXCEPT !.status = "EXPIRED"]
    OBVIOUS
  <1>5. deals' = [deals EXCEPT ![i] = d]
    BY <1>1, <1>3, <1>4 DEF Recheck
  <1>6. /\ d.offer = deals[i].offer /\ d.rule = deals[i].rule
        /\ d.detObs = deals[i].detObs /\ d.status \in {"ACTIVE", "EXPIRED"}
    BY <1>2, <1>4 DEF Deal
  <1>7. Mapped' = [Mapped EXCEPT ![i].status = d.status]
    BY <1>2, <1>5, <1>6, EntryRewritten
  <1>8. i \in DOMAIN Mapped /\ Mapped[i].status = "ACTIVE"
    BY <1>2 DEF Mapped, Entry
  <1>9. CASE d.status = "ACTIVE"
    <2>1. [Mapped[i] EXCEPT !.status = "ACTIVE"] = Mapped[i]
      BY <1>2 DEF Mapped, Entry
    <2> QED BY <1>7, <1>8, <1>9, <2>1 DEF Mapped
  <1>10. CASE d.status = "EXPIRED"
    <2>1. Ledger!Expire(i)
      BY <1>7, <1>8, <1>10 DEF Ledger!Expire, Mapped, Entry
    <2> QED BY <1>8, <2>1
  <1> QED BY <1>6, <1>9, <1>10

(* A confirmation settles a candidate that waited for the gap.              *)
LEMMA ConfirmLedger ==
    ASSUME IInv, Continues(obs', obs), NEW o, NEW in, NEW quality, NEW ref, NEW n, NEW base,
           Ripe(o) # {}, Confirm(o, in, quality, ref, n, base), now' = now
    PROVE  \E i \in DOMAIN Mapped : Ledger!Settle(i)
  <1>1. PICK i \in Ripe(o) : i = FirstByRule(Ripe(o))
    BY FirstByRuleIn DEF Ripe, RowsOf, IInv, TypeOK
  <1>2. /\ i \in DOMAIN deals /\ deals[i].status = "CONFIRMING"
        /\ now - obs[deals[i].detObs].at >= MinGap
    BY <1>1 DEF Ripe, RowsOf
  <1>3. deals[i] \in Deal
    BY <1>2, ElementOfSeq DEF IInv, TypeOK
  <1>4. PICK r : r = CurrentReference(deals[i].rule, in, ref)
    OBVIOUS
  <1>5. PICK v : v = Verdict(deals[i], in, quality, obs[deals[i].detObs].variant, Used(o), r)
    OBVIOUS
  <1>6. v \in {"ACTIVE", "HELD_REVIEW", "REJECTED"}
    BY <1>5 DEF Verdict
  <1>7. PICK d : d = IF v = "REJECTED"
                     THEN [deals[i] EXCEPT !.status = "REJECTED", !.confObs = n]
                     ELSE [deals[i] EXCEPT !.status = v, !.confObs = n, !.lastObs = n,
                                           !.price = in.price, !.ref = r.cents]
    OBVIOUS
  <1>8. deals' = [deals EXCEPT ![i] = d]
    BY <1>1, <1>4, <1>5, <1>7 DEF Confirm
  <1>9. /\ d.offer = deals[i].offer /\ d.rule = deals[i].rule
        /\ d.detObs = deals[i].detObs /\ d.status = v
    BY <1>3, <1>7 DEF Deal
  <1>10. Mapped' = [Mapped EXCEPT ![i].status = v]
    BY <1>2, <1>8, <1>9, EntryRewritten
  <1>11. i \in DOMAIN Mapped /\ Mapped[i].status = "CONFIRMING"
         /\ now - Mapped[i].since >= MinGap
    BY <1>2 DEF Mapped, Entry
  <1>12. Ledger!Settle(i)
    BY <1>6, <1>10, <1>11 DEF Ledger!Settle, Mapped, Entry
  <1> QED BY <1>11, <1>12

(* A detection proposes a deal where none is open, or changes nothing.      *)
LEMMA DetectLedger ==
    ASSUME IInv, NEW o \in Offers, NEW in \in InputSet, NEW ref \in ReferenceSet, NEW base,
           obs' = Append(obs, Recorded(o, in)), now' = now,
           NEW rule \in Rules, Detect(o, rule, in, ref, Len(obs) + 1, base)
    PROVE  Mapped' = Mapped \/ Ledger!Propose(o, rule)
  <1> DEFINE n == Len(obs) + 1
             open == OpenRows(o, rule)
  <1>1. Continues(obs', obs) /\ obs'[n].at = now
    BY Recording DEF IInv, Continues, Recorded
  <1>2. CASE open # {}
    <2>1. deals' = deals
      BY <1>2 DEF Detect
    <2> QED BY <1>1, <2>1, EntriesUnchanged
  <1>3. CASE open = {}
    <2>1. PICK d : d = Candidate(o, rule, in, ref, n)
      OBVIOUS
    <2>2. deals' = Append(deals, d)
      BY <1>3, <2>1 DEF Detect
    <2>3. Entry(d, obs') = [offer |-> o, rule |-> rule, status |-> "CONFIRMING", since |-> now]
      BY <1>1, <2>1 DEF Entry, Candidate
    <2>4. Mapped' = Append(Mapped, [offer |-> o, rule |-> rule, status |-> "CONFIRMING",
                                    since |-> now])
      BY <1>1, <2>2, <2>3, EntryAdded
    <2>5. \A i \in DOMAIN Mapped :
             Mapped[i].offer = o /\ Mapped[i].rule = rule
                => Mapped[i].status \in {"REJECTED", "EXPIRED"}
      <3> SUFFICES ASSUME NEW i \in DOMAIN deals, deals[i].offer = o, deals[i].rule = rule
                   PROVE  deals[i].status \in {"REJECTED", "EXPIRED"}
        BY DEF Mapped, Entry
      <3>1. deals[i] \in Deal
        BY ElementOfSeq DEF IInv, TypeOK
      <3>2. deals[i].status \notin OpenStatus
        BY <1>3 DEF OpenRows
      <3> QED BY <3>1, <3>2 DEF Deal, DealStatus, OpenStatus
    <2> QED BY <2>4, <2>5 DEF Ledger!Propose, Mapped, Entry
  <1> QED BY <1>2, <1>3

(* So an observation is a step of the ledger, or none.                      *)
LEMMA IngestLedger ==
    ASSUME IInv, NEW o \in Offers, NEW in \in InputSet, NEW ref \in ReferenceSet, NEW base,
           Ingest(o, in, ref, base), now' = now
    PROVE  Ledger!Next \/ Mapped' = Mapped
  <1> DEFINE q == Quality(in, LastOkPrice(o))
             n == Len(obs) + 1
  <1>1. obs' = Append(obs, Recorded(o, in))
    BY DEF Ingest, Recorded
  <1>2. Continues(obs', obs)
    BY <1>1, Recording DEF IInv, Continues
  <1>3. \/ Rechecks(o, q) /\ Recheck(o, in, ref, n, base)
        \/ Ripe(o) # {} /\ Confirm(o, in, q, ref, n, base)
        \/ \E rule \in Detected(in, Used(o), ref) : Detect(o, rule, in, ref, n, base)
        \/ deals' = deals
    BY DEF Ingest
  <1>4. CASE Rechecks(o, q) /\ Recheck(o, in, ref, n, base)
    <2>1. Mapped' = Mapped \/ \E i \in DOMAIN Mapped : Ledger!Expire(i)
      BY <1>2, <1>4, RecheckLedger DEF Rechecks
    <2> QED BY <2>1 DEF Ledger!Next, Mapped, Entry
  <1>5. CASE Ripe(o) # {} /\ Confirm(o, in, q, ref, n, base)
    <2>1. \E i \in DOMAIN Mapped : Ledger!Settle(i)
      BY <1>2, <1>5, ConfirmLedger
    <2> QED BY <2>1 DEF Ledger!Next, Mapped, Entry
  <1>6. CASE \E rule \in Detected(in, Used(o), ref) : Detect(o, rule, in, ref, n, base)
    <2>1. PICK rule \in Rules : Detect(o, rule, in, ref, n, base)
      BY <1>6 DEF Detected, Rules
    <2>2. Mapped' = Mapped \/ Ledger!Propose(o, rule)
      BY <1>1, <2>1, DetectLedger
    <2> QED BY <2>2 DEF Ledger!Next
  <1>7. CASE deals' = deals
    BY <1>2, <1>7, EntriesUnchanged
  <1> QED BY <1>3, <1>4, <1>5, <1>6, <1>7

(* The overdue sweep drops candidates whose deadline is past: a task is     *)
(* never older than the look that found its deal.                           *)
LEMMA DrainLedger ==
    ASSUME IInv, DrainStart
    PROVE  \E rows \in SUBSET DOMAIN Mapped : Ledger!Lapse(rows)
  <1>1a. PICK clock \in began..now :
           deals' = [i \in DOMAIN deals |->
                       IF Lapsing(i, clock) THEN [deals[i] EXCEPT !.status = "REJECTED"]
                                            ELSE deals[i]]
    BY DEF DrainStart
  <1>0. PICK rows : rows = {i \in DOMAIN deals : Lapsing(i, clock)}
    OBVIOUS
  <1>1. obs' = obs /\ now' = now
    BY DEF DrainStart
  <1>2. rows \in SUBSET DOMAIN Mapped /\ DOMAIN Mapped = DOMAIN deals
    BY <1>0 DEF Mapped
  <1>3. \A i \in rows : Mapped[i].status = "CONFIRMING" /\ now - Mapped[i].since > DeadlineAfter
    <2> SUFFICES ASSUME NEW i \in DOMAIN deals, Lapsing(i, clock)
                 PROVE  /\ deals[i].status = "CONFIRMING"
                        /\ now - obs[deals[i].detObs].at > DeadlineAfter
      BY <1>0 DEF Mapped, Entry
    <2>1. PICK t \in DOMAIN tasks : /\ tasks[t].deal = i
                                    /\ tasks[t].since + DeadlineAfter < clock
      BY DEF Lapsing, Overdue, Deadline
    <2>2. tasks[t] \in Task /\ obs[deals[i].detObs].at <= tasks[t].since
      BY <2>1, ElementOfSeq DEF IInv, TypeOK, TasksInv
    <2>3. deals[i].detObs \in DOMAIN obs
      BY DEF IInv, RowsInv, Row
    <2>4. obs[deals[i].detObs] \in Observation
      BY <2>3, ElementOfSeq DEF IInv, TypeOK
    <2>5. now \in Nat /\ DeadlineAfter \in Nat /\ clock \in Int /\ clock <= now
      BY LifecycleAssumption DEF IInv, TypeOK
    <2>6. tasks[t].since \in Nat /\ obs[deals[i].detObs].at \in Nat
      BY <2>2, <2>4 DEF Task, Observation
    <2>7. now - obs[deals[i].detObs].at > DeadlineAfter
      BY <2>1, <2>2, <2>5, <2>6
    <2> QED BY <2>7 DEF Lapsing
  <1>4. Mapped' = [i \in DOMAIN Mapped |->
                      IF i \in rows THEN [Mapped[i] EXCEPT !.status = "REJECTED"]
                                    ELSE Mapped[i]]
    <2>1. /\ DOMAIN deals' = DOMAIN deals
          /\ \A i \in DOMAIN deals :
                deals'[i] = IF i \in rows THEN [deals[i] EXCEPT !.status = "REJECTED"]
                                          ELSE deals[i]
      BY <1>1a, <1>0
    <2>2. \A i \in DOMAIN deals :
             Entry(deals'[i], obs') =
                IF i \in rows THEN [Entry(deals[i], obs) EXCEPT !.status = "REJECTED"]
                              ELSE Entry(deals[i], obs)
      <3> SUFFICES ASSUME NEW i \in DOMAIN deals
                   PROVE  Entry(deals'[i], obs) =
                             IF i \in rows THEN [Entry(deals[i], obs) EXCEPT !.status = "REJECTED"]
                                           ELSE Entry(deals[i], obs)
        BY <1>1
      <3>1. deals[i] \in Deal
        BY ElementOfSeq DEF IInv, TypeOK
      <3>2. CASE i \in rows
        BY <2>1, <3>1, <3>2 DEF Entry, Deal
      <3>3. CASE i \notin rows
        BY <2>1, <3>3
      <3> QED BY <3>2, <3>3
    <2> QED BY <2>1, <2>2 DEF Mapped
  <1>5. Ledger!Lapse(rows)
    BY <1>1, <1>2, <1>3, <1>4 DEF Ledger!Lapse, Mapped, Entry
  <1> QED BY <1>2, <1>5

(* Every step of the crawler is a step of the ledger, or none.              *)
LEMMA StepLedger ==
    ASSUME IInv, [Next]_vars
    PROVE  Ledger!Next \/ (now' = now /\ Mapped' = Mapped)
  <1>1. CASE \E o \in Offers : GridSweep(o) \/ ProductFetch(o)
    <2>1. PICK o \in Offers, in \in InputSet, ref \in ReferenceSet : Ingest(o, in, ref, tasks)
      BY <1>1 DEF GridSweep, ProductFetch
    <2>2. now' = now
      BY <1>1 DEF GridSweep, ProductFetch
    <2> QED BY <2>1, <2>2, IngestLedger
  <1>2. CASE \E t \in DOMAIN tasks : ConfirmFetch(t)
    <2>1. PICK t \in DOMAIN tasks : ConfirmFetch(t)
      BY <1>2
    <2>2. tasks[t].deal \in DOMAIN deals
      BY DEF IInv, TasksInv
    <2>3. deals[tasks[t].deal] \in Deal
      BY <2>2, ElementOfSeq DEF IInv, TypeOK
    <2>4. PICK o \in Offers : o = deals[tasks[t].deal].offer
      BY <2>3 DEF Deal
    <2>5. PICK in \in InputSet, ref \in ReferenceSet :
             Ingest(o, in, ref, [tasks EXCEPT ![t].status = "DONE"])
      BY <2>1, <2>4 DEF ConfirmFetch
    <2>6. now' = now
      BY <2>1 DEF ConfirmFetch
    <2> QED BY <2>5, <2>6, IngestLedger
  <1>3. CASE DrainStart
    BY <1>3, DrainLedger DEF Ledger!Next, Mapped, Entry
  <1>4. CASE obs' = obs /\ deals' = deals
    <2>1. Mapped' = Mapped
      BY <1>4 DEF Mapped
    <2>2. CASE Advance
      <3>1. Ledger!Pass
        BY <2>1, <2>2 DEF Ledger!Pass, Advance, Mapped, Entry
      <3> QED BY <3>1 DEF Ledger!Next
    <2>3. CASE ~Advance
      <3>1. now' = now
        BY <2>3 DEF Next, vars, TickStart, DrainStart, TickEnd, GridSweep, ProductFetch,
                    ConfirmFetch, ConfirmUnfetched
      <3> QED BY <2>1, <3>1
    <2> QED BY <2>2, <2>3
  <1>5. \/ \E o \in Offers : GridSweep(o) \/ ProductFetch(o)
        \/ \E t \in DOMAIN tasks : ConfirmFetch(t)
        \/ DrainStart
        \/ obs' = obs /\ deals' = deals
    BY DEF Next, vars, TickStart, TickEnd, Advance, ConfirmUnfetched
  <1> QED BY <1>1, <1>2, <1>3, <1>4, <1>5

(* The deals table implements the ledger its readers are promised.          *)
THEOREM Refinement == Spec => LedgerSpec
  <1>1. Init => Ledger!Init
    <2> SUFFICES ASSUME Init PROVE Ledger!Init
      OBVIOUS
    <2>1. now = 0 /\ DOMAIN deals = {}
      BY DEF Init
    <2>2. Mapped = << >>
      BY <2>1 DEF Mapped
    <2> QED BY <2>1, <2>2 DEF Ledger!Init, Mapped, Entry
  <1>2. IInv /\ [Next]_vars => [Ledger!Next]_Ledger!lvars
    BY StepLedger DEF Ledger!lvars, Mapped, Entry
  <1> QED BY <1>1, <1>2, Invariance, PTL DEF Spec, LedgerSpec, Ledger!Spec

-----------------------------------------------------------------------------
(* An observation with a live deal before it.                               *)

(* Such an observation is a recheck, which touches one live row.            *)
LEMMA LiveDealRechecked ==
    ASSUME IInv, NEW o \in Offers, NEW in \in InputSet, NEW ref \in ReferenceSet, NEW base,
           Ingest(o, in, ref, base), now' = now,
           Quality(in, LastOkPrice(o)) = "OK", RowsOf(o, "ACTIVE") # {}
    PROVE  /\ Len(deals') = Len(deals)
           /\ \A i \in RowsOf(o, "CONFIRMING") : deals'[i] = deals[i]
  <1>1. Recheck(o, in, ref, Len(obs) + 1, base)
    BY DEF Ingest, Rechecks
  <1>2. PICK i \in RowsOf(o, "ACTIVE") : i = FirstByRule(RowsOf(o, "ACTIVE"))
    BY FirstByRuleIn DEF RowsOf, IInv, TypeOK
  <1>3. PICK d : deals' = [deals EXCEPT ![i] = d]
    BY <1>1, <1>2 DEF Recheck
  <1>4. i \in DOMAIN deals /\ deals[i].status = "ACTIVE"
    BY <1>2 DEF RowsOf
  <1>5. Len(deals') = Len(deals) /\ \A j \in DOMAIN deals : j # i => deals'[j] = deals[j]
    BY <1>3, <1>4 DEF IInv, TypeOK
  <1> QED BY <1>4, <1>5 DEF RowsOf

(* An OK observation of an offer with a live deal finds, confirms and       *)
(* rejects no candidate of that offer (fpt/store/pipeline.py).              *)
THEOREM LiveDealFirstHolds == Spec => LiveDealFirst
  <1> DEFINE Spent ==
        \A o \in Offers :
           (/\ obs' # obs /\ obs'[Len(obs')].offer = o /\ obs'[Len(obs')].quality = "OK"
            /\ RowsOf(o, "ACTIVE") # {})
           => /\ Len(deals') = Len(deals)
              /\ \A i \in RowsOf(o, "CONFIRMING") : deals'[i] = deals[i]
  <1>1. ASSUME IInv, NEW o \in Offers, NEW in \in InputSet, NEW ref \in ReferenceSet, NEW base,
               Ingest(o, in, ref, base), now' = now
        PROVE  Spent
    <2>1. obs' = Append(obs, Recorded(o, in))
      BY <1>1 DEF Ingest, Recorded
    <2>2. obs'[Len(obs')] = Recorded(o, in)
      BY <1>1, <2>1, Recording, LenProperties DEF IInv
    <2>3. obs'[Len(obs')].offer = o /\ obs'[Len(obs')].quality = Quality(in, LastOkPrice(o))
      BY <2>2 DEF Recorded
    <2> QED BY <1>1, <2>3, LiveDealRechecked
  <1>2. ASSUME IInv, [Next]_vars PROVE Spent
    <2>1. CASE \E o \in Offers : GridSweep(o) \/ ProductFetch(o)
      <3>1. PICK o \in Offers, in \in InputSet, ref \in ReferenceSet : Ingest(o, in, ref, tasks)
        BY <2>1 DEF GridSweep, ProductFetch
      <3>2. now' = now
        BY <2>1 DEF GridSweep, ProductFetch
      <3> QED BY <1>1, <1>2, <3>1, <3>2
    <2>2. CASE \E t \in DOMAIN tasks : ConfirmFetch(t)
      <3>1. PICK t \in DOMAIN tasks : ConfirmFetch(t)
        BY <2>2
      <3>2. tasks[t].deal \in DOMAIN deals
        BY <1>2 DEF IInv, TasksInv
      <3>3. deals[tasks[t].deal] \in Deal
        BY <1>2, <3>2, ElementOfSeq DEF IInv, TypeOK
      <3>4. PICK o \in Offers : o = deals[tasks[t].deal].offer
        BY <3>3 DEF Deal
      <3>5. PICK in \in InputSet, ref \in ReferenceSet :
               Ingest(o, in, ref, [tasks EXCEPT ![t].status = "DONE"])
        BY <3>1, <3>4 DEF ConfirmFetch
      <3>6. now' = now
        BY <3>1 DEF ConfirmFetch
      <3> QED BY <1>1, <1>2, <3>5, <3>6
    <2>3. CASE obs' = obs
      BY <2>3
    <2> QED BY <1>2, <2>1, <2>2, <2>3
            DEF Next, vars, TickStart, TickEnd, Advance, DrainStart, ConfirmUnfetched
  <1> QED BY <1>2, Invariance, PTL DEF Spec, LiveDealFirst
=============================================================================
