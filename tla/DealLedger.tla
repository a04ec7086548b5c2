----------------------------- MODULE DealLedger -----------------------------
(***************************************************************************)
(* What the deals table promises to its readers, without the fetches, the  *)
(* observations and the queue behind it.  The statuses are those of        *)
(* migration 008 ("CANDIDATE -> CONFIRMING -> ACTIVE | HELD_REVIEW |       *)
(* REJECTED | EXPIRED") as refined by migration 014: a row is published or *)
(* held only after a second look that comes at least Gap after the first,  *)
(* EXPIRED is reached from ACTIVE alone, a candidate lapses only once its  *)
(* deadline is past, a closed row never changes, and an offer has at most  *)
(* one open row per rule.                                                  *)
(***************************************************************************)
EXTENDS Integers, Sequences

CONSTANTS Offers, Rules, Gap, Patience

VARIABLES
    time,
    ledger      \* a sequence of [offer, rule, status, since]

lvars == <<time, ledger>>

Init == time = 0 /\ ledger = << >>

(* A first look finds a candidate.                                          *)
Propose(o, r) ==
    /\ \A i \in DOMAIN ledger :
          ledger[i].offer = o /\ ledger[i].rule = r
             => ledger[i].status \in {"REJECTED", "EXPIRED"}
    /\ ledger' = Append(ledger, [offer |-> o, rule |-> r, status |-> "CONFIRMING",
                                 since |-> time])
    /\ UNCHANGED time

(* A second look settles it.                                                *)
Settle(i) ==
    /\ ledger[i].status = "CONFIRMING"
    /\ time - ledger[i].since >= Gap
    /\ \E s \in {"ACTIVE", "HELD_REVIEW", "REJECTED"} :
          ledger' = [ledger EXCEPT ![i].status = s]
    /\ UNCHANGED time

(* A later look finds that a published deal is over.                        *)
Expire(i) ==
    /\ ledger[i].status = "ACTIVE"
    /\ ledger' = [ledger EXCEPT ![i].status = "EXPIRED"]
    /\ UNCHANGED time

(* Candidates whose second look never came are dropped together.            *)
Lapse(rows) ==
    /\ \A i \in rows : /\ ledger[i].status = "CONFIRMING"
                       /\ time - ledger[i].since > Patience
    /\ ledger' = [i \in DOMAIN ledger |->
                     IF i \in rows THEN [ledger[i] EXCEPT !.status = "REJECTED"]
                                   ELSE ledger[i]]
    /\ UNCHANGED time

Pass == time' = time + 1 /\ UNCHANGED ledger

Next ==
    \/ \E o \in Offers, r \in Rules : Propose(o, r)
    \/ \E i \in DOMAIN ledger : Settle(i) \/ Expire(i)
    \/ \E rows \in SUBSET DOMAIN ledger : Lapse(rows)
    \/ Pass

Spec == Init /\ [][Next]_lvars
=============================================================================
