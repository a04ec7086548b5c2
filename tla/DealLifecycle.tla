--------------------------- MODULE DealLifecycle ---------------------------
(***************************************************************************)
(* The life of a deal at one retailer: what one tick of the crawler does   *)
(* to the observations, the deals and the CONFIRM tasks.                   *)
(*                                                                         *)
(*   fpt/cli.py            a tick: the discovery pages, then the queue     *)
(*   fpt/store/pipeline.py one fetched offer: recheck, confirm or detect   *)
(*   fpt/store/deals.py    the writes to the deals and crawl_tasks rows    *)
(*   fpt/scheduler/queue.py the overdue sweep and the CONFIRM fetches      *)
(*                                                                         *)
(* A tick is one database transaction: a tick that dies leaves nothing, so *)
(* the behaviours here are those of the ticks that commit, and time passes *)
(* for the others.  The tables only grow, and a row's id is its index.     *)
(* References are resolved from the database at every use; here the value  *)
(* found is an input of the step, any member of ReferenceSet.              *)
(***************************************************************************)
EXTENDS DealRules, Sequences, FiniteSetsExt

CONSTANTS
    Offers,         \* offers of this retailer
    GridOffers,     \* offers synthesised from discovery grids (listing_ingest)
    UsedOffers,     \* offers of condition group USED
    Variants,       \* observed (variant key, unit count) pairs
    InputSet,       \* what a fetch may yield
    ReferenceSet,   \* what resolving a reference may yield
    MinGap,         \* confirm.min_delay_minutes
    DeadlineAfter,  \* confirm.deadline_hours
    MaxObs,         \* bound: observations recorded
    LastFetch,      \* bound: no fetch is made after this time
    Horizon         \* bound: the clock stops here

ASSUME LifecycleAssumption ==
    /\ GridOffers \subseteq Offers /\ UsedOffers \subseteq Offers
    /\ InputSet \subseteq Inputs(Variants)
    /\ ReferenceSet \subseteq References
    /\ MinGap \in Nat /\ DeadlineAfter \in Nat
    /\ MaxObs \in Nat /\ LastFetch \in Nat /\ Horizon \in Nat
    /\ 0 < MinGap /\ MinGap < DeadlineAfter

VARIABLES
    now,      \* the wall clock
    phase,    \* of the running tick
    began,    \* when the running tick began
    obs,      \* price_observations
    deals,    \* deals
    tasks     \* the CONFIRM rows of crawl_tasks

vars == <<now, phase, began, obs, deals, tasks>>

Observation == [offer : Offers, at : Nat, price : Nat, quality : Qualities,
                variant : Variants]

(* CANDIDATE, the first status of the schema, is never written.             *)
DealStatus == {"CONFIRMING", "ACTIVE", "HELD_REVIEW", "REJECTED", "EXPIRED"}
OpenStatus == {"CONFIRMING", "ACTIVE", "HELD_REVIEW"}

(* detObs, confObs and lastObs are the three observation ids of the row;    *)
(* 0 is NULL.                                                               *)
Deal == [offer : Offers, rule : Rules, status : DealStatus, detObs : Nat,
         confObs : Nat, lastObs : Nat, price : Nat, ref : Nat]

TaskStatus == {"QUEUED", "DONE", "FAILED", "EXPIRED", "SKIPPED_ROBOTS",
               "SKIPPED_BUDGET"}

(* since is the observation time the task was enqueued with.                *)
Task == [deal : Nat, since : Nat, status : TaskStatus]

NotBefore(t) == t.since + MinGap
Deadline(t)  == t.since + DeadlineAfter

Init ==
    /\ now = 0 /\ phase = "idle" /\ began = 0
    /\ obs = << >> /\ deals = << >> /\ tasks = << >>

-----------------------------------------------------------------------------
(* Reading the tables.                                                      *)

Used(o) == o \in UsedOffers

(* The price of the latest OK observation of an offer.                      *)
LastOkPrice(o) ==
    LET oks == {i \in DOMAIN obs : obs[i].offer = o /\ obs[i].quality = "OK"}
    IN  IF oks = {} THEN 0 ELSE obs[Max(oks)].price

(* The open row of an offer and rule that is in the given status.           *)
RowsOf(o, status) == {i \in DOMAIN deals : deals[i].offer = o /\ deals[i].status = status}

(* Faulty: the ten-minute gap is not enforced.                              *)
RipeAtOnce(o) == {i \in RowsOf(o, "CONFIRMING") : now >= obs[deals[i].detObs].at}

(* Candidates whose detecting observation is at least the gap old.          *)
Ripe(o) == {i \in RowsOf(o, "CONFIRMING") : now - obs[deals[i].detObs].at >= MinGap}

FirstByRule(rows) ==
    CHOOSE i \in rows : \A j \in rows : RuleRank[deals[i].rule] <= RuleRank[deals[j].rule]

(* Faulty: a row held for review does not count as open.                    *)
OpenRowsNotHeld(o, rule) ==
    {i \in DOMAIN deals : deals[i].offer = o /\ deals[i].rule = rule
                          /\ deals[i].status \in {"CONFIRMING", "ACTIVE"}}

(* The rows the unique index deals_one_open_per_offer_rule ranges over.     *)
OpenRows(o, rule) ==
    {i \in DOMAIN deals : deals[i].offer = o /\ deals[i].rule = rule
                          /\ deals[i].status \in OpenStatus}

-----------------------------------------------------------------------------
(* What one observation (id n, already recorded) does to the deals and, on  *)
(* top of the tasks in base, to the queue.                                  *)

(* Faulty: a candidate that can be confirmed goes before the live deal.     *)
RechecksLast(o, quality) ==
    quality = "OK" /\ RowsOf(o, "ACTIVE") # {} /\ Ripe(o) = {}

Rechecks(o, quality) == quality = "OK" /\ RowsOf(o, "ACTIVE") # {}

(* refresh_or_expire_active_deal on the first ACTIVE deal of the offer.     *)
Recheck(o, in, ref, n, base) ==
    LET i == FirstByRule(RowsOf(o, "ACTIVE"))
        current == CurrentReference(deals[i].rule, in, ref)
    IN  /\ deals' = [deals EXCEPT ![i] =
                        IF StillADeal(deals[i], in, current)
                        THEN [@ EXCEPT !.price = RulePrice(deals[i].rule, in),
                                       !.ref = current.cents, !.lastObs = n]
                        ELSE [@ EXCEPT !.status = "EXPIRED"]]
        /\ tasks' = base

(* confirm_candidate and apply_confirm_result on the first ripe candidate.  *)
Confirm(o, in, quality, ref, n, base) ==
    LET i == FirstByRule(Ripe(o))
        current == CurrentReference(deals[i].rule, in, ref)
        verdict == Verdict(deals[i], in, quality, obs[deals[i].detObs].variant,
                           Used(o), current)
    IN  /\ deals' = [deals EXCEPT ![i] =
                        IF verdict = "REJECTED"
                        THEN [@ EXCEPT !.status = "REJECTED", !.confObs = n]
                        ELSE [@ EXCEPT !.status = verdict, !.confObs = n, !.lastObs = n,
                                       !.price = in.price, !.ref = current.cents]]
        /\ tasks' = base

(* Faulty: the row is written with the schema's first status.               *)
CandidateUnqueued(o, rule, in, ref, n) ==
    [offer |-> o, rule |-> rule, status |-> "CANDIDATE", detObs |-> n, confObs |-> 0,
     lastObs |-> 0, price |-> RulePrice(rule, in), ref |-> RuleReference(rule, in, ref)]

(* create_candidate_deal's new row: it starts in CONFIRMING.                *)
Candidate(o, rule, in, ref, n) ==
    [offer |-> o, rule |-> rule, status |-> "CONFIRMING", detObs |-> n, confObs |-> 0,
     lastObs |-> 0, price |-> RulePrice(rule, in), ref |-> RuleReference(rule, in, ref)]

(* Faulty: no dedupe_key.                                                   *)
EnqueueAlways(d, base) == Append(base, [deal |-> d, since |-> now, status |-> "QUEUED"])

(* enqueue_confirm_task: at most one open task per deal.  A task being      *)
(* fetched right now still counts as open.                                  *)
Enqueue(d, base) ==
    IF \E t \in DOMAIN tasks : tasks[t].deal = d /\ tasks[t].status = "QUEUED"
    THEN base
    ELSE Append(base, [deal |-> d, since |-> now, status |-> "QUEUED"])

(* create_candidate_deal returns the open row when there is one, whatever   *)
(* its status, and the task is enqueued for that row all the same.          *)
Detect(o, rule, in, ref, n, base) ==
    LET open == OpenRows(o, rule)
        row  == IF open = {} THEN Len(deals) + 1 ELSE CHOOSE i \in open : TRUE
    IN  /\ deals' = IF open = {} THEN Append(deals, Candidate(o, rule, in, ref, n))
                                 ELSE deals
        /\ tasks' = IF o \in GridOffers THEN base ELSE Enqueue(row, base)

(* ingest_parsed_listing for one offer: record, then at most one of the     *)
(* three.                                                                   *)
Ingest(o, in, ref, base) ==
    LET quality == Quality(in, LastOkPrice(o))
        n == Len(obs) + 1
        recheck == Rechecks(o, quality)
        confirm == Ripe(o) # {} /\ in.price # 0
        found   == Detected(in, Used(o), ref)
    IN  /\ now <= LastFetch /\ Len(obs) < MaxObs
        /\ obs' = Append(obs, [offer |-> o, at |-> now, price |-> in.price,
                               quality |-> quality, variant |-> in.variant])
        /\ \/ recheck /\ Recheck(o, in, ref, n, base)
           \/ ~recheck /\ confirm /\ Confirm(o, in, quality, ref, n, base)
           \/ /\ ~recheck /\ ~confirm /\ quality = "OK"
              /\ \E rule \in found : Detect(o, rule, in, ref, n, base)
           \/ /\ ~recheck /\ ~confirm
              /\ quality # "OK" \/ found = {}
              /\ deals' = deals /\ tasks' = base

-----------------------------------------------------------------------------
(* The tick.                                                                *)

TickStart ==
    /\ phase = "idle"
    /\ phase' = "crawl" /\ began' = now
    /\ UNCHANGED <<now, obs, deals, tasks>>

(* A grid row of a discovery page, ingested as an observation when it       *)
(* carries both a price and a claimed price.                                *)
GridSweep(o) ==
    /\ phase = "crawl" /\ o \in GridOffers
    /\ \E in \in InputSet, ref \in ReferenceSet :
          /\ in.price # 0 /\ in.claimed # 0
          /\ Ingest(o, in, ref, tasks)
    /\ UNCHANGED <<now, phase, began>>

(* Faulty: tasks whose deal was settled by another fetch are left queued.   *)
OverdueOfCandidates(clock) ==
    {t \in DOMAIN tasks : /\ tasks[t].status = "QUEUED" /\ Deadline(tasks[t]) < clock
                          /\ deals[tasks[t].deal].status = "CONFIRMING"}

Overdue(clock) ==
    {t \in DOMAIN tasks : tasks[t].status = "QUEUED" /\ Deadline(tasks[t]) < clock}

(* Faulty: the UPDATE on deals has no condition on their status.            *)
LapsingAnyStatus(i, clock) == \E t \in Overdue(clock) : tasks[t].deal = i

(* The deals of overdue tasks that are still candidates.                    *)
Lapsing(i, clock) ==
    deals[i].status = "CONFIRMING" /\ \E t \in Overdue(clock) : tasks[t].deal = i

(* expire_overdue_confirm_tasks, the first thing the drain does.  The tick  *)
(* keeps a clock of its own: its start, plus the delays it slept for this   *)
(* retailer.  It lags behind the wall clock, which stamps the observations, *)
(* by the fetches and by the retailers before this one.                     *)
DrainStart ==
    /\ phase = "crawl"
    /\ phase' = "drain"
    /\ \E clock \in began..now :
          /\ tasks' = [t \in DOMAIN tasks |->
                          IF t \in Overdue(clock) THEN [tasks[t] EXCEPT !.status = "EXPIRED"]
                                                  ELSE tasks[t]]
          /\ deals' = [i \in DOMAIN deals |->
                          IF Lapsing(i, clock)
                          THEN [deals[i] EXCEPT !.status = "REJECTED"]
                          ELSE deals[i]]
    /\ UNCHANGED <<now, began, obs>>

(* A product page: of an ENROLL, HOT or BASELINE task in the drain, or of a *)
(* discovery page that parses into listings.                                *)
ProductFetch(o) ==
    /\ phase # "idle" /\ o \notin GridOffers
    /\ \E in \in InputSet, ref \in ReferenceSet : Ingest(o, in, ref, tasks)
    /\ UNCHANGED <<now, phase, began>>

(* The queued task the drain selects next: the one due for longest, by a    *)
(* clock that has come at most as far as now.                               *)
NextDue(t) ==
    /\ phase = "drain"
    /\ tasks[t].status = "QUEUED" /\ NotBefore(tasks[t]) <= now
    /\ \A u \in DOMAIN tasks :
          tasks[u].status = "QUEUED" => NotBefore(tasks[t]) <= NotBefore(tasks[u])

(* Its page is fetched and parsed and still lists the deal's offer.         *)
ConfirmFetch(t) ==
    /\ NextDue(t)
    /\ \E in \in InputSet, ref \in ReferenceSet :
          Ingest(deals[tasks[t].deal].offer, in, ref, [tasks EXCEPT ![t].status = "DONE"])
    /\ UNCHANGED <<now, phase, began>>

(* Or the task ends with no observation of the offer: over budget, refused  *)
(* by robots.txt, failed, or done with a page that is blocked, empty or no  *)
(* longer lists it.                                                         *)
ConfirmUnfetched(t) ==
    /\ NextDue(t)
    /\ \E status \in {"SKIPPED_BUDGET", "SKIPPED_ROBOTS", "FAILED", "DONE"} :
          tasks' = [tasks EXCEPT ![t].status = status]
    /\ UNCHANGED <<now, phase, began, obs, deals>>

(* The queue is empty, the limiter stops the drain or max_tasks is reached. *)
TickEnd ==
    /\ phase = "drain"
    /\ phase' = "idle" /\ began' = 0
    /\ UNCHANGED <<now, obs, deals, tasks>>

(* Time passes between ticks, and in them: every fetch sleeps.              *)
Advance ==
    /\ now < Horizon
    /\ now' = now + 1
    /\ UNCHANGED <<phase, began, obs, deals, tasks>>

Next ==
    \/ TickStart \/ DrainStart \/ TickEnd \/ Advance
    \/ \E o \in Offers : GridSweep(o) \/ ProductFetch(o)
    \/ \E t \in DOMAIN tasks : ConfirmFetch(t) \/ ConfirmUnfetched(t)

Spec == Init /\ [][Next]_vars

(* The schedule keeps starting ticks and every tick comes to an end.        *)
FairSpec == Spec /\ WF_vars(TickStart) /\ WF_vars(DrainStart)
                 /\ WF_vars(TickEnd) /\ WF_vars(Advance)

-----------------------------------------------------------------------------
(* Properties.                                                              *)

(* Every variable keeps its shape: rows and tasks of the declared record    *)
(* types, ids that refer to existing rows, a phase of the tick.             *)
TypeOK ==
    /\ now \in Nat /\ began \in Nat /\ phase \in {"idle", "crawl", "drain"}
    /\ obs \in Seq(Observation) /\ deals \in Seq(Deal) /\ tasks \in Seq(Task)

(* Statuses only a confirming observation leads to (migration 014).         *)
Confirmed == {"ACTIVE", "HELD_REVIEW", "EXPIRED"}

LookedAtTwice(d, log) ==
    /\ {d.detObs, d.confObs, d.lastObs} \subseteq DOMAIN log
    /\ \A n \in {d.detObs, d.confObs, d.lastObs} : log[n].offer = d.offer
    /\ log[d.detObs].quality = "OK"
    /\ log[d.confObs].quality \in {"OK", "LARGE_MOVE"}
    /\ log[d.confObs].at - log[d.detObs].at >= MinGap
    /\ log[d.confObs].variant = log[d.detObs].variant
    /\ WithinTolerance(log[d.confObs].price, log[d.detObs].price)
    /\ d.lastObs >= d.confObs

(* A deal that was ever published or held rests on two looks at the same    *)
(* offer: an OK one that found it and a later one, at least the gap apart,  *)
(* of acceptable quality, showing the same variant at no more than the      *)
(* tolerated price; the last look is never older than the second.           *)
SecondLook ==
    \A i \in DOMAIN deals : deals[i].status \in Confirmed => LookedAtTwice(deals[i], obs)

Deep(d) ==
    /\ 0 < d.price /\ d.price < d.ref
    /\ DiscountPct(d.price, d.ref) >= MinDiscount
    /\ d.status = "HELD_REVIEW" =>
          DiscountPct(d.price, d.ref) \in (HeldUpper + 1)..Implausible

(* However a row was found, confirmed and refreshed, it satisfies the       *)
(* table's CHECKs on prices (a violation would abort the whole tick) and    *)
(* its own numbers make a deal; a held one is inside the review band.       *)
RowsAreDeep == \A i \in DOMAIN deals : Deep(deals[i])

(* An offer has at most one open row per rule, across expiry, rejection and *)
(* re-detection: the unique index never rejects a write.                    *)
OneOpenDealPerRule ==
    \A i, j \in DOMAIN deals :
       /\ deals[i].offer = deals[j].offer /\ deals[i].rule = deals[j].rule
       /\ deals[i].status \in OpenStatus /\ deals[j].status \in OpenStatus
       => i = j

(* A deal has at most one open CONFIRM task, although every detection of an *)
(* open deal asks for one again.                                            *)
OneOpenTaskPerDeal ==
    \A t, u \in DOMAIN tasks :
       /\ tasks[t].deal = tasks[u].deal
       /\ tasks[t].status = "QUEUED" /\ tasks[u].status = "QUEUED"
       => t = u

(* An OK observation of an offer with a live deal is spent on a live deal:  *)
(* no candidate of the offer is found, confirmed or rejected by it.         *)
LiveDealFirst ==
    [][\A o \in Offers :
          (/\ obs' # obs /\ obs'[Len(obs')].offer = o /\ obs'[Len(obs')].quality = "OK"
           /\ RowsOf(o, "ACTIVE") # {})
          => /\ Len(deals') = Len(deals)
             /\ \A i \in RowsOf(o, "CONFIRMING") : deals'[i] = deals[i]]_vars

(* The deals table implements its ledger.                                   *)
Ledger == INSTANCE DealLedger WITH
    time <- now, Gap <- MinGap, Patience <- DeadlineAfter,
    ledger <- [i \in DOMAIN deals |->
                  [offer |-> deals[i].offer, rule |-> deals[i].rule,
                   status |-> deals[i].status, since |-> obs[deals[i].detObs].at]]

LedgerSpec == Ledger!Spec

(* A queued CONFIRM task is eventually fetched, skipped or expired, as long *)
(* as the retailer's queue keeps being drained (FairSpec).                  *)
TasksAreClosed ==
    \A t \in 1..MaxObs :
       (t \in DOMAIN tasks /\ tasks[t].status = "QUEUED")
       ~> (t \in DOMAIN tasks /\ tasks[t].status # "QUEUED")

(* The configuration promises this, and the code does not keep it: "an      *)
(* ACTIVE deal expires if no fresh OK observation lands within this window  *)
(* (expire_stale_deals, called once per tick)".                             *)
Stale(i, hours) ==
    \A n \in DOMAIN obs :
       obs[n].offer = deals[i].offer /\ obs[n].quality = "OK" => obs[n].at + hours < now

StaleDealsExpire(hours) ==
    \A i \in 1..MaxObs :
       (i \in DOMAIN deals /\ deals[i].status = "ACTIVE" /\ Stale(i, hours))
       ~> (i \in DOMAIN deals /\ (deals[i].status # "ACTIVE" \/ ~Stale(i, hours)))
=============================================================================
