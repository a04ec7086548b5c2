-------------------------- MODULE RetailerLimiter --------------------------
(***************************************************************************)
(* The rate limiter of one retailer (fpt/scheduler/limiter.py), driven as  *)
(* a tick drives it: the discovery loop of fpt/cli.py, then the drain of   *)
(* fpt/scheduler/queue.py, then a later tick with a limiter of its own.    *)
(*                                                                         *)
(* The limiter's state lives in memory.  The clock is the tick's: the next *)
(* step's time is this step's time plus the delay that was slept.  A real  *)
(* clock runs no slower, so gaps measured here are lower bounds.           *)
(***************************************************************************)
EXTENDS Integers, Sequences, FiniteSetsExt

CONSTANTS
    DrainKinds,         \* the kinds of task the drain leases
    MinDelay,           \* min_delay_s, raised to the robots Crawl-delay
    Jitter,             \* jitter_s
    MaxHour,            \* max_requests_per_hour
    MaxDay,             \* max_requests_per_day
    ReservedPct,        \* the sum of reserved_share, in percent
    Hour, Day,          \* the lengths of the two buckets
    ConsecutiveBlocks,  \* breaker.consecutive_blocks
    MinSample,          \* breaker.block_rate_min_sample
    BlockRatePct,       \* breaker.block_rate_threshold, in percent
    Cooldown,           \* breaker.cooldown_hours
    MaxTrips,           \* breaker.disable_after_trips_in_48h
    TripWindow,         \* 48 hours
    MaxPause,           \* bound: the time between two ticks
    MaxContacts,        \* bound: contacts with the retailer
    Horizon             \* bound: no fetch after this time

ASSUME LimiterAssumption ==
    /\ DrainKinds \subseteq {"CONFIRM", "ENROLL", "HOT", "BASELINE"}
    /\ MinDelay \in Nat \ {0} /\ Jitter \in Nat
    /\ MaxHour \in Nat /\ MaxDay \in Nat /\ ReservedPct \in 0..100
    /\ Hour \in Nat \ {0} /\ Day \in Nat \ {0} /\ Hour <= Day
    /\ ConsecutiveBlocks \in Nat \ {0} /\ MinSample \in Nat \ {0}
    /\ BlockRatePct \in Nat /\ Cooldown \in Nat
    /\ MaxTrips \in Nat \ {0} /\ TripWindow \in Nat \ {0}
    /\ MaxPause \in Nat /\ MaxContacts \in Nat /\ Horizon \in Nat

VARIABLES
    clock,
    phase,      \* of the tick, for this retailer
    hour, day,  \* the buckets: [start, count]
    last,       \* last_request_at
    blocks,     \* consecutive_blocks
    recent,     \* recent_outcomes, TRUE is blocked
    openUntil,  \* breaker_open_until
    trips,      \* trips_in_48h
    disabled,
    log,        \* the requests this limiter has recorded
    contacts,   \* what the retailer sees, in all ticks: how often it was
    lastContact,    \* contacted, when it last was, and when it last blocked
    lastTrip        \* so much that a breaker tripped

limiter == <<hour, day, last, blocks, recent, openUntil, trips, disabled, log>>
seen == <<contacts, lastContact, lastTrip>>
vars == <<clock, phase, limiter, seen>>

Kinds == {"DISCOVERY"} \union DrainKinds
ReserveEligible == {"CONFIRM", "HOT"}

Never == -1     \* None

Request == [at : Nat, kind : Kinds]
Bucket  == [start : Nat \union {Never}, count : Nat]
Empty   == [start |-> Never, count |-> 0]

Init ==
    /\ clock = 0 /\ phase = "discovery"
    /\ hour = Empty /\ day = Empty /\ last = Never
    /\ blocks = 0 /\ recent = << >> /\ openUntil = Never /\ trips = {}
    /\ disabled = FALSE /\ log = << >>
    /\ contacts = 0 /\ lastContact = Never /\ lastTrip = Never

-----------------------------------------------------------------------------
(* can_admit.                                                               *)

(* Faulty: the count is reset and the bucket's start is not.                *)
RolledCountOnly(bucket, length) ==
    IF bucket.start = Never THEN [start |-> clock, count |-> 0]
    ELSE IF clock - bucket.start >= length THEN [bucket EXCEPT !.count = 0] ELSE bucket

Rolled(bucket, length) ==
    IF bucket.start = Never \/ clock - bucket.start >= length
    THEN [start |-> clock, count |-> 0] ELSE bucket

RollBuckets == hour' = Rolled(hour, Hour) /\ day' = Rolled(day, Day)

BreakerOpen == openUntil # Never /\ clock < openUntil

TooSoon == last # Never /\ clock - last < MinDelay

(* Faulty: the reserve is not kept back.                                    *)
DailyCapUnreserved(kind, count) == count >= MaxDay

(* All requests of the day count against both the cap and what is left of   *)
(* it for the kinds that may not use the reserve.                           *)
DailyCap(kind, count) ==
    \/ kind \notin ReserveEligible /\ count * 100 >= MaxDay * (100 - ReservedPct)
    \/ count >= MaxDay

OverBudget(kind) ==
    \/ Rolled(hour, Hour).count >= MaxHour
    \/ DailyCap(kind, Rolled(day, Day).count)

(* Faulty: only the switch is looked at.                                    *)
ShutIfDisabled == disabled \/ TooSoon

Shut == disabled \/ BreakerOpen \/ TooSoon

Admits(kind) == ~Shut /\ ~OverBudget(kind)

-----------------------------------------------------------------------------
(* record_request and record_outcome.                                       *)

Counted(bucket, length) == [Rolled(bucket, length) EXCEPT !.count = @ + 1]

RecordRequest(kind) ==
    /\ hour' = Counted(hour, Hour) /\ day' = Counted(day, Day)
    /\ last' = clock
    /\ log' = Append(log, [at |-> clock, kind |-> kind])

(* The outcomes kept: the latest MinSample.                                 *)
Sample(blocked) ==
    LET all == Append(recent, blocked)
    IN  IF Len(all) > MinSample THEN Tail(all) ELSE all

BlocksInARow(blocked) == IF blocked THEN blocks + 1 ELSE 0

RateTooHigh(sample) ==
    /\ Len(sample) >= MinSample
    /\ Cardinality({i \in DOMAIN sample : sample[i]}) * 100 > BlockRatePct * Len(sample)

Trips(blocked) ==
    /\ \/ BlocksInARow(blocked) >= ConsecutiveBlocks
       \/ RateTooHigh(Sample(blocked))
    /\ openUntil = Never \/ clock >= openUntil

(* Faulty: old trips are not forgotten.                                     *)
AllTrips == trips \union {clock}

TripsIn48h == {t \in trips : clock - t < TripWindow} \union {clock}

RecordOutcome(blocked) ==
    /\ recent' = Sample(blocked)
    /\ IF Trips(blocked)
       THEN /\ openUntil' = clock + Cooldown
            /\ trips' = TripsIn48h
            /\ blocks' = 0
            /\ disabled' = (disabled \/ Cardinality(TripsIn48h) >= MaxTrips)
       ELSE /\ blocks' = BlocksInARow(blocked)
            /\ UNCHANGED <<openUntil, trips, disabled>>

NoOutcome == UNCHANGED <<blocks, recent, openUntil, trips, disabled>>

-----------------------------------------------------------------------------
(* The tick.                                                                *)

(* Faulty: a delay that may be cut short by the jitter.                     *)
SleepJittered == \E d \in MinDelay - Jitter..MinDelay : clock' = clock + d

(* next_delay_s, slept and added to the clock.                              *)
Sleep == \E d \in MinDelay..MinDelay + Jitter : clock' = clock + d

InTurn(kind) ==
    IF kind = "DISCOVERY" THEN phase = "discovery" ELSE phase = "drain"

(* A contact, as the retailer sees it.                                      *)
Contact(trip) ==
    /\ contacts < MaxContacts /\ clock < Horizon
    /\ contacts' = contacts + 1 /\ lastContact' = clock
    /\ lastTrip' = IF trip THEN clock ELSE lastTrip

(* The fetch returns a page, a block page, an empty one: all recorded.      *)
Answered(kind, blocked) ==
    /\ InTurn(kind) /\ Admits(kind)
    /\ Contact(Trips(blocked))
    /\ RecordRequest(kind) /\ RecordOutcome(blocked)
    /\ Sleep
    /\ UNCHANGED phase

(* The fetch of a discovery page raises, or leads to an unsafe URL: the     *)
(* page is given up and the loop goes on to the next one, with nothing      *)
(* recorded and nothing slept.                                              *)
DiscoveryRaised ==
    /\ phase = "discovery" /\ Admits("DISCOVERY")
    /\ Contact(FALSE)
    /\ RollBuckets
    /\ NoOutcome /\ UNCHANGED <<clock, phase, last, log>>

(* A fetch of the drain raises: a request, and no outcome for the breaker.  *)
DrainRaised(kind) ==
    /\ kind # "DISCOVERY" /\ InTurn(kind) /\ Admits(kind)
    /\ Contact(FALSE)
    /\ RecordRequest(kind) /\ NoOutcome
    /\ Sleep
    /\ UNCHANGED phase

(* A task's URL is unsafe, before the fetch or after it was redirected: no  *)
(* request is recorded, and the drain sleeps all the same.                  *)
DrainUnsafe(kind) ==
    /\ kind # "DISCOVERY" /\ InTurn(kind) /\ Admits(kind) /\ clock < Horizon
    /\ Contact(FALSE) \/ UNCHANGED seen
    /\ RollBuckets
    /\ Sleep
    /\ NoOutcome /\ UNCHANGED <<phase, last, log>>

(* Over budget: the page or the task is skipped.  A task that robots.txt    *)
(* refuses, or an unsafe discovery URL, leaves the limiter in the same      *)
(* state, the question having been asked.                                   *)
Asked(kind) ==
    /\ InTurn(kind) /\ ~(phase = "drain" /\ Shut)
    /\ RollBuckets
    /\ NoOutcome /\ UNCHANGED <<clock, phase, last, log, seen>>

StartDrain ==
    /\ phase = "discovery" /\ phase' = "drain"
    /\ UNCHANGED <<clock, limiter, seen>>

(* The queue is empty or its share is used up.                              *)
EndDrain ==
    /\ phase = "drain" /\ phase' = "done"
    /\ UNCHANGED <<clock, limiter, seen>>

(* Or the limiter is shut: the question was asked, and the drain ends.      *)
StopDrain ==
    /\ phase = "drain" /\ Shut
    /\ phase' = "done"
    /\ RollBuckets
    /\ NoOutcome /\ UNCHANGED <<clock, last, log, seen>>

(* A later tick builds a new limiter.                                       *)
NextTick ==
    /\ phase = "done" /\ phase' = "discovery"
    /\ \E pause \in 0..MaxPause :
          /\ pause = 0 \/ clock + pause <= Horizon
          /\ clock' = clock + pause
    /\ hour' = Empty /\ day' = Empty /\ last' = Never
    /\ blocks' = 0 /\ recent' = << >> /\ openUntil' = Never /\ trips' = {}
    /\ disabled' = FALSE /\ log' = << >>
    /\ UNCHANGED seen

Next ==
    \/ \E kind \in Kinds :
          \/ \E blocked \in BOOLEAN : Answered(kind, blocked)
          \/ DrainRaised(kind) \/ DrainUnsafe(kind) \/ Asked(kind)
    \/ DiscoveryRaised \/ StartDrain \/ EndDrain \/ StopDrain \/ NextTick

Spec == Init /\ [][Next]_vars

-----------------------------------------------------------------------------
(* Properties.                                                              *)

(* Every variable keeps its shape.                                          *)
TypeOK ==
    /\ clock \in Nat /\ phase \in {"discovery", "drain", "done"}
    /\ hour \in Bucket /\ day \in Bucket
    /\ last \in Nat \union {Never} /\ blocks \in Nat
    /\ recent \in Seq(BOOLEAN) /\ openUntil \in Nat \union {Never}
    /\ trips \subseteq Nat /\ disabled \in BOOLEAN
    /\ log \in Seq(Request)
    /\ contacts \in Nat
    /\ lastContact \in Nat \union {Never} /\ lastTrip \in Nat \union {Never}

(* The buckets do not slide, so an hour that lies across two of them sees   *)
(* up to twice the cap, and never more: one more request than that takes    *)
(* longer than an hour.                                                     *)
HourlyBudget ==
    \A i \in DOMAIN log :
       i > 2 * MaxHour => log[i].at - log[i - 2 * MaxHour].at >= Hour

(* What is reserved for CONFIRM and HOT is spent on them alone: of a day's  *)
(* requests, those beyond the unreserved share are all of these kinds,      *)
(* whatever the order in which the kinds came; and the day's cap holds.     *)
ReserveKept ==
    /\ day.count <= MaxDay /\ day.count <= Len(log)
    /\ \A n \in 1..day.count :
          (n - 1) * 100 >= MaxDay * (100 - ReservedPct)
             => log[Len(log) - day.count + n].kind \in ReserveEligible

(* Between a trip and the end of its cooldown this limiter lets nothing     *)
(* through.                                                                 *)
BreakerRests ==
    \A t \in trips, i \in DOMAIN log : ~(t < log[i].at /\ log[i].at < t + Cooldown)

(* A retailer is disabled for its latest trips, which all lie within 48     *)
(* hours of each other and at least a cooldown apart.                       *)
DisabledForCause ==
    /\ disabled => Cardinality(trips) >= MaxTrips
    /\ \A t, u \in trips : t < u => u - t < TripWindow /\ u - t >= Cooldown

(* While the breaker is open the tick does not sleep for this retailer, so  *)
(* unless the cooldown is shorter than a delay it sees one trip and is over *)
(* for it: the count of trips within 48 hours never gets beyond one, and no *)
(* retailer is disabled.                                                    *)
OneTripPerTick ==
    MinDelay + Jitter < Cooldown =>
       /\ Cardinality(trips) <= 1
       /\ trips # {} => BreakerOpen
       /\ MaxTrips > 1 => ~disabled

(* The delay slept after every recorded request is long enough: whenever    *)
(* the tick asks, it is never refused with delay_not_elapsed, which would   *)
(* end its drain.                                                           *)
DelayNeverRefuses == phase # "done" => ~TooSoon

(* The following are promises that the code does not keep.                  *)

(* "a real `time.sleep` between every single fetch".                        *)
SleepBetweenFetches ==
    [][contacts' # contacts
       => lastContact = Never \/ clock - lastContact >= MinDelay]_vars

(* cooldown_hours: after a trip the retailer is left alone that long.       *)
CooldownIsKept ==
    [][contacts' # contacts => lastTrip = Never \/ clock - lastTrip >= Cooldown]_vars
=============================================================================
