----------------------- MODULE RetailerLimiter_proofs -----------------------
(***************************************************************************)
(* Theorems about RetailerLimiter for every policy.  The invariants follow *)
(* from one inductive invariant, IInv, which says of each bucket how the   *)
(* log lies about its start, and of the breaker how its trips, its opening *)
(* time and the clock are ordered.                                         *)
(***************************************************************************)
EXTENDS RetailerLimiter, TLAPS, SequenceTheorems, FiniteSetTheorems

(* A bucket b of the hour and a log l: what lies before the bucket is not   *)
(* after its start, and all but the latest MaxHour of it an hour earlier.   *)
HourBucket(b, l) ==
    /\ b.count <= MaxHour /\ b.count <= Len(l)
    /\ b.start = Never => Len(l) = 0
    /\ \A j \in DOMAIN l : j <= Len(l) - b.count => l[j].at <= b.start
    /\ \A j \in DOMAIN l : j <= Len(l) - b.count - MaxHour => l[j].at + Hour <= b.start

(* A bucket b of the day and a log l: ReserveKept.                          *)
DayBucket(b, l) ==
    /\ b.count <= MaxDay /\ b.count <= Len(l)
    /\ \A n \in 1..b.count :
          (n - 1) * 100 >= MaxDay * (100 - ReservedPct)
             => l[Len(l) - b.count + n].kind \in ReserveEligible

NotLater == hour.start <= clock /\ \A i \in DOMAIN log : log[i].at <= clock

TripsInv ==
    /\ IsFiniteSet(trips)
    /\ \A t \in trips : t <= clock /\ openUntil # Never /\ t + Cooldown <= openUntil
    /\ DisabledForCause

OneTrip ==
    MinDelay + Jitter < Cooldown =>
       /\ trips = {} \/ (BreakerOpen /\ \E t \in trips : trips = {t})
       /\ MaxTrips > 1 => ~disabled

IInv ==
    /\ TypeOK /\ NotLater
    /\ HourBucket(hour, log) /\ HourlyBudget
    /\ DayBucket(day, log)
    /\ ~TooSoon
    /\ TripsInv /\ BreakerRests /\ OneTrip

-----------------------------------------------------------------------------
(* Buckets.                                                                 *)

(* The log is indexed from 1, and its requests carry times.                 *)
LEMMA LogShape ==
    ASSUME TypeOK
    PROVE  /\ Len(log) \in Nat /\ DOMAIN log = 1..Len(log)
           /\ \A i \in DOMAIN log : log[i].at \in Nat
  <1>1. log \in Seq(Request)
    BY DEF TypeOK
  <1>2. Len(log) \in Nat /\ DOMAIN log = 1..Len(log)
    BY <1>1, LenProperties
  <1>3. \A i \in DOMAIN log : log[i] \in Request
    BY <1>1, <1>2, ElementOfSeq
  <1> QED BY <1>2, <1>3 DEF Request

(* Rolling a bucket keeps it or starts an empty one now.                    *)
LEMMA RolledBucket ==
    ASSUME NEW b \in Bucket, clock \in Nat, NEW length \in Nat
    PROVE  /\ Rolled(b, length) \in Bucket
           /\ Rolled(b, length).start \in Nat /\ Rolled(b, length).count \in Nat
           /\ \/ Rolled(b, length) = b
              \/ Rolled(b, length) = [start |-> clock, count |-> 0]
  BY DEF Rolled, Bucket, Never

(* A rolled hour is a bucket over the same log: when it starts anew, what   *)
(* was before the old one is an hour past.                                  *)
LEMMA RolledHour ==
    ASSUME TypeOK, NotLater, HourBucket(hour, log)
    PROVE  HourBucket(Rolled(hour, Hour), log) /\ Rolled(hour, Hour).start <= clock
  <1> DEFINE h == Rolled(hour, Hour)
  <1>1. /\ Len(log) \in Nat /\ DOMAIN log = 1..Len(log)
        /\ \A i \in DOMAIN log : log[i].at \in Nat
        /\ hour.count \in Nat /\ hour.start \in Nat \union {Never} /\ clock \in Nat
    BY LogShape DEF TypeOK, Bucket
  <1>2. Hour \in Nat /\ MaxHour \in Nat
    BY LimiterAssumption
  <1>3. CASE h = hour
    BY <1>3 DEF NotLater
  <1>4. CASE h # hour
    <2>1. /\ h = [start |-> clock, count |-> 0]
          /\ hour.start = Never \/ clock - hour.start >= Hour
      BY <1>4 DEF Rolled
    <2>2. \A j \in DOMAIN log : j <= Len(log) - h.count => log[j].at <= h.start
      BY <2>1 DEF NotLater
    <2>3. ASSUME NEW j \in DOMAIN log, j <= Len(log) - h.count - MaxHour
          PROVE  log[j].at + Hour <= h.start
      <3>1. j <= Len(log) - hour.count /\ hour.start # Never
        BY <1>1, <1>2, <2>1, <2>3 DEF HourBucket
      <3>2. log[j].at <= hour.start /\ clock - hour.start >= Hour
        BY <2>1, <3>1 DEF HourBucket
      <3> QED BY <1>1, <1>2, <2>1, <3>1, <3>2
    <2>4. h.count <= MaxHour /\ h.count <= Len(log) /\ h.start # Never
      BY <1>1, <1>2, <2>1 DEF Never
    <2> QED BY <1>1, <2>1, <2>2, <2>3, <2>4 DEF HourBucket
  <1> QED BY <1>3, <1>4

(* A rolled day is a bucket over the same log.                              *)
LEMMA RolledDay ==
    ASSUME TypeOK, DayBucket(day, log)
    PROVE  DayBucket(Rolled(day, Day), log)
  <1>1. Len(log) \in Nat /\ MaxDay \in Nat /\ clock \in Nat /\ day \in Bucket /\ Day \in Nat
    BY LenProperties, LimiterAssumption DEF TypeOK
  <1>2. CASE Rolled(day, Day) = day
    BY <1>2
  <1>3. CASE Rolled(day, Day) = [start |-> clock, count |-> 0]
    BY <1>1, <1>3 DEF DayBucket
  <1> QED BY <1>1, <1>2, <1>3, RolledBucket

(* One more request of a kind.                                              *)
LEMMA Logged ==
    ASSUME TypeOK, NEW kind \in Kinds, RecordRequest(kind)
    PROVE  /\ log' \in Seq(Request) /\ Len(log) \in Nat
           /\ Len(log') = Len(log) + 1
           /\ DOMAIN log = 1..Len(log) /\ DOMAIN log' = 1..(Len(log) + 1)
           /\ \A i \in DOMAIN log : log'[i] = log[i] /\ log[i].at \in Nat
           /\ log'[Len(log) + 1] = [at |-> clock, kind |-> kind]
  <1>1. [at |-> clock, kind |-> kind] \in Request /\ log \in Seq(Request)
    BY DEF TypeOK, Request
  <1>2. log' = Append(log, [at |-> clock, kind |-> kind])
    BY DEF RecordRequest
  <1>3. /\ log' \in Seq(Request) /\ Len(log') = Len(log) + 1
        /\ \A i \in 1..Len(log) : log'[i] = log[i]
        /\ log'[Len(log) + 1] = [at |-> clock, kind |-> kind]
    BY <1>1, <1>2, AppendProperties
  <1>4. DOMAIN log' = 1..Len(log')
    BY <1>3, LenProperties
  <1> QED BY <1>3, <1>4, LogShape

(* A request that can_admit let through keeps the bucket of the hour, and   *)
(* comes an hour after the one twice the cap before it.                     *)
LEMMA HourCounted ==
    ASSUME TypeOK, NotLater, HourBucket(hour, log), HourlyBudget,
           NEW kind \in Kinds, Admits(kind), RecordRequest(kind)
    PROVE  /\ HourBucket(hour', log') /\ HourlyBudget'
           /\ hour' \in Bucket /\ hour'.start <= clock
  <1> DEFINE h == Rolled(hour, Hour)
  <1>0. /\ Len(log) \in Nat /\ Len(log') = Len(log) + 1
        /\ DOMAIN log = 1..Len(log) /\ DOMAIN log' = 1..(Len(log) + 1)
        /\ \A i \in DOMAIN log : log'[i] = log[i] /\ log[i].at \in Nat
        /\ log'[Len(log) + 1] = [at |-> clock, kind |-> kind]
    BY Logged
  <1>1. HourBucket(h, log) /\ h.start <= clock
    BY RolledHour
  <1>2. h \in Bucket /\ h.start \in Nat /\ h.count \in Nat /\ clock \in Nat
        /\ Hour \in Nat /\ MaxHour \in Nat
    BY RolledBucket, LimiterAssumption DEF TypeOK
  <1>3. h.count < MaxHour
    BY <1>2 DEF Admits, OverBudget
  <1>4. hour' = [h EXCEPT !.count = @ + 1]
    BY DEF RecordRequest, Counted
  <1>5. hour' \in Bucket /\ hour'.start = h.start /\ hour'.count = h.count + 1
    BY <1>2, <1>4 DEF Bucket
  <1> HIDE DEF h
  <1>6. HourBucket(hour', log')
    <2>1. ASSUME NEW j \in DOMAIN log', j <= Len(log') - hour'.count
          PROVE  j \in DOMAIN log /\ j <= Len(log) - h.count /\ log'[j] = log[j]
      BY <1>0, <1>2, <1>5, <2>1
    <2>2. \A j \in DOMAIN log' : j <= Len(log') - hour'.count => log'[j].at <= hour'.start
      BY <1>1, <1>5, <2>1 DEF HourBucket
    <2>3. ASSUME NEW j \in DOMAIN log', j <= Len(log') - hour'.count - MaxHour
          PROVE  log'[j].at + Hour <= hour'.start
      <3>1. j <= Len(log') - hour'.count /\ j <= Len(log) - h.count - MaxHour
        BY <1>0, <1>2, <1>5, <2>3
      <3> QED BY <1>1, <1>5, <2>1, <3>1 DEF HourBucket
    <2>4. hour'.count <= MaxHour /\ hour'.count <= Len(log') /\ hour'.start # Never
      BY <1>0, <1>1, <1>2, <1>3, <1>5 DEF HourBucket, Never
    <2> QED BY <2>2, <2>3, <2>4 DEF HourBucket
  <1>7. HourlyBudget'
    <2> SUFFICES ASSUME NEW i \in DOMAIN log', i > 2 * MaxHour
                 PROVE  log'[i].at - log'[i - 2 * MaxHour].at >= Hour
      BY DEF HourlyBudget
    <2>1. /\ i - 2 * MaxHour \in DOMAIN log
          /\ log'[i - 2 * MaxHour] = log[i - 2 * MaxHour]
          /\ log[i - 2 * MaxHour].at \in Nat
      BY <1>0, <1>2, <1>3
    <2>2. CASE i \in DOMAIN log
      BY <1>0, <2>1, <2>2 DEF HourlyBudget
    <2>3. CASE i = Len(log) + 1
      <3>1. i - 2 * MaxHour <= Len(log) - h.count - MaxHour
        BY <1>0, <1>2, <1>3, <2>3
      <3>2. log[i - 2 * MaxHour].at + Hour <= h.start
        BY <1>1, <2>1, <3>1 DEF HourBucket
      <3>3. log'[i].at = clock
        BY <1>0, <2>3
      <3> QED BY <1>1, <1>2, <2>1, <3>2, <3>3
    <2> QED BY <1>0, <2>2, <2>3
  <1> QED BY <1>1, <1>5, <1>6, <1>7

(* A request that can_admit let through keeps the bucket of the day: if it  *)
(* is beyond the unreserved share, its kind may use the reserve.            *)
LEMMA DayCounted ==
    ASSUME TypeOK, DayBucket(day, log),
           NEW kind \in Kinds, Admits(kind), RecordRequest(kind)
    PROVE  DayBucket(day', log') /\ day' \in Bucket
  <1> DEFINE d == Rolled(day, Day)
             share == MaxDay * (100 - ReservedPct)
  <1>0. /\ Len(log) \in Nat /\ Len(log') = Len(log) + 1
        /\ DOMAIN log = 1..Len(log) /\ DOMAIN log' = 1..(Len(log) + 1)
        /\ \A i \in DOMAIN log : log'[i] = log[i] /\ log[i].at \in Nat
        /\ log'[Len(log) + 1] = [at |-> clock, kind |-> kind]
    BY Logged
  <1>1. DayBucket(d, log)
    BY RolledDay
  <1>2. /\ d \in Bucket /\ d.start \in Nat /\ d.count \in Nat
        /\ MaxDay \in Nat /\ share \in Int
    BY RolledBucket, LimiterAssumption DEF TypeOK
  <1>3. /\ d.count < MaxDay
        /\ kind \notin ReserveEligible => ~(d.count * 100 >= share)
    BY <1>2 DEF Admits, OverBudget, DailyCap
  <1>4. day' = [d EXCEPT !.count = @ + 1]
    BY DEF RecordRequest, Counted
  <1>5. day' \in Bucket /\ day'.count = d.count + 1
    BY <1>2, <1>4 DEF Bucket
  <1>6. \A n \in 1..d.count : (n - 1) * 100 >= share
                                 => log[Len(log) - d.count + n].kind \in ReserveEligible
    BY <1>1 DEF DayBucket
  <1> HIDE DEF d, share
  <1>7. ASSUME NEW n \in 1..day'.count, (n - 1) * 100 >= share
        PROVE  log'[Len(log') - day'.count + n].kind \in ReserveEligible
    <2>1. Len(log') - day'.count + n = Len(log) - d.count + n
      BY <1>0, <1>2, <1>5
    <2>2. CASE n = day'.count
      <3>1. n - 1 = d.count /\ Len(log') - day'.count + n = Len(log) + 1
        BY <1>0, <1>2, <1>5, <2>1, <2>2
      <3>2. d.count * 100 >= share
        BY <1>7, <3>1
      <3>3. kind \in ReserveEligible
        BY <1>3, <3>2
      <3> QED BY <1>0, <3>1, <3>3
    <2>3. CASE n # day'.count
      <3>1. n \in 1..d.count /\ Len(log) - d.count + n \in DOMAIN log
        BY <1>0, <1>1, <1>2, <1>5, <2>3 DEF DayBucket
      <3> QED BY <1>0, <1>6, <1>7, <2>1, <3>1
    <2> QED BY <2>2, <2>3
  <1>8. day'.count <= MaxDay /\ day'.count <= Len(log')
    BY <1>0, <1>1, <1>2, <1>3, <1>5 DEF DayBucket
  <1>9. DayBucket(day', log')
    BY <1>7, <1>8 DEF DayBucket, share
  <1> QED BY <1>5, <1>9

-----------------------------------------------------------------------------
(* The breaker.                                                             *)

(* After an outcome, the breaker's trips are still ordered: the new one is  *)
(* a cooldown later than the kept ones and within 48 hours of them.         *)
LEMMA OutcomeKeepsTrips ==
    ASSUME TypeOK, TripsInv, NEW kind, Admits(kind),
           NEW blocked \in BOOLEAN, RecordOutcome(blocked),
           NEW later \in Nat, later >= clock, clock' = later
    PROVE  TripsInv'
  <1>1. /\ ~disabled /\ ~BreakerOpen
        /\ clock \in Nat /\ openUntil \in Nat \union {Never} /\ trips \subseteq Nat
        /\ Cooldown \in Nat /\ TripWindow \in Nat \ {0} /\ MaxTrips \in Nat \ {0}
    BY LimiterAssumption DEF Admits, Shut, TypeOK
  <1>2. CASE Trips(blocked)
    <2>1. /\ openUntil' = clock + Cooldown /\ trips' = TripsIn48h
          /\ disabled' = (disabled \/ Cardinality(TripsIn48h) >= MaxTrips)
      BY <1>2 DEF RecordOutcome
    <2>2. IsFiniteSet(trips')
      <3>1. {t \in trips : clock - t < TripWindow} \subseteq trips
        OBVIOUS
      <3> QED BY <2>1, <3>1, FS_Subset, FS_AddElement DEF TripsInv, TripsIn48h
    <2>3. ASSUME NEW t \in trips'
          PROVE  /\ t \in Nat /\ t <= clock /\ clock - t < TripWindow
                 /\ t + Cooldown <= openUntil'
                 /\ t # clock => t \in trips /\ clock - t >= Cooldown
      <3>1. CASE t = clock
        BY <1>1, <2>1, <3>1
      <3>2. CASE t # clock
        <4>1. t \in trips /\ clock - t < TripWindow
          BY <2>1, <3>2 DEF TripsIn48h
        <4>2. t <= clock /\ openUntil # Never /\ t + Cooldown <= openUntil
          BY <4>1 DEF TripsInv
        <4>3. openUntil <= clock
          BY <1>1, <4>2 DEF BreakerOpen
        <4> QED BY <1>1, <2>1, <4>1, <4>2, <4>3
      <3> QED BY <3>1, <3>2
    <2>4. ASSUME NEW t \in trips', NEW u \in trips', t < u
          PROVE  u - t < TripWindow /\ u - t >= Cooldown
      <3>1. t # clock
        BY <1>1, <2>3, <2>4
      <3>2. CASE u = clock
        BY <2>3, <3>1, <3>2
      <3>3. CASE u # clock
        BY <2>3, <2>4, <3>1, <3>3 DEF TripsInv, DisabledForCause
      <3> QED BY <3>2, <3>3
    <2>5. openUntil' # Never /\ disabled' => Cardinality(trips') >= MaxTrips
      BY <1>1, <2>1
    <2>6. openUntil' # Never
      BY <1>1, <2>1 DEF Never
    <2>7. \A t \in trips' : t <= clock'
      BY <1>1, <2>3
    <2> QED BY <2>2, <2>3, <2>4, <2>5, <2>6, <2>7 DEF TripsInv, DisabledForCause
  <1>3. CASE ~Trips(blocked)
    <2>1. UNCHANGED <<openUntil, trips, disabled>>
      BY <1>3 DEF RecordOutcome
    <2> QED BY <1>1, <2>1 DEF TripsInv, DisabledForCause
  <1> QED BY <1>2, <1>3

(* The breaker's state is unchanged and time does not go back.              *)
LEMMA NoOutcomeKeepsTrips ==
    ASSUME TypeOK, TripsInv, UNCHANGED <<trips, openUntil, disabled>>,
           clock' \in Nat, clock' >= clock
    PROVE  TripsInv'
  BY DEF TypeOK, TripsInv, DisabledForCause

(* Sleeping moves the clock by at least the minimal delay.                  *)
LEMMA Slept ==
    ASSUME TypeOK, Sleep
    PROVE  clock' \in Nat /\ clock + MinDelay <= clock'
           /\ clock' <= clock + MinDelay + Jitter
  BY LimiterAssumption DEF TypeOK, Sleep

(* A request made while the breaker is closed lies in no cooldown, whether  *)
(* its outcome trips the breaker or not.                                    *)
LEMMA RequestKeepsRest ==
    ASSUME TypeOK, NotLater, TripsInv, BreakerRests,
           NEW kind \in Kinds, Admits(kind), RecordRequest(kind),
           trips' \subseteq trips \union {clock}
    PROVE  BreakerRests'
  <1>0. /\ DOMAIN log = 1..Len(log) /\ DOMAIN log' = 1..(Len(log) + 1)
        /\ Len(log) \in Nat
        /\ \A i \in DOMAIN log : log'[i] = log[i] /\ log[i].at \in Nat
        /\ log'[Len(log) + 1] = [at |-> clock, kind |-> kind]
    BY Logged
  <1> SUFFICES ASSUME NEW t \in trips', NEW i \in DOMAIN log',
                      t < log'[i].at, log'[i].at < t + Cooldown
               PROVE  FALSE
    BY DEF BreakerRests
  <1>1. log'[i].at <= clock /\ clock \in Nat /\ log'[i].at \in Nat
    BY <1>0 DEF NotLater, TypeOK
  <1>2. t # clock
    BY <1>1
  <1>3. /\ t \in trips /\ t \in Nat /\ openUntil \in Nat \union {Never}
        /\ openUntil # Never /\ t + Cooldown <= openUntil /\ ~(clock < openUntil)
    BY <1>2 DEF TripsInv, TypeOK, Admits, Shut, BreakerOpen
  <1>4. i \in DOMAIN log
    BY <1>0, <1>1, <1>3, LimiterAssumption
  <1> QED BY <1>0, <1>3, <1>4 DEF BreakerRests

-----------------------------------------------------------------------------
(* The steps that ask without recording a request.                          *)

LogAndBreakerStay == UNCHANGED <<last, blocks, recent, openUntil, trips, disabled, log>>

(* Asking rolls the buckets; whether the tick then sleeps, and whatever it  *)
(* does next, the invariant stays.                                          *)
LEMMA AskedKeeps ==
    ASSUME IInv, LogAndBreakerStay,
           RollBuckets \/ UNCHANGED <<hour, day>>,
           clock' \in Nat, clock' >= clock,
           clock' = clock \/ ~Shut,
           phase' \in {"discovery", "drain", "done"},
           contacts' \in Nat, lastContact' \in Nat \union {Never},
           lastTrip' \in Nat \union {Never}
    PROVE  IInv'
  <1>1. /\ HourBucket(hour', log) /\ hour' \in Bucket /\ hour'.start <= clock
        /\ DayBucket(day', log) /\ day' \in Bucket
    <2>1. CASE RollBuckets
      BY <2>1, RolledHour, RolledDay, RolledBucket, LimiterAssumption
         DEF RollBuckets, IInv, TypeOK
    <2>2. CASE UNCHANGED <<hour, day>>
      BY <2>2 DEF IInv, TypeOK, NotLater
    <2> QED BY <2>1, <2>2
  <1>2. TypeOK'
    BY <1>1 DEF IInv, TypeOK, LogAndBreakerStay
  <1>3. NotLater'
    <2>1. clock \in Nat /\ \A i \in DOMAIN log : log[i].at \in Nat
      BY LogShape DEF IInv, TypeOK
    <2>2. hour'.start \in Int
      BY <1>1 DEF Bucket, Never
    <2> QED BY <1>1, <2>1, <2>2 DEF IInv, NotLater, LogAndBreakerStay
  <1>4. HourBucket(hour', log') /\ DayBucket(day', log') /\ HourlyBudget'
    BY <1>1 DEF IInv, HourlyBudget, LogAndBreakerStay
  <1>5. ~TooSoon'
    <2> DEFINE c == clock
               d == clock'
               l == last
    <2>1. /\ last' = l /\ ~TooSoon /\ c \in Nat /\ d \in Nat /\ c <= d
          /\ l \in Nat \union {Never} /\ MinDelay \in Nat
      BY LimiterAssumption DEF IInv, TypeOK, LogAndBreakerStay
    <2>2. ~(l # Never /\ c - l < MinDelay)
      BY <2>1 DEF TooSoon
    <2> HIDE DEF c, d, l
    <2>3. ~(l # Never /\ d - l < MinDelay)
      BY <2>1, <2>2 DEF Never
    <2> QED BY <2>1, <2>3 DEF TooSoon, d
  <1>6. TripsInv'
    BY NoOutcomeKeepsTrips DEF IInv, LogAndBreakerStay
  <1>7. BreakerRests'
    BY DEF IInv, BreakerRests, LogAndBreakerStay
  <1>8. OneTrip'
    <2>1. CASE clock' = clock
      BY <2>1 DEF IInv, OneTrip, BreakerOpen, LogAndBreakerStay
    <2>2. CASE ~Shut
      BY <2>2 DEF IInv, OneTrip, BreakerOpen, Shut, LogAndBreakerStay
    <2> QED BY <2>1, <2>2
  <1> QED BY <1>2, <1>3, <1>4, <1>5, <1>6, <1>7, <1>8 DEF IInv

-----------------------------------------------------------------------------
(* The steps that record a request.                                         *)

(* The parts of the invariant that are about the log and the delay.         *)
LEMMA RecordedKeepsLog ==
    ASSUME IInv, NEW kind \in Kinds, Admits(kind), RecordRequest(kind), Sleep
    PROVE  /\ NotLater' /\ HourBucket(hour', log') /\ HourlyBudget'
           /\ DayBucket(day', log') /\ ~TooSoon'
           /\ hour' \in Bucket /\ day' \in Bucket /\ log' \in Seq(Request)
           /\ last' \in Nat /\ clock' \in Nat
  <1>1. /\ HourBucket(hour', log') /\ HourlyBudget'
        /\ hour' \in Bucket /\ hour'.start <= clock
    BY HourCounted DEF IInv
  <1>2. DayBucket(day', log') /\ day' \in Bucket
    BY DayCounted DEF IInv
  <1>3. /\ clock' \in Nat /\ clock + MinDelay <= clock' /\ clock \in Nat
        /\ MinDelay \in Nat
    BY Slept, LimiterAssumption DEF IInv, TypeOK
  <1>4. log' \in Seq(Request) /\ \A i \in DOMAIN log' : log'[i].at \in Nat /\ log'[i].at <= clock
    <2>1. /\ log' \in Seq(Request) /\ Len(log) \in Nat
          /\ DOMAIN log = 1..Len(log) /\ DOMAIN log' = 1..(Len(log) + 1)
          /\ \A i \in DOMAIN log : log'[i] = log[i] /\ log[i].at \in Nat
          /\ log'[Len(log) + 1] = [at |-> clock, kind |-> kind]
      BY Logged DEF IInv
    <2>2. \A i \in DOMAIN log : log[i].at <= clock
      BY DEF IInv, NotLater
    <2> QED BY <1>3, <2>1, <2>2
  <1>5. hour'.start \in Int
    BY <1>1 DEF Bucket, Never
  <1>6. NotLater'
    BY <1>1, <1>3, <1>4, <1>5 DEF NotLater
  <1>7. last' = clock
    BY DEF RecordRequest
  <1>8. ~TooSoon'
    <2> DEFINE c == clock
               d == clock'
    <2>1. c \in Nat /\ d \in Nat /\ c + MinDelay <= d /\ MinDelay \in Nat
      BY <1>3
    <2> HIDE DEF c, d
    <2>2. ~(d - c < MinDelay)
      BY <2>1
    <2> QED BY <1>7, <2>2 DEF TooSoon, c, d
  <1> QED BY <1>1, <1>2, <1>3, <1>4, <1>6, <1>7, <1>8

(* A fetch that was answered keeps the invariant, whatever its outcome      *)
(* does to the breaker.                                                     *)
LEMMA AnsweredKeeps ==
    ASSUME IInv, NEW kind \in Kinds, NEW blocked \in BOOLEAN, Answered(kind, blocked)
    PROVE  IInv'
  <1>0. /\ TypeOK /\ TripsInv /\ NotLater /\ BreakerRests /\ OneTrip
        /\ Admits(kind) /\ RecordRequest(kind) /\ RecordOutcome(blocked) /\ Sleep
        /\ Contact(Trips(blocked)) /\ phase' = phase
    BY DEF IInv, Answered
  <1>1. /\ NotLater' /\ HourBucket(hour', log') /\ HourlyBudget'
        /\ DayBucket(day', log') /\ ~TooSoon'
        /\ hour' \in Bucket /\ day' \in Bucket /\ log' \in Seq(Request)
        /\ last' \in Nat /\ clock' \in Nat
    BY <1>0, RecordedKeepsLog
  <1>2. /\ clock \in Nat /\ clock' >= clock /\ clock' <= clock + MinDelay + Jitter
        /\ MinDelay \in Nat /\ Jitter \in Nat /\ Cooldown \in Nat
    BY <1>0, <1>1, Slept, LimiterAssumption DEF TypeOK
  <1>3. TripsInv'
    BY <1>0, <1>1, <1>2, OutcomeKeepsTrips
  <1>4. trips' \subseteq trips \union {clock}
    BY <1>0 DEF RecordOutcome, TripsIn48h
  <1>5. BreakerRests'
    BY <1>0, <1>4, RequestKeepsRest
  <1>6. ~BreakerOpen /\ ~disabled
    BY <1>0 DEF Admits, Shut
  <1>7. OneTrip'
    <2> SUFFICES ASSUME MinDelay + Jitter < Cooldown
                 PROVE  /\ trips' = {} \/ (BreakerOpen' /\ \E t \in trips' : trips' = {t})
                        /\ MaxTrips > 1 => ~disabled'
      BY DEF OneTrip
    <2>1. trips = {}
      BY <1>0, <1>6 DEF OneTrip
    <2>2. CASE Trips(blocked)
      <3>1. /\ openUntil' = clock + Cooldown /\ trips' = TripsIn48h
            /\ disabled' = (disabled \/ Cardinality(TripsIn48h) >= MaxTrips)
        BY <1>0, <2>2 DEF RecordOutcome
      <3>2. TripsIn48h = {clock}
        BY <2>1 DEF TripsIn48h
      <3>3. Cardinality(TripsIn48h) = 1
        BY <3>2, FS_Singleton
      <3>4. BreakerOpen'
        BY <1>1, <1>2, <3>1 DEF BreakerOpen, Never
      <3>5. ASSUME MaxTrips > 1
            PROVE  ~disabled'
        <4>1. ~(Cardinality(TripsIn48h) >= MaxTrips)
          BY <3>3, <3>5, LimiterAssumption
        <4> QED BY <1>6, <3>1, <4>1, Zenon
      <3> QED BY <3>1, <3>2, <3>4, <3>5
    <2>3. CASE ~Trips(blocked)
      BY <1>0, <1>6, <2>1, <2>3 DEF RecordOutcome
    <2> QED BY <2>2, <2>3
  <1>8. TypeOK'
    <2>1. blocks' \in Nat /\ openUntil' \in Nat \union {Never} /\ trips' \subseteq Nat
      <3>1. CASE Trips(blocked)
        BY <1>0, <1>2, <1>4, <3>1 DEF RecordOutcome, TypeOK
      <3>2. CASE ~Trips(blocked)
        <4>1. /\ blocks' = BlocksInARow(blocked)
              /\ openUntil' = openUntil /\ trips' = trips
          BY <1>0, <3>2 DEF RecordOutcome
        <4>2. blocks \in Nat /\ openUntil \in Nat \union {Never} /\ trips \subseteq Nat
          BY <1>0 DEF TypeOK
        <4>3. BlocksInARow(blocked) \in Nat
          BY <4>2 DEF BlocksInARow
        <4> QED BY <4>1, <4>2, <4>3
      <3> QED BY <3>1, <3>2
    <2>4. disabled' \in BOOLEAN
      BY <1>0, Zenon DEF RecordOutcome, TypeOK
    <2>2. recent' \in Seq(BOOLEAN)
      <3>1. recent' = Sample(blocked)
        BY <1>0 DEF RecordOutcome
      <3>2. /\ Append(recent, blocked) \in Seq(BOOLEAN)
            /\ Append(recent, blocked) # << >>
        BY <1>0, AppendProperties DEF TypeOK
      <3>3. Tail(Append(recent, blocked)) \in Seq(BOOLEAN)
        BY <3>2, HeadTailProperties
      <3> QED BY <3>1, <3>2, <3>3 DEF Sample
    <2>3. /\ contacts' \in Nat /\ lastContact' \in Nat \union {Never}
          /\ lastTrip' \in Nat \union {Never}
      BY <1>0, <1>2 DEF Contact, TypeOK
    <2> QED BY <1>0, <1>1, <2>1, <2>2, <2>3, <2>4 DEF TypeOK
  <1> QED BY <1>1, <1>3, <1>5, <1>7, <1>8 DEF IInv

(* A fetch of the drain that raised keeps the invariant.                    *)
LEMMA DrainRaisedKeeps ==
    ASSUME IInv, NEW kind \in Kinds, DrainRaised(kind)
    PROVE  IInv'
  <1>0. /\ TypeOK /\ TripsInv /\ NotLater /\ BreakerRests /\ OneTrip
        /\ Admits(kind) /\ RecordRequest(kind) /\ Sleep
        /\ UNCHANGED <<blocks, recent, openUntil, trips, disabled, phase>>
        /\ Contact(FALSE)
    BY DEF IInv, DrainRaised, NoOutcome
  <1>1. /\ NotLater' /\ HourBucket(hour', log') /\ HourlyBudget'
        /\ DayBucket(day', log') /\ ~TooSoon'
        /\ hour' \in Bucket /\ day' \in Bucket /\ log' \in Seq(Request)
        /\ last' \in Nat /\ clock' \in Nat
    BY <1>0, RecordedKeepsLog
  <1>2. clock' >= clock
    BY <1>0, <1>1, Slept, LimiterAssumption DEF TypeOK
  <1>3. TripsInv'
    BY <1>0, <1>1, <1>2, NoOutcomeKeepsTrips
  <1>4. BreakerRests'
    BY <1>0, RequestKeepsRest
  <1>5. OneTrip'
    BY <1>0 DEF OneTrip, Admits, Shut
  <1>6. contacts' \in Nat /\ lastContact' \in Nat /\ lastTrip' \in Nat \union {Never}
    BY <1>0 DEF Contact, TypeOK
  <1>7. TypeOK'
    BY <1>0, <1>1, <1>6 DEF TypeOK
  <1> QED BY <1>1, <1>3, <1>4, <1>5, <1>7 DEF IInv

-----------------------------------------------------------------------------
(* The invariant.                                                           *)

(* A new limiter, at any time.                                              *)
Fresh ==
    /\ clock \in Nat /\ phase = "discovery" /\ contacts \in Nat
    /\ lastContact \in Nat \union {Never} /\ lastTrip \in Nat \union {Never}
    /\ hour = Empty /\ day = Empty /\ last = Never
    /\ blocks = 0 /\ recent = << >> /\ openUntil = Never /\ trips = {}
    /\ disabled = FALSE /\ log = << >>

(* A new limiter satisfies the invariant.                                   *)
LEMMA FreshKeeps == Fresh => IInv
  <1> SUFFICES ASSUME Fresh
               PROVE  IInv
    OBVIOUS
  <1>0. Empty \in Bucket
    BY DEF Empty, Bucket
  <1>1. TypeOK
    <2>1. recent \in Seq(BOOLEAN) /\ log \in Seq(Request)
      BY DEF Fresh
    <2>2. disabled \in BOOLEAN
      BY Zenon DEF Fresh
    <2>3. hour \in Bucket /\ day \in Bucket /\ trips \subseteq Nat /\ blocks \in Nat
      BY <1>0 DEF Fresh
    <2> QED BY <2>1, <2>2, <2>3 DEF Fresh, TypeOK
  <1>2. Len(log) = 0 /\ DOMAIN log = {}
    BY DEF Fresh
  <1>3. NotLater /\ HourBucket(hour, log) /\ DayBucket(day, log) /\ HourlyBudget
    BY <1>2, LimiterAssumption DEF Fresh, NotLater, HourBucket, DayBucket, HourlyBudget, Empty, Never
  <1>4. ~TooSoon /\ BreakerRests /\ OneTrip
    BY <1>2 DEF Fresh, TooSoon, BreakerRests, OneTrip
  <1>5. TripsInv
    BY FS_EmptySet DEF Fresh, TripsInv, DisabledForCause
  <1> QED BY <1>1, <1>3, <1>4, <1>5 DEF IInv

(* Initially the limiter is new.                                            *)
LEMMA InitInvariant == Init => IInv
  <1>1. Init => Fresh
    BY DEF Init, Fresh
  <1> QED BY <1>1, FreshKeeps

(* Every step keeps the invariant.                                          *)
LEMMA StepInvariant == IInv /\ [Next]_vars => IInv'
  <1> SUFFICES ASSUME IInv, [Next]_vars
               PROVE  IInv'
    OBVIOUS
  <1>0. TypeOK /\ clock \in Nat
    BY DEF IInv, TypeOK
  <1>1. ASSUME NEW kind \in Kinds, NEW blocked \in BOOLEAN, Answered(kind, blocked)
        PROVE  IInv'
    BY <1>1, AnsweredKeeps
  <1>2. ASSUME NEW kind \in Kinds, DrainRaised(kind)
        PROVE  IInv'
    BY <1>2, DrainRaisedKeeps
  <1>3. ASSUME NEW kind \in Kinds, DrainUnsafe(kind)
        PROVE  IInv'
    <2>1. LogAndBreakerStay /\ RollBuckets /\ ~Shut /\ phase' = phase
      BY <1>3 DEF DrainUnsafe, NoOutcome, LogAndBreakerStay, Admits
    <2>2. clock' \in Nat /\ clock' >= clock
      BY <1>0, <1>3, Slept, LimiterAssumption DEF DrainUnsafe
    <2>3. /\ contacts' \in Nat /\ lastContact' \in Nat \union {Never}
          /\ lastTrip' \in Nat \union {Never}
      BY <1>0, <1>3 DEF DrainUnsafe, Contact, seen, TypeOK
    <2> QED BY <1>0, <2>1, <2>2, <2>3, AskedKeeps DEF TypeOK
  <1>4. ASSUME NEW kind \in Kinds, Asked(kind)
        PROVE  IInv'
    BY <1>0, <1>4, AskedKeeps DEF Asked, NoOutcome, LogAndBreakerStay, seen, TypeOK
  <1>5. CASE DiscoveryRaised
    BY <1>0, <1>5, AskedKeeps DEF DiscoveryRaised, NoOutcome, LogAndBreakerStay, Contact, TypeOK
  <1>6. CASE StartDrain \/ EndDrain
    BY <1>0, <1>6, AskedKeeps DEF StartDrain, EndDrain, limiter, seen, LogAndBreakerStay, TypeOK
  <1>7. CASE StopDrain
    BY <1>0, <1>7, AskedKeeps DEF StopDrain, NoOutcome, LogAndBreakerStay, seen, TypeOK
  <1>8. CASE NextTick
    <2>1. clock' \in Nat
      BY <1>0, <1>8, LimiterAssumption DEF NextTick
    <2>2. Fresh'
      BY <1>0, <1>8, <2>1 DEF NextTick, seen, TypeOK, Fresh
    <2> QED BY <2>2, FreshKeeps, PTL
  <1>9. CASE UNCHANGED vars
    BY <1>0, <1>9, AskedKeeps DEF vars, limiter, seen, LogAndBreakerStay, TypeOK
  <1> QED BY <1>1, <1>2, <1>3, <1>4, <1>5, <1>6, <1>7, <1>8, <1>9 DEF Next

(* The inductive invariant holds in every reachable state.                  *)
THEOREM LimiterInvariance == Spec => []IInv
  BY InitInvariant, StepInvariant, PTL DEF Spec

(* Every variable of the limiter and of its driver keeps its shape.         *)
THEOREM LimiterTypeCorrect == Spec => []TypeOK
  <1>1. IInv => TypeOK
    BY DEF IInv
  <1> QED BY <1>1, LimiterInvariance, PTL

(* Twice the hourly cap, and one request more, take longer than an hour.    *)
THEOREM HourlyBudgetHolds == Spec => []HourlyBudget
  <1>1. IInv => HourlyBudget
    BY DEF IInv
  <1> QED BY <1>1, LimiterInvariance, PTL

(* What is reserved for CONFIRM and HOT is spent on them alone, and the     *)
(* daily cap holds.                                                         *)
THEOREM ReserveHolds == Spec => []ReserveKept
  <1>1. IInv => ReserveKept
    BY DEF IInv, DayBucket, ReserveKept
  <1> QED BY <1>1, LimiterInvariance, PTL

(* The tick never asks too soon.                                            *)
THEOREM DelayHolds == Spec => []DelayNeverRefuses
  <1>1. IInv => DelayNeverRefuses
    BY DEF IInv, DelayNeverRefuses
  <1> QED BY <1>1, LimiterInvariance, PTL

(* No request falls into the cooldown of a trip of the same limiter.        *)
THEOREM BreakerHolds == Spec => []BreakerRests
  <1>1. IInv => BreakerRests
    BY DEF IInv
  <1> QED BY <1>1, LimiterInvariance, PTL

(* A retailer is disabled for enough trips, close together.                 *)
THEOREM DisabledHolds == Spec => []DisabledForCause
  <1>1. IInv => DisabledForCause
    BY DEF IInv, TripsInv
  <1> QED BY <1>1, LimiterInvariance, PTL

(* With a cooldown longer than a delay, a tick sees one trip at most and    *)
(* never disables a retailer.                                               *)
THEOREM OneTripHolds == Spec => []OneTripPerTick
  <1>1. IInv => OneTripPerTick
    <2> SUFFICES ASSUME OneTrip, MinDelay + Jitter < Cooldown
                 PROVE  /\ Cardinality(trips) <= 1
                        /\ trips # {} => BreakerOpen
                        /\ MaxTrips > 1 => ~disabled
      BY DEF IInv, OneTripPerTick
    <2>1. Cardinality(trips) \in {0, 1}
      BY FS_EmptySet, FS_Singleton DEF OneTrip
    <2> QED BY <2>1 DEF OneTrip
  <1> QED BY <1>1, LimiterInvariance, PTL
=============================================================================
