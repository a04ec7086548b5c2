--------------------------- MODULE Capture_proofs ---------------------------
(***************************************************************************)
(* Theorems about Capture for any number of threads, clients and requests. *)
(* Two invariants are inductive: WInv relates the bucket of each client to *)
(* the times it was admitted, TInv the threads to the rows of the table.   *)
(***************************************************************************)
EXTENDS Capture, LeastNatural, SequenceTheorems

(* A bucket h and the times a of the admissions, of which it holds the last *)
(* ones: a stamp is at most MaxLag before its admission, what has left the  *)
(* bucket is a window old, and so are two admissions MaxHits apart.         *)
Log(h, a, now) ==
    /\ h \in Seq(Nat) /\ a \in Seq(Nat)
    /\ Len(h) <= MaxHits /\ Len(h) <= Len(a)
    /\ \A i \in 1..Len(h) :
          h[i] <= a[Len(a) - Len(h) + i] /\ a[Len(a) - Len(h) + i] <= h[i] + MaxLag
    /\ \A i, j \in 1..Len(a) : i <= j => a[i] <= a[j]
    /\ \A i \in 1..Len(a) : a[i] <= now
    /\ \A i \in 1..(Len(a) - Len(h)) : a[i] + Window - MaxLag < now
    /\ \A i, j \in 1..Len(a) : j >= i + MaxHits => a[j] > a[i] + Window - MaxLag

Request == [client : Clients, payload : Payloads]

(* A thread before the lock has read the clock MaxLag ago at most.          *)
Waiting(t) ==
    pc[t] = "lock" =>
       sent[t] \in Request /\ read[t] \in Nat /\ read[t] <= clock /\ clock <= read[t] + MaxLag

WShape ==
    /\ clock \in Nat
    /\ pc \in [Threads -> {"idle", "lock", "validate", "insert", "commit", "reply"}]
    /\ sent = [t \in Threads |-> sent[t]] /\ read = [t \in Threads |-> read[t]]
    /\ hits = [c \in Clients |-> hits[c]] /\ admitted = [c \in Clients |-> admitted[c]]

WInv ==
    /\ WShape
    /\ \A t \in Threads : Waiting(t)
    /\ \A c \in Clients : Log(hits[c], admitted[c], clock)

-----------------------------------------------------------------------------
(* The bucket.                                                              *)

(* What is left of a bucket is its tail from the first hit that is not      *)
(* older than the cutoff.                                                   *)
LEMMA PoppedIsTail ==
    ASSUME NEW b \in Seq(Nat), NEW cutoff \in Int
    PROVE  /\ Popped(b, cutoff) \in Seq(Nat)
           /\ \E k \in 0..Len(b) :
                 /\ Len(Popped(b, cutoff)) = Len(b) - k
                 /\ \A i \in 1..(Len(b) - k) : Popped(b, cutoff)[i] = b[k + i]
                 /\ \A i \in 1..k : b[i] < cutoff
                 /\ k < Len(b) => b[k + 1] >= cutoff
  <1> DEFINE S == {i \in DOMAIN b : b[i] >= cutoff} \union {Len(b) + 1}
             m == Min(S)
  <1>1. Len(b) \in Nat /\ DOMAIN b = 1..Len(b) /\ \A i \in 1..Len(b) : b[i] \in Nat
    BY LenProperties, ElementOfSeq
  <1>2. S \in SUBSET Nat /\ S # {}
    BY <1>1
  <1>3. m \in S /\ \A y \in S : m <= y
    <2> HIDE DEF S
    <2>1. \E x \in S : \A y \in S : x <= y
      BY <1>2, LeastMember
    <2> QED BY <2>1 DEF Min
  <1>4. m \in 1..(Len(b) + 1)
    BY <1>1, <1>3
  <1>5. \A i \in 1..(m - 1) : b[i] < cutoff
    <2> SUFFICES ASSUME NEW i \in 1..(m - 1), b[i] >= cutoff PROVE FALSE
      BY <1>1, <1>4
    <2>1. i \in S
      BY <1>1, <1>4
    <2>2. m <= i
      BY <1>3, <2>1
    <2> HIDE DEF m
    <2> QED BY <1>4, <2>2
  <1>6. m <= Len(b) => b[m] >= cutoff
    BY <1>1, <1>3
  <1> HIDE DEF m
  <1>7. /\ SubSeq(b, m, Len(b)) \in Seq(Nat)
        /\ Len(SubSeq(b, m, Len(b))) = IF m <= Len(b) THEN Len(b) - m + 1 ELSE 0
        /\ \A i \in 1..(Len(b) - m + 1) : SubSeq(b, m, Len(b))[i] = b[m + i - 1]
    BY <1>1, <1>4, SubSeqProperties
  <1>8. Popped(b, cutoff) = SubSeq(b, m, Len(b))
    BY DEF Popped, m
  <1>9. m - 1 \in 0..Len(b) /\ Len(b) - (m - 1) = Len(b) - m + 1
    BY <1>1, <1>4
  <1>10. \A i \in 1..(Len(b) - (m - 1)) : b[(m - 1) + i] = b[m + i - 1]
    BY <1>1, <1>4
  <1>11. Len(Popped(b, cutoff)) = Len(b) - (m - 1)
    BY <1>1, <1>4, <1>7, <1>8
  <1>12. m - 1 < Len(b) => b[(m - 1) + 1] >= cutoff
    BY <1>1, <1>4, <1>6
  <1> QED BY <1>5, <1>7, <1>8, <1>9, <1>10, <1>11, <1>12

(* The numbers a log holds.                                                 *)
LEMMA LogShape ==
    ASSUME NEW h, NEW a, NEW now \in Nat, Log(h, a, now)
    PROVE  /\ Len(h) \in Nat /\ Len(a) \in Nat
           /\ \A i \in 1..Len(h) : h[i] \in Nat
           /\ \A i \in 1..Len(a) : a[i] \in Nat
           /\ MaxHits \in Nat /\ MaxHits >= 1 /\ Window \in Nat /\ MaxLag \in Nat
  BY LenProperties, ElementOfSeq, CaptureAssumption DEF Log

(* Time only makes what has left a bucket older.                            *)
LEMMA TimeLog ==
    ASSUME NEW h, NEW a, NEW now \in Nat, NEW later \in Nat, Log(h, a, now), now <= later
    PROVE  Log(h, a, later)
  <1>1. /\ Len(h) \in Nat /\ Len(a) \in Nat /\ Window \in Nat /\ MaxLag \in Nat
        /\ \A i \in 1..Len(a) : a[i] \in Nat
    BY LogShape
  <1>2. \A i \in 1..Len(a) : a[i] <= later
    BY <1>1 DEF Log
  <1>3. \A i \in 1..(Len(a) - Len(h)) : a[i] + Window - MaxLag < later
    <2> SUFFICES ASSUME NEW i \in 1..(Len(a) - Len(h))
                 PROVE  a[i] + Window - MaxLag < later
      OBVIOUS
    <2>1. i \in 1..Len(a) /\ a[i] \in Nat
      BY <1>1
    <2>2. a[i] + Window - MaxLag < now
      BY DEF Log
    <2> QED BY <1>1, <2>1, <2>2
  <1> QED BY <1>2, <1>3 DEF Log

(* Hits that leave the bucket are a window old.                             *)
LEMMA PopLog ==
    ASSUME NEW h, NEW a, NEW now \in Nat, Log(h, a, now), NEW r \in Nat, r <= now
    PROVE  Log(Popped(h, r - Window), a, now)
  <1> DEFINE b == Popped(h, r - Window)
  <1>1. /\ Len(h) \in Nat /\ Len(a) \in Nat /\ Window \in Nat /\ MaxLag \in Nat
        /\ \A i \in 1..Len(h) : h[i] \in Nat
        /\ \A i \in 1..Len(a) : a[i] \in Nat
        /\ MaxHits \in Nat
    BY LogShape
  <1>2. h \in Seq(Nat) /\ a \in Seq(Nat) /\ Len(h) <= MaxHits /\ Len(h) <= Len(a)
    BY DEF Log
  <1>a. r - Window \in Int
    BY <1>1
  <1>b. /\ b \in Seq(Nat)
        /\ \E k \in 0..Len(h) :
              /\ Len(b) = Len(h) - k
              /\ \A i \in 1..(Len(h) - k) : b[i] = h[k + i]
              /\ \A i \in 1..k : h[i] < r - Window
              /\ k < Len(h) => h[k + 1] >= r - Window
    BY <1>2, <1>a, PoppedIsTail
  <1>3. b \in Seq(Nat)
    BY <1>b
  <1>4. PICK k \in 0..Len(h) :
           /\ Len(b) = Len(h) - k
           /\ \A i \in 1..(Len(h) - k) : b[i] = h[k + i]
           /\ \A i \in 1..k : h[i] < r - Window
    BY <1>b
  <1> HIDE DEF b
  <1>5. Len(b) <= MaxHits /\ Len(b) <= Len(a)
    BY <1>1, <1>2, <1>4
  <1>6. \A i \in 1..Len(b) :
           b[i] <= a[Len(a) - Len(b) + i] /\ a[Len(a) - Len(b) + i] <= b[i] + MaxLag
    <2> SUFFICES ASSUME NEW i \in 1..Len(b)
                 PROVE  b[i] <= a[Len(a) - Len(b) + i]
                        /\ a[Len(a) - Len(b) + i] <= b[i] + MaxLag
      OBVIOUS
    <2>1. k + i \in 1..Len(h) /\ Len(a) - Len(h) + (k + i) = Len(a) - Len(b) + i
      BY <1>1, <1>4
    <2>2. b[i] = h[k + i]
      BY <1>4
    <2>3. /\ h[k + i] <= a[Len(a) - Len(h) + (k + i)]
          /\ a[Len(a) - Len(h) + (k + i)] <= h[k + i] + MaxLag
      BY <2>1 DEF Log
    <2> QED BY <2>1, <2>2, <2>3
  <1>7. \A i \in 1..(Len(a) - Len(b)) : a[i] + Window - MaxLag < now
    <2> SUFFICES ASSUME NEW i \in 1..(Len(a) - Len(b))
                 PROVE  a[i] + Window - MaxLag < now
      OBVIOUS
    <2>1. CASE i \in 1..(Len(a) - Len(h))
      BY <2>1 DEF Log
    <2>2. CASE i \notin 1..(Len(a) - Len(h))
      <3> DEFINE n == i - (Len(a) - Len(h))
      <3>1. n \in 1..k /\ n \in 1..Len(h) /\ Len(a) - Len(h) + n = i /\ i \in 1..Len(a)
        BY <1>1, <1>2, <1>4, <2>2
      <3> HIDE DEF n
      <3>2. h[n] < r - Window /\ h[n] \in Nat /\ a[i] \in Nat
        BY <1>1, <1>4, <3>1
      <3>3. a[Len(a) - Len(h) + n] <= h[n] + MaxLag
        BY <3>1 DEF Log
      <3>4. a[i] <= h[n] + MaxLag
        BY <3>1, <3>3
      <3> DEFINE x == a[i]
                 y == h[n]
      <3>5. x \in Nat /\ y \in Nat /\ y < r - Window /\ x <= y + MaxLag
        BY <3>2, <3>4
      <3> HIDE DEF x, y
      <3>6. x + Window - MaxLag < now
        BY <1>1, <3>5
      <3> QED BY <3>6 DEF x
    <2> QED BY <2>1, <2>2
  <1>8. Log(b, a, now)
    BY <1>2, <1>3, <1>5, <1>6, <1>7 DEF Log
  <1> QED BY <1>8 DEF b

(* A client that is admitted was admitted MaxHits times since what has left *)
(* the bucket, at most.                                                     *)
LEMMA AllowLog ==
    ASSUME NEW b, NEW a, NEW now \in Nat, Log(b, a, now), Len(b) < MaxHits,
           NEW r \in Nat, r <= now, now <= r + MaxLag
    PROVE  Log(Append(b, r), Append(a, now), now)
  <1> DEFINE h2 == Append(b, r)
             a2 == Append(a, now)
  <1>1. /\ Len(b) \in Nat /\ Len(a) \in Nat /\ Window \in Nat /\ MaxLag \in Nat
        /\ \A i \in 1..Len(b) : b[i] \in Nat
        /\ \A i \in 1..Len(a) : a[i] \in Nat
        /\ MaxHits \in Nat /\ MaxHits >= 1
    BY LogShape
  <1>2. b \in Seq(Nat) /\ a \in Seq(Nat) /\ Len(b) <= Len(a)
    BY DEF Log
  <1>3. /\ h2 \in Seq(Nat) /\ Len(h2) = Len(b) + 1
        /\ \A i \in 1..Len(b) : h2[i] = b[i]
        /\ h2[Len(b) + 1] = r
    BY <1>1, <1>2, AppendProperties
  <1>4. /\ a2 \in Seq(Nat) /\ Len(a2) = Len(a) + 1
        /\ \A i \in 1..Len(a) : a2[i] = a[i]
        /\ a2[Len(a) + 1] = now
    BY <1>1, <1>2, AppendProperties
  <1> HIDE DEF h2, a2
  <1>5. Len(h2) <= MaxHits /\ Len(h2) <= Len(a2)
    BY <1>1, <1>2, <1>3, <1>4
  <1>6. \A i \in 1..Len(h2) :
           h2[i] <= a2[Len(a2) - Len(h2) + i] /\ a2[Len(a2) - Len(h2) + i] <= h2[i] + MaxLag
    <2> SUFFICES ASSUME NEW i \in 1..Len(h2)
                 PROVE  h2[i] <= a2[Len(a2) - Len(h2) + i]
                        /\ a2[Len(a2) - Len(h2) + i] <= h2[i] + MaxLag
      OBVIOUS
    <2>1. Len(a2) - Len(h2) + i = Len(a) - Len(b) + i
      BY <1>1, <1>3, <1>4
    <2>2. CASE i = Len(b) + 1
      <3>1. Len(a) - Len(b) + i = Len(a) + 1
        BY <1>1, <2>2
      <3> QED BY <1>3, <1>4, <2>1, <2>2, <3>1
    <2>3. CASE i # Len(b) + 1
      <3>1. i \in 1..Len(b) /\ Len(a) - Len(b) + i \in 1..Len(a)
        <4>1. Len(b) \in Nat /\ Len(a) \in Nat /\ Len(b) <= Len(a) /\ i \in 1..(Len(b) + 1)
          BY <1>1, <1>2, <1>3
        <4> QED BY <2>3, <4>1
      <3>2. b[i] <= a[Len(a) - Len(b) + i] /\ a[Len(a) - Len(b) + i] <= b[i] + MaxLag
        BY <3>1 DEF Log
      <3>3. h2[i] = b[i]
        BY <1>3, <3>1
      <3>4. a2[Len(a) - Len(b) + i] = a[Len(a) - Len(b) + i]
        BY <1>4, <3>1
      <3> QED BY <2>1, <3>2, <3>3, <3>4
    <2> QED BY <2>2, <2>3
  <1>7. \A i, j \in 1..Len(a2) : i <= j => a2[i] <= a2[j]
    <2> SUFFICES ASSUME NEW i \in 1..Len(a2), NEW j \in 1..Len(a2), i <= j
                 PROVE  a2[i] <= a2[j]
      OBVIOUS
    <2>1. CASE j = Len(a) + 1
      <3>1. i = Len(a) + 1 \/ (i \in 1..Len(a) /\ a[i] <= now)
        BY <1>1, <1>4 DEF Log
      <3> QED BY <1>4, <2>1, <3>1
    <2>2. CASE j # Len(a) + 1
      <3>1. i \in 1..Len(a) /\ j \in 1..Len(a)
        BY <1>1, <1>4, <2>2
      <3> QED BY <1>4, <3>1 DEF Log
    <2> QED BY <2>1, <2>2
  <1>8. \A i \in 1..Len(a2) : a2[i] <= now
    <2> SUFFICES ASSUME NEW i \in 1..Len(a2) PROVE a2[i] <= now
      OBVIOUS
    <2>1. CASE i = Len(a) + 1
      BY <1>4, <2>1
    <2>2. CASE i # Len(a) + 1
      <3>1. i \in 1..Len(a)
        BY <1>1, <1>4, <2>2
      <3> QED BY <1>4, <3>1 DEF Log
    <2> QED BY <2>1, <2>2
  <1>9. \A i \in 1..(Len(a) - Len(b)) : a2[i] + Window - MaxLag < now
    <2> SUFFICES ASSUME NEW i \in 1..(Len(a) - Len(b))
                 PROVE  a2[i] + Window - MaxLag < now
      OBVIOUS
    <2>1. i \in 1..Len(a)
      BY <1>1
    <2>2. a[i] + Window - MaxLag < now
      BY DEF Log
    <2> QED BY <1>4, <2>1, <2>2
  <1>10. \A i \in 1..(Len(a2) - Len(h2)) : a2[i] + Window - MaxLag < now
    <2>1. Len(a2) - Len(h2) = Len(a) - Len(b)
      BY <1>1, <1>3, <1>4
    <2> QED BY <1>9, <2>1
  <1>11. \A i, j \in 1..Len(a2) : j >= i + MaxHits => a2[j] > a2[i] + Window - MaxLag
    <2> SUFFICES ASSUME NEW i \in 1..Len(a2), NEW j \in 1..Len(a2), j >= i + MaxHits
                 PROVE  a2[j] > a2[i] + Window - MaxLag
      OBVIOUS
    <2>1. i \in 1..Len(a) /\ a2[i] = a[i] /\ a[i] \in Nat
      BY <1>1, <1>4
    <2>2. CASE j = Len(a) + 1
      <3>1. i \in 1..(Len(a) - Len(b))
        BY <1>1, <2>1, <2>2
      <3>2. a2[i] + Window - MaxLag < now /\ a2[j] = now
        BY <1>4, <1>9, <2>2, <3>1
      <3> DEFINE x == a2[i]
      <3>3. x \in Nat /\ x + Window - MaxLag < now
        BY <2>1, <3>2
      <3> HIDE DEF x
      <3>4. now > x + Window - MaxLag
        BY <1>1, <3>3
      <3> QED BY <3>2, <3>4 DEF x
    <2>3. CASE j # Len(a) + 1
      <3>1. j \in 1..Len(a) /\ a2[j] = a[j]
        BY <1>1, <1>4, <2>3
      <3>2. a[j] > a[i] + Window - MaxLag
        BY <2>1, <3>1 DEF Log
      <3> QED BY <2>1, <3>1, <3>2
    <2> QED BY <2>2, <2>3
  <1>12. Log(h2, a2, now)
    BY <1>3, <1>4, <1>5, <1>6, <1>7, <1>8, <1>10, <1>11 DEF Log
  <1> QED BY <1>12 DEF h2, a2

(* Nobody has come yet.                                                     *)
LEMMA EmptyLog ==
    ASSUME NEW now \in Nat
    PROVE  Log(<< >>, << >>, now)
  <1>1. << >> \in Seq(Nat) /\ Len(<< >>) = 0
    BY EmptySeq
  <1> QED BY <1>1, CaptureAssumption DEF Log

(* A window of a log holds MaxHits admissions at most: two of them are less *)
(* than MaxHits apart.                                                      *)
LEMMA LogBound ==
    ASSUME NEW h, NEW a, NEW now \in Nat, Log(h, a, now), NEW from \in Nat
    PROVE  Cardinality({n \in DOMAIN a : a[n] \in from..(from + Window - MaxLag)}) <= MaxHits
  <1> DEFINE S == {n \in DOMAIN a : a[n] \in from..(from + Window - MaxLag)}
  <1>1. /\ Len(a) \in Nat /\ Window \in Nat /\ MaxLag \in Nat /\ MaxHits \in Nat
        /\ \A i \in 1..Len(a) : a[i] \in Nat
    BY LogShape
  <1>2. DOMAIN a = 1..Len(a)
    BY LenProperties DEF Log
  <1>3. S \in SUBSET Nat /\ S \subseteq 1..Len(a)
    BY <1>1, <1>2
  <1>4. CASE S = {}
    <2>1. Cardinality(S) = 0
      BY <1>4, FS_EmptySet
    <2> QED BY <1>1, <2>1
  <1>5. CASE S # {}
    <2> HIDE DEF S
    <2>1. PICK m \in S : \A n \in S : m <= n
      BY <1>3, <1>5, LeastMember
    <2>2. \A n \in S : n \in m..(m + MaxHits - 1)
      <3> SUFFICES ASSUME NEW n \in S, n >= m + MaxHits PROVE FALSE
        BY <1>1, <1>3, <2>1
      <3>1. a[n] > a[m] + Window - MaxLag
        BY <1>3 DEF Log
      <3> DEFINE x == a[m]
                 y == a[n]
      <3>2. x >= from /\ y <= from + Window - MaxLag /\ x \in Nat /\ y \in Nat
        BY <1>1, <1>3 DEF S
      <3>3. y > x + Window - MaxLag
        BY <3>1
      <3> HIDE DEF x, y
      <3> QED BY <1>1, <3>2, <3>3
    <2>3. m \in Int /\ m + MaxHits - 1 \in Int
      BY <1>1, <1>3
    <2>4. /\ IsFiniteSet(m..(m + MaxHits - 1))
          /\ Cardinality(m..(m + MaxHits - 1)) = IF m > m + MaxHits - 1 THEN 0
                                                 ELSE (m + MaxHits - 1) - m + 1
      BY <2>3, FS_Interval
    <2>5. Cardinality(m..(m + MaxHits - 1)) <= MaxHits
      BY <1>1, <2>3, <2>4
    <2>6. S \subseteq m..(m + MaxHits - 1)
      BY <2>2
    <2>7. IsFiniteSet(S) /\ Cardinality(S) <= Cardinality(m..(m + MaxHits - 1))
      BY <2>4, <2>6, FS_Subset
    <2>8. Cardinality(S) \in Nat /\ Cardinality(m..(m + MaxHits - 1)) \in Nat
      BY <2>4, <2>7, FS_CardinalityType
    <2>9. Cardinality(S) <= MaxHits
      BY <1>1, <2>5, <2>7, <2>8
    <2> QED BY <2>9 DEF S
  <1> QED BY <1>4, <1>5

(* A bucket that is full after popping holds MaxHits admissions of the last *)
(* window.                                                                  *)
LEMMA FullLog ==
    ASSUME NEW h, NEW a, NEW now \in Nat, Log(h, a, now), NEW r \in Nat, r <= now,
           Len(Popped(h, r - Window)) >= MaxHits
    PROVE  Cardinality({n \in DOMAIN a : a[n] >= r - Window}) >= MaxHits
  <1> DEFINE b == Popped(h, r - Window)
             S == {n \in DOMAIN a : a[n] >= r - Window}
  <1>1. /\ Len(h) \in Nat /\ Len(a) \in Nat /\ Window \in Nat /\ MaxLag \in Nat
        /\ \A i \in 1..Len(h) : h[i] \in Nat
        /\ \A i \in 1..Len(a) : a[i] \in Nat
        /\ MaxHits \in Nat /\ MaxHits >= 1
    BY LogShape
  <1>2. h \in Seq(Nat) /\ a \in Seq(Nat) /\ Len(h) <= MaxHits /\ Len(h) <= Len(a)
        /\ DOMAIN a = 1..Len(a)
    BY LenProperties DEF Log
  <1>a. r - Window \in Int
    BY <1>1
  <1>b. \E k \in 0..Len(h) :
              /\ Len(b) = Len(h) - k
              /\ \A i \in 1..(Len(h) - k) : b[i] = h[k + i]
              /\ \A i \in 1..k : h[i] < r - Window
              /\ k < Len(h) => h[k + 1] >= r - Window
    BY <1>2, <1>a, PoppedIsTail
  <1>3. PICK k \in 0..Len(h) :
           /\ Len(b) = Len(h) - k
           /\ k < Len(h) => h[k + 1] >= r - Window
    BY <1>b
  <1>4. k = 0 /\ Len(h) = MaxHits /\ h[1] >= r - Window
    <2>1. Len(b) >= MaxHits
      OBVIOUS
    <2> HIDE DEF b
    <2>2. k = 0 /\ Len(h) = MaxHits
      BY <1>1, <1>2, <1>3, <2>1
    <2> QED BY <1>1, <1>3, <2>2
  <1> DEFINE first == Len(a) - Len(h) + 1
  <1>5. first \in 1..Len(a) /\ h[1] <= a[first]
    BY <1>1, <1>2, <1>4 DEF Log
  <1>6. \A n \in first..Len(a) : n \in S
    <2> SUFFICES ASSUME NEW n \in first..Len(a) PROVE n \in S
      OBVIOUS
    <2>1. n \in 1..Len(a) /\ first <= n /\ first \in Nat
      BY <1>1, <1>5
    <2>2. a[first] <= a[n]
      BY <1>5, <2>1 DEF Log
    <2> DEFINE x == h[1]
               y == a[first]
               z == a[n]
    <2>3. x \in Nat /\ y \in Nat /\ z \in Nat /\ x <= y /\ y <= z /\ x >= r - Window
      BY <1>1, <1>4, <1>5, <2>1, <2>2
    <2> HIDE DEF x, y, z
    <2>4. z >= r - Window
      BY <1>1, <2>3
    <2> QED BY <1>2, <2>1, <2>4 DEF z
  <1>7. IsFiniteSet(S)
    <2>1. IsFiniteSet(1..Len(a))
      BY <1>1, FS_Interval
    <2>2. S \subseteq 1..Len(a)
      BY <1>2
    <2> HIDE DEF S
    <2> QED BY <2>1, <2>2, FS_Subset
  <1>8. Cardinality(first..Len(a)) = MaxHits
    <2>1. first \in Int /\ Len(a) \in Int
      BY <1>1
    <2>2. Cardinality(first..Len(a)) = IF first > Len(a) THEN 0 ELSE Len(a) - first + 1
      <3> HIDE DEF first
      <3> QED BY <2>1, FS_Interval
    <2> QED BY <1>1, <1>4, <1>5, <2>2
  <1>9. first..Len(a) \subseteq S
    BY <1>6
  <1> HIDE DEF S, first
  <1>10. Cardinality(first..Len(a)) <= Cardinality(S)
    BY <1>7, <1>9, FS_Subset
  <1>11. Cardinality(S) >= MaxHits
    BY <1>1, <1>7, <1>8, <1>10, FS_CardinalityType
  <1> QED BY <1>11 DEF S

-----------------------------------------------------------------------------
(* The threads and the window.                                              *)

(* At the start nobody waits and nobody was admitted.                       *)
LEMMA InitWInv == Init => WInv
  <1> SUFFICES ASSUME Init PROVE WInv
    OBVIOUS
  <1>1. WShape /\ \A t \in Threads : Waiting(t)
    BY DEF Init, WShape, Waiting
  <1>2. \A c \in Clients : Log(hits[c], admitted[c], clock)
    BY EmptyLog DEF Init
  <1> QED BY <1>1, <1>2 DEF WInv

(* The clock waits for a thread that has read it.                           *)
LEMMA TickWInv == WInv /\ Tick => WInv'
  <1> SUFFICES ASSUME WInv, Tick PROVE WInv'
    OBVIOUS
  <1>1. /\ clock' = clock + 1 /\ clock \in Nat
        /\ \A t \in Threads : pc[t] = "lock" => clock < read[t] + MaxLag
        /\ UNCHANGED <<pc, sent, read, hits, admitted>>
    BY DEF Tick, threads, window, WInv, WShape
  <1>2. WShape'
    BY <1>1 DEF WInv, WShape
  <1>3. ASSUME NEW t \in Threads PROVE Waiting(t)'
    BY <1>1, CaptureAssumption DEF WInv, Waiting
  <1>4. ASSUME NEW c \in Clients PROVE Log(hits[c], admitted[c], clock)'
    <2>1. clock \in Nat /\ clock' \in Nat /\ clock <= clock'
      BY <1>1
    <2>2. Log(hits[c], admitted[c], clock)
      BY DEF WInv
    <2>3. Log(hits[c], admitted[c], clock')
      BY <2>1, <2>2, TimeLog
    <2> QED BY <1>1, <2>3
  <1> QED BY <1>2, <1>3, <1>4 DEF WInv

(* A thread that goes on, with the window as it is.                         *)
LEMMA ThreadWInv ==
    ASSUME WInv, NEW t \in Threads,
           \E p \in {"idle", "validate", "insert", "commit", "reply"} :
              pc' = [pc EXCEPT ![t] = p],
           sent' = sent \/ sent' = [sent EXCEPT ![t] = Nobody],
           read' = read \/ read' = [read EXCEPT ![t] = None],
           UNCHANGED <<clock, hits, admitted>>
    PROVE  WInv'
  <1>1. WShape'
    BY DEF WInv, WShape
  <1>2. ASSUME NEW u \in Threads PROVE Waiting(u)'
    BY DEF WInv, WShape, Waiting
  <1> QED BY <1>1, <1>2 DEF WInv

(* A request comes, and its thread reads the clock.                         *)
LEMMA ArriveWInv == ASSUME NEW t \in Threads PROVE WInv /\ Arrive(t) => WInv'
  <1> SUFFICES ASSUME WInv, Arrive(t) PROVE WInv'
    OBVIOUS
  <1>1. PICK q \in Request : sent' = [sent EXCEPT ![t] = q]
    BY DEF Arrive, Request
  <1>2. /\ pc' = [pc EXCEPT ![t] = "lock"] /\ read' = [read EXCEPT ![t] = clock]
        /\ UNCHANGED <<clock, hits, admitted>>
    BY DEF Arrive, window
  <1>3. WShape /\ clock \in Nat /\ MaxLag \in Nat
    BY CaptureAssumption DEF WInv, WShape
  <1>4. WShape'
    BY <1>1, <1>2 DEF WInv, WShape
  <1>5. ASSUME NEW u \in Threads PROVE Waiting(u)'
    <2>1. CASE u = t
      <3>1. sent'[t] = q /\ read'[t] = clock
        BY <1>1, <1>2, <1>3 DEF WShape
      <3> QED BY <1>2, <1>3, <2>1, <3>1 DEF Waiting
    <2>2. CASE u # t
      BY <1>1, <1>2, <1>3, <2>2 DEF WInv, WShape, Waiting
    <2> QED BY <2>1, <2>2
  <1> QED BY <1>2, <1>4, <1>5 DEF WInv

(* allow, whether it returns True or False.                                 *)
LEMMA AllowWInv == ASSUME NEW t \in Threads PROVE WInv /\ (Refuse(t) \/ Allow(t)) => WInv'
  <1> SUFFICES ASSUME WInv, Refuse(t) \/ Allow(t) PROVE WInv'
    OBVIOUS
  <1> DEFINE c == sent[t].client
             b == Bucket(t)
  <1>1. pc[t] = "lock" /\ WShape
    BY DEF Refuse, Allow, WInv
  <1>2. c \in Clients /\ read[t] \in Nat /\ read[t] <= clock /\ clock <= read[t] + MaxLag
    BY <1>1 DEF WInv, Waiting, Request
  <1>3. clock \in Nat /\ Log(hits[c], admitted[c], clock)
    BY <1>1, <1>2 DEF WInv, WShape
  <1>4. Log(b, admitted[c], clock)
    BY <1>2, <1>3, PopLog DEF Bucket
  <1>5. /\ \E p \in {"idle", "validate"} : pc' = [pc EXCEPT ![t] = p]
        /\ sent' = sent \/ sent' = [sent EXCEPT ![t] = Nobody]
        /\ read' = [read EXCEPT ![t] = None] /\ clock' = clock
    BY DEF Refuse, Allow, Done
  <1>6. PICK h, a : /\ hits' = [hits EXCEPT ![c] = h]
                    /\ admitted' = [admitted EXCEPT ![c] = a]
                    /\ Log(h, a, clock)
    <2>1. CASE Refuse(t)
      <3>1. hits' = [hits EXCEPT ![c] = b] /\ admitted' = admitted
        BY <2>1 DEF Refuse
      <3>2. admitted' = [admitted EXCEPT ![c] = admitted[c]]
        BY <1>1, <1>2, <3>1 DEF WShape
      <3> QED BY <1>4, <3>1, <3>2
    <2>2. CASE Allow(t)
      <3>1. /\ hits' = [hits EXCEPT ![c] = Append(b, read[t])]
            /\ admitted' = [admitted EXCEPT ![c] = Append(admitted[c], clock)]
            /\ ~(Len(b) >= MaxHits)
        BY <2>2 DEF Allow, Full
      <3>2. Len(b) < MaxHits
        <4>1. Len(b) \in Nat /\ MaxHits \in Nat
          BY <1>3, <1>4, LogShape
        <4> HIDE DEF b
        <4> QED BY <3>1, <4>1
      <3>3. Log(Append(b, read[t]), Append(admitted[c], clock), clock)
        <4> HIDE DEF b, c
        <4> QED BY <1>2, <1>3, <1>4, <3>2, AllowLog
      <3> QED BY <3>1, <3>3
    <2> QED BY <2>1, <2>2
  <1> HIDE DEF c, b
  <1>7. WShape'
    BY <1>1, <1>5, <1>6 DEF WShape
  <1>8. ASSUME NEW u \in Threads PROVE Waiting(u)'
    BY <1>1, <1>5 DEF WInv, WShape, Waiting
  <1>9. ASSUME NEW d \in Clients PROVE Log(hits[d], admitted[d], clock)'
    <2>1. CASE d = c
      <3>1. hits'[d] = h /\ admitted'[d] = a
        BY <1>1, <1>2, <1>6, <2>1 DEF WShape
      <3> QED BY <1>5, <1>6, <3>1
    <2>2. CASE d # c
      <3>1. hits'[d] = hits[d] /\ admitted'[d] = admitted[d]
        BY <1>1, <1>6, <2>2 DEF WShape
      <3> QED BY <1>5, <3>1 DEF WInv
    <2> QED BY <2>1, <2>2
  <1> QED BY <1>7, <1>8, <1>9 DEF WInv

(* A restart forgets the admissions with the buckets.                       *)
LEMMA RestartWInv == WInv /\ Restart => WInv'
  <1> SUFFICES ASSUME WInv, Restart PROVE WInv'
    OBVIOUS
  <1>1. /\ pc' = [t \in Threads |-> "idle"] /\ sent' = [t \in Threads |-> Nobody]
        /\ read' = [t \in Threads |-> None] /\ clock' = clock
        /\ hits' = [c \in Clients |-> << >>] /\ admitted' = [c \in Clients |-> << >>]
    BY DEF Restart
  <1>2. WShape' /\ \A t \in Threads : Waiting(t)'
    BY <1>1 DEF WInv, WShape, Waiting
  <1>3. clock \in Nat
    BY DEF WInv, WShape
  <1>4. \A c \in Clients : Log(hits[c], admitted[c], clock)'
    BY <1>1, <1>3, EmptyLog
  <1> QED BY <1>2, <1>4 DEF WInv

(* Every step keeps the window's invariant.                                 *)
LEMMA NextWInv == WInv /\ [Next]_vars => WInv'
  <1> SUFFICES ASSUME WInv, [Next]_vars PROVE WInv'
    OBVIOUS
  <1>1. CASE Tick
    BY <1>1, TickWInv
  <1>2. CASE Restart
    BY <1>2, RestartWInv
  <1>3. ASSUME NEW t \in Threads, Arrive(t) PROVE WInv'
    BY <1>3, ArriveWInv
  <1>4. ASSUME NEW t \in Threads, Refuse(t) \/ Allow(t) PROVE WInv'
    BY <1>4, AllowWInv
  <1>5. ASSUME NEW t \in Threads, Validate(t) \/ Insert(t) \/ Commit(t) PROVE WInv'
    <2>1. /\ \E p \in {"insert", "commit", "reply"} : pc' = [pc EXCEPT ![t] = p]
          /\ UNCHANGED <<clock, sent, read, hits, admitted>>
      BY <1>5 DEF Validate, Insert, Commit, window
    <2> QED BY <2>1, ThreadWInv
  <1>6. ASSUME NEW t \in Threads, Reject(t) \/ Reply(t) \/ Abort(t) PROVE WInv'
    <2>1. /\ pc' = [pc EXCEPT ![t] = "idle"] /\ sent' = [sent EXCEPT ![t] = Nobody]
          /\ read' = [read EXCEPT ![t] = None] /\ UNCHANGED <<clock, hits, admitted>>
      BY <1>6 DEF Reject, Reply, Abort, Done, window
    <2> QED BY <2>1, ThreadWInv
  <1>7. CASE UNCHANGED vars
    BY <1>7 DEF vars, threads, window, WInv, WShape, Waiting
  <1> QED BY <1>1, <1>2, <1>3, <1>4, <1>5, <1>6, <1>7 DEF Next, Handle

(* The window's invariant holds.                                            *)
LEMMA WindowInvariance == Spec => []WInv
  <1> QED BY InitWInv, NextWInv, PTL DEF Spec

(* RateLimiter.allow admits max_requests of a client in a window, less the  *)
(* time a thread may take from reading the clock to holding the lock,       *)
(* whatever the number of threads.                                          *)
THEOREM WindowIsBounded == Spec => []WindowBound
  <1>1. WInv => WindowBound
    <2> SUFFICES ASSUME WInv, NEW c \in Clients, NEW from \in 0..Horizon
                 PROVE  Cardinality({n \in DOMAIN admitted[c] :
                            admitted[c][n] \in from..(from + Window - MaxLag)}) <= MaxHits
      BY DEF WindowBound
    <2>1. clock \in Nat /\ Log(hits[c], admitted[c], clock) /\ from \in Nat
      BY CaptureAssumption DEF WInv, WShape
    <2> QED BY <2>1, LogBound
  <1> QED BY <1>1, WindowInvariance, PTL

(* allow returns False only when the client was admitted max_requests times *)
(* in the window, although stamps may enter the bucket out of order.        *)
THEOREM RefusalsHaveCause == Spec => RefusedForCause
  <1> DEFINE Cause(t) ==
         LET c == sent[t].client IN
         Cardinality({n \in DOMAIN admitted[c] : admitted[c][n] >= read[t] - Window}) >= MaxHits
  <1>1. WInv => [\A t \in Threads : Refuse(t) => Cause(t)]_vars
    <2> SUFFICES ASSUME WInv, NEW t \in Threads, Refuse(t) PROVE Cause(t)
      OBVIOUS
    <2> DEFINE c == sent[t].client
    <2>1. c \in Clients /\ read[t] \in Nat /\ read[t] <= clock /\ clock \in Nat
      BY DEF Refuse, WInv, WShape, Waiting, Request
    <2>2. Log(hits[c], admitted[c], clock)
      BY <2>1 DEF WInv
    <2>3. Len(Popped(hits[c], read[t] - Window)) >= MaxHits
      BY DEF Refuse, Full, Bucket
    <2> QED BY <2>1, <2>2, <2>3, FullLog
  <1>2. WInv => [\A t \in Threads : Refuse(t) =>
         LET c == sent[t].client IN
         Cardinality({n \in DOMAIN admitted[c] : admitted[c][n] >= read[t] - Window})
            >= MaxHits]_vars
    BY <1>1
  <1> QED BY <1>2, WindowInvariance, PTL DEF Spec, RefusedForCause

-----------------------------------------------------------------------------
(* The threads and the table.                                               *)

Captures == [key : KeySet, price : Nat, was : Int, at : Int]

(* A capture that names its key or its minute has one key for ever.         *)
KeyFits(p, k) ==
    /\ p.key # None =>
          k = [given |-> p.key, page |-> None, price |-> None, minute |-> None]
    /\ p.key = None /\ p.stamp # None =>
          k = [given |-> None, page |-> p.page, price |-> p.price,
               minute |-> p.stamp \div Minute]

(* The row that a thread has found, or has committed.                       *)
Stored(t) == \E row \in rows : row.key = capture[t].key /\ row.id = answer[t].id

(* What a thread holds at each point of its request.                        *)
Holds(t) ==
    /\ pc[t] = "idle" => sent[t] = Nobody
    /\ pc[t] # "idle" => sent[t] \in Request
    /\ pc[t] # "lock" => read[t] = None
    /\ pc[t] = "lock" => read[t] \in Nat
    /\ pc[t] \in {"idle", "lock", "validate"} => capture[t] = NoCapture
    /\ pc[t] \in {"idle", "lock", "validate", "insert"} => answer[t] = NoAnswer
    /\ pc[t] \in {"insert", "commit", "reply"} =>
          capture[t] \in Captures /\ KeyFits(sent[t].payload, capture[t].key)
    /\ pc[t] \in {"commit", "reply"} => answer[t] \in [id : 1..lastId, created : BOOLEAN]
    /\ Writes(t) => \A row \in rows : row.key # capture[t].key
    /\ pc[t] = "reply" \/ (pc[t] = "commit" /\ ~answer[t].created) => Stored(t)

TShape ==
    /\ clock \in Nat /\ requests \in 0..MaxRequests /\ lastId \in Nat
    /\ pc \in [Threads -> {"idle", "lock", "validate", "insert", "commit", "reply"}]
    /\ sent = [t \in Threads |-> sent[t]] /\ read = [t \in Threads |-> read[t]]
    /\ capture = [t \in Threads |-> capture[t]] /\ answer = [t \in Threads |-> answer[t]]

RowsInv ==
    /\ \A row \in rows : /\ row.key \in KeySet /\ row.id \in 1..lastId
                         /\ KeyFits(row.from, row.key)
    /\ \A r, s \in rows : r.key = s.key => r = s

(* Uncommitted rows have keys of their own.                                 *)
WritersApart ==
    \A t, u \in Threads : t # u /\ Writes(t) /\ Writes(u) => capture[t].key # capture[u].key

AcceptedInv == \A a \in accepted : \E row \in rows : row.key = a.key /\ row.id = a.id

TInv ==
    /\ TShape /\ RowsInv /\ WritersApart /\ AcceptedInv
    /\ \A t \in Threads : Holds(t)

(* Payloads and what is made of them.                                       *)
LEMMA PayloadFields ==
    ASSUME NEW q \in Request
    PROVE  /\ q.payload \in Payload /\ q.client \in Clients
           /\ q.payload.page \in Nat /\ q.payload.price \in Int /\ q.payload.was \in Int
           /\ q.payload.stamp \in Int /\ q.payload.key \in Int
  BY CaptureAssumption DEF Request, Payload

(* A valid capture has a key and a price.                                   *)
LEMMA ValidCapture ==
    ASSUME NEW q \in Request, clock \in Nat, Valid(q.payload)
    PROVE  LET p == q.payload IN
           /\ [key |-> Key(p), price |-> p.price, was |-> Was(p), at |-> CapturedAt(p)]
                 \in Captures
           /\ KeyFits(p, Key(p))
  <1> DEFINE p == q.payload
  <1>1. p.page \in Nat /\ p.price \in Int /\ p.was \in Int /\ p.stamp \in Int /\ p.key \in Int
    BY PayloadFields
  <1>2. p.price \in Nat
    BY CaptureAssumption, <1>1 DEF Valid, Priced
  <1>3. Valid(p)
    OBVIOUS
  <1> HIDE DEF p
  <1>4. Minute \in Nat \ {0} /\ CapturedAt(p) \in Int /\ (p.stamp # None => CapturedAt(p) = p.stamp)
    BY CaptureAssumption, <1>1 DEF CapturedAt
  <1>5. CapturedAt(p) \div Minute \in Int
    BY <1>4
  <1>6. Key(p) \in KeySet
    BY <1>1, <1>5 DEF Key, KeySet, None
  <1>7. Was(p) \in Int
    BY <1>1 DEF Was, None
  <1>8. KeyFits(p, Key(p))
    BY <1>4 DEF KeyFits, Key
  <1>9. [key |-> Key(p), price |-> p.price, was |-> Was(p), at |-> CapturedAt(p)] \in Captures
    BY <1>2, <1>4, <1>6, <1>7 DEF Captures
  <1> QED BY <1>8, <1>9 DEF p

(* No rows, no threads.                                                     *)
LEMMA InitTInv == Init => TInv
  <1> SUFFICES ASSUME Init PROVE TInv
    OBVIOUS
  <1>1. TShape
    BY CaptureAssumption DEF Init, TShape
  <1>2. RowsInv /\ WritersApart /\ AcceptedInv
    BY DEF Init, RowsInv, WritersApart, AcceptedInv, Writes
  <1>3. \A t \in Threads : Holds(t)
    BY DEF Init, Holds, Writes
  <1> QED BY <1>1, <1>2, <1>3 DEF TInv

(* A thread that does not act keeps what it holds, while rows are added     *)
(* under other keys only than the one it is about to write.                 *)
LEMMA OthersHold ==
    ASSUME NEW u \in Threads, Holds(u), lastId \in Nat, lastId' \in Nat, lastId <= lastId',
           pc'[u] = pc[u], sent'[u] = sent[u], read'[u] = read[u],
           capture'[u] = capture[u], answer'[u] = answer[u], rows \subseteq rows',
           Writes(u) => \A row \in rows' \ rows : row.key # capture[u].key
    PROVE  Holds(u)'
  <1>1. 1..lastId \subseteq 1..lastId'
    OBVIOUS
  <1>2. answer[u] \in [id : 1..lastId, created : BOOLEAN] =>
           answer[u] \in [id : 1..lastId', created : BOOLEAN]
    BY <1>1
  <1>3. Writes(u)' = Writes(u)
    BY DEF Writes
  <1>4. Stored(u) => Stored(u)'
    BY DEF Stored
  <1> QED BY <1>2, <1>3, <1>4 DEF Holds

(* Time, or the window, changes.                                            *)
LEMMA TickTInv == TInv /\ Tick => TInv'
  <1> SUFFICES ASSUME TInv, Tick PROVE TInv'
    OBVIOUS
  <1>1. clock' = clock + 1 /\ UNCHANGED <<requests, pc, sent, read, capture, answer, rows,
                                          lastId, accepted>>
    BY DEF Tick, threads, table
  <1> QED BY <1>1 DEF TInv, TShape, RowsInv, WritersApart, AcceptedInv, Holds, Writes, Stored

(* A thread that has not written anything ends, or loses what it has.       *)
LEMMA DoneTInv ==
    ASSUME TInv, NEW t \in Threads, Done(t), UNCHANGED <<clock, requests, rows, lastId>>,
           AcceptedInv'
    PROVE  TInv'
  <1>1. /\ pc' = [pc EXCEPT ![t] = "idle"] /\ sent' = [sent EXCEPT ![t] = Nobody]
        /\ read' = [read EXCEPT ![t] = None]
        /\ capture' = [capture EXCEPT ![t] = NoCapture]
        /\ answer' = [answer EXCEPT ![t] = NoAnswer]
    BY DEF Done
  <1>2. TShape /\ TShape'
    BY <1>1 DEF TInv, TShape
  <1>3. /\ pc'[t] = "idle" /\ sent'[t] = Nobody /\ read'[t] = None
        /\ capture'[t] = NoCapture /\ answer'[t] = NoAnswer
    BY <1>1, <1>2 DEF TShape
  <1>4. \A u \in Threads : u # t =>
           /\ pc'[u] = pc[u] /\ sent'[u] = sent[u] /\ read'[u] = read[u]
           /\ capture'[u] = capture[u] /\ answer'[u] = answer[u]
    BY <1>1, <1>2 DEF TShape
  <1>5. ASSUME NEW u \in Threads PROVE Holds(u)'
    <2>1. CASE u = t
      BY <1>3, <2>1 DEF Holds, Writes
    <2>2. CASE u # t
      <3>1. Holds(u) /\ lastId \in Nat /\ lastId' = lastId /\ lastId <= lastId'
        BY <1>2 DEF TInv, TShape
      <3> QED BY <1>4, <2>2, <3>1, OthersHold
    <2> QED BY <2>1, <2>2
  <1>6. WritersApart'
    <2>1. \A u \in Threads : Writes(u)' => u # t
      BY <1>3 DEF Writes
    <2>2. \A u \in Threads : u # t => Writes(u)' = Writes(u)
      BY <1>4 DEF Writes
    <2> QED BY <1>4, <2>1, <2>2 DEF TInv, WritersApart
  <1>7. RowsInv'
    BY DEF TInv, RowsInv
  <1> QED BY <1>2, <1>5, <1>6, <1>7 DEF TInv

(* A step of one thread t towards its insert, which leaves the table alone. *)
LEMMA AdvanceTInv ==
    ASSUME TInv, NEW t \in Threads, ~Writes(t), ~Writes(t)',
           TShape', Holds(t)', UNCHANGED <<rows, lastId, accepted>>,
           \A u \in Threads : u # t =>
              /\ pc'[u] = pc[u] /\ sent'[u] = sent[u] /\ read'[u] = read[u]
              /\ capture'[u] = capture[u] /\ answer'[u] = answer[u]
    PROVE  TInv'
  <1>1. ASSUME NEW u \in Threads, u # t PROVE Holds(u)'
    <2>1. Holds(u) /\ lastId \in Nat /\ lastId' = lastId /\ lastId <= lastId'
      BY DEF TInv, TShape
    <2> QED BY <1>1, <2>1, OthersHold
  <1>2. \A u \in Threads : u # t => Writes(u)' = Writes(u)
    BY DEF Writes
  <1>3. WritersApart'
    BY <1>2 DEF TInv, WritersApart
  <1>4. RowsInv' /\ AcceptedInv'
    BY DEF TInv, RowsInv, AcceptedInv
  <1> QED BY <1>1, <1>3, <1>4 DEF TInv

(* A request comes.                                                         *)
LEMMA ArriveTInv == ASSUME NEW t \in Threads PROVE TInv /\ Arrive(t) => TInv'
  <1> SUFFICES ASSUME TInv, Arrive(t) PROVE TInv'
    OBVIOUS
  <1>1. PICK q \in Request : sent' = [sent EXCEPT ![t] = q]
    BY DEF Arrive, Request
  <1>2. /\ pc[t] = "idle" /\ requests < MaxRequests /\ requests' = requests + 1
        /\ pc' = [pc EXCEPT ![t] = "lock"] /\ read' = [read EXCEPT ![t] = clock]
        /\ UNCHANGED <<clock, capture, answer, rows, lastId, accepted>>
    BY DEF Arrive, table
  <1>3. TShape /\ MaxRequests \in Nat /\ Holds(t)
    BY CaptureAssumption DEF TInv
  <1>4. TShape'
    <2>1. requests' \in 0..MaxRequests
      BY <1>2, <1>3 DEF TShape
    <2> QED BY <1>1, <1>2, <1>3, <2>1 DEF TShape
  <1>5. pc'[t] = "lock" /\ sent'[t] = q /\ read'[t] = clock /\ clock \in Nat
    BY <1>1, <1>2, <1>3 DEF TShape
  <1>6. Holds(t)' /\ ~Writes(t) /\ ~Writes(t)'
    BY <1>2, <1>3, <1>5 DEF Holds, Writes
  <1>7. \A u \in Threads : u # t =>
           pc'[u] = pc[u] /\ sent'[u] = sent[u] /\ read'[u] = read[u]
    BY <1>1, <1>2, <1>3 DEF TShape
  <1> QED BY <1>2, <1>4, <1>6, <1>7, AdvanceTInv

(* allow returns True: the body is read next.                               *)
LEMMA AllowTInv == ASSUME NEW t \in Threads PROVE TInv /\ Allow(t) => TInv'
  <1> SUFFICES ASSUME TInv, Allow(t) PROVE TInv'
    OBVIOUS
  <1>1. /\ pc[t] = "lock" /\ pc' = [pc EXCEPT ![t] = "validate"]
        /\ read' = [read EXCEPT ![t] = None]
        /\ UNCHANGED <<clock, requests, sent, capture, answer, rows, lastId, accepted>>
    BY DEF Allow, table
  <1>2. TShape /\ Holds(t)
    BY DEF TInv
  <1>3. TShape'
    BY <1>1, <1>2 DEF TShape
  <1>4. pc'[t] = "validate" /\ read'[t] = None
    BY <1>1, <1>2 DEF TShape
  <1>5. Holds(t)' /\ ~Writes(t) /\ ~Writes(t)'
    BY <1>1, <1>2, <1>4 DEF Holds, Writes
  <1>6. \A u \in Threads : u # t => pc'[u] = pc[u] /\ read'[u] = read[u]
    BY <1>1, <1>2 DEF TShape
  <1> QED BY <1>1, <1>3, <1>5, <1>6, AdvanceTInv

(* A capture has the key its payload fixes.                                 *)
LEMMA ValidateTInv == ASSUME NEW t \in Threads PROVE TInv /\ Validate(t) => TInv'
  <1> SUFFICES ASSUME TInv, Validate(t) PROVE TInv'
    OBVIOUS
  <1> DEFINE p == sent[t].payload
             k == [key |-> Key(p), price |-> p.price, was |-> Was(p), at |-> CapturedAt(p)]
  <1>1. /\ pc[t] = "validate" /\ Valid(p)
        /\ pc' = [pc EXCEPT ![t] = "insert"] /\ capture' = [capture EXCEPT ![t] = k]
        /\ UNCHANGED <<clock, requests, sent, read, answer, rows, lastId, accepted>>
    BY DEF Validate, table
  <1>2. TShape /\ Holds(t)
    BY DEF TInv
  <1>3. sent[t] \in Request /\ clock \in Nat
    BY <1>1, <1>2 DEF Holds, TShape
  <1>4. k \in Captures /\ KeyFits(p, Key(p)) /\ k.key = Key(p)
    BY <1>1, <1>3, ValidCapture
  <1> HIDE DEF k
  <1>5. TShape'
    BY <1>1, <1>2 DEF TShape
  <1>6. pc'[t] = "insert" /\ capture'[t] = k
    BY <1>1, <1>2 DEF TShape
  <1>7. KeyFits(sent[t].payload, capture[t].key)'
    BY <1>1, <1>4, <1>6 DEF KeyFits
  <1>8. Holds(t)' /\ ~Writes(t) /\ ~Writes(t)'
    BY <1>1, <1>2, <1>4, <1>6, <1>7 DEF Holds, Writes
  <1>9. \A u \in Threads : u # t => pc'[u] = pc[u] /\ capture'[u] = capture[u]
    BY <1>1, <1>2 DEF TShape
  <1> QED BY <1>1, <1>5, <1>8, <1>9, AdvanceTInv

(* A row is written only under a key that no committed and no uncommitted   *)
(* row has.                                                                 *)
LEMMA InsertTInv == ASSUME NEW t \in Threads PROVE TInv /\ Insert(t) => TInv'
  <1> SUFFICES ASSUME TInv, Insert(t) PROVE TInv'
    OBVIOUS
  <1>1. /\ pc[t] = "insert" /\ ~Blocked(t) /\ pc' = [pc EXCEPT ![t] = "commit"]
        /\ UNCHANGED <<clock, requests, sent, read, capture, rows, accepted>>
    BY DEF Insert
  <1>2. TShape /\ Holds(t) /\ lastId \in Nat
    BY DEF TInv, TShape
  <1>3. \A u \in Threads : u # t => pc'[u] = pc[u]
    BY <1>1, <1>2 DEF TShape
  <1>4. pc'[t] = "commit" /\ ~Writes(t)
    BY <1>1, <1>2 DEF TShape, Writes
  <1>5. CASE Found(t) = {} /\ lastId' = lastId + 1
             /\ answer' = [answer EXCEPT ![t] = [id |-> lastId + 1, created |-> TRUE]]
    <2>1. /\ answer'[t] = [id |-> lastId + 1, created |-> TRUE]
          /\ \A u \in Threads : u # t => answer'[u] = answer[u]
      BY <1>2, <1>5 DEF TShape
    <2>2. lastId' \in Nat /\ lastId <= lastId' /\ lastId + 1 \in 1..lastId'
      BY <1>2, <1>5
    <2>3. TShape'
      BY <1>1, <1>2, <1>5, <2>2 DEF TShape
    <2>4. \A row \in rows : row.key # capture[t].key
      BY <1>5 DEF Found
    <2>5. Holds(t)'
      <3>1. answer'[t] \in [id : 1..lastId', created : BOOLEAN]
        BY <2>1, <2>2
      <3>2. answer'[t].created = TRUE
        BY <2>1
      <3> QED BY <1>1, <1>2, <1>4, <2>4, <3>1, <3>2 DEF Holds, Writes
    <2>6. ASSUME NEW u \in Threads, u # t PROVE Holds(u)'
      BY <1>1, <1>2, <1>3, <2>1, <2>2, <2>6, OthersHold DEF TInv
    <2>7. \A u \in Threads : u # t => Writes(u)' = Writes(u)
      BY <1>3, <2>1 DEF Writes
    <2>8. WritersApart'
      BY <1>1, <2>7 DEF TInv, WritersApart, Blocked
    <2>9. RowsInv'
      BY <1>1, <1>2, <2>2 DEF TInv, RowsInv
    <2>10. AcceptedInv'
      BY <1>1 DEF TInv, AcceptedInv
    <2> QED BY <2>3, <2>5, <2>6, <2>8, <2>9, <2>10 DEF TInv
  <1>6. ASSUME NEW row \in Found(t), lastId' = lastId,
               answer' = [answer EXCEPT ![t] = [id |-> row.id, created |-> FALSE]]
        PROVE  TInv'
    <2>1. /\ answer'[t] = [id |-> row.id, created |-> FALSE]
          /\ \A u \in Threads : u # t => answer'[u] = answer[u]
      BY <1>2, <1>6 DEF TShape
    <2>2. row \in rows /\ row.key = capture[t].key /\ row.id \in 1..lastId
      BY <1>6 DEF Found, TInv, RowsInv
    <2>3. TShape'
      BY <1>1, <1>2, <1>6 DEF TShape
    <2>4. answer'[t].id = row.id /\ answer'[t].created = FALSE
          /\ answer'[t] \in [id : 1..lastId', created : BOOLEAN]
      <3>1. row.id \in 1..lastId'
        BY <1>6, <2>2
      <3>2. answer'[t] \in [id : 1..lastId', created : BOOLEAN]
        BY <2>1, <3>1
      <3> QED BY <2>1, <3>2
    <2>5. Stored(t)'
      BY <1>1, <2>2, <2>4 DEF Stored
    <2>6. Holds(t)' /\ ~Writes(t)'
      BY <1>1, <1>2, <1>4, <2>4, <2>5 DEF Holds, Writes
    <2> QED BY <1>1, <1>3, <1>4, <1>6, <2>1, <2>3, <2>6, AdvanceTInv
  <1> QED BY <1>5, <1>6 DEF Insert

(* The row of a commit is the only one of its key.                          *)
LEMMA CommitTInv == ASSUME NEW t \in Threads PROVE TInv /\ Commit(t) => TInv'
  <1> SUFFICES ASSUME TInv, Commit(t) PROVE TInv'
    OBVIOUS
  <1>1. /\ pc[t] = "commit"
        /\ rows' = IF answer[t].created THEN rows \union {Row(t)} ELSE rows
        /\ pc' = [pc EXCEPT ![t] = "reply"]
        /\ UNCHANGED <<clock, requests, sent, read, capture, answer, lastId, accepted>>
    BY DEF Commit
  <1>2. TShape /\ Holds(t) /\ lastId \in Nat
    BY DEF TInv, TShape
  <1>3. pc'[t] = "reply" /\ \A u \in Threads : u # t => pc'[u] = pc[u]
    BY <1>1, <1>2 DEF TShape
  <1>4. TShape'
    BY <1>1, <1>2 DEF TShape
  <1>5. /\ Row(t).key = capture[t].key /\ Row(t).id = answer[t].id
        /\ Row(t).from = sent[t].payload
    BY DEF Row
  <1>6. capture[t].key \in KeySet /\ answer[t].id \in 1..lastId
        /\ KeyFits(sent[t].payload, capture[t].key)
    BY <1>1, <1>2 DEF Holds, Captures
  <1>7. Stored(t)'
    <2>1. CASE answer[t].created
      BY <1>1, <1>5, <2>1 DEF Stored
    <2>2. CASE ~answer[t].created
      BY <1>1, <1>2, <2>2 DEF Holds, Stored
    <2> QED BY <2>1, <2>2
  <1>8. Holds(t)'
    <2>1. KeyFits(sent[t].payload, capture[t].key)'
      BY <1>1, <1>6 DEF KeyFits
    <2> QED BY <1>1, <1>2, <1>3, <1>7, <2>1 DEF Holds, Writes
  <1>9. ASSUME NEW u \in Threads, u # t PROVE Holds(u)'
    <2>1. Writes(u) => \A row \in rows' \ rows : row.key # capture[u].key
      <3> SUFFICES ASSUME Writes(u), NEW row \in rows' \ rows PROVE row.key # capture[u].key
        OBVIOUS
      <3>1. answer[t].created /\ row = Row(t)
        BY <1>1
      <3>2. Writes(t)
        BY <1>1, <3>1 DEF Writes
      <3> QED BY <1>5, <1>9, <3>1, <3>2 DEF TInv, WritersApart
    <2>2. Holds(u) /\ lastId' = lastId /\ lastId <= lastId' /\ rows \subseteq rows'
      BY <1>1, <1>2 DEF TInv
    <2> QED BY <1>1, <1>2, <1>3, <1>9, <2>1, <2>2, OthersHold
  <1>10. WritersApart'
    <2>1. \A u \in Threads : Writes(u)' => u # t /\ Writes(u)
      BY <1>1, <1>3 DEF Writes
    <2> QED BY <1>1, <2>1 DEF TInv, WritersApart
  <1>11. RowsInv'
    <2>1. \A row \in rows' : row \in rows \/ (answer[t].created /\ row = Row(t))
      BY <1>1
    <2>2. answer[t].created => \A row \in rows : row.key # capture[t].key
      BY <1>1, <1>2 DEF Holds, Writes
    <2>3. \A row \in rows : /\ row.key \in KeySet /\ row.id \in 1..lastId
                            /\ KeyFits(row.from, row.key)
      BY DEF TInv, RowsInv
    <2>4. \A r, s \in rows : r.key = s.key => r = s
      BY DEF TInv, RowsInv
    <2>5. \A row \in rows' : /\ row.key \in KeySet /\ row.id \in 1..lastId
                             /\ KeyFits(row.from, row.key)
      BY <1>5, <1>6, <2>1, <2>3
    <2>6. \A r, s \in rows' : r.key = s.key => r = s
      BY <1>5, <2>1, <2>2, <2>4
    <2> QED BY <1>1, <2>5, <2>6 DEF RowsInv, KeyFits
  <1>12. AcceptedInv'
    BY <1>1 DEF TInv, AcceptedInv
  <1> QED BY <1>4, <1>8, <1>9, <1>10, <1>11, <1>12 DEF TInv

(* Only what is committed is answered.                                      *)
LEMMA ReplyTInv == ASSUME NEW t \in Threads PROVE TInv /\ Reply(t) => TInv'
  <1> SUFFICES ASSUME TInv, Reply(t) PROVE TInv'
    OBVIOUS
  <1>1. /\ pc[t] = "reply" /\ Done(t)
        /\ accepted' = accepted \union {[key |-> capture[t].key, id |-> answer[t].id]}
        /\ UNCHANGED <<clock, requests, rows, lastId>>
    BY DEF Reply, Answers, table
  <1>2. Stored(t)
    BY <1>1 DEF TInv, Holds
  <1>3. AcceptedInv'
    BY <1>1, <1>2 DEF TInv, AcceptedInv, Stored
  <1> QED BY <1>1, <1>3, DoneTInv

(* A restart takes the threads with it, not the rows.                       *)
LEMMA RestartTInv == TInv /\ Restart => TInv'
  <1> SUFFICES ASSUME TInv, Restart PROVE TInv'
    OBVIOUS
  <1>1. /\ pc' = [t \in Threads |-> "idle"] /\ sent' = [t \in Threads |-> Nobody]
        /\ read' = [t \in Threads |-> None]
        /\ capture' = [t \in Threads |-> NoCapture] /\ answer' = [t \in Threads |-> NoAnswer]
        /\ UNCHANGED <<clock, requests, rows, lastId, accepted>>
    BY DEF Restart, table
  <1>2. TShape'
    BY <1>1 DEF TInv, TShape
  <1>3. WritersApart' /\ \A t \in Threads : Holds(t)'
    BY <1>1 DEF WritersApart, Writes, Holds
  <1>4. RowsInv' /\ AcceptedInv'
    BY <1>1 DEF TInv, RowsInv, AcceptedInv
  <1> QED BY <1>2, <1>3, <1>4 DEF TInv

(* Every step keeps the table's invariant.                                  *)
LEMMA NextTInv == TInv /\ [Next]_vars => TInv'
  <1> SUFFICES ASSUME TInv, [Next]_vars PROVE TInv'
    OBVIOUS
  <1>1. CASE Tick
    BY <1>1, TickTInv
  <1>2. CASE Restart
    BY <1>2, RestartTInv
  <1>3. ASSUME NEW t \in Threads, Refuse(t) \/ Reject(t) \/ Abort(t) PROVE TInv'
    <2>1. Done(t) /\ UNCHANGED <<clock, requests, rows, lastId, accepted>>
      BY <1>3 DEF Refuse, Reject, Abort, table
    <2>2. AcceptedInv'
      BY <2>1 DEF TInv, AcceptedInv
    <2> QED BY <2>1, <2>2, DoneTInv
  <1>4. ASSUME NEW t \in Threads, Arrive(t) \/ Allow(t) \/ Validate(t) PROVE TInv'
    BY <1>4, ArriveTInv, AllowTInv, ValidateTInv
  <1>5. ASSUME NEW t \in Threads, Insert(t) \/ Commit(t) \/ Reply(t) PROVE TInv'
    BY <1>5, InsertTInv, CommitTInv, ReplyTInv
  <1>6. CASE UNCHANGED vars
    BY <1>6 DEF vars, threads, table, TInv, TShape, RowsInv, WritersApart, AcceptedInv, Holds,
                Writes, Stored, KeyFits
  <1> QED BY <1>1, <1>2, <1>3, <1>4, <1>5, <1>6 DEF Next, Handle

(* The table's invariant holds.                                             *)
LEMMA TableInvariance == Spec => []TInv
  <1> QED BY InitTInv, NextTInv, PTL DEF Spec

(* Threads, buckets, rows and replies hold what they may.                   *)
THEOREM CaptureTypeCorrect == Spec => []TypeOK
  <1>1. WInv /\ TInv => TypeOK
    <2> SUFFICES ASSUME WInv, TInv PROVE TypeOK
      OBVIOUS
    <2>1. TShape
      BY DEF TInv
    <2>2. ASSUME NEW t \in Threads
          PROVE  /\ sent[t] = Nobody <=> pc[t] = "idle"
                 /\ read[t] # None <=> pc[t] = "lock"
                 /\ capture[t] # NoCapture <=> pc[t] \in {"insert", "commit", "reply"}
                 /\ answer[t].id \in 0..lastId \union {None}
      <3>1. Holds(t) /\ lastId \in Nat
        BY <2>1 DEF TInv, TShape
      <3>2. pc[t] \in {"idle", "lock", "validate", "insert", "commit", "reply"}
        BY <2>1 DEF TShape
      <3>3. pc[t] # "idle" => sent[t] # Nobody
        <4>1. Nobody.client = None /\ None \notin Clients
          BY CaptureAssumption DEF Nobody
        <4> QED BY <3>1, <4>1 DEF Holds, Request
      <3>4. read[t] \in Nat => read[t] # None
        BY DEF None
      <3>5. capture[t] \in Captures => capture[t] # NoCapture
        <4>1. NoCapture.price = -1
          BY DEF NoCapture, None
        <4>2. capture[t] \in Captures => capture[t].price \in Nat
          BY DEF Captures
        <4> QED BY <4>1, <4>2
      <3>6. answer[t].id \in 0..lastId \union {None}
        <4>1. NoAnswer.id = None
          BY DEF NoAnswer
        <4>2. answer[t] \in [id : 1..lastId, created : BOOLEAN] => answer[t].id \in 0..lastId
          BY <3>1
        <4> QED BY <3>1, <3>2, <4>1, <4>2 DEF Holds
      <3> QED BY <3>1, <3>2, <3>3, <3>4, <3>5, <3>6 DEF Holds
    <2>3. \A c \in Clients : Len(hits[c]) <= MaxHits
      BY DEF WInv, Log
    <2>4. \A row \in rows : row.key \in KeySet /\ row.id \in 1..lastId
      BY DEF TInv, RowsInv
    <2> QED BY <2>1, <2>2, <2>3, <2>4 DEF TypeOK, TShape
  <1> QED BY <1>1, WindowInvariance, TableInvariance, PTL

(* What the server has answered with 202 (server.py, captures.py) is stored *)
(* under the id it gave.                                                    *)
THEOREM AcceptedCapturesAreStored == Spec => []AcceptedIsStored
  <1>1. TInv => AcceptedIsStored
    <2> SUFFICES ASSUME TInv, NEW a \in accepted
                 PROVE  {row.id : row \in {r \in rows : r.key = a.key}} = {a.id}
      BY DEF AcceptedIsStored
    <2>1. PICK row \in rows : row.key = a.key /\ row.id = a.id
      BY DEF TInv, AcceptedInv
    <2>2. {r \in rows : r.key = a.key} = {row}
      BY <2>1 DEF TInv, RowsInv
    <2> DEFINE same == {r \in rows : r.key = a.key}
    <2>3. same = {row}
      BY <2>2
    <2> HIDE DEF same
    <2>4. {r.id : r \in same} = {a.id}
      BY <2>1, <2>3
    <2> QED BY <2>4 DEF same
  <1> QED BY <1>1, TableInvariance, PTL

(* A capture with a time or a key of its own is one row however often it is *)
(* sent (compute_idempotency_key, ON CONFLICT DO NOTHING).                  *)
THEOREM ReplaysAreOneRow == Spec => []OneRowPerCapture
  <1>1. TInv => OneRowPerCapture
    <2> SUFFICES ASSUME TInv, NEW r \in rows, NEW s \in rows, r.from = s.from,
                        r.from.stamp # None \/ r.from.key # None
                 PROVE  r = s
      BY DEF OneRowPerCapture
    <2>1. KeyFits(r.from, r.key) /\ KeyFits(r.from, s.key)
      BY DEF TInv, RowsInv
    <2>2. r.key = s.key
      BY <2>1 DEF KeyFits
    <2> QED BY <2>2 DEF TInv, RowsInv
  <1> QED BY <1>1, TableInvariance, PTL

-----------------------------------------------------------------------------
(* The table implements the book of CaptureBook.                            *)

(* Committed and uncommitted rows have numbers of their own.                *)
IdsInv ==
    /\ \A r, s \in rows : r.id = s.id => r = s
    /\ \A t \in Threads : Writes(t) => \A row \in rows : row.id # answer[t].id
    /\ \A t, u \in Threads :
          t # u /\ Writes(t) /\ Writes(u) => answer[t].id # answer[u].id

(* A step that makes nobody a writer and commits nothing.                   *)
LEMMA QuietIds ==
    ASSUME IdsInv, rows' = rows,
           \A u \in Threads : Writes(u)' => Writes(u) /\ answer'[u] = answer[u]
    PROVE  IdsInv'
  BY DEF IdsInv

(* The sequence never gives a number that a row or a writer has.            *)
LEMMA InsertIds ==
    ASSUME TInv, IdsInv, NEW t \in Threads, Insert(t)
    PROVE  IdsInv'
  <1>1. /\ pc[t] = "insert" /\ pc' = [pc EXCEPT ![t] = "commit"] /\ rows' = rows
        /\ TShape /\ lastId \in Nat
    BY DEF Insert, TInv, TShape
  <1>2. \A u \in Threads : u # t => pc'[u] = pc[u]
    BY <1>1 DEF TShape
  <1>3. CASE lastId' = lastId + 1
             /\ answer' = [answer EXCEPT ![t] = [id |-> lastId + 1, created |-> TRUE]]
    <2>1. /\ answer'[t].id = lastId + 1
          /\ \A u \in Threads : u # t => answer'[u] = answer[u]
      BY <1>1, <1>3 DEF TShape
    <2>2. \A row \in rows : row.id # lastId + 1
      <3> SUFFICES ASSUME NEW row \in rows PROVE row.id # lastId + 1
        OBVIOUS
      <3>1. row.id \in 1..lastId
        BY DEF TInv, RowsInv
      <3> QED BY <1>1, <3>1
    <2>3. \A u \in Threads : Writes(u) => answer[u].id # lastId + 1
      <3> SUFFICES ASSUME NEW u \in Threads, Writes(u) PROVE answer[u].id # lastId + 1
        OBVIOUS
      <3>1. answer[u].id \in 1..lastId
        BY DEF TInv, Holds, Writes
      <3> QED BY <1>1, <3>1
    <2>4. \A u \in Threads : u # t => Writes(u)' = Writes(u)
      BY <1>2, <2>1 DEF Writes
    <2>5. \A u \in Threads : Writes(u)' => \A row \in rows : row.id # answer'[u].id
      BY <2>1, <2>2, <2>4 DEF IdsInv
    <2>6. \A u, w \in Threads :
             u # w /\ Writes(u)' /\ Writes(w)' => answer'[u].id # answer'[w].id
      BY <2>1, <2>3, <2>4 DEF IdsInv
    <2> QED BY <1>1, <2>5, <2>6 DEF IdsInv
  <1>4. ASSUME NEW row \in Found(t),
               answer' = [answer EXCEPT ![t] = [id |-> row.id, created |-> FALSE]]
        PROVE  IdsInv'
    <2>1. /\ answer'[t].created = FALSE
          /\ \A u \in Threads : u # t => answer'[u] = answer[u]
      BY <1>1, <1>4 DEF TShape
    <2>2. \A u \in Threads : Writes(u)' => Writes(u) /\ answer'[u] = answer[u]
      BY <1>2, <2>1 DEF Writes
    <2> QED BY <1>1, <2>2, QuietIds
  <1> QED BY <1>3, <1>4 DEF Insert

(* A commit puts the number of one writer into the table.                   *)
LEMMA CommitIds ==
    ASSUME TInv, IdsInv, NEW t \in Threads, Commit(t)
    PROVE  IdsInv'
  <1>1. /\ pc[t] = "commit" /\ pc' = [pc EXCEPT ![t] = "reply"] /\ answer' = answer
        /\ rows' = IF answer[t].created THEN rows \union {Row(t)} ELSE rows
        /\ TShape
    BY DEF Commit, TInv
  <1>2. \A u \in Threads : Writes(u)' => u # t /\ Writes(u)
    BY <1>1 DEF Writes, TShape
  <1>3. Row(t).id = answer[t].id
    BY DEF Row
  <1>4. answer[t].created => Writes(t)
    BY <1>1 DEF Writes
  <1>5. \A row \in rows' : row \in rows \/ (Writes(t) /\ row = Row(t))
    BY <1>1, <1>4
  <1>6. \A r, s \in rows' : r.id = s.id => r = s
    BY <1>3, <1>5 DEF IdsInv
  <1>7. \A u \in Threads : Writes(u)' => \A row \in rows' : row.id # answer[u].id
    BY <1>2, <1>3, <1>5 DEF IdsInv
  <1> QED BY <1>1, <1>2, <1>6, <1>7 DEF IdsInv

(* The other steps of a thread: it does not become a writer.                *)
LEMMA StepIds ==
    ASSUME TInv, IdsInv, NEW t \in Threads, Arrive(t) \/ Handle(t) \/ Abort(t),
           ~Insert(t), ~Commit(t)
    PROVE  IdsInv'
  <1>1. /\ \E p \in {"idle", "lock", "validate", "insert"} : pc' = [pc EXCEPT ![t] = p]
        /\ rows' = rows
    BY DEF Arrive, Handle, Abort, Refuse, Allow, Reject, Validate, Reply, Done, table
  <1>2. answer' = answer \/ answer' = [answer EXCEPT ![t] = NoAnswer]
    BY DEF Arrive, Handle, Abort, Refuse, Allow, Reject, Validate, Reply, Done
  <1>3. TShape
    BY DEF TInv
  <1>4. \A u \in Threads : Writes(u)' => u # t /\ pc'[u] = pc[u] /\ answer'[u] = answer[u]
    BY <1>1, <1>2, <1>3 DEF Writes, TShape
  <1>5. \A u \in Threads : Writes(u)' => Writes(u) /\ answer'[u] = answer[u]
    BY <1>4 DEF Writes
  <1> QED BY <1>1, <1>5, QuietIds

(* Every step keeps the numbers apart.                                      *)
LEMMA NextIds == TInv /\ IdsInv /\ [Next]_vars => IdsInv'
  <1> SUFFICES ASSUME TInv, IdsInv, [Next]_vars PROVE IdsInv'
    OBVIOUS
  <1>1. CASE Tick \/ UNCHANGED vars
    <2>1. UNCHANGED <<rows, pc, answer>>
      BY <1>1 DEF Tick, vars, threads, table
    <2> QED BY <2>1, QuietIds DEF Writes
  <1>2. CASE Restart
    <2>1. rows' = rows /\ \A u \in Threads : ~Writes(u)'
      BY <1>2 DEF Restart, table, Writes
    <2> QED BY <2>1, QuietIds
  <1>3. ASSUME NEW t \in Threads, Arrive(t) \/ Handle(t) \/ Abort(t) PROVE IdsInv'
    BY <1>3, InsertIds, CommitIds, StepIds
  <1> QED BY <1>1, <1>2, <1>3 DEF Next

(* The numbers stay apart.                                                  *)
LEMMA IdsInvariance == Spec => []IdsInv
  <1>1. Init => IdsInv
    BY DEF Init, IdsInv, Writes
  <1> QED BY <1>1, NextIds, TableInvariance, PTL DEF Spec

(* The commit of an insert is an entry of the book.                         *)
LEMMA CommitEnters ==
    ASSUME TInv, IdsInv, NEW t \in Threads, Commit(t)
    PROVE  [Book!Next]_(Book!bvars)
  <1> DEFINE book == {[key |-> row.key, id |-> row.id] : row \in rows}
             entry == [key |-> capture[t].key, id |-> answer[t].id]
  <1>1. /\ accepted' = accepted
        /\ rows' = IF answer[t].created THEN rows \union {Row(t)} ELSE rows
    BY DEF Commit
  <1>2. CASE ~answer[t].created
    BY <1>1, <1>2 DEF Book!bvars
  <1>3. CASE answer[t].created
    <2>1. Row(t).key = entry.key /\ Row(t).id = entry.id
      BY DEF Row
    <2>2. book' = book \union {entry}
      BY <1>1, <1>3, <2>1
    <2>3. Writes(t)
      BY <1>3 DEF Commit, Writes
    <2>4. \A row \in rows : row.key # capture[t].key /\ row.id # answer[t].id
      BY <2>3 DEF TInv, Holds, IdsInv
    <2>5. Book!New(entry)
      BY <2>4 DEF Book!New
    <2>6. entry \in book'
      BY <2>2
    <2>7. Book!Enter
      BY <1>1, <2>2, <2>5, <2>6 DEF Book!Enter
    <2> QED BY <2>7 DEF Book!Next
  <1> QED BY <1>2, <1>3

(* A reply tells of an entry of the book.                                   *)
LEMMA ReplyTells ==
    ASSUME TInv, NEW t \in Threads, Reply(t)
    PROVE  Book!Next
  <1>1. /\ pc[t] = "reply" /\ rows' = rows
        /\ accepted' = accepted \union {[key |-> capture[t].key, id |-> answer[t].id]}
    BY DEF Reply, Answers, table
  <1>2. PICK row \in rows : row.key = capture[t].key /\ row.id = answer[t].id
    BY <1>1 DEF TInv, Holds, Stored
  <1>3. [key |-> capture[t].key, id |-> answer[t].id]
           \in {[key |-> r.key, id |-> r.id] : r \in rows}
    BY <1>2
  <1>4. Book!Tell
    BY <1>1, <1>3 DEF Book!Tell
  <1> QED BY <1>4 DEF Book!Next

(* The endpoint implements the book: insert_capture with its transaction    *)
(* and the reply that comes after it (server.py, captures.py) give every    *)
(* capture one entry, for good, under a number of its own, and answer 202   *)
(* only for an entry.                                                       *)
THEOREM CapturesAreABook == Spec => TableIsABook
  <1>1. Init => Book!Init
    BY DEF Init, Book!Init
  <1>2. TInv /\ IdsInv /\ [Next]_vars => [Book!Next]_(Book!bvars)
    <2> SUFFICES ASSUME TInv, IdsInv, [Next]_vars PROVE [Book!Next]_(Book!bvars)
      OBVIOUS
    <2>1. CASE Tick \/ Restart \/ UNCHANGED vars
      BY <2>1 DEF Tick, Restart, vars, table, Book!bvars
    <2>2. ASSUME NEW t \in Threads, Arrive(t) \/ Abort(t) \/ Refuse(t) \/ Allow(t)
                                    \/ Reject(t) \/ Validate(t) \/ Insert(t)
          PROVE  [Book!Next]_(Book!bvars)
      <3>1. UNCHANGED <<rows, accepted>>
        BY <2>2 DEF Arrive, Abort, Refuse, Allow, Reject, Validate, Insert, table
      <3> QED BY <3>1 DEF Book!bvars
    <2>3. ASSUME NEW t \in Threads, Commit(t) \/ Reply(t) PROVE [Book!Next]_(Book!bvars)
      BY <2>3, CommitEnters, ReplyTells
    <2> QED BY <2>1, <2>2, <2>3 DEF Next, Handle
  <1> QED BY <1>1, <1>2, TableInvariance, IdsInvariance, PTL
          DEF Spec, TableIsABook, Book!Spec
=============================================================================
