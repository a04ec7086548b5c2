------------------------------- MODULE Capture -------------------------------
(***************************************************************************)
(* The ingest endpoint of the browser extension (fpt/capture/server.py):   *)
(* each POST has a thread of its own; the threads share a sliding window   *)
(* per client (fpt/capture/ratelimit.py) and the table of captures         *)
(* (fpt/store/captures.py), where a replayed capture meets the row it left *)
(* before.  A request may come again at any time: the extension retries, a *)
(* page is loaded again, a reply was lost.                                 *)
(*                                                                         *)
(* A request to another path or without the token is answered and changes  *)
(* nothing; it has no action.                                              *)
(***************************************************************************)
EXTENDS Integers, Sequences, FiniteSetsExt

CONSTANTS
    Threads, Clients,
    Payloads,           \* the captures the extension may send
    MaxHits, Window,    \* RateLimiter(max_requests, window_s)
    MinPrice, MaxPrice, \* MIN_PRICE_CENTS, MAX_PRICE_CENTS
    Skew, MaxAge,       \* CAPTURED_AT_FUTURE_SKEW, CAPTURED_AT_MAX_AGE
    Minute,             \* the length of a minute
    MaxLag,             \* bound: from reading the clock to holding the lock
    MaxRequests,        \* bound: requests
    Horizon             \* bound: time

None == -1              \* a field that is not there

(* sound: the checks that concern one field alone, those of the URL, title, *)
(* variant, condition, currency and raw, find nothing wrong.                *)
Payload == [sound : BOOLEAN, page : Nat, price : Int, was : Int, stamp : Int, key : Int]

ASSUME CaptureAssumption ==
    /\ Payloads \subseteq Payload /\ None \notin Clients
    /\ MaxHits \in Nat \ {0} /\ Window \in Nat \ {0} /\ Minute \in Nat \ {0}
    /\ MinPrice \in Nat \ {0} /\ MaxPrice \in Nat /\ Skew \in Nat /\ MaxAge \in Nat
    /\ MaxLag \in Nat /\ MaxRequests \in Nat /\ Horizon \in Nat

VARIABLES
    clock, requests,
    pc,         \* of each thread
    sent,       \* its request: client and payload
    read,       \* the clock as its call of allow has read it
    capture,    \* the payload as validated
    answer,     \* the id it has inserted or found, and which of the two
    hits,       \* of each client: the bucket
    admitted,   \* of each client: when allow returned True, in real time
    rows,       \* page_captures as committed
    lastId,     \* of its sequence, which no rollback takes back
    accepted    \* every 202 sent

threads == <<pc, sent, read, capture, answer>>
window == <<hits, admitted>>
table == <<rows, lastId>>
vars == <<clock, requests, threads, window, table, accepted>>

Nobody == [client |-> None, payload |-> None]
NoCapture == [key |-> None, price |-> None, was |-> None, at |-> None]
NoAnswer == [id |-> None, created |-> FALSE]

Init ==
    /\ clock = 0 /\ requests = 0
    /\ pc = [t \in Threads |-> "idle"] /\ sent = [t \in Threads |-> Nobody]
    /\ read = [t \in Threads |-> None]
    /\ capture = [t \in Threads |-> NoCapture] /\ answer = [t \in Threads |-> NoAnswer]
    /\ hits = [c \in Clients |-> << >>] /\ admitted = [c \in Clients |-> << >>]
    /\ rows = {} /\ lastId = 0 /\ accepted = {}

(* A thread is done with its request, answered or not.                      *)
Done(t) ==
    /\ pc' = [pc EXCEPT ![t] = "idle"] /\ sent' = [sent EXCEPT ![t] = Nobody]
    /\ read' = [read EXCEPT ![t] = None]
    /\ capture' = [capture EXCEPT ![t] = NoCapture]
    /\ answer' = [answer EXCEPT ![t] = NoAnswer]

Tick ==
    /\ clock < Horizon
    /\ \A t \in Threads : pc[t] = "lock" => clock < read[t] + MaxLag
    /\ clock' = clock + 1
    /\ UNCHANGED <<requests, threads, window, table, accepted>>

-----------------------------------------------------------------------------
(* ratelimit.py: the clock is read before the lock is taken, so stamps need *)
(* not be in order.                                                         *)

Arrive(t) ==
    /\ pc[t] = "idle" /\ requests < MaxRequests
    /\ requests' = requests + 1
    /\ \E c \in Clients, p \in Payloads :
          sent' = [sent EXCEPT ![t] = [client |-> c, payload |-> p]]
    /\ pc' = [pc EXCEPT ![t] = "lock"]
    /\ read' = [read EXCEPT ![t] = clock]
    /\ UNCHANGED <<clock, capture, answer, window, table, accepted>>

(* Faulty: the newest hit is looked at.                                     *)
PoppedByNewest(bucket, cutoff) ==
    IF bucket # << >> /\ bucket[Len(bucket)] < cutoff THEN << >> ELSE bucket

(* Hits leave at the head of the bucket, while it is older than the cutoff. *)
Popped(bucket, cutoff) ==
    SubSeq(bucket, Min({i \in DOMAIN bucket : bucket[i] >= cutoff} \union {Len(bucket) + 1}),
           Len(bucket))

Bucket(t) == Popped(hits[sent[t].client], read[t] - Window)

(* Faulty: one too many.                                                    *)
FullLate(t) == Len(Bucket(t)) > MaxHits

Full(t) == Len(Bucket(t)) >= MaxHits

Refuse(t) ==
    /\ pc[t] = "lock" /\ Full(t)
    /\ hits' = [hits EXCEPT ![sent[t].client] = Bucket(t)]
    /\ Done(t)
    /\ UNCHANGED <<clock, requests, admitted, table, accepted>>

Allow(t) ==
    /\ pc[t] = "lock" /\ ~Full(t)
    /\ hits' = [hits EXCEPT ![sent[t].client] = Append(Bucket(t), read[t])]
    /\ admitted' = [admitted EXCEPT ![sent[t].client] = Append(@, clock)]
    /\ pc' = [pc EXCEPT ![t] = "validate"] /\ read' = [read EXCEPT ![t] = None]
    /\ UNCHANGED <<clock, requests, sent, capture, answer, table, accepted>>

-----------------------------------------------------------------------------
(* validate.py.                                                             *)

Priced(cents) == cents \in MinPrice..MaxPrice

Timely(p) == p.stamp # None => p.stamp \in (clock - MaxAge)..(clock + Skew)

Valid(p) == p.sound /\ Priced(p.price) /\ (p.was # None => Priced(p.was)) /\ Timely(p)

CapturedAt(p) == IF p.stamp = None THEN clock ELSE p.stamp

(* Faulty: the server's minute, whatever the capture's.                     *)
KeyOfNow(p) ==
    IF p.key # None THEN [given |-> p.key, page |-> None, price |-> None, minute |-> None]
    ELSE [given |-> None, page |-> p.page, price |-> p.price, minute |-> clock \div Minute]

(* The extension's own key, or one made of the page with its variant, the   *)
(* price and the minute.                                                    *)
Key(p) ==
    IF p.key # None THEN [given |-> p.key, page |-> None, price |-> None, minute |-> None]
    ELSE [given |-> None, page |-> p.page, price |-> p.price,
          minute |-> CapturedAt(p) \div Minute]

(* A former price that is no markdown is dropped.                           *)
Was(p) == IF p.was > p.price THEN p.was ELSE None

(* The body is not read, not JSON, or not valid.                            *)
Reject(t) ==
    /\ pc[t] = "validate"
    /\ Done(t)
    /\ UNCHANGED <<clock, requests, window, table, accepted>>

Validate(t) ==
    /\ pc[t] = "validate" /\ Valid(sent[t].payload)
    /\ LET p == sent[t].payload IN
       capture' = [capture EXCEPT ![t] =
                     [key |-> Key(p), price |-> p.price, was |-> Was(p), at |-> CapturedAt(p)]]
    /\ pc' = [pc EXCEPT ![t] = "insert"]
    /\ UNCHANGED <<clock, requests, sent, read, answer, window, table, accepted>>

-----------------------------------------------------------------------------
(* insert_capture, in a transaction of its own.                             *)

Writes(t) == pc[t] = "commit" /\ answer[t].created

(* A row of the key that another thread has not committed yet holds the     *)
(* insert back until it is committed or rolled back.                        *)
Blocked(t) == \E u \in Threads \ {t} : Writes(u) /\ capture[u].key = capture[t].key

Found(t) == {row \in rows : row.key = capture[t].key}

Insert(t) ==
    /\ pc[t] = "insert" /\ ~Blocked(t)
    /\ \/ /\ Found(t) = {}
          /\ lastId' = lastId + 1
          /\ answer' = [answer EXCEPT ![t] = [id |-> lastId + 1, created |-> TRUE]]
       \/ \E row \in Found(t) :
             /\ answer' = [answer EXCEPT ![t] = [id |-> row.id, created |-> FALSE]]
             /\ UNCHANGED lastId
    /\ pc' = [pc EXCEPT ![t] = "commit"]
    /\ UNCHANGED <<clock, requests, sent, read, capture, window, rows, accepted>>

Row(t) == [key |-> capture[t].key, id |-> answer[t].id, price |-> capture[t].price,
           was |-> capture[t].was, at |-> capture[t].at, received |-> clock,
           from |-> sent[t].payload]

Commit(t) ==
    /\ pc[t] = "commit"
    /\ rows' = IF answer[t].created THEN rows \union {Row(t)} ELSE rows
    /\ pc' = [pc EXCEPT ![t] = "reply"]
    /\ UNCHANGED <<clock, requests, sent, read, capture, answer, window, lastId, accepted>>

(* The database is not there (503), or is lost on the way: the transaction  *)
(* is rolled back and the client hears nothing.                             *)
Abort(t) ==
    /\ pc[t] \in {"insert", "commit"}
    /\ Done(t)
    /\ UNCHANGED <<clock, requests, window, table, accepted>>

(* Faulty: the reply is sent inside the transaction.                        *)
AnswersEarly(t) == pc[t] \in {"commit", "reply"}

Answers(t) == pc[t] = "reply"

Reply(t) ==
    /\ Answers(t)
    /\ accepted' = accepted \union {[key |-> capture[t].key, id |-> answer[t].id]}
    /\ Done(t)
    /\ UNCHANGED <<clock, requests, window, table>>

(* The server is restarted: the window is forgotten, the rows are not.      *)
Restart ==
    /\ \E t \in Threads : pc[t] # "idle"
    /\ pc' = [t \in Threads |-> "idle"] /\ sent' = [t \in Threads |-> Nobody]
    /\ read' = [t \in Threads |-> None]
    /\ capture' = [t \in Threads |-> NoCapture] /\ answer' = [t \in Threads |-> NoAnswer]
    /\ hits' = [c \in Clients |-> << >>] /\ admitted' = [c \in Clients |-> << >>]
    /\ UNCHANGED <<clock, requests, table, accepted>>

Handle(t) == Refuse(t) \/ Allow(t) \/ Reject(t) \/ Validate(t)
             \/ Insert(t) \/ Commit(t) \/ Reply(t)

Next == Tick \/ Restart \/ \E t \in Threads : Arrive(t) \/ Handle(t) \/ Abort(t)

Spec == Init /\ [][Next]_vars

(* No thread is left unscheduled; the database need not fail.               *)
FairSpec == Spec /\ \A t \in Threads : WF_vars(Handle(t))

-----------------------------------------------------------------------------

KeySet == [given : Int, page : Int, price : Int, minute : Int]

(* Threads, buckets, rows and replies hold what they may.                   *)
TypeOK ==
    /\ clock \in Nat /\ requests \in 0..MaxRequests /\ lastId \in Nat
    /\ pc \in [Threads -> {"idle", "lock", "validate", "insert", "commit", "reply"}]
    /\ \A t \in Threads :
          /\ sent[t] = Nobody <=> pc[t] = "idle"
          /\ read[t] # None <=> pc[t] = "lock"
          /\ capture[t] # NoCapture <=> pc[t] \in {"insert", "commit", "reply"}
          /\ answer[t].id \in 0..lastId \union {None}
    /\ \A c \in Clients : Len(hits[c]) <= MaxHits
    /\ \A row \in rows : row.key \in KeySet /\ row.id \in 1..lastId

(* However its threads are delayed, no client is admitted more than MaxHits *)
(* times within a window, less the delay.                                   *)
WindowBound ==
    \A c \in Clients, from \in 0..Horizon :
        Cardinality({n \in DOMAIN admitted[c] : admitted[c][n] \in from..(from + Window - MaxLag)})
            <= MaxHits

(* A request is refused only when MaxHits others of its client were         *)
(* admitted less than a window before it came.                              *)
RefusedForCause ==
    [][\A t \in Threads : Refuse(t) =>
         LET c == sent[t].client IN
         Cardinality({n \in DOMAIN admitted[c] : admitted[c][n] >= read[t] - Window}) >= MaxHits]_vars

(* What was answered with 202 is in the table under the id that was given,  *)
(* and every answer for one key gives one id.                               *)
AcceptedIsStored ==
    \A a \in accepted : {row.id : row \in {r \in rows : r.key = a.key}} = {a.id}

(* However threads insert, fail, repeat and are restarted, the table is a    *)
(* book of entries that each came once, for good and under a number of its *)
(* own, and only those in it are answered: Capture implements CaptureBook. *)
Book == INSTANCE CaptureBook WITH
    book <- {[key |-> row.key, id |-> row.id] : row \in rows}, told <- accepted

TableIsABook == Book!Spec

(* A capture that says when it was made, or carries a key, leaves one row   *)
(* however often it is sent, by whichever thread, across restarts.          *)
OneRowPerCapture ==
    \A r, s \in rows :
        (r.from = s.from /\ (r.from.stamp # None \/ r.from.key # None)) => r = s

=============================================================================
