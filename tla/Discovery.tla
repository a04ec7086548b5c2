------------------------------ MODULE Discovery ------------------------------
(***************************************************************************)
(* A tick over several retailers (fpt/cli.py): each in turn has its due    *)
(* grid pages swept, every row of a grid is enrolled                       *)
(* (fpt/scheduler/enroller.py), and its queue is drained                   *)
(* (fpt/scheduler/queue.py).  All of a tick is one transaction: a crash    *)
(* takes back what it wrote, and not the requests it sent.                 *)
(*                                                                         *)
(* Two clocks.  wall is real time: it stamps every response.  clock is the *)
(* tick's: it restarts at the tick's start for each retailer and grows by  *)
(* the delays slept.                                                       *)
(*                                                                         *)
(* What admits a request (RetailerLimiter, robots.txt) and what a fetch    *)
(* brings are free choices here.  The confirmations of the same queue are  *)
(* DealLifecycle's.                                                        *)
(***************************************************************************)
EXTENDS Integers, Sequences, FiniteSets

CONSTANTS
    Config,         \* the enabled retailers, in configuration order
    PagesOf,        \* of each: its discovery pages, by id
    Grids,          \* of each page: the sets of rows a grid of it may have
    Unsafe,         \* the URLs check_url_safety refuses
    Cap,            \* of each retailer: tracked_url_cap, or None
    Interval,       \* interval_minutes of a page
    MaxPages,       \* max_pages of each page
    MaxTasks,       \* --max-confirm
    Deadline,       \* deadline_seconds
    TTL,            \* DISCOVERY_TTL_DAYS
    Latency, Delay, \* what a fetch takes; what is slept after it
    MaxPause,       \* bound: the time between two ticks
    MaxTicks,       \* bound: ticks
    Horizon         \* bound: time

None == -1          \* and NULL
Never == None

Retailers == {Config[i] : i \in DOMAIN Config}
Pages == DOMAIN Grids
Urls == {row.url : row \in UNION UNION {Grids[p] : p \in Pages}}
Face == [price : Nat \union {None}, claimed : Nat \union {None}, range : BOOLEAN]
Row == [url : Urls, face : Face]
RowsOf(r) == UNION UNION {Grids[PagesOf[r][i]] : i \in DOMAIN PagesOf[r]}
UrlsOf(r) == {row.url : row \in RowsOf(r)}

(* A URL stands for its retailer and its address: the tables are keyed by   *)
(* both, and one that two retailers of a shared host show is two here.      *)
ASSUME DiscoveryAssumption ==
    /\ Config \in Seq(Retailers) /\ PagesOf \in [Retailers -> Seq(Pages)]
    /\ \A p \in Pages : Grids[p] \subseteq SUBSET Row
    /\ \A r, s \in Retailers : r # s => UrlsOf(r) \intersect UrlsOf(s) = {}
    /\ Unsafe \subseteq Urls /\ Cap \in [Retailers -> Nat \union {None}]
    /\ Interval \in Nat \ {0} /\ MaxPages \in [Pages -> Nat \ {0}] /\ MaxTasks \in Nat
    /\ Deadline \in Nat /\ TTL \in Nat \ {0} /\ Latency \subseteq Nat /\ Delay \subseteq Nat
    /\ MaxPause \in Nat /\ MaxTicks \in Nat /\ Horizon \in Nat

VARIABLES
    lastSwept,  \* discovery_pages.last_swept_at
    tracked,    \* tracked_urls: expires_at, by URL; None if it has no row
    hits,       \* discovery_hits
    tasks,      \* the ENROLL rows of crawl_tasks, by id
    saved,      \* the tables as last committed
    wall, started, clock, ticks,
    phase,      \* of the tick
    turn,       \* the retailer it is at, by its place in Config
    due,        \* the pages it has still to sweep, by their place in PagesOf
    fetched,    \* pages_fetched of the first of them
    rows, at,   \* the rows of this grid still to be enrolled; its fetched_at
    ingested,   \* listing_ingest_eligible_urls of this grid
    leased,     \* tasks looked at by this drain
    shown       \* every row a parsed grid has had, with its page and time

tables == <<lastSwept, tracked, hits, tasks>>
time == <<wall, started, clock>>
loop == <<turn, due, fetched, rows, at, ingested, leased>>
vars == <<tables, saved, time, ticks, phase, loop, shown>>

Retailer == Config[turn]
RetailerOf(u) == CHOOSE r \in Retailers : u \in UrlsOf(r)

(* SKIPPED stands for SKIPPED_BUDGET and SKIPPED_ROBOTS, FETCHED for FAILED *)
(* and DONE.  No code looks at a task again that is not QUEUED.             *)
Statuses == {"QUEUED", "SKIPPED", "FETCHED"}

Init ==
    /\ lastSwept = [p \in Pages |-> Never] /\ tracked = [u \in Urls |-> None]
    /\ hits = {} /\ tasks = << >> /\ saved = tables
    /\ wall = 0 /\ started = 0 /\ clock = 0 /\ ticks = 0
    /\ phase = "idle" /\ turn = 1 /\ due = {} /\ fetched = 0
    /\ rows = {} /\ at = 0 /\ ingested = {} /\ leased = 0 /\ shown = {}

-----------------------------------------------------------------------------
(* The tick.                                                                *)

StartTick ==
    /\ phase = "idle" /\ ticks < MaxTicks
    /\ \E pause \in 1..MaxPause :
          wall + pause <= Horizon /\ wall' = wall + pause
    /\ started' = wall' /\ clock' = wall'
    /\ ticks' = ticks + 1 /\ phase' = "retailer" /\ turn' = 1
    /\ UNCHANGED <<tables, saved, due, fetched, rows, at, ingested, leased, shown>>

Due(p) == lastSwept[p] = Never \/ started >= lastSwept[p] + Interval

BeginRetailer ==
    /\ phase = "retailer" /\ turn \in DOMAIN Config
    /\ wall < started + Deadline
    /\ phase' = "pages" /\ clock' = started
    /\ due' = {i \in DOMAIN PagesOf[Retailer] : Due(PagesOf[Retailer][i])} /\ fetched' = 0
    /\ UNCHANGED <<tables, saved, wall, started, ticks, turn, rows, at, ingested, leased, shown>>

SkipRetailer ==
    /\ phase = "retailer" /\ turn \in DOMAIN Config
    /\ wall >= started + Deadline
    /\ turn' = turn + 1
    /\ UNCHANGED <<tables, saved, time, ticks, phase, due, fetched, rows, at, ingested, leased, shown>>

EndTick ==
    /\ phase = "retailer" /\ turn \notin DOMAIN Config
    /\ phase' = "idle" /\ saved' = tables /\ turn' = 1 /\ clock' = wall /\ started' = wall
    /\ UNCHANGED <<tables, wall, ticks, due, fetched, rows, at, ingested, leased, shown>>

(* Faulty: that a page was swept is committed by itself.                    *)
RollbackRest ==
    /\ tracked' = saved[2] /\ hits' = saved[3] /\ tasks' = saved[4]
    /\ UNCHANGED lastSwept

Rollback ==
    /\ lastSwept' = saved[1] /\ tracked' = saved[2]
    /\ hits' = saved[3] /\ tasks' = saved[4]

Crash ==
    /\ phase # "idle"
    /\ Rollback
    /\ phase' = "idle" /\ turn' = 1 /\ due' = {} /\ fetched' = 0
    /\ rows' = {} /\ at' = 0 /\ ingested' = {} /\ leased' = 0 /\ clock' = wall /\ started' = wall
    /\ UNCHANGED <<saved, wall, ticks, shown>>

-----------------------------------------------------------------------------
(* The pages of a retailer, in their order.                                 *)

First == CHOOSE i \in due : \A j \in due : i <= j
Page == PagesOf[Retailer][First]

(* A fetch, and the delay that is slept after it.                           *)
Spend(latency, delay) ==
    /\ wall + latency + delay <= Horizon
    /\ wall' = wall + latency + delay /\ clock' = clock + delay
    /\ UNCHANGED started

(* Robots.txt or the limiter refuses, the fetch fails, or what it brings is *)
(* blocked, empty or not to be parsed: the page is given up.                *)
GiveUp ==
    /\ phase = "pages" /\ due # {}
    /\ \/ UNCHANGED time
       \/ \E l \in Latency, d \in Delay : Spend(l, d)
    /\ due' = due \ {First} /\ fetched' = 0
    /\ UNCHANGED <<tables, saved, ticks, phase, turn, rows, at, ingested, leased, shown>>

(* Faulty: the count begins again with every URL that is followed.          *)
CountAnew == 1

Count == fetched + 1

(* The rows listing ingest has recorded already, and their URLs.            *)
GridComplete(face) == face.price # None /\ ~face.range /\ face.claimed # None

Complete(grid) == {row.url : row \in {r \in grid : GridComplete(r.face)}}

(* A grid page is fetched and parsed.  Only one with rows counts as a sweep.*)
Sweep ==
    /\ phase = "pages" /\ due # {}
    /\ \E l \in Latency, d \in Delay, grid \in Grids[Page] :
          /\ Spend(l, d)
          /\ at' = wall + l
          /\ rows' = grid /\ ingested' = Complete(grid)
          /\ lastSwept' = IF grid = {} THEN lastSwept
                          ELSE [lastSwept EXCEPT ![Page] = wall + l]
          /\ shown' = shown \union
                {[page |-> Page, at |-> wall + l, url |-> row.url] : row \in grid}
    /\ fetched' = Count /\ phase' = "rows"
    /\ UNCHANGED <<tracked, hits, tasks, saved, ticks, turn, due, leased>>

MayFollow == fetched < MaxPages[Page]

(* The grid names another page, and its URL is safe; or it does not.        *)
NextGrid ==
    /\ phase = "rows" /\ rows = {}
    /\ \/ MayFollow /\ UNCHANGED <<due, fetched>>
       \/ due' = due \ {First} /\ fetched' = 0
    /\ phase' = "pages" /\ at' = 0 /\ ingested' = {}
    /\ UNCHANGED <<tables, saved, time, ticks, turn, rows, leased, shown>>

-----------------------------------------------------------------------------
(* enroll_discovery_page, one row of the grid.                              *)

(* Rounded to a hundredth of a percent, as the code rounds it: 44.995 and   *)
(* more is 45.00.                                                           *)
FastTrack(face) ==
    /\ face.price # None /\ face.claimed # None /\ face.claimed > 0
    /\ (face.claimed - face.price) * 20000 >= 8999 * face.claimed

Tracked(r) == {u \in Urls : tracked[u] # None /\ RetailerOf(u) = r}

(* Faulty: one too many.                                                    *)
AtCapLate(r) == Cap[r] # None /\ Cardinality(Tracked(r)) > Cap[r]

AtCap(r) == Cap[r] # None /\ Cardinality(Tracked(r)) >= Cap[r]

(* Faulty: the expiry is that of the first sighting.                        *)
ExpiryKept(u) == IF tracked[u] # None THEN tracked[u] ELSE at + TTL

Expiry(u) == at + TTL

(* A URL that any row of the grid tells all about needs no page of its own. *)
WantsTask(row) ==
    /\ tracked[row.url] = None \/ FastTrack(row.face)
    /\ row.url \notin ingested

(* Faulty: a task keeps its dedupe key when it is closed.                   *)
HasTask(u) == \E i \in DOMAIN tasks : tasks[i].url = u

(* The unique index on the dedupe key of an open task.                      *)
HasOpenTask(u) == \E i \in DOMAIN tasks : tasks[i].url = u /\ tasks[i].status = "QUEUED"

Hit(row, linked) ==
    [page |-> Page, at |-> at, url |-> row.url, linked |-> linked,
     deep |-> FastTrack(row.face), whole |-> row.url \in ingested]

EnrollTask(row) ==
    [url |-> row.url, status |-> "QUEUED", notBefore |-> at, until |-> None,
     priority |-> IF FastTrack(row.face) THEN 15 ELSE 40]

(* The row is kept as a hit; it is enrolled if its URL is safe and the cap  *)
(* leaves room, be it tracked already or not.                               *)
Enroll ==
    /\ phase = "rows"
    /\ \E row \in rows :
          /\ rows' = rows \ {row}
          /\ IF row.url \in Unsafe \/ AtCap(Retailer)
             THEN /\ hits' = hits \union {Hit(row, FALSE)}
                  /\ UNCHANGED <<tracked, tasks>>
             ELSE /\ hits' = hits \union {Hit(row, TRUE)}
                  /\ tracked' = [tracked EXCEPT ![row.url] = Expiry(row.url)]
                  /\ tasks' = IF WantsTask(row) /\ ~HasOpenTask(row.url)
                              THEN Append(tasks, EnrollTask(row)) ELSE tasks
    /\ UNCHANGED <<lastSwept, saved, time, ticks, phase, turn, due, fetched, at, ingested, leased, shown>>

(* An error at one row undoes that row, its hit too; the sweep goes on.     *)
SkipRow ==
    /\ phase = "rows"
    /\ \E row \in rows :
          /\ rows' = rows \ {row}
          /\ shown' = shown \ {[page |-> Page, at |-> at, url |-> row.url]}
    /\ UNCHANGED <<tables, saved, time, ticks, phase, turn, due, fetched, at, ingested, leased>>

-----------------------------------------------------------------------------
(* drain_retailer_queue.                                                    *)

BeginDrain ==
    /\ phase = "pages" /\ due = {}
    /\ phase' = "drain"
    /\ UNCHANGED <<tables, saved, time, ticks, turn, due, fetched, rows, at, ingested, leased, shown>>

Queued(r) == {i \in DOMAIN tasks : tasks[i].status = "QUEUED" /\ RetailerOf(tasks[i].url) = r}

Ready == {i \in Queued(Retailer) : tasks[i].notBefore <= clock}

Ahead(t, u) ==
    t.priority < u.priority \/ (t.priority = u.priority /\ t.notBefore <= u.notBefore)

Chosen(i) == i \in Ready /\ \A j \in Ready : Ahead(tasks[i], tasks[j])

(* until is the real time at which a task leaves the queue.                 *)
Close(i, status) == tasks' = [tasks EXCEPT ![i].status = status, ![i].until = wall]

(* Refused: by the limiter's caps, or by robots.txt.                        *)
SkipTask ==
    /\ phase = "drain" /\ leased < MaxTasks
    /\ \E i \in Ready : Chosen(i) /\ Close(i, "SKIPPED")
    /\ leased' = leased + 1
    /\ UNCHANGED <<lastSwept, tracked, hits, saved, time, ticks, phase, turn, due, fetched, rows, at, ingested, shown>>

(* Fetched: a transport failure or an unparsable page fails the task; one   *)
(* that is blocked or empty is as done as one that is ingested.             *)
FetchTask ==
    /\ phase = "drain" /\ leased < MaxTasks
    /\ \E i \in Ready : Chosen(i) /\ Close(i, "FETCHED")
    /\ \E l \in Latency, d \in Delay : Spend(l, d)
    /\ leased' = leased + 1
    /\ UNCHANGED <<lastSwept, tracked, hits, saved, ticks, phase, turn, due, fetched, rows, at, ingested, shown>>

(* Nothing is ready, max_tasks are spent, or the limiter stops the drain.   *)
EndDrain ==
    /\ phase = "drain"
    /\ phase' = "retailer" /\ turn' = turn + 1 /\ leased' = 0
    /\ UNCHANGED <<tables, saved, time, ticks, due, fetched, rows, at, ingested, shown>>

Work == BeginRetailer \/ SkipRetailer \/ EndTick \/ GiveUp \/ Sweep \/ NextGrid
        \/ Enroll \/ SkipRow \/ BeginDrain \/ SkipTask \/ FetchTask \/ EndDrain

Next == StartTick \/ Work \/ Crash

Spec == Init /\ [][Next]_vars

(* A tick that has begun goes on until it ends or dies; nothing says that   *)
(* another one is started.                                                  *)
FairSpec == Spec /\ WF_vars(Work)

-----------------------------------------------------------------------------

(* The tables and the tick's own state hold what they may.                  *)
TypeOK ==
    /\ lastSwept \in [Pages -> Nat \union {Never}]
    /\ tracked \in [Urls -> Nat \union {None}]
    /\ hits \subseteq [page : Pages, at : Nat, url : Urls, linked : BOOLEAN,
                     deep : BOOLEAN, whole : BOOLEAN]
    /\ tasks \in Seq([url : Urls, status : Statuses, notBefore : Nat,
                     until : Nat \union {None}, priority : {15, 40}])
    /\ wall \in Nat /\ clock \in started..wall /\ ticks \in 0..MaxTicks
    /\ phase \in {"idle", "retailer", "pages", "rows", "drain"}
    /\ turn \in 1..Len(Config) + 1 /\ fetched \in Nat /\ leased \in 0..MaxTasks
    /\ rows \subseteq Row /\ (rows # {} => phase = "rows" /\ due # {})
    /\ ingested \subseteq Urls

(* However its pages overlap, a retailer never has more tracked URLs than   *)
(* tracked_url_cap.                                                         *)
CapHolds == \A r \in Retailers : Cap[r] # None => Cardinality(Tracked(r)) <= Cap[r]

(* A tracked URL expires 120 days after the last sighting that was let in,  *)
(* on whichever page, and after a crash as well; and no sighting of a safe  *)
(* URL is left out unless its retailer has all the URLs it may have.  There *)
(* one of a tracked URL is left out too (enroller.py:259-263) and does not  *)
(* put its expiry off, although enroller.py:120-122 says that it would.     *)
ExpiryIsAccountedFor ==
    /\ \A u \in Urls :
          LET sightings == {h.at : h \in {h \in hits : h.url = u /\ h.linked}}
          IN  /\ tracked[u] = None <=> sightings = {}
              /\ tracked[u] # None => /\ tracked[u] - TTL \in sightings
                                      /\ \A s \in sightings : s <= tracked[u] - TTL
    /\ \A h \in hits : ~h.linked => h.url \in Unsafe \/ AtCap(RetailerOf(h.url))

(* A URL the grids show again and again has one open ENROLL task at most.   *)
OneOpenTaskPerUrl ==
    \A i, j \in DOMAIN tasks :
        (tasks[i].url = tasks[j].url /\ {tasks[i].status, tasks[j].status} = {"QUEUED"}) => i = j

(* No sighting that calls for a look goes without a task: one of a deep     *)
(* discount has a task that was still queued when it was made, although an  *)
(* earlier one was fetched or skipped; and a URL has had a task, if only a  *)
(* skipped one, unless a grid has told all about it.  Grids tell it by URL: *)
(* one complete row speaks for the others of its URL.                       *)
SightingsArePlanned ==
    \A h \in hits : h.linked /\ ~h.whole =>
        LET planned == {i \in DOMAIN tasks : tasks[i].url = h.url}
            told == \E g \in hits : g.url = h.url /\ g.linked /\ g.at <= h.at /\ g.whole
        IN  /\ h.deep => \E i \in planned : tasks[i].status = "QUEUED" \/ tasks[i].until >= h.at
            /\ told \/ planned # {}

(* A page that counts as swept has the hits of that sweep, whatever crashed *)
(* in between: otherwise its rows would be lost until the next interval.    *)
SweptIsRecorded ==
    \A s \in shown : lastSwept[s.page] = s.at =>
        \/ \E h \in hits : h.page = s.page /\ h.at = s.at /\ h.url = s.url
        \/ phase = "rows" /\ s.at = at /\ \E row \in rows : row.url = s.url

(* A tick ends, whatever the grids say of their next pages.                 *)
TickEnds == phase # "idle" ~> phase = "idle"

=============================================================================
