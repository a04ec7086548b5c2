-------------------------- MODULE Discovery_proofs --------------------------
(***************************************************************************)
(* Theorems about Discovery for any number of retailers, pages, URLs,      *)
(* ticks and crashes.  The tables as written and as last committed keep    *)
(* the same invariant, Good; what ties them together is that a sweep of    *)
(* this tick is later than everything that has been committed.             *)
(***************************************************************************)
EXTENDS Discovery, LeastNatural, SequenceTheorems

Time == Nat
Task == [url : Urls, status : Statuses, notBefore : Time, until : Time \union {None},
         priority : {15, 40}]
HitRow == [page : Pages, at : Time, url : Urls, linked : BOOLEAN, deep : BOOLEAN,
           whole : BOOLEAN]
Shown == [page : Pages, at : Time, url : Urls]

-----------------------------------------------------------------------------
(* The tables: lastSwept, tracked, hits and tasks.                          *)

Typed(sw, tr, hs, ts) ==
    /\ sw \in [Pages -> Time \union {Never}] /\ tr \in [Urls -> Time \union {None}]
    /\ hs \subseteq HitRow /\ ts \in Seq(Task)

(* Nothing is of a later time than now.                                     *)
Past(sw, hs, now) ==
    /\ \A p \in Pages : sw[p] <= now
    /\ \A h \in hs : h.at <= now

Sighted(hs, u) == {h \in hs : h.url = u /\ h.linked}

(* ExpiryIsAccountedFor, of given tables: of what was let in.              *)
Expires(tr, hs) ==
    \A u \in Urls :
        /\ tr[u] = None <=> Sighted(hs, u) = {}
        /\ tr[u] # None => /\ \E h \in Sighted(hs, u) : tr[u] = h.at + TTL
                           /\ \A h \in Sighted(hs, u) : h.at + TTL <= tr[u]

(* OneOpenTaskPerUrl, of given tables.                                      *)
OneOpen(ts) ==
    \A i, j \in DOMAIN ts :
        ts[i].url = ts[j].url /\ ts[i].status = "QUEUED" /\ ts[j].status = "QUEUED" => i = j

(* SightingsArePlanned, of given tables.                                    *)
Told(hs, h) == \E g \in hs : g.url = h.url /\ g.linked /\ g.at <= h.at /\ g.whole

Planned(hs, ts) ==
    \A h \in hs : h.linked /\ ~h.whole =>
        /\ h.deep => \E i \in DOMAIN ts : /\ ts[i].url = h.url
                                          /\ ts[i].status = "QUEUED" \/ ts[i].until >= h.at
        /\ Told(hs, h) \/ \E i \in DOMAIN ts : ts[i].url = h.url

TrackedOf(tr, r) == {u \in Urls : tr[u] # None /\ RetailerOf(u) = r}

(* CapHolds, of given tables.                                               *)
Capped(tr) ==
    \A r \in Retailers :
        /\ IsFiniteSet(TrackedOf(tr, r))
        /\ Cap[r] # None => Cardinality(TrackedOf(tr, r)) <= Cap[r]

Full(tr, r) == Cap[r] # None /\ Cardinality(TrackedOf(tr, r)) >= Cap[r]

(* ExpiryIsAccountedFor, of given tables: of what was left out.             *)
LeftOut(tr, hs) ==
    \A h \in hs : ~h.linked => h.url \in Unsafe \/ Full(tr, RetailerOf(h.url))

Good(sw, tr, hs, ts, now) ==
    /\ Typed(sw, tr, hs, ts) /\ Past(sw, hs, now)
    /\ Expires(tr, hs) /\ LeftOut(tr, hs) /\ OneOpen(ts) /\ Planned(hs, ts) /\ Capped(tr)

-----------------------------------------------------------------------------
(* The tick.                                                                *)

Shape ==
    /\ wall \in Time /\ started \in Time /\ clock \in started..wall /\ started <= wall
    /\ ticks \in 0..MaxTicks /\ phase \in {"idle", "retailer", "pages", "rows", "drain"}
    /\ turn \in 1..(Len(Config) + 1) /\ fetched \in Nat /\ leased \in 0..MaxTasks
    /\ at \in Time /\ rows \subseteq Row /\ ingested \subseteq Urls /\ shown \subseteq Shown
    /\ saved = <<saved[1], saved[2], saved[3], saved[4]>>

(* Where the tick is.                                                       *)
Place ==
    /\ phase \in {"pages", "rows", "drain"} => turn \in DOMAIN Config
    /\ phase \in {"pages", "rows"} => due \subseteq DOMAIN PagesOf[Retailer]
    /\ phase = "rows" => due # {} /\ rows \subseteq UNION Grids[Page]
    /\ rows # {} => phase = "rows"

(* The grid whose rows are being enrolled is the latest fetched.            *)
Current ==
    phase = "rows" => started <= at /\ at <= wall /\ \A h \in hits : h.at <= at

Recorded(s, hs) == \E h \in hs : h.page = s.page /\ h.at = s.at /\ h.url = s.url

Waiting(s) ==
    /\ phase = "rows" /\ s.at = at /\ s.page = Page
    /\ \E row \in rows : row.url = s.url

(* What a page has shown is recorded, if the page counts as swept at that   *)
(* time, or is about to be.                                                 *)
Swept ==
    \A s \in shown :
        /\ s.at <= wall
        /\ lastSwept[s.page] = s.at => Recorded(s, hits) \/ Waiting(s)
        /\ saved[1][s.page] = s.at => Recorded(s, saved[3])
        /\ phase # "idle" /\ s.at >= started => s.at <= lastSwept[s.page]

(* A tick starts after everything that was committed before.                *)
Later == phase # "idle" => \A p \in Pages : saved[1][p] < started

IInv ==
    /\ Shape /\ Place /\ Current /\ Swept /\ Later
    /\ Good(lastSwept, tracked, hits, tasks, wall)
    /\ Good(saved[1], saved[2], saved[3], saved[4], wall)

-----------------------------------------------------------------------------
(* Constants.                                                               *)

(* The constants as the proofs use them.                                    *)
LEMMA Constants ==
    /\ Len(Config) \in Nat /\ DOMAIN Config = 1..Len(Config)
    /\ \A i \in DOMAIN Config : Config[i] \in Retailers
    /\ \A r \in Retailers : PagesOf[r] \in Seq(Pages) /\ DOMAIN PagesOf[r] \subseteq Nat
    /\ \A r \in Retailers : \A i \in DOMAIN PagesOf[r] : PagesOf[r][i] \in Pages
    /\ TTL \in Nat /\ TTL >= 1 /\ MaxTasks \in Nat /\ MaxTicks \in Nat /\ MaxPause \in Nat
    /\ Latency \subseteq Nat /\ Delay \subseteq Nat
  <1>1. Config \in Seq(Retailers) /\ \A r \in Retailers : PagesOf[r] \in Seq(Pages)
    BY DiscoveryAssumption
  <1>2. Len(Config) \in Nat /\ DOMAIN Config = 1..Len(Config)
    BY <1>1, LenProperties
  <1>3. \A i \in DOMAIN Config : Config[i] \in Retailers
    BY DEF Retailers
  <1>4. ASSUME NEW r \in Retailers
        PROVE  /\ DOMAIN PagesOf[r] \subseteq Nat
               /\ \A i \in DOMAIN PagesOf[r] : PagesOf[r][i] \in Pages
    <2>1. DOMAIN PagesOf[r] = 1..Len(PagesOf[r]) /\ Len(PagesOf[r]) \in Nat
      BY <1>1, LenProperties
    <2>2. \A i \in 1..Len(PagesOf[r]) : PagesOf[r][i] \in Pages
      BY <1>1, ElementOfSeq
    <2> QED BY <2>1, <2>2
  <1> QED BY <1>1, <1>2, <1>3, <1>4, DiscoveryAssumption

(* The rows of a page of a retailer are rows, and their URLs its own.       *)
LEMMA RowsOfPage ==
    ASSUME NEW r \in Retailers, NEW i \in DOMAIN PagesOf[r],
           NEW row \in UNION Grids[PagesOf[r][i]]
    PROVE  row \in Row /\ row.url \in Urls /\ RetailerOf(row.url) = r
  <1>1. PagesOf[r][i] \in Pages
    BY Constants
  <1>2. row \in Row /\ row.url \in Urls
    BY <1>1, DiscoveryAssumption DEF Row
  <1>3. row.url \in UrlsOf(r)
    BY DEF UrlsOf, RowsOf
  <1>4. \A s \in Retailers : row.url \in UrlsOf(s) => s = r
    BY <1>3, DiscoveryAssumption
  <1>5. RetailerOf(row.url) = r
    BY <1>3, <1>4 DEF RetailerOf
  <1> QED BY <1>2, <1>5

(* The page at hand is the first of those that are due.                     *)
LEMMA PageAtHand ==
    ASSUME IInv, phase \in {"pages", "rows"}, due # {}
    PROVE  /\ Retailer \in Retailers /\ First \in due
           /\ First \in DOMAIN PagesOf[Retailer] /\ Page \in Pages
  <1>1. Retailer \in Retailers
    BY Constants DEF IInv, Place, Retailer
  <1>2. due \subseteq DOMAIN PagesOf[Retailer]
    BY DEF IInv, Place
  <1>3. due \in SUBSET Nat
    BY <1>1, <1>2, Constants
  <1>4. \E i \in due : \A j \in due : i <= j
    BY <1>3, LeastMember
  <1>5. First \in due
    BY <1>4 DEF First
  <1> QED BY <1>1, <1>2, <1>5, Constants DEF Page

(* What is true of the past stays true.                                     *)
LEMMA GoodLater ==
    ASSUME NEW sw, NEW tr, NEW hs, NEW ts, NEW now \in Time, NEW later \in Time,
           now <= later, Good(sw, tr, hs, ts, now)
    PROVE  Good(sw, tr, hs, ts, later)
  <1>1. \A p \in Pages : sw[p] \in Int /\ sw[p] <= now
    BY DEF Good, Typed, Past, Time, Never, None
  <1>2. \A h \in hs : h.at \in Nat /\ h.at <= now
    BY DEF Good, Typed, Past, Time, HitRow
  <1>3. Past(sw, hs, later)
    BY <1>1, <1>2 DEF Past, Time
  <1> QED BY <1>3 DEF Good

(* Empty tables are good.                                                   *)
LEMMA EmptyGood ==
    Good([p \in Pages |-> Never], [u \in Urls |-> None], {}, << >>, 0)
  <1>1. Typed([p \in Pages |-> Never], [u \in Urls |-> None], {}, << >>)
    BY EmptySeq DEF Typed
  <1>2. Past([p \in Pages |-> Never], {}, 0)
    BY DEF Past, Never, None
  <1>3. /\ Expires([u \in Urls |-> None], {})
        /\ LeftOut([u \in Urls |-> None], {}) /\ Planned({}, << >>)
    BY DEF Expires, LeftOut, Planned, Sighted
  <1>4. OneOpen(<< >>)
    BY EmptySeq DEF OneOpen
  <1>5. Capped([u \in Urls |-> None])
    <2> DEFINE none == [u \in Urls |-> None]
    <2>1. \A r \in Retailers : TrackedOf(none, r) = {}
      BY DEF TrackedOf
    <2>2. IsFiniteSet({}) /\ Cardinality({}) = 0
      BY FS_EmptySet
    <2>3. \A r \in Retailers : Cap[r] # None => 0 <= Cap[r]
      BY DiscoveryAssumption DEF None
    <2> HIDE DEF none
    <2>4. Capped(none)
      BY <2>1, <2>2, <2>3 DEF Capped
    <2> QED BY <2>4 DEF none
  <1> QED BY <1>1, <1>2, <1>3, <1>4, <1>5 DEF Good

-----------------------------------------------------------------------------
(* Steps of the tick that write no table but the tasks.                     *)

(* Everything is empty at the start.                                        *)
LEMMA InitIInv == Init => IInv
  <1> SUFFICES ASSUME Init PROVE IInv
    OBVIOUS
  <1>1. Shape
    BY Constants DEF Init, Shape, tables, Time
  <1>2. Place /\ Current /\ Swept /\ Later
    BY DEF Init, Place, Current, Swept, Later
  <1>3. Good(lastSwept, tracked, hits, tasks, wall)
    BY EmptyGood DEF Init
  <1>4. /\ saved[1] = lastSwept /\ saved[2] = tracked /\ saved[3] = hits /\ saved[4] = tasks
    BY DEF Init, tables
  <1>5. Good(saved[1], saved[2], saved[3], saved[4], wall)
    BY <1>3, <1>4
  <1> QED BY <1>1, <1>2, <1>3, <1>5 DEF IInv

(* Both sets of tables stay good as time goes by.                           *)
LEMMA TablesKeep ==
    ASSUME IInv, wall' \in Time, wall <= wall', UNCHANGED <<tables, saved>>
    PROVE  /\ Good(lastSwept, tracked, hits, tasks, wall)'
           /\ Good(saved[1], saved[2], saved[3], saved[4], wall)'
  <1>1. wall \in Time
    BY DEF IInv, Shape
  <1>2. Good(lastSwept, tracked, hits, tasks, wall')
    BY <1>1, GoodLater DEF IInv
  <1>3. Good(saved[1], saved[2], saved[3], saved[4], wall')
    BY <1>1, GoodLater DEF IInv
  <1> QED BY <1>2, <1>3 DEF tables

(* What a page has shown stays recorded while no rows wait.                 *)
LEMMA SweptKeeps ==
    ASSUME IInv, wall' \in Time, wall <= wall', UNCHANGED <<lastSwept, hits, saved, shown>>,
           \A s \in shown : ~Waiting(s),
           phase' # "idle" => phase # "idle" /\ started' = started
    PROVE  Swept' /\ Later'
  <1>1. wall \in Time /\ shown \subseteq Shown
    BY DEF IInv, Shape
  <1>2. \A s \in shown : s.at \in Time
    BY <1>1 DEF Shown
  <1>3. Swept'
    BY <1>1, <1>2 DEF IInv, Swept, Recorded, Time
  <1>4. Later'
    BY DEF IInv, Later
  <1> QED BY <1>3, <1>4

(* A tick starts later than all that is in the tables.                      *)
LEMMA StartTickIInv == IInv /\ StartTick => IInv'
  <1> SUFFICES ASSUME IInv, StartTick PROVE IInv'
    OBVIOUS
  <1>1. PICK pause \in 1..MaxPause : wall' = wall + pause
    BY DEF StartTick
  <1>2. /\ phase = "idle" /\ ticks < MaxTicks /\ started' = wall' /\ clock' = wall'
        /\ ticks' = ticks + 1 /\ phase' = "retailer" /\ turn' = 1
        /\ UNCHANGED <<lastSwept, tracked, hits, tasks, saved, due, fetched, rows, at, ingested,
                       leased, shown>>
    BY DEF StartTick, tables
  <1>3. Shape /\ wall \in Nat /\ wall' \in Nat /\ wall < wall'
    <2>1. Shape /\ wall \in Nat
      BY DEF IInv, Shape, Time
    <2>2. MaxPause \in Nat
      BY Constants
    <2> QED BY <1>1, <2>1, <2>2
  <1>4. Shape'
    <2>1. ticks' \in 0..MaxTicks /\ turn' \in 1..(Len(Config) + 1) /\ clock' \in started'..wall'
      BY <1>2, <1>3, Constants DEF Shape
    <2> QED BY <1>2, <1>3, <2>1 DEF Shape, Time
  <1>5. Place' /\ Current'
    BY <1>2 DEF IInv, Place, Current
  <1>6. /\ Good(lastSwept, tracked, hits, tasks, wall)'
        /\ Good(saved[1], saved[2], saved[3], saved[4], wall)'
    BY <1>2, <1>3, TablesKeep DEF tables, Time
  <1>7. Later'
    <2>1. \A p \in Pages : saved[1][p] \in Int /\ saved[1][p] <= wall
      BY DEF IInv, Good, Typed, Past, Time, Never, None
    <2> QED BY <1>2, <1>3, <2>1 DEF Later
  <1>8. Swept'
    <2>1. \A s \in shown : ~Waiting(s) /\ s.at <= wall /\ s.at \in Nat
      BY <1>2, <1>3 DEF Waiting, IInv, Swept, Shape, Shown, Time
    <2>2. \A s \in shown : s.at <= wall' /\ ~(s.at >= started')
      BY <1>2, <1>3, <2>1
    <2> QED BY <1>2, <2>1, <2>2 DEF IInv, Swept, Recorded
  <1> QED BY <1>4, <1>5, <1>6, <1>7, <1>8 DEF IInv

(* The steps from one retailer to the next, and to its pages and its queue. *)
LEMMA LoopIInv ==
    IInv /\ (BeginRetailer \/ SkipRetailer \/ BeginDrain \/ EndDrain) => IInv'
  <1> SUFFICES ASSUME IInv, BeginRetailer \/ SkipRetailer \/ BeginDrain \/ EndDrain
               PROVE  IInv'
    OBVIOUS
  <1>1. /\ UNCHANGED <<lastSwept, tracked, hits, tasks, saved, wall, started, ticks, rows, at,
                       ingested, shown>>
        /\ phase \in {"retailer", "pages", "drain"} /\ phase' \in {"retailer", "pages", "drain"}
        /\ clock' = clock \/ clock' = started
        /\ leased' = leased \/ leased' = 0
        /\ fetched' = fetched \/ fetched' = 0
    BY DEF BeginRetailer, SkipRetailer, BeginDrain, EndDrain, tables, time
  <1>2. Shape /\ Place
    BY DEF IInv
  <1>3. turn' \in 1..(Len(Config) + 1)
    <2>1. turn' = turn \/ (turn \in DOMAIN Config /\ turn' = turn + 1)
      BY <1>2 DEF BeginRetailer, SkipRetailer, BeginDrain, EndDrain, Place
    <2> QED BY <1>2, <2>1, Constants DEF Shape
  <1>4. Shape'
    BY <1>1, <1>2, <1>3, Constants DEF Shape, Time
  <1>5. Place'
    <2>1. CASE BeginRetailer
      BY <1>1, <1>2, <2>1 DEF BeginRetailer, Place, Retailer
    <2>2. CASE SkipRetailer \/ BeginDrain \/ EndDrain
      BY <1>1, <1>2, <2>2 DEF SkipRetailer, BeginDrain, EndDrain, Place, Retailer
    <2> QED BY <2>1, <2>2
  <1>6. Current'
    BY <1>1 DEF Current
  <1>7. wall \in Time /\ wall <= wall'
    BY <1>1, <1>2 DEF Shape, Time
  <1>8. Swept' /\ Later'
    BY <1>1, <1>7, SweptKeeps DEF Waiting
  <1>9. /\ Good(lastSwept, tracked, hits, tasks, wall)'
        /\ Good(saved[1], saved[2], saved[3], saved[4], wall)'
    BY <1>1, <1>7, TablesKeep DEF tables
  <1> QED BY <1>4, <1>5, <1>6, <1>8, <1>9 DEF IInv

(* The tables as they are become those that are committed.                  *)
LEMMA EndTickIInv == IInv /\ EndTick => IInv'
  <1> SUFFICES ASSUME IInv, EndTick PROVE IInv'
    OBVIOUS
  <1>1. /\ phase = "retailer" /\ phase' = "idle" /\ turn' = 1
        /\ saved' = <<lastSwept, tracked, hits, tasks>>
        /\ clock' = wall /\ started' = wall
        /\ UNCHANGED <<lastSwept, tracked, hits, tasks, wall, ticks, due, fetched, rows, at,
                       ingested, leased, shown>>
    BY DEF EndTick, tables
  <1>2. Shape /\ Place
    BY DEF IInv
  <1>3. Shape'
    BY <1>1, <1>2, Constants DEF Shape, Time
  <1>4. Place' /\ Current' /\ Later'
    BY <1>1, <1>2 DEF Place, Current, Later
  <1>5. saved'[1] = lastSwept /\ saved'[2] = tracked /\ saved'[3] = hits /\ saved'[4] = tasks
    BY <1>1
  <1>6. Swept'
    BY <1>1, <1>5 DEF IInv, Swept, Waiting, Recorded
  <1>7. Good(lastSwept, tracked, hits, tasks, wall)
    BY DEF IInv
  <1>8. Good(lastSwept, tracked, hits, tasks, wall)'
    BY <1>1, <1>7
  <1>9. Good(saved[1], saved[2], saved[3], saved[4], wall)'
    BY <1>1, <1>5, <1>7
  <1> QED BY <1>3, <1>4, <1>6, <1>8, <1>9 DEF IInv

(* The tables are again those that were committed.                          *)
LEMMA CrashIInv == IInv /\ Crash => IInv'
  <1> SUFFICES ASSUME IInv, Crash PROVE IInv'
    OBVIOUS
  <1>1. /\ lastSwept' = saved[1] /\ tracked' = saved[2]
        /\ hits' = saved[3] /\ tasks' = saved[4]
        /\ phase' = "idle" /\ turn' = 1 /\ due' = {} /\ fetched' = 0
        /\ rows' = {} /\ at' = 0 /\ ingested' = {} /\ leased' = 0 /\ clock' = wall /\ started' = wall
        /\ UNCHANGED <<saved, wall, ticks, shown>>
    BY DEF Crash, Rollback
  <1>2. Shape
    BY DEF IInv
  <1>3. Shape'
    BY <1>1, <1>2, Constants DEF Shape, Time
  <1>4. Place' /\ Current' /\ Later'
    BY <1>1 DEF Place, Current, Later
  <1>5. Swept'
    BY <1>1 DEF IInv, Swept, Recorded
  <1>6. Good(saved[1], saved[2], saved[3], saved[4], wall)
    BY DEF IInv
  <1> QED BY <1>1, <1>3, <1>4, <1>5, <1>6 DEF IInv

-----------------------------------------------------------------------------
(* Steps of a page.                                                         *)

(* What a fetch takes moves both clocks on.                                 *)
LEMMA SpendMoves ==
    ASSUME IInv, NEW l \in Latency, NEW d \in Delay, Spend(l, d)
    PROVE  /\ wall \in Nat /\ wall' \in Nat /\ l \in Nat /\ wall + l \in Nat
           /\ wall <= wall + l /\ wall + l <= wall'
           /\ started' = started /\ started \in Nat /\ started <= wall
           /\ clock' \in started'..wall'
  <1>1. l \in Nat /\ d \in Nat
    BY Constants
  <1>2. /\ wall \in Nat /\ started \in Nat /\ started <= wall
        /\ clock \in Int /\ started <= clock /\ clock <= wall
    BY DEF IInv, Shape, Time
  <1>3. wall' = wall + l + d /\ clock' = clock + d /\ started' = started
    BY DEF Spend
  <1> QED BY <1>1, <1>2, <1>3

(* A page is given up, with or without a request.                           *)
LEMMA GiveUpIInv == IInv /\ GiveUp => IInv'
  <1> SUFFICES ASSUME IInv, GiveUp PROVE IInv'
    OBVIOUS
  <1>1. /\ phase = "pages" /\ due' \subseteq due /\ fetched' = 0
        /\ UNCHANGED <<lastSwept, tracked, hits, tasks, saved, ticks, phase, turn, rows, at,
                       ingested, leased, shown>>
    BY DEF GiveUp, tables
  <1>2. Shape /\ Place
    BY DEF IInv
  <1>3. /\ wall' \in Nat /\ wall <= wall' /\ started' = started
        /\ clock' \in started'..wall'
    <2>1. CASE UNCHANGED time
      BY <1>2, <2>1 DEF time, Shape, Time
    <2>2. CASE \E l \in Latency, d \in Delay : Spend(l, d)
      <3>1. PICK l \in Latency, d \in Delay : Spend(l, d)
        BY <2>2
      <3>2. wall \in Nat /\ wall' \in Nat /\ wall + l \in Nat /\ wall <= wall + l
            /\ wall + l <= wall' /\ started' = started /\ clock' \in started'..wall'
        BY <3>1, SpendMoves
      <3>3. wall <= wall'
        BY <3>2
      <3> QED BY <3>2, <3>3
    <2> QED BY <2>1, <2>2 DEF GiveUp
  <1>4. Shape'
    BY <1>1, <1>2, <1>3 DEF Shape, Time
  <1>5. Place'
    BY <1>1, <1>2 DEF Place, Retailer
  <1>6. Current'
    BY <1>1 DEF Current
  <1>7. Swept' /\ Later'
    BY <1>1, <1>3, SweptKeeps DEF Waiting, Time
  <1>8. /\ Good(lastSwept, tracked, hits, tasks, wall)'
        /\ Good(saved[1], saved[2], saved[3], saved[4], wall)'
    BY <1>1, <1>3, TablesKeep DEF tables, Time
  <1> QED BY <1>4, <1>5, <1>6, <1>7, <1>8 DEF IInv

(* A grid that is done with names another page, or the page is done.        *)
LEMMA NextGridIInv == IInv /\ NextGrid => IInv'
  <1> SUFFICES ASSUME IInv, NextGrid PROVE IInv'
    OBVIOUS
  <1>1. /\ phase = "rows" /\ rows = {} /\ phase' = "pages" /\ at' = 0 /\ ingested' = {}
        /\ due' \subseteq due /\ fetched' \in {fetched, 0}
        /\ UNCHANGED <<lastSwept, tracked, hits, tasks, saved, wall, started, clock, ticks, turn,
                       rows, leased, shown>>
    BY DEF NextGrid, tables, time
  <1>2. Shape /\ Place /\ wall \in Time /\ wall <= wall'
    BY <1>1 DEF IInv, Shape, Time
  <1>3. Shape'
    BY <1>1, <1>2 DEF Shape, Time
  <1>4. Place' /\ Current'
    BY <1>1, <1>2 DEF Place, Current, Retailer
  <1>5. Swept' /\ Later'
    BY <1>1, <1>2, SweptKeeps DEF Waiting
  <1>6. /\ Good(lastSwept, tracked, hits, tasks, wall)'
        /\ Good(saved[1], saved[2], saved[3], saved[4], wall)'
    BY <1>1, <1>2, TablesKeep DEF tables
  <1> QED BY <1>3, <1>4, <1>5, <1>6 DEF IInv

(* A sweep is later than every hit, and than every committed sweep.         *)
LEMMA SweepIInv == IInv /\ Sweep => IInv'
  <1> SUFFICES ASSUME IInv, Sweep PROVE IInv'
    OBVIOUS
  <1>1. PICK l \in Latency, d \in Delay, grid \in Grids[Page] :
          /\ Spend(l, d)
          /\ at' = wall + l
          /\ rows' = grid /\ ingested' = Complete(grid)
          /\ lastSwept' = IF grid = {} THEN lastSwept
                          ELSE [lastSwept EXCEPT ![Page] = wall + l]
          /\ shown' = shown \union
                {[page |-> Page, at |-> wall + l, url |-> row.url] : row \in grid}
    BY DEF Sweep
  <1>2. /\ phase = "pages" /\ phase' = "rows" /\ due # {} /\ fetched' = fetched + 1
        /\ UNCHANGED <<tracked, hits, tasks, saved, ticks, turn, due, leased>>
    BY DEF Sweep, Count
  <1>3. /\ wall \in Nat /\ wall' \in Nat /\ wall + l \in Nat
        /\ wall <= wall + l /\ wall + l <= wall'
        /\ started' = started /\ started \in Nat /\ started <= wall
        /\ clock' \in started'..wall'
    BY <1>1, SpendMoves
  <1>4. Retailer \in Retailers /\ First \in DOMAIN PagesOf[Retailer] /\ Page \in Pages
        /\ Page = PagesOf[Retailer][First]
    BY <1>2, PageAtHand DEF Page
  <1>5. Retailer' = Retailer /\ First' = First /\ Page' = Page
    BY <1>2 DEF Retailer, First, Page
  <1>6. \A row \in grid : row \in Row /\ row.url \in Urls
    BY <1>1, <1>4, RowsOfPage
  <1>7. Shape /\ Place /\ Swept /\ Later
    BY DEF IInv
  <1>8. Shape'
    <2>1. \A row \in grid : [page |-> Page, at |-> wall + l, url |-> row.url] \in Shown
      BY <1>3, <1>4, <1>6 DEF Shown, Time
    <2>2. shown' \subseteq Shown
      BY <1>1, <1>7, <2>1 DEF Shape
    <2>3. rows' \subseteq Row /\ ingested' \subseteq Urls
      BY <1>1, <1>6 DEF Complete
    <2> QED BY <1>1, <1>2, <1>3, <1>7, <2>2, <2>3 DEF Shape, Time
  <1>9. Place'
    <2>1. rows' \subseteq UNION Grids[Page']
      BY <1>1, <1>5
    <2> QED BY <1>2, <1>5, <1>7, <2>1 DEF Place
  <1>10. \A h \in hits : h.at \in Nat /\ h.at <= wall
    BY DEF IInv, Good, Typed, Past, HitRow, Time
  <1>11. Current'
    BY <1>1, <1>2, <1>3, <1>10 DEF Current
  <1>12. lastSwept \in [Pages -> Nat \union {Never}]
         /\ \A p \in Pages : lastSwept[p] \in Int /\ lastSwept[p] <= wall
    BY DEF IInv, Good, Typed, Past, Time, Never, None
  <1> DEFINE now == wall + l
  <1>13. now \in Nat /\ wall <= now /\ now <= wall' /\ started <= now
    BY <1>3
  <1>14. /\ \A p \in Pages : p # Page => lastSwept'[p] = lastSwept[p]
         /\ lastSwept'[Page] = IF grid = {} THEN lastSwept[Page] ELSE now
         /\ lastSwept' \in [Pages -> Nat \union {Never}]
    BY <1>1, <1>3, <1>4, <1>12
  <1>15. at' = now /\ \A s \in shown' : s \in shown \/
             (s.page = Page /\ s.at = now /\ grid # {} /\ \E row \in grid : s.url = row.url)
    BY <1>1
  <1> HIDE DEF now
  <1>16. Good(lastSwept, tracked, hits, tasks, wall)'
    <2>1. Past(lastSwept', hits, wall')
      BY <1>3, <1>10, <1>12, <1>13, <1>14 DEF Past
    <2>2. Typed(lastSwept', tracked, hits, tasks)
      BY <1>14 DEF IInv, Good, Typed, Time
    <2> QED BY <1>2, <2>1, <2>2 DEF IInv, Good
  <1>17. Good(saved[1], saved[2], saved[3], saved[4], wall)'
    <2>1. wall <= wall'
      BY <1>3
    <2>2. Good(saved[1], saved[2], saved[3], saved[4], wall')
      BY <1>3, <2>1, GoodLater DEF IInv, Time
    <2> QED BY <1>2, <2>2
  <1>18. Later'
    BY <1>2, <1>3, <1>7 DEF Later
  <1>19. Swept'
    <2> SUFFICES ASSUME NEW s \in shown'
                 PROVE  /\ s.at <= wall'
                        /\ lastSwept'[s.page] = s.at => Recorded(s, hits) \/ Waiting(s)'
                        /\ saved[1][s.page] = s.at => Recorded(s, saved[3])
                        /\ s.at >= started => s.at <= lastSwept'[s.page]
      BY <1>2, <1>3 DEF Swept, Recorded
    <2>1. CASE s \in shown
      <3>1. s.at \in Nat /\ s.page \in Pages /\ s.at <= wall
        BY <1>7, <2>1 DEF Shape, Shown, Time, Swept
      <3>2. /\ lastSwept[s.page] = s.at => Recorded(s, hits)
            /\ saved[1][s.page] = s.at => Recorded(s, saved[3])
            /\ s.at >= started => s.at <= lastSwept[s.page]
        BY <1>2, <1>7, <2>1 DEF Swept, Waiting
      <3>3. CASE s.page = Page /\ grid # {}
        <4>1. lastSwept'[s.page] = now
          BY <1>14, <3>3
        <4>2. lastSwept[s.page] \in Int /\ lastSwept[s.page] <= wall
          BY <1>12, <3>1
        <4>3. s.at = now => lastSwept[s.page] = s.at
          BY <1>3, <1>13, <3>1, <3>2, <4>2
        <4> QED BY <1>3, <1>13, <3>1, <3>2, <4>1, <4>3
      <3>4. CASE ~(s.page = Page /\ grid # {})
        <4>1. lastSwept'[s.page] = lastSwept[s.page]
          BY <1>14, <3>1, <3>4
        <4> QED BY <1>3, <3>1, <3>2, <4>1
      <3> QED BY <3>3, <3>4
    <2>2. CASE s \notin shown
      <3>1. s.page = Page /\ s.at = now /\ grid # {} /\ \E row \in grid : s.url = row.url
        BY <1>15, <2>2
      <3>2. lastSwept'[s.page] = now
        BY <1>14, <3>1
      <3>3. Waiting(s)'
        BY <1>1, <1>2, <1>5, <1>15, <3>1 DEF Waiting
      <3>4. saved[1][Page] < started /\ saved[1][Page] \in Int
        BY <1>2, <1>4, <1>7 DEF Later, IInv, Good, Typed, Time, Never, None
      <3>5. saved[1][s.page] # s.at
        BY <1>3, <1>13, <3>1, <3>4
      <3> QED BY <1>13, <3>1, <3>2, <3>3, <3>5
    <2> QED BY <2>1, <2>2
  <1> QED BY <1>8, <1>9, <1>11, <1>16, <1>17, <1>18, <1>19 DEF IInv

-----------------------------------------------------------------------------
(* The rows of a grid.                                                      *)

(* A row that is undone is one no page has shown.                           *)
LEMMA SkipRowIInv == IInv /\ SkipRow => IInv'
  <1> SUFFICES ASSUME IInv, SkipRow PROVE IInv'
    OBVIOUS
  <1>1. PICK row \in rows :
          /\ rows' = rows \ {row}
          /\ shown' = shown \ {[page |-> Page, at |-> at, url |-> row.url]}
    BY DEF SkipRow
  <1>2. /\ phase = "rows"
        /\ UNCHANGED <<lastSwept, tracked, hits, tasks, saved, wall, started, clock, ticks, phase,
                       turn, due, fetched, at, ingested, leased>>
    BY DEF SkipRow, tables, time
  <1>3. Shape /\ Place /\ Current /\ Swept /\ Later
    BY DEF IInv
  <1>4. Page' = Page /\ Retailer' = Retailer
    BY <1>2 DEF Page, First, Retailer
  <1>5. Shape'
    BY <1>1, <1>2, <1>3 DEF Shape
  <1>6. Place' /\ Current' /\ Later'
    BY <1>1, <1>2, <1>3, <1>4 DEF Place, Current, Later
  <1>7. Swept'
    <2> SUFFICES ASSUME NEW s \in shown'
                 PROVE  /\ s.at <= wall
                        /\ lastSwept[s.page] = s.at => Recorded(s, hits) \/ Waiting(s)'
                        /\ saved[1][s.page] = s.at => Recorded(s, saved[3])
                        /\ s.at >= started => s.at <= lastSwept[s.page]
      BY <1>2 DEF Swept, Recorded
    <2>1. s \in shown /\ s # [page |-> Page, at |-> at, url |-> row.url]
      BY <1>1
    <2>2. s = [page |-> s.page, at |-> s.at, url |-> s.url]
      BY <1>3, <2>1 DEF Shape, Shown
    <2>3. Waiting(s) => Waiting(s)'
      BY <1>1, <1>2, <1>4, <2>1, <2>2 DEF Waiting
    <2> QED BY <1>2, <1>3, <2>1, <2>3 DEF Swept
  <1>8. /\ Good(lastSwept, tracked, hits, tasks, wall)'
        /\ Good(saved[1], saved[2], saved[3], saved[4], wall)'
    BY <1>2 DEF IInv
  <1> QED BY <1>5, <1>6, <1>7, <1>8 DEF IInv

(* One more URL of a retailer below its cap.                                *)
LEMMA OneMore ==
    ASSUME NEW tr \in [Urls -> Time \union {None}], NEW r \in Retailers, NEW u \in Urls,
           NEW x \in Time, Capped(tr), RetailerOf(u) = r,
           Cap[r] = None \/ ~(Cardinality(TrackedOf(tr, r)) >= Cap[r])
    PROVE  /\ Capped([tr EXCEPT ![u] = x])
           /\ \A s : Full(tr, s) => Full([tr EXCEPT ![u] = x], s)
  <1> DEFINE new == [tr EXCEPT ![u] = x]
  <1>1. \A v \in Urls : new[v] = IF v = u THEN x ELSE tr[v]
    OBVIOUS
  <1>2. x # None
    BY DEF Time, None
  <1> HIDE DEF new
  <1>3. TrackedOf(new, r) = TrackedOf(tr, r) \union {u}
    BY <1>1, <1>2 DEF TrackedOf
  <1>4. \A s : s # r => TrackedOf(new, s) = TrackedOf(tr, s)
    BY <1>1 DEF TrackedOf
  <1>5. IsFiniteSet(TrackedOf(tr, r))
    BY DEF Capped
  <1>6. Cap[r] \in Nat \union {None}
    BY DiscoveryAssumption
  <1> DEFINE n == Cardinality(TrackedOf(tr, r))
             m == Cardinality(TrackedOf(new, r))
  <1>7. n \in Nat
    BY <1>5, FS_CardinalityType
  <1>8. IsFiniteSet(TrackedOf(new, r)) /\ (m = n \/ m = n + 1)
    <2>1. /\ IsFiniteSet(TrackedOf(tr, r) \union {u})
          /\ Cardinality(TrackedOf(tr, r) \union {u}) =
                IF u \in TrackedOf(tr, r) THEN Cardinality(TrackedOf(tr, r))
                ELSE Cardinality(TrackedOf(tr, r)) + 1
      BY <1>5, FS_AddElement
    <2> QED BY <1>3, <2>1
  <1>9. Cap[r] = None \/ ~(n >= Cap[r])
    OBVIOUS
  <1> HIDE DEF n, m
  <1>10. Cap[r] # None => m <= Cap[r]
    BY <1>6, <1>7, <1>8, <1>9
  <1>11. Capped(new)
    <2> SUFFICES ASSUME NEW s \in Retailers
                 PROVE  /\ IsFiniteSet(TrackedOf(new, s))
                        /\ Cap[s] # None => Cardinality(TrackedOf(new, s)) <= Cap[s]
      BY DEF Capped
    <2>1. CASE s = r
      BY <1>8, <1>10, <2>1 DEF m
    <2>2. CASE s # r
      <3>1. TrackedOf(new, s) = TrackedOf(tr, s)
        BY <1>4, <2>2
      <3> QED BY <3>1 DEF Capped
    <2> QED BY <2>1, <2>2
  <1>12. \A s : Full(tr, s) => Full(new, s)
    <2> SUFFICES ASSUME NEW s, Full(tr, s) PROVE Full(new, s)
      OBVIOUS
    <2>1. s # r
      BY <1>9 DEF Full, n
    <2> QED BY <1>4, <2>1 DEF Full
  <1> QED BY <1>11, <1>12 DEF new

(* A row that is kept as a hit and not enrolled.                            *)
LEMMA HitAlone ==
    ASSUME NEW sw, NEW tr, NEW hs, NEW ts, NEW now \in Time, Good(sw, tr, hs, ts, now),
           NEW h \in HitRow, ~h.linked, h.at <= now,
           h.url \in Unsafe \/ Full(tr, RetailerOf(h.url))
    PROVE  Good(sw, tr, hs \union {h}, ts, now)
  <1> DEFINE new == hs \union {h}
  <1>1. \A u \in Urls : Sighted(new, u) = Sighted(hs, u)
    BY DEF Sighted
  <1>2. \A g \in new : g \in hs \/ g = h
    OBVIOUS
  <1>3. hs \subseteq new
    OBVIOUS
  <1> HIDE DEF new
  <1>4. Typed(sw, tr, new, ts)
    BY <1>2 DEF Good, Typed
  <1>5. Past(sw, new, now)
    BY <1>2 DEF Good, Past
  <1>6. Expires(tr, new)
    BY <1>1 DEF Good, Expires
  <1>7. Planned(new, ts)
    BY <1>2, <1>3 DEF Good, Planned, Told
  <1>8. LeftOut(tr, new)
    BY <1>2 DEF Good, LeftOut
  <1>9. Good(sw, tr, new, ts, now)
    BY <1>4, <1>5, <1>6, <1>7, <1>8 DEF Good
  <1> QED BY <1>9 DEF new

(* A task appended to others, if need be.                                   *)
LEMMA MayAppend ==
    ASSUME NEW ts \in Seq(Task), NEW t \in Task, NEW new, new \in {ts, Append(ts, t)}
    PROVE  /\ new \in Seq(Task) /\ DOMAIN ts \subseteq DOMAIN new
           /\ \A i \in DOMAIN ts : new[i] = ts[i]
           /\ \A i \in DOMAIN new \ DOMAIN ts : new[i] = t /\ i = Len(ts) + 1
           /\ new # ts => \E i \in DOMAIN new : new[i] = t
  <1>1. /\ Len(ts) \in Nat /\ DOMAIN ts = 1..Len(ts)
    BY LenProperties
  <1>2. CASE new = ts
    BY <1>2
  <1>3. CASE new = Append(ts, t)
    <2>1. /\ new \in Seq(Task) /\ Len(new) = Len(ts) + 1
          /\ \A i \in 1..Len(ts) : new[i] = ts[i]
          /\ new[Len(ts) + 1] = t
      BY <1>3, AppendProperties
    <2>2. DOMAIN new = 1..(Len(ts) + 1)
      BY <2>1, LenProperties
    <2>3. Len(ts) + 1 \in DOMAIN new
      BY <1>1, <2>2
    <2>4. \A i \in DOMAIN new \ DOMAIN ts : i = Len(ts) + 1
      BY <1>1, <2>2
    <2>5. DOMAIN ts \subseteq DOMAIN new
      BY <1>1, <2>2
    <2> QED BY <1>1, <2>1, <2>3, <2>4, <2>5
  <1> QED BY <1>2, <1>3

(* The hit h, the latest of all, puts off its URL's expiry, and has the      *)
(* task t queued for it if that is wanted and none is open.                 *)
Enrols(tr, hs, ts, now, h, t, then, new) ==
    /\ h \in HitRow /\ h.linked /\ h.at <= now /\ \A g \in hs : g.at <= h.at
    /\ then \in [Urls -> Time \union {None}] /\ Capped(then)
    /\ \A v \in Urls : then[v] = IF v = h.url THEN h.at + TTL ELSE tr[v]
    /\ t \in Task /\ t.url = h.url /\ new \in {ts, Append(ts, t)}
    /\ new # ts => \A i \in DOMAIN ts : ~(ts[i].url = t.url /\ ts[i].status = "QUEUED")
    /\ \A r : Full(tr, r) => Full(then, r)
    /\ ~h.whole /\ (h.deep \/ tr[h.url] = None) =>
          \E i \in DOMAIN new : new[i].url = h.url /\ new[i].status = "QUEUED"

(* A row that is enrolled, with a task if it wants one and has none.        *)
LEMMA EnrolledGood ==
    ASSUME NEW sw, NEW tr, NEW hs, NEW ts, NEW now \in Time, Good(sw, tr, hs, ts, now),
           NEW h, NEW t, NEW then, NEW new, Enrols(tr, hs, ts, now, h, t, then, new)
    PROVE  Good(sw, then, hs \union {h}, new, now)
  <1> USE DEF Enrols
  <1> DEFINE u == h.url
             hits2 == hs \union {h}
  <1>1. /\ ts \in Seq(Task) /\ tr \in [Urls -> Time \union {None}]
        /\ \A g \in hs : g \in HitRow /\ g.at \in Nat
        /\ u \in Urls /\ h.at \in Nat /\ h.at + TTL \in Nat /\ TTL \in Nat
    BY Constants DEF Good, Typed, HitRow, Time
  <1>2. \A v \in Urls : then[v] = IF v = u THEN h.at + TTL ELSE tr[v]
    OBVIOUS
  <1>3. /\ hs \subseteq hits2 /\ h \in hits2
        /\ \A g \in hits2 : g \in hs \/ g = h
    OBVIOUS
  <1>4. /\ \A v \in Urls : v # u => Sighted(hits2, v) = Sighted(hs, v)
        /\ Sighted(hits2, u) = Sighted(hs, u) \union {h}
    BY DEF Sighted
  <1>5. /\ new \in Seq(Task) /\ DOMAIN ts \subseteq DOMAIN new
        /\ \A i \in DOMAIN ts : new[i] = ts[i]
        /\ \A i \in DOMAIN new \ DOMAIN ts : new[i] = t /\ i = Len(ts) + 1
        /\ new # ts => \E i \in DOMAIN new : new[i] = t
    BY <1>1, MayAppend
  <1>6. h.at + TTL # None
    BY <1>1 DEF None
  <1> HIDE DEF hits2
  <1>8. Typed(sw, then, hits2, new)
    BY <1>2, <1>3, <1>5 DEF Good, Typed
  <1>9. Past(sw, hits2, now)
    BY <1>3 DEF Good, Past
  <1>10. Expires(then, hits2)
    <2> SUFFICES ASSUME NEW v \in Urls
                 PROVE  /\ then[v] = None <=> Sighted(hits2, v) = {}
                        /\ then[v] # None =>
                              /\ \E g \in Sighted(hits2, v) : then[v] = g.at + TTL
                              /\ \A g \in Sighted(hits2, v) : g.at + TTL <= then[v]
      BY DEF Expires
    <2>1. CASE v # u
      <3>1. then[v] = tr[v] /\ Sighted(hits2, v) = Sighted(hs, v)
        BY <1>2, <1>4, <2>1
      <3> QED BY <3>1 DEF Good, Expires
    <2>2. CASE v = u
      <3>1. then[v] = h.at + TTL /\ Sighted(hits2, v) = Sighted(hs, u) \union {h}
        BY <1>2, <1>4, <2>2
      <3>2. \A g \in Sighted(hs, u) : g.at \in Nat /\ g.at <= h.at
        BY <1>1 DEF Sighted
      <3>3. \A g \in Sighted(hits2, v) : g.at + TTL <= h.at + TTL
        BY <1>1, <3>1, <3>2
      <3>4. h \in Sighted(hits2, v)
        BY <3>1
      <3> QED BY <1>6, <3>1, <3>3, <3>4
    <2> QED BY <2>1, <2>2
  <1>11. OneOpen(new)
    <2> SUFFICES ASSUME NEW i \in DOMAIN new, NEW j \in DOMAIN new, new[i].url = new[j].url,
                        new[i].status = "QUEUED", new[j].status = "QUEUED"
                 PROVE  i = j
      BY DEF OneOpen
    <2>1. CASE new = ts
      BY <2>1 DEF Good, OneOpen
    <2>2. CASE new # ts
      <3>1. \A k \in DOMAIN ts : ~(ts[k].url = t.url /\ ts[k].status = "QUEUED")
        BY <2>2
      <3>2. CASE i \in DOMAIN ts /\ j \in DOMAIN ts
        BY <1>5, <3>2 DEF Good, OneOpen
      <3>3. CASE i \in DOMAIN ts /\ j \notin DOMAIN ts
        BY <1>5, <3>1, <3>3
      <3>4. CASE i \notin DOMAIN ts /\ j \in DOMAIN ts
        BY <1>5, <3>1, <3>4
      <3>5. CASE i \notin DOMAIN ts /\ j \notin DOMAIN ts
        BY <1>5, <3>5
      <3> QED BY <3>2, <3>3, <3>4, <3>5
    <2> QED BY <2>1, <2>2
  <1>12. Planned(hits2, new)
    <2> SUFFICES ASSUME NEW f \in hits2, f.linked, ~f.whole
                 PROVE  /\ f.deep => \E i \in DOMAIN new :
                              /\ new[i].url = f.url
                              /\ new[i].status = "QUEUED" \/ new[i].until >= f.at
                        /\ Told(hits2, f) \/ \E i \in DOMAIN new : new[i].url = f.url
      BY DEF Planned
    <2>1. \A g \in hs : Told(hs, g) => Told(hits2, g)
      BY <1>3 DEF Told
    <2>2. CASE f \in hs
      <3>1. /\ f.deep => \E i \in DOMAIN ts : /\ ts[i].url = f.url
                                              /\ ts[i].status = "QUEUED" \/ ts[i].until >= f.at
            /\ Told(hs, f) \/ \E i \in DOMAIN ts : ts[i].url = f.url
        BY <2>2 DEF Good, Planned
      <3> QED BY <1>5, <2>1, <2>2, <3>1
    <2>3. CASE f = h /\ (h.deep \/ tr[u] = None)
      <3>1. \E i \in DOMAIN new : new[i].url = h.url /\ new[i].status = "QUEUED"
        BY <2>3
      <3> QED BY <2>3, <3>1
    <2>4. CASE f = h /\ ~h.deep /\ tr[u] # None
      <3>1. PICK g \in Sighted(hs, u) : tr[u] = g.at + TTL
        BY <1>1, <2>4 DEF Good, Expires
      <3>2. g \in hs /\ g.url = h.url /\ g.linked /\ g.at <= h.at
        BY <3>1 DEF Sighted
      <3>3. CASE g.whole
        <4>1. Told(hits2, f)
          BY <1>3, <2>4, <3>2, <3>3 DEF Told
        <4> QED BY <2>4, <4>1
      <3>4. CASE ~g.whole
        <4>1. Told(hs, g) \/ \E i \in DOMAIN ts : ts[i].url = g.url
          BY <3>2, <3>4 DEF Good, Planned
        <4>2. \A e \in hs : e.at <= g.at => e.at <= h.at
          BY <1>1, <3>2
        <4>3. Told(hs, g) => Told(hits2, h)
          BY <1>3, <3>2, <4>2 DEF Told
        <4> QED BY <1>5, <2>4, <3>2, <4>1, <4>3
      <3> QED BY <3>3, <3>4
    <2> QED BY <1>3, <2>2, <2>3, <2>4
  <1>13. LeftOut(then, hits2)
    BY <1>3 DEF Good, LeftOut
  <1>14. Good(sw, then, hits2, new, now)
    BY <1>8, <1>9, <1>10, <1>11, <1>12, <1>13 DEF Good
  <1> QED BY <1>14 DEF hits2

(* A row of the grid is enrolled, or only kept.                             *)
LEMMA EnrollIInv == IInv /\ Enroll => IInv'
  <1> SUFFICES ASSUME IInv, Enroll PROVE IInv'
    OBVIOUS
  <1>1. PICK row \in rows :
          /\ rows' = rows \ {row}
          /\ IF row.url \in Unsafe \/ AtCap(Retailer)
             THEN /\ hits' = hits \union {Hit(row, FALSE)}
                  /\ UNCHANGED <<tracked, tasks>>
             ELSE /\ hits' = hits \union {Hit(row, TRUE)}
                  /\ tracked' = [tracked EXCEPT ![row.url] = Expiry(row.url)]
                  /\ tasks' = IF WantsTask(row) /\ ~HasOpenTask(row.url)
                              THEN Append(tasks, EnrollTask(row)) ELSE tasks
    BY DEF Enroll
  <1>2. /\ phase = "rows"
        /\ UNCHANGED <<lastSwept, saved, wall, started, clock, ticks, phase, turn, due, fetched,
                       at, ingested, leased, shown>>
    BY DEF Enroll, time
  <1>3. Shape /\ Place /\ Current /\ Swept /\ Later
    BY DEF IInv
  <1>4. /\ wall \in Time /\ at \in Nat /\ at <= wall /\ \A h \in hits : h.at <= at
    BY <1>2, <1>3 DEF Shape, Current, Time
  <1>5. due # {} /\ row \in UNION Grids[Page]
    BY <1>2, <1>3 DEF Place
  <1>6. /\ Retailer \in Retailers /\ First \in DOMAIN PagesOf[Retailer] /\ Page \in Pages
        /\ Page = PagesOf[Retailer][First]
    BY <1>2, <1>5, PageAtHand DEF Page
  <1>7. row \in Row /\ row.url \in Urls /\ RetailerOf(row.url) = Retailer
    BY <1>5, <1>6, RowsOfPage
  <1>8. Page' = Page /\ Retailer' = Retailer
    BY <1>2 DEF Page, First, Retailer
  <1>9. /\ Hit(row, FALSE) \in HitRow /\ Hit(row, TRUE) \in HitRow
        /\ EnrollTask(row) \in Task
    <2>1. FastTrack(row.face) \in BOOLEAN /\ (row.url \in ingested) \in BOOLEAN
      BY DEF FastTrack
    <2>2. Hit(row, FALSE) \in HitRow /\ Hit(row, TRUE) \in HitRow
      BY <1>4, <1>6, <1>7, <2>1 DEF Hit, HitRow, Time
    <2>3. EnrollTask(row) \in Task
      BY <1>4, <1>7 DEF EnrollTask, Task, Statuses, Time
    <2> QED BY <2>2, <2>3
  <1>10. Good(lastSwept, tracked, hits, tasks, wall)
    BY DEF IInv
  <1>11. Shape'
    BY <1>1, <1>2, <1>3 DEF Shape
  <1>12. PICK h : /\ h \in HitRow /\ h.page = Page /\ h.at = at /\ h.url = row.url
                  /\ hits' = hits \union {h}
    BY <1>1, <1>9 DEF Hit
  <1>13. Place'
    BY <1>1, <1>2, <1>3, <1>8 DEF Place
  <1>14. Current'
    BY <1>2, <1>3, <1>4, <1>12 DEF Current
  <1>15. Later'
    BY <1>2, <1>3 DEF Later
  <1>16. Swept'
    <2> SUFFICES ASSUME NEW s \in shown
                 PROVE  /\ s.at <= wall
                        /\ lastSwept[s.page] = s.at => Recorded(s, hits') \/ Waiting(s)'
                        /\ saved[1][s.page] = s.at => Recorded(s, saved[3])
                        /\ s.at >= started => s.at <= lastSwept[s.page]
      BY <1>2 DEF Swept, Recorded
    <2>1. Recorded(s, hits) => Recorded(s, hits')
      BY <1>12 DEF Recorded
    <2>2. ASSUME Waiting(s) PROVE Waiting(s)' \/ Recorded(s, hits')
      <3>1. PICK r \in rows : r.url = s.url
        BY <2>2 DEF Waiting
      <3>2. CASE r = row
        BY <1>12, <2>2, <3>1, <3>2 DEF Waiting, Recorded
      <3>3. CASE r # row
        BY <1>1, <1>2, <1>8, <2>2, <3>1, <3>3 DEF Waiting
      <3> QED BY <3>2, <3>3
    <2> QED BY <1>2, <1>3, <2>1, <2>2 DEF Swept
  <1>17. Good(lastSwept, tracked', hits', tasks', wall)
    <2>1. CASE row.url \in Unsafe \/ AtCap(Retailer)
      <3>1. hits' = hits \union {Hit(row, FALSE)} /\ UNCHANGED <<tracked, tasks>>
        BY <1>1, <2>1
      <3>2. /\ ~Hit(row, FALSE).linked /\ Hit(row, FALSE).at <= wall
            /\ Hit(row, FALSE).url = row.url
        BY <1>4 DEF Hit
      <3>3. row.url \in Unsafe \/ Full(tracked, RetailerOf(row.url))
        BY <1>7, <2>1 DEF AtCap, Tracked, Full, TrackedOf
      <3> QED BY <1>4, <1>9, <1>10, <3>1, <3>2, <3>3, HitAlone
    <2>2. CASE ~(row.url \in Unsafe \/ AtCap(Retailer))
      <3> DEFINE hit == Hit(row, TRUE)
                 t == EnrollTask(row)
      <3>1. /\ hits' = hits \union {hit}
            /\ tracked' = [tracked EXCEPT ![hit.url] = hit.at + TTL]
            /\ tasks' = IF WantsTask(row) /\ ~HasOpenTask(row.url)
                        THEN Append(tasks, t) ELSE tasks
        BY <1>1, <2>2 DEF Hit, Expiry
      <3>2. /\ hit \in HitRow /\ hit.linked /\ hit.at = at /\ hit.url = row.url
            /\ hit.deep = FastTrack(row.face) /\ hit.whole = (row.url \in ingested)
        BY <1>9 DEF Hit
      <3>3. t \in Task /\ t.url = row.url /\ t.status = "QUEUED"
        BY <1>9 DEF EnrollTask
      <3> HIDE DEF hit, t
      <3>4. tracked \in [Urls -> Time \union {None}] /\ tasks \in Seq(Task) /\ Capped(tracked)
        BY <1>10 DEF Good, Typed
      <3>5. at + TTL \in Time
        BY <1>4, Constants DEF Time
      <3>6. /\ Capped([tracked EXCEPT ![hit.url] = hit.at + TTL])
            /\ \A r : Full(tracked, r) => Full([tracked EXCEPT ![hit.url] = hit.at + TTL], r)
        <4>1. Cap[Retailer] = None
              \/ ~(Cardinality(TrackedOf(tracked, Retailer)) >= Cap[Retailer])
          BY <2>2 DEF AtCap, Tracked, TrackedOf
        <4> QED BY <1>6, <1>7, <3>2, <3>4, <3>5, <4>1, OneMore
      <3>7. tasks' \in {tasks, Append(tasks, t)}
        BY <3>1
      <3>8. tasks' # tasks =>
              \A i \in DOMAIN tasks : ~(tasks[i].url = t.url /\ tasks[i].status = "QUEUED")
        BY <3>1, <3>3 DEF HasOpenTask
      <3>9. /\ tasks' \in Seq(Task) /\ DOMAIN tasks \subseteq DOMAIN tasks'
            /\ \A i \in DOMAIN tasks : tasks'[i] = tasks[i]
            /\ tasks' # tasks => \E i \in DOMAIN tasks' : tasks'[i] = t
        BY <3>3, <3>4, <3>7, MayAppend
      <3>10. Append(tasks, t) # tasks
        BY <3>3, <3>4, AppendProperties, LenProperties
      <3>11. ~hit.whole /\ (hit.deep \/ tracked[hit.url] = None) =>
               \E i \in DOMAIN tasks' : tasks'[i].url = hit.url /\ tasks'[i].status = "QUEUED"
        <4> SUFFICES ASSUME row.url \notin ingested,
                            FastTrack(row.face) \/ tracked[row.url] = None
                     PROVE  \E i \in DOMAIN tasks' :
                               tasks'[i].url = row.url /\ tasks'[i].status = "QUEUED"
          BY <3>2
        <4>1. WantsTask(row)
          BY DEF WantsTask
        <4>2. CASE HasOpenTask(row.url)
          BY <3>9, <4>2 DEF HasOpenTask
        <4>3. CASE ~HasOpenTask(row.url)
          <5>1. tasks' # tasks
            BY <3>1, <3>10, <4>1, <4>3
          <5> QED BY <3>3, <3>9, <5>1
        <4> QED BY <4>2, <4>3
      <3>12. hit.at <= wall /\ \A g \in hits : g.at <= hit.at
        BY <1>4, <3>2
      <3>13. t.url = hit.url
        BY <3>2, <3>3
      <3>14. /\ tracked' \in [Urls -> Time \union {None}]
             /\ \A v \in Urls : tracked'[v] = IF v = hit.url THEN hit.at + TTL ELSE tracked[v]
        BY <3>1, <3>2, <3>4, <3>5
      <3>15. Capped(tracked') /\ \A r : Full(tracked, r) => Full(tracked', r)
        BY <3>1, <3>6
      <3>16. Enrols(tracked, hits, tasks, wall, hit, t, tracked', tasks')
        BY <3>2, <3>3, <3>7, <3>8, <3>11, <3>12, <3>13, <3>14, <3>15 DEF Enrols
      <3>17. Good(lastSwept, tracked', hits \union {hit}, tasks', wall)
        BY <1>4, <1>10, <3>16, EnrolledGood
      <3> QED BY <3>1, <3>17
    <2> QED BY <2>1, <2>2
  <1>18. /\ Good(lastSwept, tracked, hits, tasks, wall)'
         /\ Good(saved[1], saved[2], saved[3], saved[4], wall)'
    BY <1>2, <1>17 DEF IInv
  <1> QED BY <1>11, <1>13, <1>14, <1>15, <1>16, <1>18 DEF IInv

-----------------------------------------------------------------------------
(* The queue.                                                               *)

(* A task that leaves the queue now.                                        *)
LEMMA CloseGood ==
    ASSUME NEW sw, NEW tr, NEW hs, NEW ts, NEW now \in Time, Good(sw, tr, hs, ts, now),
           NEW i \in DOMAIN ts, NEW status \in Statuses, status # "QUEUED"
    PROVE  Good(sw, tr, hs, [ts EXCEPT ![i].status = status, ![i].until = now], now)
  <1> DEFINE new == [ts EXCEPT ![i].status = status, ![i].until = now]
             closed == [ts[i] EXCEPT !.status = status, !.until = now]
  <1>1. ts \in Seq(Task)
    BY DEF Good, Typed
  <1>2. Len(ts) \in Nat /\ DOMAIN ts = 1..Len(ts)
    BY <1>1, LenProperties
  <1>3. ts[i] \in Task
    BY <1>1, <1>2, ElementOfSeq
  <1>4. closed \in Task /\ closed.url = ts[i].url /\ closed.status = status /\ closed.until = now
    BY <1>3 DEF Task
  <1>5. new = [ts EXCEPT ![i] = closed]
    BY <1>3 DEF Task
  <1> HIDE DEF new, closed
  <1>6. new \in Seq(Task)
    BY <1>1, <1>2, <1>4, <1>5, ExceptSeq
  <1>7. /\ DOMAIN new = DOMAIN ts /\ new[i] = closed
        /\ \A j \in DOMAIN ts : j # i => new[j] = ts[j]
    BY <1>5
  <1>8. OneOpen(new)
    <2> SUFFICES ASSUME NEW j \in DOMAIN ts, NEW k \in DOMAIN ts, new[j].url = new[k].url,
                        new[j].status = "QUEUED", new[k].status = "QUEUED"
                 PROVE  j = k
      BY <1>7 DEF OneOpen
    <2>1. j # i /\ k # i
      BY <1>4, <1>7
    <2>2. ts[j].url = ts[k].url /\ ts[j].status = "QUEUED" /\ ts[k].status = "QUEUED"
      BY <1>7, <2>1
    <2> QED BY <2>2 DEF Good, OneOpen
  <1>9. Planned(hs, new)
    <2> SUFFICES ASSUME NEW h \in hs, h.linked, ~h.whole
                 PROVE  /\ h.deep => \E j \in DOMAIN new :
                              /\ new[j].url = h.url
                              /\ new[j].status = "QUEUED" \/ new[j].until >= h.at
                        /\ Told(hs, h) \/ \E j \in DOMAIN new : new[j].url = h.url
      BY DEF Planned
    <2>1. /\ h.deep => \E j \in DOMAIN ts : /\ ts[j].url = h.url
                                            /\ ts[j].status = "QUEUED" \/ ts[j].until >= h.at
          /\ Told(hs, h) \/ \E j \in DOMAIN ts : ts[j].url = h.url
      BY DEF Good, Planned
    <2>2. \A j \in DOMAIN ts : new[j].url = ts[j].url
      BY <1>4, <1>7
    <2>3. h.at \in Nat /\ h.at <= now /\ now \in Nat
      BY DEF Good, Typed, Past, HitRow, Time
    <2>4. closed.until >= h.at
      BY <1>4, <2>3
    <2>5. ASSUME h.deep
          PROVE  \E j \in DOMAIN new : /\ new[j].url = h.url
                                       /\ new[j].status = "QUEUED" \/ new[j].until >= h.at
      <3>1. PICK j \in DOMAIN ts : /\ ts[j].url = h.url
                                   /\ ts[j].status = "QUEUED" \/ ts[j].until >= h.at
        BY <2>1, <2>5
      <3>2. CASE j = i
        BY <1>4, <1>7, <2>4, <3>1, <3>2
      <3>3. CASE j # i
        BY <1>7, <3>1, <3>3
      <3> QED BY <3>2, <3>3
    <2>6. Told(hs, h) \/ \E j \in DOMAIN new : new[j].url = h.url
      BY <1>7, <2>1, <2>2
    <2> QED BY <2>5, <2>6
  <1>10. Good(sw, tr, hs, new, now)
    BY <1>6, <1>8, <1>9 DEF Good, Typed
  <1> QED BY <1>10 DEF new

(* A task is skipped, or fetched for.                                       *)
LEMMA DrainIInv == IInv /\ (SkipTask \/ FetchTask) => IInv'
  <1> SUFFICES ASSUME IInv, SkipTask \/ FetchTask PROVE IInv'
    OBVIOUS
  <1>1. /\ phase = "drain" /\ leased < MaxTasks /\ leased' = leased + 1
        /\ \E i \in Ready, status \in {"SKIPPED", "FETCHED"} : Chosen(i) /\ Close(i, status)
        /\ UNCHANGED <<lastSwept, tracked, hits, saved, ticks, phase, turn, due, fetched, rows,
                       at, ingested, shown>>
    BY DEF SkipTask, FetchTask
  <1>2. Shape /\ Place
    BY DEF IInv
  <1>3. /\ wall \in Time /\ wall' \in Time /\ wall <= wall' /\ started' = started
        /\ clock' \in started'..wall'
    <2>1. CASE SkipTask
      BY <1>2, <2>1 DEF SkipTask, time, Shape, Time
    <2>2. CASE FetchTask
      <3>1. PICK l \in Latency, d \in Delay : Spend(l, d)
        BY <2>2 DEF FetchTask
      <3>2. wall \in Nat /\ wall' \in Nat /\ wall + l \in Nat /\ wall <= wall + l
            /\ wall + l <= wall' /\ started' = started /\ clock' \in started'..wall'
        BY <3>1, SpendMoves
      <3>3. wall <= wall'
        BY <3>2
      <3> QED BY <3>2, <3>3 DEF Time
    <2> QED BY <2>1, <2>2
  <1>4. leased' \in 0..MaxTasks
    BY <1>1, <1>2, Constants DEF Shape
  <1>5. Shape'
    BY <1>1, <1>2, <1>3, <1>4 DEF Shape, Time
  <1>6. Place' /\ Current'
    BY <1>1, <1>2 DEF Place, Current, Retailer
  <1>7. Swept' /\ Later'
    BY <1>1, <1>3, SweptKeeps DEF Waiting
  <1>8. Good(lastSwept, tracked, hits, tasks, wall)'
    <2>1. PICK i \in DOMAIN tasks, status \in {"SKIPPED", "FETCHED"} :
             tasks' = [tasks EXCEPT ![i].status = status, ![i].until = wall]
      BY <1>1 DEF Ready, Queued, Close
    <2>2. status \in Statuses /\ status # "QUEUED"
      BY DEF Statuses
    <2>3. Good(lastSwept, tracked, hits, tasks, wall)
      BY DEF IInv
    <2>4. Good(lastSwept, tracked, hits, tasks', wall)
      BY <1>3, <2>1, <2>2, <2>3, CloseGood
    <2>5. Good(lastSwept, tracked, hits, tasks', wall')
      BY <1>3, <2>4, GoodLater
    <2> QED BY <1>1, <2>5
  <1>9. Good(saved[1], saved[2], saved[3], saved[4], wall)'
    <2>1. Good(saved[1], saved[2], saved[3], saved[4], wall')
      BY <1>3, GoodLater DEF IInv
    <2> QED BY <1>1, <2>1
  <1> QED BY <1>5, <1>6, <1>7, <1>8, <1>9 DEF IInv

-----------------------------------------------------------------------------

(* Every step keeps the invariant.                                          *)
LEMMA NextIInv == IInv /\ [Next]_vars => IInv'
  <1> SUFFICES ASSUME IInv, [Next]_vars PROVE IInv'
    OBVIOUS
  <1>1. CASE StartTick
    BY <1>1, StartTickIInv
  <1>2. CASE BeginRetailer \/ SkipRetailer \/ BeginDrain \/ EndDrain
    BY <1>2, LoopIInv
  <1>3. CASE EndTick
    BY <1>3, EndTickIInv
  <1>4. CASE GiveUp
    BY <1>4, GiveUpIInv
  <1>5. CASE Sweep
    BY <1>5, SweepIInv
  <1>6. CASE NextGrid
    BY <1>6, NextGridIInv
  <1>7. CASE Enroll
    BY <1>7, EnrollIInv
  <1>8. CASE SkipRow
    BY <1>8, SkipRowIInv
  <1>9. CASE SkipTask \/ FetchTask
    BY <1>9, DrainIInv
  <1>10. CASE Crash
    BY <1>10, CrashIInv
  <1>11. CASE UNCHANGED vars
    <2>1. UNCHANGED <<lastSwept, tracked, hits, tasks, saved, wall, started, clock, ticks, phase,
                      turn, due, fetched, rows, at, ingested, leased, shown>>
      BY <1>11 DEF vars, tables, time, loop
    <2>2. /\ Shape' /\ Place' /\ Current' /\ Later'
      BY <2>1 DEF IInv, Shape, Place, Current, Later, Page, First, Retailer
    <2>3. Swept'
      BY <2>1 DEF IInv, Swept, Recorded, Waiting, Page, First, Retailer
    <2>4. /\ Good(lastSwept, tracked, hits, tasks, wall)'
          /\ Good(saved[1], saved[2], saved[3], saved[4], wall)'
      BY <2>1 DEF IInv
    <2> QED BY <2>2, <2>3, <2>4 DEF IInv
  <1> QED BY <1>1, <1>2, <1>3, <1>4, <1>5, <1>6, <1>7, <1>8, <1>9, <1>10, <1>11 DEF Next, Work

(* The invariant holds throughout.                                          *)
LEMMA Invariance == Spec => []IInv
  <1> QED BY InitIInv, NextIInv, PTL DEF Spec

(* Whatever the grids show and wherever a tick dies, the tables and the     *)
(* tick's own state hold what they may.                                     *)
THEOREM DiscoveryTypeCorrect == Spec => []TypeOK
  <1>1. IInv => TypeOK
    <2> SUFFICES ASSUME IInv PROVE TypeOK
      OBVIOUS
    <2>1. Shape /\ Place
      BY DEF IInv
    <2>2. Typed(lastSwept, tracked, hits, tasks)
      BY DEF IInv, Good
    <2> QED BY <2>1, <2>2 DEF Shape, Place, Typed, Time, Task, HitRow, TypeOK
  <1> QED BY <1>1, Invariance, PTL

(* No order of grids, retailers and crashes lets enroll_discovery_page take *)
(* a retailer over its tracked_url_cap.                                     *)
THEOREM CapIsKept == Spec => []CapHolds
  <1>1. IInv => CapHolds
    BY DEF IInv, Good, Capped, CapHolds, Tracked, TrackedOf
  <1> QED BY <1>1, Invariance, PTL

(* expires_at is 120 days after the last hit that was linked, of whichever  *)
(* page, and a URL with no such hit has no row; a hit of a safe URL is not  *)
(* linked only if its retailer is at its cap, and is so from then on.       *)
THEOREM ExpiryFollowsSightings == Spec => []ExpiryIsAccountedFor
  <1>1. ASSUME IInv, NEW u \in Urls
        PROVE  LET sightings == {h.at : h \in {h \in hits : h.url = u /\ h.linked}}
               IN  /\ tracked[u] = None <=> sightings = {}
                   /\ tracked[u] # None => /\ tracked[u] - TTL \in sightings
                                           /\ \A s \in sightings : s <= tracked[u] - TTL
    <2> DEFINE seen == Sighted(hits, u)
               sightings == {h.at : h \in seen}
    <2>1. \A h \in seen : h.at \in Nat
      BY <1>1 DEF IInv, Good, Typed, HitRow, Time, Sighted
    <2>2. TTL \in Nat /\ tracked[u] \in Int
      BY <1>1, Constants DEF IInv, Good, Typed, Time, None
    <2>3. /\ tracked[u] = None <=> seen = {}
          /\ tracked[u] # None => /\ \E h \in seen : tracked[u] = h.at + TTL
                                  /\ \A h \in seen : h.at + TTL <= tracked[u]
      BY <1>1 DEF IInv, Good, Expires
    <2> HIDE DEF seen
    <2>4. tracked[u] = None <=> sightings = {}
      BY <2>3
    <2>5. ASSUME tracked[u] # None PROVE tracked[u] - TTL \in sightings
      <3>1. PICK h \in seen : tracked[u] = h.at + TTL
        BY <2>3, <2>5
      <3>2. tracked[u] - TTL = h.at
        BY <2>1, <2>2, <3>1
      <3> QED BY <3>1, <3>2
    <2>6. ASSUME tracked[u] # None, NEW s \in sightings PROVE s <= tracked[u] - TTL
      <3>1. PICK h \in seen : s = h.at
        BY <2>6
      <3>2. h.at + TTL <= tracked[u] /\ h.at \in Nat
        BY <2>1, <2>3, <2>6, <3>1
      <3> QED BY <2>2, <3>1, <3>2
    <2>7. sightings = {h.at : h \in {h \in hits : h.url = u /\ h.linked}}
      BY DEF seen, Sighted
    <2> HIDE DEF sightings
    <2> QED BY <2>4, <2>5, <2>6, <2>7
  <1>2. ASSUME IInv, NEW h \in hits, ~h.linked
        PROVE  h.url \in Unsafe \/ AtCap(RetailerOf(h.url))
    BY <1>2 DEF IInv, Good, LeftOut, Full, AtCap, Tracked, TrackedOf
  <1>3. IInv => ExpiryIsAccountedFor
    BY <1>1, <1>2 DEF ExpiryIsAccountedFor
  <1> QED BY <1>3, Invariance, PTL

(* The dedupe key of _enqueue_enroll_task finds the open task of a URL      *)
(* every time: there is one in the queue at most.                           *)
THEOREM TasksAreNotDoubled == Spec => []OneOpenTaskPerUrl
  <1>1. IInv => OneOpenTaskPerUrl
    BY DEF IInv, Good, OneOpen, OneOpenTaskPerUrl
  <1> QED BY <1>1, Invariance, PTL

(* A sighting of a deep discount finds a task still queued or queues one,   *)
(* and a URL no grid told all about has had a task: no skip, fetch or       *)
(* rollback parts the sighting from it.                                     *)
THEOREM SightingsHaveTasks == Spec => []SightingsArePlanned
  <1>1. IInv => SightingsArePlanned
    BY DEF IInv, Good, Planned, Told, SightingsArePlanned
  <1> QED BY <1>1, Invariance, PTL

(* last_swept_at is never the time of a sweep whose rows were lost.         *)
THEOREM SweepsAreRecorded == Spec => []SweptIsRecorded
  <1>1. IInv => SweptIsRecorded
    BY DEF IInv, Swept, Recorded, Waiting, SweptIsRecorded
  <1> QED BY <1>1, Invariance, PTL
=============================================================================
