------------------------------- MODULE Export -------------------------------
(***************************************************************************)
(* The feed export (fpt/export/runner.py, fpt/export/storage.py) beside a  *)
(* tick that commits to the same database, and a reader of the feed.       *)
(*                                                                         *)
(* Every query sees what was committed when it began (READ COMMITTED), so  *)
(* one export is made of several states of the database.  A write to the   *)
(* storage replaces one file; nothing makes several writes one.  An export *)
(* may die between any two steps.  Exports do not overlap (the workflow's  *)
(* concurrency group); the database survives them unchanged.               *)
(***************************************************************************)
EXTENDS ExportRules, FiniteSets

CONSTANTS
    Deals,          \* rows of deals
    Product,        \* the product slug of each
    RowSet,         \* what a row may hold
    Cents,          \* the amounts of money there are
    HealthSet,      \* what is known of the one retailer: lastOk, breaker, ...
    Now,            \* the hour the exports run in
    MaxExports,     \* bound: exports started
    MaxCommits      \* bound: commits of the tick

ASSUME ExportAssumption ==
    /\ RowSet \subseteq DealRow(Cents) /\ DOMAIN Product = Deals
    /\ \A d \in Deals : Product[d] \notin {"meta", "deals"}
    /\ Cents \subseteq Nat /\ Now \in Nat /\ MaxExports \in Nat /\ MaxCommits \in Nat

Slugs == {Product[d] : d \in Deals}
Names == {"meta", "deals"} \union Slugs     \* of the files of a feed

VARIABLES
    rows,       \* the deals table
    health,     \* the retailer's row
    commits,    \* of the tick
    pc,         \* of the running export
    gen,        \* its number; export ids are taken to be distinct
    flags,      \* --force, --dry-run
    feed,       \* what it has built: cards and counts by generation
    stale,      \* it found its retailers stale
    todo,       \* files still to be written in this step
    versioned,  \* exports/<id>/: the files there, by generation
    latest,     \* latest/: the generation of each file, 0 if absent
    seen        \* by the reader: the generation of each file it has read

database == <<rows, health, commits>>
export == <<pc, gen, flags, feed, stale, todo>>
storage == <<versioned, latest>>
vars == <<database, export, storage, seen>>

Generations == 1..MaxExports
Unread == -1

Init ==
    /\ rows \in [Deals -> RowSet] /\ health \in HealthSet /\ commits = 0
    /\ pc = "idle" /\ gen = 0 /\ flags = [force |-> FALSE, dry |-> FALSE]
    /\ feed = [g \in Generations |-> << >>] /\ stale = FALSE /\ todo = {}
    /\ versioned = [g \in Generations |-> {}]
    /\ latest = [f \in Names |-> 0]
    /\ seen = [f \in Names |-> Unread]

-----------------------------------------------------------------------------
(* The tick: a commit changes one deal, or what is known of the retailer.   *)
Commit ==
    /\ commits < MaxCommits /\ gen < MaxExports
    /\ commits' = commits + 1
    /\ \/ /\ \E d \in Deals, row \in RowSet : rows' = [rows EXCEPT ![d] = row]
          /\ health' = health
       \/ rows' = rows /\ health' \in HealthSet
    /\ UNCHANGED <<export, storage, seen>>

-----------------------------------------------------------------------------
(* The export.                                                              *)

Start ==
    /\ pc = "idle" /\ gen < MaxExports
    /\ gen' = gen + 1 /\ pc' = "deals"
    /\ \E f, d \in BOOLEAN : flags' = [force |-> f, dry |-> d]
    /\ UNCHANGED <<database, feed, stale, todo, storage, seen>>

Selected == {d \in Deals : Publishable(rows[d])}
Cards == [d \in Selected |-> BuildDeal(rows[d])]

ValidFeed(cards) == \A d \in DOMAIN cards : ValidDeal(cards[d])

SlugsOf(cards) == {Product[d] : d \in DOMAIN cards}

(* The deals query, the feed made of it and its validation; one bad row     *)
(* ends the export.                                                         *)
QueryDeals ==
    /\ pc = "deals"
    /\ feed' = [feed EXCEPT ![gen] = IF ValidFeed(Cards) THEN Cards ELSE @]
    /\ pc' = IF ValidFeed(Cards) THEN "products" ELSE "idle"
    /\ UNCHANGED <<database, gen, flags, stale, todo, storage, seen>>

(* The queries of the products, for the slugs of that feed, and their       *)
(* validation, which may find a bad URL among the offers of any retailer.   *)
QueryProducts ==
    /\ pc = "products"
    /\ \/ pc' = "retailers"
       \/ SlugsOf(feed[gen]) # {} /\ pc' = "idle"
    /\ UNCHANGED <<database, gen, flags, feed, stale, todo, storage, seen>>

FilesOf(g) == {"meta", "deals"} \union SlugsOf(feed[g])

(* The queries of the retailers and the offer count, and meta.json; a dry   *)
(* run ends here.                                                           *)
QueryRetailers ==
    /\ pc = "retailers"
    /\ stale' = RetailerHealth(health, Now).stale
    /\ pc' = IF flags.dry THEN "idle" ELSE "version"
    /\ todo' = IF flags.dry THEN {} ELSE FilesOf(gen)
    /\ UNCHANGED <<database, gen, flags, feed, storage, seen>>

(* write_versioned, one file at a time, in no order that matters.           *)
WriteVersioned ==
    /\ pc = "version"
    /\ \E f \in todo :
          /\ versioned' = [versioned EXCEPT ![gen] = @ \union {f}]
          /\ todo' = todo \ {f}
    /\ UNCHANGED <<database, pc, gen, flags, feed, stale, latest, seen>>

(* Faulty: the schema checks are all there is.                              *)
GatePassesAlways == TRUE

(* Faulty: --force is asked for besides.                                    *)
GateNeedsForce == flags.force /\ ~stale /\ DOMAIN feed[gen] # {}

(* _integrity_gate_failures, which --force skips.                           *)
GatePasses == flags.force \/ (~stale /\ DOMAIN feed[gen] # {})

AllWritten == todo = {}

Gate ==
    /\ pc = "version" /\ AllWritten
    /\ pc' = IF GatePasses THEN "promote" ELSE "idle"
    /\ todo' = IF GatePasses THEN FilesOf(gen) ELSE {}
    /\ UNCHANGED <<database, gen, flags, feed, stale, storage, seen>>

(* Faulty: in the order of the dict, where meta.json comes first.           *)
MetaFirst(f) == f = "meta" \/ "meta" \notin todo

(* _order_meta_last keeps the order of the others: deals.json, then the     *)
(* products.                                                                *)
InOrder(f) ==
    /\ f = "meta" => todo = {"meta"}
    /\ f # "deals" => "deals" \notin todo

Promote ==
    /\ pc = "promote"
    /\ \E f \in todo :
          /\ InOrder(f)
          /\ latest' = [latest EXCEPT ![f] = gen]
          /\ todo' = todo \ {f}
    /\ UNCHANGED <<database, pc, gen, flags, feed, stale, versioned, seen>>

Finish ==
    /\ pc = "promote" /\ todo = {}
    /\ pc' = "idle"
    /\ UNCHANGED <<database, gen, flags, feed, stale, todo, storage, seen>>

(* The process dies, a write fails or build_deal raises.  The last export   *)
(* of a behaviour is spared.                                                *)
Die ==
    /\ pc # "idle" /\ gen < MaxExports
    /\ pc' = "idle" /\ todo' = {}
    /\ UNCHANGED <<database, gen, flags, feed, stale, storage, seen>>

-----------------------------------------------------------------------------
(* The reader: meta.json first, then the deals, then their products.        *)

ReadMeta ==
    /\ latest["meta"] # 0
    /\ seen' = [f \in Names |-> IF f = "meta" THEN latest["meta"] ELSE Unread]
    /\ UNCHANGED <<database, export, storage>>

ReadDeals ==
    /\ seen["meta"] # Unread /\ seen["deals"] = Unread
    /\ seen' = [seen EXCEPT !["deals"] = latest["deals"]]
    /\ UNCHANGED <<database, export, storage>>

ReadProduct(p) ==
    /\ seen["deals"] > 0 /\ p \in SlugsOf(feed[seen["deals"]]) /\ seen[p] = Unread
    /\ seen' = [seen EXCEPT ![p] = latest[p]]
    /\ UNCHANGED <<database, export, storage>>

Run == Start \/ QueryDeals \/ QueryProducts \/ QueryRetailers
       \/ WriteVersioned \/ Gate \/ Promote \/ Finish

Read == ReadMeta \/ ReadDeals \/ \E p \in Slugs : ReadProduct(p)

Next == Commit \/ Run \/ Die \/ Read

Spec == Init /\ [][Next]_vars

(* The schedule keeps starting exports, and one that runs goes on.          *)
FairSpec == Spec /\ WF_vars(Run)

-----------------------------------------------------------------------------
(* Properties.                                                              *)

(* Every variable keeps its shape.                                          *)
TypeOK ==
    /\ rows \in [Deals -> RowSet] /\ health \in HealthSet /\ commits \in Nat
    /\ pc \in {"idle", "deals", "products", "retailers", "version", "promote"}
    /\ gen \in 0..MaxExports /\ flags \in [force : BOOLEAN, dry : BOOLEAN]
    /\ \A g \in Generations : DOMAIN feed[g] \subseteq Deals
    /\ stale \in BOOLEAN /\ todo \subseteq Names
    /\ versioned \in [Generations -> SUBSET Names]
    /\ latest \in [Names -> 0..MaxExports]
    /\ seen \in [Names -> -1..MaxExports]

(* A reader that finds meta.json and deals.json of one export finds a       *)
(* product file, of that export or a later one, for every deal, however     *)
(* many promotions begin, die or succeed while it reads.                    *)
ReaderFindsWhole ==
    seen["meta"] = seen["deals"] =>
       \A p \in Slugs : seen[p] # Unread => seen[p] >= seen["meta"]

(* Every file that is served has its copy among the versioned ones, which   *)
(* were complete before the first file was promoted.                        *)
LatestIsArchived ==
    \A f \in Names : latest[f] # 0 => FilesOf(latest[f]) \subseteq versioned[latest[f]]

(* What is served never goes back to an earlier export, and changes only by *)
(* a valid feed that is not a dry run's, and is neither empty nor of stale  *)
(* retailers unless that was forced.                                        *)
OnlyGoodFeeds ==
    [][\A f \in Names : latest'[f] # latest[f] =>
          /\ latest'[f] > latest[f]
          /\ ~flags.dry /\ ValidFeed(feed[latest'[f]])
          /\ flags.force \/ (feed[latest'[f]] # << >> /\ ~stale)]_vars

(* The next is of the constants alone, so it is evaluated only where a      *)
(* behaviour begins.                                                        *)
Beginning == gen = 0 /\ commits = 0

(* No enumeration, amount or NULL the schema allows makes a card that stops *)
(* the export, whatever its row: RowsPublish of ExportRules.                *)
AllRowsPublish == Beginning => RowsPublish(DealRow(Cents))

(* An interrupted promotion is repaired: once the database is quiet, a      *)
(* publishable feed comes to be served whole, unless the last export was a  *)
(* dry run or met a bad product page.                                       *)
Served ==
    /\ latest["meta"] = gen /\ latest["deals"] = gen /\ feed[gen] = Cards
    /\ \A p \in SlugsOf(Cards) : latest[p] = gen

Good == ValidFeed(Cards) /\ Selected # {} /\ ~RetailerHealth(health, Now).stale

FeedIsServed ==
    <>[](gen = MaxExports /\ pc = "idle" /\ Good /\ ~flags.dry /\ versioned[gen] # {} => Served)

=============================================================================
