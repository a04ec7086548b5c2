---------------------------- MODULE Export_proofs ----------------------------
(***************************************************************************)
(* Theorems about Export for any number of deals, commits and exports.     *)
(* The invariants follow from one inductive invariant, IInv: how far the   *)
(* running export has come, what the served files have behind them, and    *)
(* what a reader that has read meta.json can still find.                   *)
(***************************************************************************)
EXTENDS Export, TLAPS

Building == pc \in {"deals", "products", "retailers", "version"}

(* Nothing of the running export is served before it is promoted, and       *)
(* nothing of a later one than has been started.                            *)
NotYet ==
    /\ \A f \in Names : latest[f] <= gen
    /\ Building => \A f \in Names : latest[f] < gen
    /\ pc # "idle" => gen \in Generations

(* A promotion has replaced what it no longer has to, meta.json last.       *)
Promoting ==
    pc = "promote" =>
       /\ todo \subseteq FilesOf(gen)
       /\ \A f \in FilesOf(gen) : f \notin todo => latest[f] = gen
       /\ \A f \in todo : latest[f] < gen

(* What has been validated, written and let through the gate.               *)
Vetted ==
    /\ pc \in {"products", "retailers", "version", "promote"} => ValidFeed(feed[gen])
    /\ pc \in {"version", "promote"} => ~flags.dry
    /\ pc = "version" => FilesOf(gen) \ todo \subseteq versioned[gen]
    /\ pc = "promote" =>
          /\ FilesOf(gen) \subseteq versioned[gen]
          /\ flags.force \/ (~stale /\ DOMAIN feed[gen] # {})

(* For an export g whose meta.json is or was served, each product file is   *)
(* served from g or later.                                                  *)
Behind(g) == \A p \in SlugsOf(feed[g]) : latest[p] >= g

Shelf == latest["meta"] # 0 => Behind(latest["meta"])

(* The reader has read its files in their order, from what was served.      *)
Reader ==
    /\ \A f \in {"meta", "deals"} : seen[f] <= latest[f]
    /\ seen["meta"] # Unread => seen["meta"] # 0 /\ Behind(seen["meta"])
    /\ seen["meta"] = Unread => \A f \in Names : seen[f] = Unread
    /\ seen["deals"] = Unread => \A p \in Slugs : seen[p] = Unread

Shape == TypeOK /\ feed = [g \in Generations |-> feed[g]]

IInv ==
    /\ Shape /\ NotYet /\ Promoting /\ Vetted /\ LatestIsArchived
    /\ Shelf /\ Reader /\ ReaderFindsWhole

-----------------------------------------------------------------------------
(* Names and files.                                                         *)

(* A slug is no fixed name, and the files of an export are named.           *)
LEMMA NamesOfFiles ==
    /\ "meta" \in Names /\ "deals" \in Names /\ Slugs \subseteq Names
    /\ "meta" \notin Slugs /\ "deals" \notin Slugs
  BY ExportAssumption DEF Names, Slugs

(* The products of a feed are products.                                     *)
LEMMA FilesAreNamed ==
    ASSUME TypeOK, NEW g \in Generations
    PROVE  SlugsOf(feed[g]) \subseteq Slugs /\ FilesOf(g) \subseteq Names
  BY DEF TypeOK, SlugsOf, FilesOf, Slugs, Names

(* Arithmetic of the generations.                                           *)
LEMMA Counts ==
    ASSUME TypeOK
    PROVE  /\ MaxExports \in Nat /\ gen \in Nat
           /\ \A f \in Names : latest[f] \in Nat /\ seen[f] \in Int
           /\ \A f \in Names : latest[f] # 0 => latest[f] \in Generations
  BY ExportAssumption DEF TypeOK, Generations

(* Nothing is served, built or read at the start.                           *)
LEMMA InitIInv == Init => IInv
  <1> SUFFICES ASSUME Init PROVE IInv
    OBVIOUS
  <1>0. MaxExports \in Nat
    BY ExportAssumption
  <1>1. TypeOK
    <2>1. \A g \in Generations : DOMAIN feed[g] \subseteq Deals
      <3>1. DOMAIN << >> = {}
        OBVIOUS
      <3> QED BY <3>1 DEF Init
    <2>2. /\ latest \in [Names -> 0..MaxExports] /\ seen \in [Names -> -1..MaxExports]
          /\ gen \in 0..MaxExports /\ commits \in Nat
      BY <1>0 DEF Init, Unread
    <2>3. versioned \in [Generations -> SUBSET Names]
      BY DEF Init
    <2> QED BY <2>1, <2>2, <2>3 DEF Init, TypeOK
  <1>2. Shape
    BY <1>1 DEF Init, Shape
  <1>3. NotYet /\ Promoting /\ Vetted /\ Shelf /\ LatestIsArchived
    BY NamesOfFiles DEF Init, NotYet, Building, Promoting, Vetted, Shelf, LatestIsArchived
  <1>4. Reader /\ ReaderFindsWhole
    BY NamesOfFiles DEF Init, Reader, ReaderFindsWhole, Unread
  <1> QED BY <1>2, <1>3, <1>4 DEF IInv

-----------------------------------------------------------------------------
(* The reader's part survives what the export does with its feed.           *)

(* An export that is being built changes its own feed at most, which none   *)
(* of the served or seen files is of.                                       *)
LEMMA BuildingKeepsServed ==
    ASSUME IInv, TypeOK', UNCHANGED <<latest, seen>>,
           \A g \in Generations : g # gen => feed'[g] = feed[g],
           \A g \in Generations : g # gen => versioned'[g] = versioned[g],
           pc = "deals" \/ feed' = feed,
           versioned'[gen] = versioned[gen]
              \/ versioned[gen] \subseteq versioned'[gen]
    PROVE  LatestIsArchived' /\ Shelf' /\ Reader' /\ ReaderFindsWhole'
  <1>0. TypeOK /\ NotYet
    BY DEF IInv, Shape
  <1>1. \A f \in Names : latest[f] # 0 =>
            /\ latest[f] \in Generations /\ feed'[latest[f]] = feed[latest[f]]
            /\ versioned[latest[f]] \subseteq versioned'[latest[f]]
    <2> SUFFICES ASSUME NEW f \in Names, latest[f] # 0
                 PROVE  /\ latest[f] \in Generations /\ feed'[latest[f]] = feed[latest[f]]
                        /\ versioned[latest[f]] \subseteq versioned'[latest[f]]
      OBVIOUS
    <2>1. latest[f] \in Generations /\ latest[f] \in Nat /\ gen \in Nat
      BY <1>0, Counts
    <2>2. pc = "deals" => latest[f] < gen
      BY <1>0 DEF NotYet, Building
    <2>3. feed'[latest[f]] = feed[latest[f]]
      BY <2>1, <2>2
    <2> QED BY <2>1, <2>3
  <1>2. seen["meta"] # Unread =>
            seen["meta"] \in Generations /\ feed'[seen["meta"]] = feed[seen["meta"]]
    <2> SUFFICES ASSUME seen["meta"] # Unread
                 PROVE  seen["meta"] \in Generations
                        /\ feed'[seen["meta"]] = feed[seen["meta"]]
      OBVIOUS
    <2> DEFINE m == seen["meta"]
               l == latest["meta"]
    <2>1. m \in -1..MaxExports /\ m # -1 /\ m # 0 /\ m <= l /\ MaxExports \in Nat
          /\ l \in Nat /\ gen \in Nat
      BY <1>0, NamesOfFiles, Counts DEF TypeOK, IInv, Reader, Unread
    <2>2. pc = "deals" => l < gen
      BY <1>0, NamesOfFiles DEF NotYet, Building
    <2>3. m \in Generations
      BY <2>1 DEF Generations
    <2> HIDE DEF m, l
    <2>4. pc = "deals" => m # gen
      BY <2>1, <2>2
    <2>5. feed'[m] = feed[m]
      BY <2>3, <2>4
    <2> QED BY <2>3, <2>5 DEF m
  <1>3. LatestIsArchived'
    BY <1>1 DEF IInv, LatestIsArchived, FilesOf, SlugsOf
  <1>4. Shelf'
    BY <1>1, NamesOfFiles DEF IInv, Shelf, Behind, SlugsOf
  <1>5. Reader'
    BY <1>2 DEF IInv, Reader, Behind, SlugsOf, Unread
  <1>6. ReaderFindsWhole'
    BY DEF IInv, ReaderFindsWhole, Unread
  <1> QED BY <1>3, <1>4, <1>5, <1>6

(* A step that leaves the files and the feed alone.                         *)
LEMMA StillKeepsServed ==
    ASSUME IInv, UNCHANGED <<latest, seen, feed, versioned>>
    PROVE  LatestIsArchived' /\ Shelf' /\ Reader' /\ ReaderFindsWhole'
  BY DEF IInv, LatestIsArchived, FilesOf, SlugsOf, Shelf, Reader, Behind, ReaderFindsWhole,
         Unread

-----------------------------------------------------------------------------
(* The steps of the database and the export.                                *)

(* A commit of the tick touches nothing of the feed.                        *)
LEMMA CommitIInv == IInv /\ Commit => IInv'
  <1> SUFFICES ASSUME IInv, Commit PROVE IInv'
    OBVIOUS
  <1>1. UNCHANGED <<export, storage, seen>>
    BY DEF Commit
  <1>2. Shape'
    <2>1. rows' \in [Deals -> RowSet] /\ health' \in HealthSet /\ commits' \in Nat
      BY DEF Commit, IInv, Shape, TypeOK
    <2> QED BY <1>1, <2>1 DEF IInv, Shape, TypeOK, export, storage
  <1>3. NotYet' /\ Promoting' /\ Vetted'
    BY <1>1 DEF IInv, export, storage, NotYet, Building, Promoting, Vetted, FilesOf, SlugsOf,
                ValidFeed
  <1>4. LatestIsArchived' /\ Shelf' /\ Reader' /\ ReaderFindsWhole'
    BY <1>1, StillKeepsServed DEF export, storage
  <1> QED BY <1>2, <1>3, <1>4 DEF IInv

(* A new export has a number above everything that is served.               *)
LEMMA StartIInv == IInv /\ Start => IInv'
  <1> SUFFICES ASSUME IInv, Start PROVE IInv'
    OBVIOUS
  <1>1. /\ gen < MaxExports /\ gen' = gen + 1 /\ pc' = "deals"
        /\ flags' \in [force : BOOLEAN, dry : BOOLEAN]
        /\ UNCHANGED <<rows, health, commits, feed, stale, todo, versioned, latest, seen>>
    BY DEF Start, database, storage
  <1>2. TypeOK /\ MaxExports \in Nat /\ gen \in Nat
    BY Counts DEF IInv, Shape
  <1>3. gen' \in Generations /\ gen' \in 0..MaxExports
    BY <1>1, <1>2 DEF Generations
  <1>4. Shape'
    BY <1>1, <1>3 DEF IInv, Shape, TypeOK
  <1>5. NotYet'
    <2>1. \A f \in Names : latest[f] \in Nat /\ latest[f] <= gen
      BY <1>2, Counts DEF IInv, NotYet
    <2>2. \A f \in Names : latest[f] < gen + 1 /\ latest[f] <= gen + 1
      BY <1>2, <2>1
    <2> QED BY <1>1, <1>3, <2>2 DEF NotYet
  <1>6. Promoting' /\ Vetted'
    BY <1>1 DEF Promoting, Vetted
  <1>7. LatestIsArchived' /\ Shelf' /\ Reader' /\ ReaderFindsWhole'
    BY <1>1, StillKeepsServed
  <1> QED BY <1>4, <1>5, <1>6, <1>7 DEF IInv

(* The feed of the running export is built before any of it is served.      *)
LEMMA QueryDealsIInv == IInv /\ QueryDeals => IInv'
  <1> SUFFICES ASSUME IInv, QueryDeals PROVE IInv'
    OBVIOUS
  <1>1. /\ pc = "deals"
        /\ feed' = [feed EXCEPT ![gen] = IF ValidFeed(Cards) THEN Cards ELSE @]
        /\ pc' = IF ValidFeed(Cards) THEN "products" ELSE "idle"
        /\ UNCHANGED <<rows, health, commits, gen, flags, stale, todo, versioned, latest, seen>>
    BY DEF QueryDeals, database, storage
  <1>2. TypeOK /\ gen \in Generations /\ feed = [g \in Generations |-> feed[g]]
    BY <1>1 DEF IInv, Shape, NotYet
  <1>3. \A g \in Generations : g # gen => feed'[g] = feed[g]
    BY <1>1, <1>2
  <1>4. feed'[gen] = IF ValidFeed(Cards) THEN Cards ELSE feed[gen]
    BY <1>1, <1>2
  <1>5. DOMAIN Cards \subseteq Deals
    BY DEF Cards, Selected
  <1>6. Shape'
    <2>1. \A g \in Generations : DOMAIN feed'[g] \subseteq Deals
      BY <1>2, <1>3, <1>4, <1>5 DEF TypeOK
    <2>2. feed' = [g \in Generations |-> feed'[g]]
      BY <1>1, <1>2
    <2>3. pc' \in {"idle", "deals", "products", "retailers", "version", "promote"}
      BY <1>1
    <2> QED BY <1>1, <1>2, <2>1, <2>2, <2>3 DEF Shape, TypeOK
  <1>7. NotYet'
    BY <1>1 DEF IInv, NotYet, Building
  <1>8. Promoting' /\ Vetted'
    <2>1. pc' \in {"products", "idle"}
      BY <1>1
    <2>2. pc' = "products" => feed'[gen] = Cards /\ ValidFeed(Cards)
      BY <1>1, <1>4
    <2> QED BY <1>1, <2>1, <2>2 DEF Promoting, Vetted, ValidFeed
  <1>9. LatestIsArchived' /\ Shelf' /\ Reader' /\ ReaderFindsWhole'
    BY <1>1, <1>3, <1>6, BuildingKeepsServed DEF Shape
  <1> QED BY <1>6, <1>7, <1>8, <1>9 DEF IInv

(* The products are read and checked; nothing is kept of them.              *)
LEMMA QueryProductsIInv == IInv /\ QueryProducts => IInv'
  <1> SUFFICES ASSUME IInv, QueryProducts PROVE IInv'
    OBVIOUS
  <1>1. /\ pc = "products" /\ pc' \in {"retailers", "idle"}
        /\ UNCHANGED <<rows, health, commits, gen, flags, feed, stale, todo, versioned,
                       latest, seen>>
    BY DEF QueryProducts, database, storage
  <1>2. Shape' /\ NotYet' /\ Promoting' /\ Vetted'
    BY <1>1 DEF IInv, Shape, TypeOK, NotYet, Building, Promoting, Vetted, ValidFeed
  <1>3. LatestIsArchived' /\ Shelf' /\ Reader' /\ ReaderFindsWhole'
    BY <1>1, StillKeepsServed
  <1> QED BY <1>2, <1>3 DEF IInv

(* What a run that is not dry goes on to write is its own files.            *)
LEMMA QueryRetailersIInv == IInv /\ QueryRetailers => IInv'
  <1> SUFFICES ASSUME IInv, QueryRetailers PROVE IInv'
    OBVIOUS
  <1>1. /\ pc = "retailers" /\ pc' \in {"version", "idle"}
        /\ pc' = "version" => ~flags.dry /\ todo' = FilesOf(gen)
        /\ todo' = {} \/ todo' = FilesOf(gen)
        /\ stale' = RetailerHealth(health, Now).stale
        /\ UNCHANGED <<rows, health, commits, gen, flags, feed, versioned, latest, seen>>
    BY DEF QueryRetailers, database, storage, IInv, Shape, TypeOK
  <1>2. TypeOK /\ gen \in Generations
    BY <1>1 DEF IInv, Shape, NotYet
  <1>3. stale' \in BOOLEAN
    BY <1>1 DEF RetailerHealth
  <1>4. todo' \subseteq Names
    BY <1>1, <1>2, FilesAreNamed
  <1>5. Shape'
    BY <1>1, <1>3, <1>4 DEF IInv, Shape, TypeOK
  <1>6. NotYet' /\ Promoting'
    BY <1>1 DEF IInv, NotYet, Building, Promoting
  <1>7. Vetted'
    <2>1. FilesOf(gen)' = FilesOf(gen)
      BY <1>1 DEF FilesOf, SlugsOf
    <2> QED BY <1>1, <2>1 DEF IInv, Vetted, ValidFeed
  <1>8. LatestIsArchived' /\ Shelf' /\ Reader' /\ ReaderFindsWhole'
    BY <1>1, StillKeepsServed
  <1> QED BY <1>5, <1>6, <1>7, <1>8 DEF IInv

(* A versioned file is one of the running export's.                         *)
LEMMA WriteVersionedIInv == IInv /\ WriteVersioned => IInv'
  <1> SUFFICES ASSUME IInv, WriteVersioned PROVE IInv'
    OBVIOUS
  <1>1. PICK f \in todo : /\ versioned' = [versioned EXCEPT ![gen] = @ \union {f}]
                          /\ todo' = todo \ {f}
    BY DEF WriteVersioned
  <1>2. /\ pc = "version"
        /\ UNCHANGED <<rows, health, commits, pc, gen, flags, feed, stale, latest, seen>>
    BY DEF WriteVersioned, database
  <1>3. TypeOK /\ gen \in Generations
    BY <1>2 DEF IInv, Shape, NotYet
  <1>4. f \in Names
    BY <1>3 DEF TypeOK
  <1>5. /\ versioned'[gen] = versioned[gen] \union {f}
        /\ \A g \in Generations : g # gen => versioned'[g] = versioned[g]
        /\ versioned' \in [Generations -> SUBSET Names]
    BY <1>1, <1>3, <1>4 DEF TypeOK
  <1>6. Shape'
    BY <1>1, <1>2, <1>5 DEF IInv, Shape, TypeOK
  <1>7. NotYet' /\ Promoting'
    BY <1>2 DEF IInv, NotYet, Building, Promoting
  <1>8. Vetted'
    <2>1. FilesOf(gen)' = FilesOf(gen)
      BY <1>2 DEF FilesOf, SlugsOf
    <2>2. FilesOf(gen) \ todo' \subseteq versioned'[gen]
      BY <1>1, <1>2, <1>5 DEF IInv, Vetted
    <2> QED BY <1>2, <2>1, <2>2 DEF IInv, Vetted, ValidFeed
  <1>9. LatestIsArchived' /\ Shelf' /\ Reader' /\ ReaderFindsWhole'
    BY <1>2, <1>5, <1>6, BuildingKeepsServed DEF Shape
  <1> QED BY <1>6, <1>7, <1>8, <1>9 DEF IInv

(* The gate opens on a whole versioned export, of which nothing is served.  *)
LEMMA GateIInv == IInv /\ Gate => IInv'
  <1> SUFFICES ASSUME IInv, Gate PROVE IInv'
    OBVIOUS
  <1>1. /\ pc = "version" /\ todo = {} /\ pc' \in {"promote", "idle"}
        /\ pc' = "promote" => GatePasses /\ todo' = FilesOf(gen)
        /\ todo' = {} \/ todo' = FilesOf(gen)
        /\ UNCHANGED <<rows, health, commits, gen, flags, feed, stale, versioned, latest, seen>>
    BY DEF Gate, AllWritten, database, storage
  <1>2. TypeOK /\ gen \in Generations
    BY <1>1 DEF IInv, Shape, NotYet
  <1>3. FilesOf(gen)' = FilesOf(gen) /\ FilesOf(gen) \subseteq Names
    BY <1>1, <1>2, FilesAreNamed DEF FilesOf, SlugsOf
  <1>4. Shape'
    BY <1>1, <1>3 DEF IInv, Shape, TypeOK
  <1>5. NotYet'
    BY <1>1 DEF IInv, NotYet, Building
  <1>6. Promoting'
    <2>1. \A f \in FilesOf(gen) : latest[f] < gen
      BY <1>1, <1>3 DEF IInv, NotYet, Building
    <2> QED BY <1>1, <1>3, <2>1 DEF Promoting
  <1>7. Vetted'
    BY <1>1, <1>3 DEF IInv, Vetted, ValidFeed, GatePasses
  <1>8. LatestIsArchived' /\ Shelf' /\ Reader' /\ ReaderFindsWhole'
    BY <1>1, StillKeepsServed
  <1> QED BY <1>4, <1>5, <1>6, <1>7, <1>8 DEF IInv

(* A promoted file is replaced by a later one, and meta.json when the       *)
(* others have been.                                                        *)
LEMMA PromoteIInv == IInv /\ Promote => IInv'
  <1> SUFFICES ASSUME IInv, Promote PROVE IInv'
    OBVIOUS
  <1>1. PICK f \in todo : /\ InOrder(f)
                          /\ latest' = [latest EXCEPT ![f] = gen]
                          /\ todo' = todo \ {f}
    BY DEF Promote
  <1>2. /\ pc = "promote"
        /\ UNCHANGED <<rows, health, commits, pc, gen, flags, feed, stale, versioned, seen>>
    BY DEF Promote, database
  <1>3. TypeOK /\ gen \in Generations /\ Promoting
    BY <1>2 DEF IInv, Shape, NotYet
  <1>4. f \in Names /\ f \in FilesOf(gen) /\ latest[f] < gen
    BY <1>2, <1>3 DEF TypeOK, Promoting
  <1>5. latest'[f] = gen /\ \A h \in Names : h # f => latest'[h] = latest[h]
    BY <1>1, <1>3, <1>4 DEF TypeOK
  <1>6. /\ gen \in Nat /\ gen \in 0..MaxExports
        /\ \A h \in Names : latest[h] \in Nat /\ seen[h] \in Int
    BY <1>3, Counts DEF TypeOK
  <1>7. \A h \in Names : latest'[h] >= latest[h] /\ latest'[h] \in Nat
    BY <1>4, <1>5, <1>6
  <1>8. FilesOf(gen)' = FilesOf(gen)
    BY <1>2 DEF FilesOf, SlugsOf
  <1>9. Shape'
    <2>1. latest' \in [Names -> 0..MaxExports]
      BY <1>1, <1>3, <1>4, <1>6 DEF TypeOK
    <2>2. todo' \subseteq Names
      BY <1>1, <1>3 DEF TypeOK
    <2> QED BY <1>2, <2>1, <2>2 DEF IInv, Shape, TypeOK
  <1>10. NotYet'
    <2>1. \A h \in Names : latest'[h] <= gen
      <3>1. \A h \in Names : latest[h] <= gen
        BY DEF IInv, NotYet
      <3> QED BY <1>5, <1>6, <3>1
    <2> QED BY <1>2, <1>3, <2>1 DEF NotYet, Building
  <1>11. Promoting'
    <2>1. \A h \in FilesOf(gen) : h \notin todo' => latest'[h] = gen
      <3>1. FilesOf(gen) \subseteq Names
        BY <1>3, FilesAreNamed
      <3> QED BY <1>1, <1>2, <1>3, <1>5, <3>1 DEF Promoting
    <2>2. \A h \in todo' : latest'[h] < gen
      <3>1. todo' \subseteq Names /\ \A h \in todo' : h # f /\ h \in todo
        BY <1>1, <1>3 DEF TypeOK
      <3> QED BY <1>2, <1>3, <1>5, <3>1 DEF Promoting
    <2> QED BY <1>1, <1>2, <1>3, <1>8, <2>1, <2>2 DEF Promoting
  <1>12. Vetted'
    BY <1>2, <1>8 DEF IInv, Vetted, ValidFeed
  <1>13. LatestIsArchived'
    <2> DEFINE Archived(g) == FilesOf(g) \subseteq versioned[g]
    <2>1. Archived(gen)
      BY <1>2 DEF IInv, Vetted
    <2>2. \A h \in Names : latest[h] # 0 => Archived(latest[h])
      BY DEF IInv, LatestIsArchived
    <2>3. \A h \in Names : latest'[h] # 0 => Archived(latest'[h])
      <3> HIDE DEF Archived
      <3> QED BY <1>5, <2>1, <2>2
    <2> QED BY <1>2, <2>3 DEF LatestIsArchived, FilesOf, SlugsOf
  <1>14. \A g \in Generations : Behind(g) => Behind(g)'
    <2> SUFFICES ASSUME NEW g \in Generations, Behind(g),
                        NEW p \in SlugsOf(feed[g])
                 PROVE  latest'[p] >= g
      BY <1>2 DEF Behind, SlugsOf
    <2>1. p \in Names
      BY <1>3, FilesAreNamed, NamesOfFiles
    <2>2. g \in Nat
      BY ExportAssumption DEF Generations
    <2>3. latest[p] >= g
      BY DEF Behind
    <2>4. latest[p] \in Nat /\ latest'[p] \in Nat /\ latest'[p] >= latest[p]
      BY <1>6, <1>7, <2>1
    <2> QED BY <2>2, <2>3, <2>4
  <1>15. Shelf'
    <2>1. CASE f = "meta"
      <3>1. todo = {"meta"}
        BY <1>1, <2>1 DEF InOrder
      <3>2. \A p \in SlugsOf(feed[gen]) : latest'[p] = gen
        <4> SUFFICES ASSUME NEW p \in SlugsOf(feed[gen]) PROVE latest'[p] = gen
          OBVIOUS
        <4>1. p \in Slugs /\ p \in FilesOf(gen) /\ p \in Names /\ p # "meta"
          BY <1>3, FilesAreNamed, NamesOfFiles DEF FilesOf
        <4>2. latest[p] = gen
          BY <1>2, <1>3, <3>1, <4>1 DEF Promoting
        <4> QED BY <1>5, <2>1, <4>1, <4>2
      <3>3. latest'["meta"] = gen
        BY <1>5, <2>1
      <3> QED BY <1>2, <1>6, <3>2, <3>3 DEF Shelf, Behind, SlugsOf
    <2>2. CASE f # "meta"
      <3>1. latest'["meta"] = latest["meta"]
        BY <1>5, <2>2, NamesOfFiles
      <3>2. latest["meta"] # 0 => latest["meta"] \in Generations
        BY <1>3, NamesOfFiles, Counts
      <3>3. latest["meta"] # 0 => Behind(latest["meta"])
        BY DEF IInv, Shelf
      <3>4. latest["meta"] # 0 => Behind(latest["meta"])'
        BY <1>14, <3>1, <3>2, <3>3 DEF Behind
      <3> QED BY <3>1, <3>4 DEF Shelf
    <2> QED BY <2>1, <2>2
  <1>16. Reader'
    <2>1. \A h \in {"meta", "deals"} : seen'[h] <= latest'[h]
      <3>1. \A h \in {"meta", "deals"} :
               seen[h] \in Int /\ latest[h] \in Nat /\ latest'[h] \in Nat
               /\ seen[h] <= latest[h] /\ latest'[h] >= latest[h]
        BY <1>6, <1>7, NamesOfFiles DEF IInv, Reader
      <3> QED BY <1>2, <3>1
    <2>2. seen["meta"] # Unread => seen["meta"] \in Generations /\ Behind(seen["meta"])
      <3>1. seen["meta"] \in -1..MaxExports /\ MaxExports \in Nat
        BY <1>3, NamesOfFiles, Counts DEF TypeOK
      <3> QED BY <3>1 DEF IInv, Reader, Unread, Generations
    <2>3. seen["meta"] # Unread => Behind(seen["meta"])'
      BY <1>2, <1>14, <2>2 DEF Behind
    <2> QED BY <1>2, <2>1, <2>3 DEF IInv, Reader, Unread
  <1>17. ReaderFindsWhole'
    BY <1>2 DEF IInv, ReaderFindsWhole, Unread
  <1> QED
    BY <1>9, <1>10, <1>11, <1>12, <1>13, <1>15, <1>16, <1>17 DEF IInv

(* An export that ends, well or not, changes nothing that is kept.          *)
LEMMA EndIInv == IInv /\ (Finish \/ Die) => IInv'
  <1> SUFFICES ASSUME IInv, Finish \/ Die PROVE IInv'
    OBVIOUS
  <1>1. /\ pc' = "idle" /\ (todo' = {} \/ todo' = todo)
        /\ UNCHANGED <<rows, health, commits, gen, flags, feed, stale, versioned, latest, seen>>
    BY DEF Finish, Die, database, storage
  <1>2. Shape' /\ NotYet' /\ Promoting' /\ Vetted'
    BY <1>1 DEF IInv, Shape, TypeOK, NotYet, Building, Promoting, Vetted
  <1>3. LatestIsArchived' /\ Shelf' /\ Reader' /\ ReaderFindsWhole'
    BY <1>1, StillKeepsServed
  <1> QED BY <1>2, <1>3 DEF IInv

-----------------------------------------------------------------------------
(* The reader's steps.                                                      *)

(* What the export keeps is not the reader's to change.                     *)
LEMMA ReadKeepsExport ==
    ASSUME IInv, UNCHANGED <<database, export, storage>>,
           seen' \in [Names -> -1..MaxExports]
    PROVE  Shape' /\ NotYet' /\ Promoting' /\ Vetted' /\ LatestIsArchived' /\ Shelf'
  BY DEF IInv, database, export, storage, Shape, TypeOK, NotYet, Building, Promoting, Vetted,
         ValidFeed, FilesOf, SlugsOf, LatestIsArchived, Shelf, Behind

(* A generation that is served has a place among those that are read.       *)
LEMMA ServedCanBeSeen ==
    ASSUME TypeOK, NEW f \in Names
    PROVE  latest[f] \in -1..MaxExports /\ Unread \in -1..MaxExports
  BY ExportAssumption DEF TypeOK, Unread

(* meta.json names an export whose products are all there.                  *)
LEMMA ReadMetaIInv == IInv /\ ReadMeta => IInv'
  <1> SUFFICES ASSUME IInv, ReadMeta PROVE IInv'
    OBVIOUS
  <1>1. /\ latest["meta"] # 0
        /\ seen' = [f \in Names |-> IF f = "meta" THEN latest["meta"] ELSE Unread]
        /\ UNCHANGED <<database, export, storage>>
        /\ UNCHANGED <<latest, feed>>
    BY DEF ReadMeta, storage, export
  <1>2. TypeOK
    BY DEF IInv, Shape
  <1>3. seen' \in [Names -> -1..MaxExports]
    BY <1>1, <1>2, ServedCanBeSeen, NamesOfFiles
  <1>4. /\ seen'["meta"] = latest["meta"] /\ seen'["deals"] = Unread
        /\ \A p \in Slugs : seen'[p] = Unread
    BY <1>1, NamesOfFiles
  <1>5. latest["meta"] \in Nat /\ latest["deals"] \in Nat
    BY <1>2, NamesOfFiles, Counts
  <1>6. Reader'
    <2>1. \A f \in {"meta", "deals"} : seen'[f] <= latest'[f]
      BY <1>1, <1>4, <1>5 DEF Unread
    <2>2. seen'["meta"] # Unread /\ seen'["meta"] # 0
      BY <1>1, <1>4, <1>5 DEF Unread
    <2>3. Behind(seen["meta"])'
      BY <1>1, <1>4 DEF IInv, Shelf, Behind, SlugsOf
    <2> QED BY <1>4, <2>1, <2>2, <2>3 DEF Reader, Unread
  <1>7. ReaderFindsWhole'
    BY <1>4 DEF ReaderFindsWhole, Unread
  <1> QED BY <1>1, <1>3, <1>6, <1>7, ReadKeepsExport DEF IInv

(* No product is read before the deals are.                                 *)
LEMMA ReadDealsIInv == IInv /\ ReadDeals => IInv'
  <1> SUFFICES ASSUME IInv, ReadDeals PROVE IInv'
    OBVIOUS
  <1>1. /\ seen["meta"] # Unread /\ seen["deals"] = Unread
        /\ seen' = [seen EXCEPT !["deals"] = latest["deals"]]
        /\ UNCHANGED <<database, export, storage>>
        /\ UNCHANGED <<latest, feed>>
    BY DEF ReadDeals, storage, export
  <1>2. TypeOK
    BY DEF IInv, Shape
  <1>3. seen' \in [Names -> -1..MaxExports]
    BY <1>1, <1>2, ServedCanBeSeen, NamesOfFiles DEF TypeOK
  <1>4. /\ seen'["deals"] = latest["deals"] /\ seen'["meta"] = seen["meta"]
        /\ \A p \in Slugs : seen'[p] = Unread
    BY <1>1, <1>2, NamesOfFiles DEF TypeOK, IInv, Reader
  <1>5. latest["deals"] \in Nat
    BY <1>2, NamesOfFiles, Counts
  <1>6. Reader'
    <2>1. \A f \in {"meta", "deals"} : seen'[f] <= latest'[f]
      BY <1>1, <1>4, <1>5 DEF IInv, Reader
    <2>2. seen'["meta"] # 0 /\ Behind(seen["meta"])'
      BY <1>1, <1>4 DEF IInv, Reader, Behind, SlugsOf
    <2>3. seen'["meta"] # Unread /\ seen'["deals"] # Unread
      BY <1>1, <1>4, <1>5 DEF Unread
    <2> QED BY <2>1, <2>2, <2>3 DEF Reader, Unread
  <1>7. ReaderFindsWhole'
    BY <1>4 DEF ReaderFindsWhole, Unread
  <1> QED BY <1>1, <1>3, <1>6, <1>7, ReadKeepsExport DEF IInv

(* A product of the deals that were read is as late as meta.json, when they *)
(* are.                                                                     *)
LEMMA ReadProductIInv == ASSUME NEW p \in Slugs PROVE IInv /\ ReadProduct(p) => IInv'
  <1> SUFFICES ASSUME IInv, ReadProduct(p) PROVE IInv'
    OBVIOUS
  <1>1. /\ seen["deals"] > 0 /\ p \in SlugsOf(feed[seen["deals"]])
        /\ seen' = [seen EXCEPT ![p] = latest[p]]
        /\ UNCHANGED <<database, export, storage>>
        /\ UNCHANGED <<latest, feed>>
    BY DEF ReadProduct, storage, export
  <1>2. TypeOK /\ p \in Names /\ p # "meta" /\ p # "deals"
    BY NamesOfFiles DEF IInv, Shape
  <1>3. seen' \in [Names -> -1..MaxExports]
    BY <1>1, <1>2, ServedCanBeSeen DEF TypeOK
  <1>4. /\ seen'["deals"] = seen["deals"] /\ seen'["meta"] = seen["meta"]
        /\ seen'[p] = latest[p] /\ \A q \in Slugs : q # p => seen'[q] = seen[q]
    BY <1>1, <1>2, NamesOfFiles DEF TypeOK
  <1>5. seen["deals"] # Unread /\ seen["meta"] # Unread
    <2>1. seen["deals"] \in Int /\ seen["deals"] # -1
      BY <1>1, <1>2, NamesOfFiles, Counts
    <2> QED BY <2>1, NamesOfFiles DEF IInv, Reader, Unread
  <1>6. Reader'
    <2>1. \A f \in {"meta", "deals"} : seen'[f] <= latest'[f]
      BY <1>1, <1>4 DEF IInv, Reader
    <2>2. seen'["meta"] # 0 /\ Behind(seen["meta"])'
      BY <1>1, <1>4, <1>5 DEF IInv, Reader, Behind, SlugsOf
    <2> QED BY <1>4, <1>5, <2>1, <2>2 DEF Reader, Unread
  <1>7. ReaderFindsWhole'
    <2> SUFFICES ASSUME seen["meta"] = seen["deals"],
                        NEW q \in Slugs, seen'[q] # Unread
                 PROVE  seen'[q] >= seen["meta"]
      BY <1>4 DEF ReaderFindsWhole, Unread
    <2>1. CASE q = p
      BY <1>1, <1>4, <1>5, <2>1 DEF IInv, Reader, Behind
    <2>2. CASE q # p
      BY <1>4, <2>2 DEF IInv, ReaderFindsWhole
    <2> QED BY <2>1, <2>2
  <1> QED BY <1>1, <1>3, <1>6, <1>7, ReadKeepsExport DEF IInv

-----------------------------------------------------------------------------
(* The theorems.                                                            *)

(* Every step keeps the invariant.                                          *)
LEMMA NextIInv == IInv /\ [Next]_vars => IInv'
  <1> SUFFICES ASSUME IInv, [Next]_vars PROVE IInv'
    OBVIOUS
  <1>1. CASE Commit
    BY <1>1, CommitIInv
  <1>2. CASE Run
    BY <1>2, StartIInv, QueryDealsIInv, QueryProductsIInv, QueryRetailersIInv,
       WriteVersionedIInv, GateIInv, PromoteIInv, EndIInv DEF Run
  <1>3. CASE Die
    BY <1>3, EndIInv
  <1>4. CASE Read
    BY <1>4, ReadMetaIInv, ReadDealsIInv, ReadProductIInv DEF Read
  <1>5. CASE UNCHANGED vars
    <2>1. UNCHANGED <<database, export, storage>> /\ UNCHANGED <<latest, seen, feed, versioned>>
      BY <1>5 DEF vars, export, storage
    <2>2. seen' \in [Names -> -1..MaxExports]
      BY <2>1 DEF IInv, Shape, TypeOK
    <2> QED BY <2>1, <2>2, ReadKeepsExport, StillKeepsServed DEF IInv
  <1> QED BY <1>1, <1>2, <1>3, <1>4, <1>5 DEF Next

(* The inductive invariant holds.                                           *)
LEMMA Invariance == Spec => []IInv
  <1> QED BY InitIInv, NextIInv, PTL DEF Spec

(* Every variable keeps its shape.                                          *)
THEOREM ExportTypeCorrect == Spec => []TypeOK
  <1>1. IInv => TypeOK
    BY DEF IInv, Shape
  <1> QED BY <1>1, Invariance, PTL

(* A reader that gets meta.json and deals.json of one export gets every     *)
(* product of it (promote_to_latest, _order_meta_last), however many        *)
(* exports there are and wherever they die.                                 *)
THEOREM ReadersFindWholeFeeds == Spec => []ReaderFindsWhole
  <1>1. IInv => ReaderFindsWhole
    BY DEF IInv
  <1> QED BY <1>1, Invariance, PTL

(* What is served has its whole export among the versioned files            *)
(* (write_versioned before promote_to_latest).                              *)
THEOREM ServedIsArchived == Spec => []LatestIsArchived
  <1>1. IInv => LatestIsArchived
    BY DEF IInv
  <1> QED BY <1>1, Invariance, PTL

(* A promotion replaces a file by that of a later export, which was         *)
(* validated, is not dry, and went through _integrity_gate_failures.        *)
THEOREM ServedFeedsAreGood == Spec => OnlyGoodFeeds
  <1> DEFINE Good1(f) == latest'[f] # latest[f] =>
          /\ latest'[f] > latest[f]
          /\ ~flags.dry /\ ValidFeed(feed[latest'[f]])
          /\ flags.force \/ (feed[latest'[f]] # << >> /\ ~stale)
  <1>1. IInv /\ [Next]_vars => [\A f \in Names : Good1(f)]_vars
    <2> SUFFICES ASSUME IInv, Next, NEW f \in Names, latest'[f] # latest[f]
                 PROVE  Good1(f)
      OBVIOUS
    <2>1. Promote
      BY DEF Next, Commit, Run, Start, QueryDeals, QueryProducts, QueryRetailers,
             WriteVersioned, Gate, Finish, Die, Read, ReadMeta, ReadDeals, ReadProduct, storage
    <2>2. PICK h \in todo : latest' = [latest EXCEPT ![h] = gen]
      BY <2>1 DEF Promote
    <2>3. pc = "promote" /\ TypeOK /\ Promoting /\ Vetted
      BY <2>1 DEF Promote, IInv, Shape
    <2>4. h = f /\ latest'[f] = gen
      BY <2>2, <2>3 DEF TypeOK
    <2>5. latest[f] < gen /\ latest[f] \in Nat /\ gen \in Nat
      BY <2>2, <2>3, <2>4, Counts DEF Promoting
    <2>6. latest'[f] > latest[f]
      BY <2>4, <2>5
    <2>7. DOMAIN feed[gen] # {} => feed[gen] # << >>
      <3>1. DOMAIN << >> = {}
        OBVIOUS
      <3> QED BY <3>1
    <2> QED BY <2>3, <2>4, <2>6, <2>7 DEF Vetted
  <1>2. IInv /\ [Next]_vars => [\A f \in Names : latest'[f] # latest[f] =>
          /\ latest'[f] > latest[f]
          /\ ~flags.dry /\ ValidFeed(feed[latest'[f]])
          /\ flags.force \/ (feed[latest'[f]] # << >> /\ ~stale)]_vars
    BY <1>1
  <1> QED BY <1>2, Invariance, PTL DEF Spec, OnlyGoodFeeds

-----------------------------------------------------------------------------
(* Rows and cards.                                                          *)

(* What a row of the deals table holds, for any amounts of money.           *)
LEMMA RowShape ==
    ASSUME NEW row \in DealRow(Cents)
    PROVE  /\ row.lane \in Lanes /\ row.kind \in KindsOf(row.lane)
           /\ row.shipping \in Nat \union {Null} /\ row.price \in Nat \ {0}
           /\ row.claimed.kind \in ClaimedKinds \union {"none"}
           /\ row.claimed.cents \in (Nat \ {0}) \union {Null}
           /\ row.condition \in Conditions /\ row.seller \in SellerTypes
           /\ row.availability \in Availabilities /\ row.host \in BOOLEAN
  <1> DEFINE Claims == [kind : ClaimedKinds \union {"none"},
                        cents : (Cents \ {0}) \union {Null}]
  <1>1. PICK lane \in Lanes :
            row \in [status : {"CONFIRMING", "ACTIVE", "HELD_REVIEW", "EXPIRED"},
                    lane : {lane}, kind : KindsOf(lane), confirmed : BOOLEAN,
                    shipping : Cents \union {0, Null}, price : Cents \ {0},
                    claimed : Claims, condition : Conditions, seller : SellerTypes,
                    availability : Availabilities, host : BOOLEAN]
    BY DEF DealRow
  <1>2. /\ row.claimed.kind \in ClaimedKinds \union {"none"}
        /\ row.claimed.cents \in (Cents \ {0}) \union {Null}
    <2>1. row.claimed \in Claims
      BY <1>1
    <2> QED BY <2>1
  <1> HIDE DEF Claims
  <1>3. row.lane = lane /\ row.kind \in KindsOf(lane)
    BY <1>1
  <1>4. /\ row.shipping \in Cents \union {0, Null} /\ row.price \in Cents \ {0}
        /\ row.condition \in Conditions /\ row.seller \in SellerTypes
        /\ row.availability \in Availabilities /\ row.host \in BOOLEAN
    BY <1>1
  <1>5. Cents \subseteq Nat
    BY ExportAssumption
  <1>6. row.lane \in Lanes /\ row.kind \in KindsOf(row.lane)
    BY <1>3
  <1>7. row.claimed.cents \in (Nat \ {0}) \union {Null}
    BY <1>2, <1>5
  <1>8. row.shipping \in Nat \union {Null} /\ row.price \in Nat \ {0}
    <2>1. Cents \union {0} \subseteq Nat
      BY <1>5
    <2>2. row.shipping \in Nat \union {Null}
      BY <1>4, <2>1, Zenon
    <2>3. row.price \in Nat \ {0}
      BY <1>4, <2>1, Zenon
    <2> QED BY <2>2, <2>3
  <1> QED BY <1>2, <1>4, <1>6, <1>7, <1>8

(* Every row that the query selects becomes a card of the site's types,     *)
(* with a reference exactly when its lane is not that of the claims, for    *)
(* all amounts and all combinations the schema allows (build_deal,          *)
(* validate_deals_feed): only a URL can stop an export.                     *)
THEOREM RowsArePublishable == Spec => []AllRowsPublish
  <1>1. ASSUME NEW row \in DealRow(Cents), row.host
        PROVE  ValidDeal(BuildDeal(row))
    <2> DEFINE card == BuildDeal(row)
    <2>1. card.lane \in Lanes /\ card.condition \in Conditions /\ card.price \in Nat \ {0}
          /\ card.shipping \in Nat \union {Null} /\ card.host \in BOOLEAN /\ card.host
      BY <1>1, RowShape DEF BuildDeal
    <2>2. /\ card.reference \in {"OWN_HISTORY_MEDIAN_90D", "CROSS_RETAILER_NEW", "none"}
          /\ (card.lane = "CLAIMED") = (card.reference = "none")
      BY RowShape DEF BuildDeal, Reference, ReferenceKind, KindsOf, Lanes
    <2>3. card.claimed \in [kind : {"MSRP", "WAS", "LIST"}, cents : Nat \ {0}]
                            \union {[kind |-> "none", cents |-> Null]}
      BY RowShape DEF BuildDeal, Claimed, ClaimedKind, ClaimedKinds
    <2>4. /\ card.seller \in {"FIRST_PARTY", "MARKETPLACE"}
          /\ card.availability \in {"IN_STOCK", "STORE_ONLY", "OUT_OF_STOCK"}
      BY DEF BuildDeal, SellerType, AvailabilityShown
    <2>5. card \in DealSchema
      BY <2>1, <2>2, <2>3, <2>4 DEF DealSchema, BuildDeal
    <2> QED BY <2>1, <2>2, <2>5 DEF ValidDeal
  <1>2. AllRowsPublish
    BY <1>1 DEF AllRowsPublish, RowsPublish
  <1> QED BY <1>2, PTL
=============================================================================
