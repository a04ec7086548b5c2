------------------------------ MODULE Migrate ------------------------------
(***************************************************************************)
(* The migration runner (deploy/migrate.py): any number of runs, which may *)
(* overlap, fail at any statement and be started again, while files are    *)
(* added to the directory.                                                 *)
(*                                                                         *)
(* The connection is not in autocommit mode, so the SELECT of              *)
(* applied_versions opens a transaction that only the end of the           *)
(* `with psycopg.connect(...)` block commits; conn.transaction() in        *)
(* apply_migration then finds a transaction open and is a savepoint in it. *)
(* A row inserted under a primary key by another transaction makes an      *)
(* insert of the same key wait until that transaction ends.                *)
(***************************************************************************)
EXTENDS Integers

CONSTANTS
    Runs,       \* processes that run the script
    Files,      \* files there may ever be; the version is the digits a name
                \* begins with, the number is what int() makes of them
    FirstFiles, \* those in the directory at the start
    MaxStarts   \* bound: starts of the script, by all processes

ASSUME MigrateAssumption ==
    /\ \A f \in Files : DOMAIN f = {"version", "number", "name"} /\ f.number \in Nat
    /\ FirstFiles \subseteq Files
    /\ MaxStarts \in Nat

VARIABLES
    disk,       \* the *.up.sql files of the directory
    tracked,    \* schema_migrations exists
    recorded,   \* its committed versions
    applied,    \* how often each version's statements have been committed
    pc, mode,   \* of each run
    found,      \* the files a run has discovered
    todo,       \* the pending ones it has not yet applied
    mine,       \* versions inserted in its open transaction
    printed,    \* versions it has reported as ok
    starts

table == <<tracked, recorded, applied>>
runs == <<pc, mode, found, todo, mine, printed>>
vars == <<disk, table, runs, starts>>

Versions == {f.version : f \in Files}
Modes == {"apply", "report"}    \* "report" is --dry-run and --status

Init ==
    /\ disk = FirstFiles /\ tracked = FALSE /\ recorded = {}
    /\ applied = [v \in Versions |-> 0]
    /\ pc = [r \in Runs |-> "idle"] /\ mode = [r \in Runs |-> "apply"]
    /\ found = [r \in Runs |-> {}] /\ todo = [r \in Runs |-> {}]
    /\ mine = [r \in Runs |-> {}] /\ printed = [r \in Runs |-> {}]
    /\ starts = 0

-----------------------------------------------------------------------------
(* A deployment adds a file, perhaps with a number below the last one.      *)
AddFile ==
    /\ \E f \in Files \ disk : disk' = disk \union {f}
    /\ UNCHANGED <<table, runs, starts>>

(* discover_migrations refuses two files of one version.                    *)
Duplicated(files) == \E f, g \in files : f # g /\ f.version = g.version

Idle(r) == pc[r] \in {"idle", "ok", "failed"}

(* discover_migrations, before the database is touched.                     *)
Discover(r) ==
    /\ Idle(r) /\ starts < MaxStarts
    /\ starts' = starts + 1
    /\ found' = [found EXCEPT ![r] = disk]
    /\ \E m \in Modes : mode' = [mode EXCEPT ![r] = m]
    /\ pc' = [pc EXCEPT ![r] = IF Duplicated(disk) THEN "failed"
                               ELSE IF disk = {} THEN "ok" ELSE "connected"]
    /\ printed' = [printed EXCEPT ![r] = {}]
    /\ UNCHANGED <<disk, table, todo, mine>>

(* ensure_tracking_table, committed at once, by a report too.               *)
EnsureTrackingTable(r) ==
    /\ pc[r] = "connected"
    /\ tracked' = TRUE
    /\ pc' = [pc EXCEPT ![r] = "tracking"]
    /\ UNCHANGED <<disk, recorded, applied, mode, found, todo, mine, printed, starts>>

Pending(r) == {f \in found[r] : f.version \notin recorded}

(* applied_versions: what is pending is decided here, once.                 *)
ReadApplied(r) ==
    /\ pc[r] = "tracking"
    /\ LET left == IF mode[r] = "report" THEN {} ELSE Pending(r)
       IN  /\ todo' = [todo EXCEPT ![r] = left]
           /\ pc' = [pc EXCEPT ![r] = IF left = {} THEN "ok" ELSE "applying"]
    /\ UNCHANGED <<disk, table, mode, found, mine, printed, starts>>

(* Faulty: the files in the order of their names.                           *)
AnyFile(files) == files

(* The next in numeric order; equal numbers ("7", "007") in either order.   *)
Earliest(files) == {f \in files : \A g \in files : f.number <= g.number}

(* Faulty: INSERT ... ON CONFLICT DO NOTHING.                               *)
InsertsOrIgnores(r, v) == TRUE

(* INSERT INTO schema_migrations: it waits for another run's uncommitted    *)
(* row, and fails on a committed one.                                       *)
Inserts(r, v) == v \notin recorded /\ \A s \in Runs \ {r} : v \notin mine[s]

(* apply_migration.                                                         *)
ApplyMigration(r) ==
    /\ pc[r] = "applying"
    /\ \E f \in Earliest(todo[r]) :
          /\ Inserts(r, f.version)
          /\ mine' = [mine EXCEPT ![r] = @ \union {f.version}]
          /\ printed' = [printed EXCEPT ![r] = @ \union {f.version}]
          /\ todo' = [todo EXCEPT ![r] = @ \ {f}]
    /\ UNCHANGED <<disk, table, pc, mode, found, starts>>

(* Faulty: the block ends when the first file is applied.                   *)
SomeApplied(r) == mine[r] # {}

AllApplied(r) == todo[r] = {}

(* The end of the with block commits everything since the SELECT.           *)
Commit(r) ==
    /\ pc[r] = "applying" /\ AllApplied(r)
    /\ recorded' = recorded \union mine[r]
    /\ applied' = [v \in Versions |-> IF v \in mine[r] THEN applied[v] + 1 ELSE applied[v]]
    /\ mine' = [mine EXCEPT ![r] = {}] /\ todo' = [todo EXCEPT ![r] = {}]
    /\ pc' = [pc EXCEPT ![r] = "ok"]
    /\ UNCHANGED <<disk, tracked, mode, found, printed, starts>>

(* A statement fails, the connection is lost or the process is killed: the  *)
(* open transaction is rolled back.                                         *)
Fail(r) ==
    /\ pc[r] \in {"connected", "tracking", "applying"}
    /\ pc' = [pc EXCEPT ![r] = "failed"]
    /\ mine' = [mine EXCEPT ![r] = {}] /\ todo' = [todo EXCEPT ![r] = {}]
    /\ UNCHANGED <<disk, table, mode, found, printed, starts>>

(* The insert of a version that another run has committed meanwhile.        *)
Conflict(r) ==
    /\ pc[r] = "applying"
    /\ \E f \in Earliest(todo[r]) : f.version \in recorded
    /\ Fail(r)

Step(r) ==
    \/ EnsureTrackingTable(r) \/ ReadApplied(r) \/ ApplyMigration(r)
    \/ Commit(r) \/ Conflict(r)

Next == AddFile \/ \E r \in Runs : Discover(r) \/ Step(r) \/ Fail(r)

Spec == Init /\ [][Next]_vars

(* A started process keeps running; the database answers it.                *)
FairSpec == Spec /\ \A r \in Runs : WF_vars(Step(r))

-----------------------------------------------------------------------------
(* Properties.                                                              *)

(* Every variable keeps its shape.                                          *)
TypeOK ==
    /\ disk \subseteq Files /\ tracked \in BOOLEAN /\ recorded \subseteq Versions
    /\ applied \in [Versions -> Nat]
    /\ pc \in [Runs -> {"idle", "connected", "tracking", "applying", "ok", "failed"}]
    /\ mode \in [Runs -> Modes]
    /\ found \in [Runs -> SUBSET Files] /\ todo \in [Runs -> SUBSET Files]
    /\ mine \in [Runs -> SUBSET Versions] /\ printed \in [Runs -> SUBSET Versions]
    /\ starts \in Nat

(* However runs overlap, fail and are repeated, the statements of a version *)
(* are committed once at most, and exactly when the version is recorded.    *)
AppliedOnce == \A v \in Versions : applied[v] = (IF v \in recorded THEN 1 ELSE 0)

(* However runs overlap, fail and are repeated, the database has the        *)
(* history of runs that came one after the other, each whole or not at all: *)
(* Migrate implements MigrationLedger.                                      *)
Ledger == INSTANCE MigrationLedger WITH
    directory <- disk, done <- recorded, times <- applied

RunsAreSerial == Ledger!Spec

(* A migration is applied on top of every lower-numbered one of its         *)
(* checkout.                                                                *)
InOrder ==
    \A r \in Runs, f, g \in Files :
       /\ f \in found[r] /\ g \in found[r] /\ f.number < g.number
       /\ g.version \in mine[r]
       => f.version \in recorded \union mine[r]

(* A run that reports success leaves the database at its checkout.          *)
SuccessMeansApplied ==
    \A r \in Runs :
       pc[r] = "ok" /\ mode[r] = "apply" => {f.version : f \in found[r]} \subseteq recorded

(* No run hangs: two of them never wait for each other.                     *)
RunsEnd == \A r \in Runs : ~Idle(r) ~> Idle(r)

(* "A failure stops the run before touching any later migration;            *)
(* already-committed earlier migrations stay applied".                      *)
EarlierStayApplied == \A r \in Runs : pc[r] = "failed" => printed[r] \subseteq recorded
=============================================================================
