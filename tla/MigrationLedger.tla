--------------------------- MODULE MigrationLedger ---------------------------
(***************************************************************************)
(* What the migration runner promises to a deployment: the database has    *)
(* the history that runs one after the other would give it.  A run is one  *)
(* step, which brings the database to the files of one checkout, whole or  *)
(* not at all, and gives effect to those that were missing, once.          *)
(***************************************************************************)
EXTENDS Integers

CONSTANTS Files, FirstFiles

VARIABLES
    directory,  \* the files that were deployed
    done,       \* versions the database has
    times       \* how often each version took effect

mvars == <<directory, done, times>>

VersionsOf(files) == {f.version : f \in files}

Init ==
    /\ directory = FirstFiles /\ done = {}
    /\ times = [v \in VersionsOf(Files) |-> 0]

Deploy ==
    /\ \E f \in Files \ directory : directory' = directory \union {f}
    /\ UNCHANGED <<done, times>>

(* A checkout has one file of a version.                                    *)
Checkout(files) ==
    /\ files \subseteq directory
    /\ \A f, g \in files : f.version = g.version => f = g

MigrateTo(files) ==
    /\ Checkout(files)
    /\ done' = done \union VersionsOf(files)
    /\ times' = [v \in VersionsOf(Files) |->
                    IF v \in VersionsOf(files) \ done THEN times[v] + 1 ELSE times[v]]
    /\ UNCHANGED directory

Next == Deploy \/ \E files \in SUBSET directory : MigrateTo(files)

Spec == Init /\ [][Next]_mvars
=============================================================================
