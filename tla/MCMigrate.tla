----------------------------- MODULE MCMigrate -----------------------------
(***************************************************************************)
(* Small instances of Migrate: two files at first; later one with a lower  *)
(* number and one whose version is taken.  As strings, "10" < "9".         *)
(***************************************************************************)
EXTENDS Migrate

File(v, n, name) == [version |-> v, number |-> n, name |-> name]

EarlyFiles == {File("9", 9, "deals"), File("10", 10, "views")}
LateFiles == EarlyFiles \union {File("8", 8, "seed"), File("10", 10, "roles")}
=============================================================================
