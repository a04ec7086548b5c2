--------------------------- MODULE Migrate_proofs ---------------------------
(***************************************************************************)
(* Theorems about Migrate for any number of runs, files and starts.  The   *)
(* invariants follow from one inductive invariant, IInv: what the open     *)
(* transactions hold is disjoint and not yet recorded, and a run that      *)
(* applies accounts for each version of its checkout.                      *)
(***************************************************************************)
EXTENDS Migrate, TLAPS

(* The rows of one open transaction are in no other and not committed.      *)
Apart ==
    /\ \A r \in Runs : mine[r] \intersect recorded = {}
    /\ \A r, s \in Runs : r # s => mine[r] \intersect mine[s] = {}

(* Only a run that applies has a transaction with rows in it.               *)
Closed(r) == pc[r] # "applying" => mine[r] = {} /\ todo[r] = {}

(* discover_migrations let the checkout pass.                               *)
Checked(r) == pc[r] \in {"connected", "tracking", "applying"} => ~Duplicated(found[r])

(* A run that applies: each version of its checkout is recorded, inserted   *)
(* or still to be applied, and what is inserted came first.                 *)
Working(r) ==
    pc[r] = "applying" =>
       /\ mode[r] = "apply" /\ todo[r] \subseteq found[r]
       /\ \A f \in found[r] : f.version \in recorded \union mine[r] \/ f \in todo[r]
       /\ \A g \in found[r], f \in todo[r] : g.version \in mine[r] => g.number <= f.number

(* SuccessMeansApplied, of one run.                                         *)
Done(r) ==
    pc[r] = "ok" /\ mode[r] = "apply" => \A f \in found[r] : f.version \in recorded

RunInv(r) == Closed(r) /\ Checked(r) /\ Working(r) /\ Done(r)

IInv == TypeOK /\ Apart /\ AppliedOnce /\ \A r \in Runs : RunInv(r)

-----------------------------------------------------------------------------

(* Each file has a version, and a number that can be compared.              *)
LEMMA FilesHaveVersions ==
    ASSUME NEW f \in Files
    PROVE  f.version \in Versions /\ f.number \in Nat
  BY MigrateAssumption DEF Versions

(* No run has a transaction at the start.                                   *)
LEMMA InitIInv == Init => IInv
  <1> SUFFICES ASSUME Init PROVE IInv
    OBVIOUS
  <1>1. TypeOK
    BY MigrateAssumption DEF Init, TypeOK, Modes
  <1>2. Apart /\ AppliedOnce
    BY DEF Init, Apart, AppliedOnce
  <1>3. ASSUME NEW r \in Runs PROVE RunInv(r)
    BY DEF Init, RunInv, Closed, Checked, Working, Done
  <1> QED BY <1>1, <1>2, <1>3 DEF IInv

(* A run that does not act keeps its part, since what is recorded only      *)
(* grows.                                                                   *)
LEMMA OthersKeep ==
    ASSUME NEW s \in Runs, RunInv(s), recorded \subseteq recorded',
           pc'[s] = pc[s], mode'[s] = mode[s], found'[s] = found[s],
           todo'[s] = todo[s], mine'[s] = mine[s]
    PROVE  RunInv(s)'
  BY DEF RunInv, Closed, Checked, Working, Done, Duplicated

-----------------------------------------------------------------------------
(* The steps.                                                               *)

(* A new file is no part of a run that has started.                         *)
LEMMA AddFileIInv == IInv /\ AddFile => IInv'
  <1> SUFFICES ASSUME IInv, AddFile PROVE IInv'
    OBVIOUS
  <1> USE DEF AddFile, table, runs
  <1>1. TypeOK'
    BY DEF IInv, TypeOK
  <1>2. Apart' /\ AppliedOnce'
    BY DEF IInv, Apart, AppliedOnce
  <1>3. ASSUME NEW s \in Runs PROVE RunInv(s)'
    BY OthersKeep DEF IInv
  <1> QED BY <1>1, <1>2, <1>3 DEF IInv

(* A run that starts has nothing open, and an empty directory is applied.   *)
LEMMA DiscoverIInv == ASSUME NEW r \in Runs PROVE IInv /\ Discover(r) => IInv'
  <1> SUFFICES ASSUME IInv, Discover(r) PROVE IInv'
    OBVIOUS
  <1> USE DEF Discover, table
  <1>0. TypeOK
    BY DEF IInv
  <1>1. TypeOK'
    <2>1. pc' \in [Runs -> {"idle", "connected", "tracking", "applying", "ok", "failed"}]
      BY <1>0 DEF TypeOK
    <2>2. mode' \in [Runs -> Modes]
      BY <1>0 DEF TypeOK
    <2>3. found' \in [Runs -> SUBSET Files] /\ printed' \in [Runs -> SUBSET Versions]
      BY <1>0 DEF TypeOK
    <2> QED BY <1>0, <2>1, <2>2, <2>3 DEF TypeOK
  <1>2. Apart' /\ AppliedOnce'
    BY DEF IInv, Apart, AppliedOnce
  <1>3. ASSUME NEW s \in Runs PROVE RunInv(s)'
    <2>1. CASE s # r
      <3>1. /\ pc'[s] = pc[s] /\ mode'[s] = mode[s] /\ found'[s] = found[s]
            /\ todo'[s] = todo[s] /\ mine'[s] = mine[s]
        BY <1>0, <2>1 DEF TypeOK
      <3> QED BY <3>1, OthersKeep DEF IInv
    <2>2. CASE s = r
      <3>1. mine'[r] = {} /\ todo'[r] = {}
        BY DEF IInv, RunInv, Closed, Idle
      <3>2. found'[r] = disk
        BY <1>0 DEF TypeOK
      <3>3. pc'[r] = IF Duplicated(disk) THEN "failed"
                     ELSE IF disk = {} THEN "ok" ELSE "connected"
        BY <1>0 DEF TypeOK
      <3>4. pc'[r] = "connected" => ~Duplicated(disk)
        BY <3>3
      <3>5. pc'[r] # "applying" /\ pc'[r] # "tracking"
        BY <3>3
      <3>6. Checked(r)'
        BY <3>2, <3>4, <3>5 DEF Checked, Duplicated
      <3>7. Done(r)'
        BY <3>2, <3>3 DEF Done
      <3> QED BY <2>2, <3>1, <3>5, <3>6, <3>7 DEF RunInv, Closed, Working
    <2> QED BY <2>1, <2>2
  <1> QED BY <1>1, <1>2, <1>3 DEF IInv

(* The table is created; the run has read nothing yet.                      *)
LEMMA EnsureTrackingTableIInv ==
    ASSUME NEW r \in Runs PROVE IInv /\ EnsureTrackingTable(r) => IInv'
  <1> SUFFICES ASSUME IInv, EnsureTrackingTable(r) PROVE IInv'
    OBVIOUS
  <1> USE DEF EnsureTrackingTable
  <1>0. TypeOK
    BY DEF IInv
  <1>1. TypeOK'
    BY <1>0 DEF TypeOK
  <1>2. Apart' /\ AppliedOnce'
    BY DEF IInv, Apart, AppliedOnce
  <1>3. ASSUME NEW s \in Runs PROVE RunInv(s)'
    <2>1. CASE s # r
      <3>1. pc'[s] = pc[s]
        BY <1>0, <2>1 DEF TypeOK
      <3> QED BY <3>1, OthersKeep DEF IInv
    <2>2. CASE s = r
      <3>1. pc[r] = "connected" /\ pc'[r] = "tracking"
        BY <1>0 DEF TypeOK
      <3>2. RunInv(r)
        BY DEF IInv
      <3> QED BY <2>2, <3>1, <3>2 DEF RunInv, Closed, Checked, Working, Done, Duplicated
    <2> QED BY <2>1, <2>2
  <1> QED BY <1>1, <1>2, <1>3 DEF IInv

(* What is not pending when it is decided is recorded.                      *)
LEMMA ReadAppliedIInv == ASSUME NEW r \in Runs PROVE IInv /\ ReadApplied(r) => IInv'
  <1> SUFFICES ASSUME IInv, ReadApplied(r) PROVE IInv'
    OBVIOUS
  <1> DEFINE left == IF mode[r] = "report" THEN {} ELSE Pending(r)
  <1>0. TypeOK
    BY DEF IInv
  <1>a. /\ pc[r] = "tracking"
        /\ todo' = [todo EXCEPT ![r] = left]
        /\ pc' = [pc EXCEPT ![r] = IF left = {} THEN "ok" ELSE "applying"]
        /\ UNCHANGED <<disk, tracked, recorded, applied, mode, found, mine, printed, starts>>
    BY DEF ReadApplied, table
  <1>b. left \subseteq found[r] /\ left \subseteq Files
    BY <1>0 DEF TypeOK, Pending
  <1>1. TypeOK'
    <2>1. todo' \in [Runs -> SUBSET Files]
      BY <1>0, <1>a, <1>b DEF TypeOK
    <2>2. pc' \in [Runs -> {"idle", "connected", "tracking", "applying", "ok", "failed"}]
      BY <1>0, <1>a DEF TypeOK
    <2> QED BY <1>0, <1>a, <2>1, <2>2 DEF TypeOK
  <1>2. Apart' /\ AppliedOnce'
    BY <1>a DEF IInv, Apart, AppliedOnce
  <1>3. ASSUME NEW s \in Runs PROVE RunInv(s)'
    <2>1. CASE s # r
      <3>1. pc'[s] = pc[s] /\ todo'[s] = todo[s]
        BY <1>0, <1>a, <2>1 DEF TypeOK
      <3> QED BY <1>a, <3>1, OthersKeep DEF IInv
    <2>2. CASE s = r
      <3>1. pc'[r] = (IF left = {} THEN "ok" ELSE "applying") /\ todo'[r] = left
        BY <1>0, <1>a DEF TypeOK
      <3>2. mine[r] = {} /\ ~Duplicated(found[r])
        BY <1>a DEF IInv, RunInv, Closed, Checked
      <3>3. mode[r] = "apply" => \A f \in found[r] : f.version \in recorded \/ f \in left
        BY DEF Pending
      <3>4. left # {} => mode[r] = "apply"
        BY <1>0 DEF TypeOK, Modes
      <3>5. Closed(r)' /\ Checked(r)'
        BY <1>a, <3>1, <3>2 DEF Closed, Checked, Duplicated
      <3>6. Working(r)'
        <4> SUFFICES ASSUME pc'[r] = "applying" PROVE Working(r)'
          BY DEF Working
        <4>1. left # {} /\ mode'[r] = "apply"
          BY <1>a, <3>1, <3>4
        <4> HIDE DEF left
        <4> QED BY <1>a, <1>b, <3>1, <3>2, <3>3, <4>1 DEF Working
      <3>7. Done(r)'
        <4> HIDE DEF left
        <4> QED BY <1>a, <3>1, <3>3 DEF Done
      <3> QED BY <2>2, <3>5, <3>6, <3>7 DEF RunInv
    <2> QED BY <2>1, <2>2
  <1> QED BY <1>1, <1>2, <1>3 DEF IInv

(* The version that is inserted is in no transaction, and the lowest.       *)
LEMMA ApplyMigrationIInv ==
    ASSUME NEW r \in Runs PROVE IInv /\ ApplyMigration(r) => IInv'
  <1> SUFFICES ASSUME IInv, ApplyMigration(r) PROVE IInv'
    OBVIOUS
  <1>0. TypeOK /\ RunInv(r)
    BY DEF IInv
  <1>1. PICK f \in Earliest(todo[r]) :
          /\ Inserts(r, f.version)
          /\ mine' = [mine EXCEPT ![r] = @ \union {f.version}]
          /\ printed' = [printed EXCEPT ![r] = @ \union {f.version}]
          /\ todo' = [todo EXCEPT ![r] = @ \ {f}]
    BY DEF ApplyMigration
  <1>2. /\ pc[r] = "applying"
        /\ UNCHANGED <<disk, tracked, recorded, applied, pc, mode, found, starts>>
    BY DEF ApplyMigration, table
  <1>3. f \in todo[r] /\ \A g \in todo[r] : f.number <= g.number
    BY DEF Earliest
  <1>4. f \in found[r] /\ f \in Files /\ f.version \in Versions
    BY <1>0, <1>2, <1>3, FilesHaveVersions DEF RunInv, Working, TypeOK
  <1>5. f.version \notin recorded /\ \A s \in Runs \ {r} : f.version \notin mine[s]
    BY <1>1 DEF Inserts
  <1>6. mine'[r] = mine[r] \union {f.version} /\ todo'[r] = todo[r] \ {f}
    BY <1>0, <1>1 DEF TypeOK
  <1>7. \A s \in Runs : s # r => mine'[s] = mine[s] /\ todo'[s] = todo[s]
    BY <1>0, <1>1 DEF TypeOK
  <1>8. TypeOK'
    <2>1. /\ mine' \in [Runs -> SUBSET Versions] /\ printed' \in [Runs -> SUBSET Versions]
          /\ todo' \in [Runs -> SUBSET Files]
      BY <1>0, <1>1, <1>4 DEF TypeOK
    <2> QED BY <1>0, <1>2, <2>1 DEF TypeOK
  <1>9. Apart'
    BY <1>2, <1>5, <1>6, <1>7 DEF IInv, Apart
  <1>10. AppliedOnce'
    BY <1>2 DEF IInv, AppliedOnce
  <1>11. ASSUME NEW s \in Runs PROVE RunInv(s)'
    <2>1. CASE s # r
      BY <1>2, <1>7, <2>1, OthersKeep DEF IInv
    <2>2. CASE s = r
      <3>1. ~Duplicated(found[r])
        BY <1>0, <1>2 DEF RunInv, Checked
      <3>2. \A g \in found[r] : g.version = f.version => g = f
        BY <1>4, <3>1 DEF Duplicated
      <3>3. Working(r)
        BY <1>0 DEF RunInv
      <3>4. Working(r)'
        <4>1. todo'[r] \subseteq found'[r] /\ mode'[r] = "apply"
          BY <1>2, <1>6, <3>3 DEF Working
        <4>2. ASSUME NEW g \in found[r]
              PROVE  g.version \in recorded \union mine'[r] \/ g \in todo'[r]
          BY <1>2, <1>6, <3>3 DEF Working
        <4>3. ASSUME NEW g \in found[r], NEW h \in todo'[r], g.version \in mine'[r]
              PROVE  g.number <= h.number
          <5>1. h \in todo[r]
            BY <1>6
          <5>2. CASE g.version \in mine[r]
            BY <1>2, <3>3, <5>1, <5>2 DEF Working
          <5>3. CASE g.version = f.version
            BY <1>3, <3>2, <5>1, <5>3
          <5> QED BY <1>6, <4>3, <5>2, <5>3
        <4> QED BY <1>2, <4>1, <4>2, <4>3 DEF Working
      <3> QED BY <1>2, <2>2, <3>1, <3>4 DEF RunInv, Closed, Checked, Done, Duplicated
    <2> QED BY <2>1, <2>2
  <1> QED BY <1>8, <1>9, <1>10, <1>11 DEF IInv

(* What is committed was not recorded, and the checkout is now.             *)
LEMMA CommitIInv == ASSUME NEW r \in Runs PROVE IInv /\ Commit(r) => IInv'
  <1> SUFFICES ASSUME IInv, Commit(r) PROVE IInv'
    OBVIOUS
  <1>0. TypeOK /\ Apart /\ AppliedOnce /\ RunInv(r)
    BY DEF IInv
  <1>1. /\ pc[r] = "applying" /\ todo[r] = {}
        /\ recorded' = recorded \union mine[r]
        /\ applied' = [v \in Versions |-> IF v \in mine[r] THEN applied[v] + 1 ELSE applied[v]]
        /\ mine' = [mine EXCEPT ![r] = {}] /\ todo' = [todo EXCEPT ![r] = {}]
        /\ pc' = [pc EXCEPT ![r] = "ok"]
        /\ UNCHANGED <<disk, tracked, mode, found, printed, starts>>
    BY DEF Commit, AllApplied
  <1>2. mine'[r] = {} /\ todo'[r] = {} /\ pc'[r] = "ok"
    BY <1>0, <1>1 DEF TypeOK
  <1>3. \A s \in Runs : s # r => mine'[s] = mine[s] /\ todo'[s] = todo[s] /\ pc'[s] = pc[s]
    BY <1>0, <1>1 DEF TypeOK
  <1>4. mine[r] \subseteq Versions
    BY <1>0 DEF TypeOK
  <1>5. TypeOK'
    <2>1. applied' \in [Versions -> Nat]
      BY <1>0, <1>1 DEF TypeOK
    <2>2. pc' \in [Runs -> {"idle", "connected", "tracking", "applying", "ok", "failed"}]
      BY <1>0, <1>1 DEF TypeOK
    <2>3. mine' \in [Runs -> SUBSET Versions] /\ todo' \in [Runs -> SUBSET Files]
      BY <1>0, <1>1 DEF TypeOK
    <2>4. recorded' \subseteq Versions
      BY <1>0, <1>1, <1>4 DEF TypeOK
    <2> QED BY <1>0, <1>1, <2>1, <2>2, <2>3, <2>4 DEF TypeOK
  <1>6. Apart'
    <2>1. ASSUME NEW s \in Runs PROVE mine'[s] \intersect recorded' = {}
      BY <1>0, <1>1, <1>2, <1>3 DEF Apart
    <2>2. ASSUME NEW s \in Runs, NEW t \in Runs, s # t
          PROVE  mine'[s] \intersect mine'[t] = {}
      BY <1>0, <1>2, <1>3, <2>2 DEF Apart
    <2> QED BY <2>1, <2>2 DEF Apart
  <1>7. AppliedOnce'
    <2> SUFFICES ASSUME NEW v \in Versions
                 PROVE  applied'[v] = (IF v \in recorded' THEN 1 ELSE 0)
      BY DEF AppliedOnce
    <2>1. applied'[v] = IF v \in mine[r] THEN applied[v] + 1 ELSE applied[v]
      BY <1>1
    <2>2. applied[v] = (IF v \in recorded THEN 1 ELSE 0)
      BY <1>0 DEF AppliedOnce
    <2>3. CASE v \in mine[r]
      <3>1. v \notin recorded
        BY <1>0, <2>3 DEF Apart
      <3> QED BY <1>1, <2>1, <2>2, <2>3, <3>1
    <2>4. CASE v \notin mine[r]
      BY <1>1, <2>1, <2>2, <2>4
    <2> QED BY <2>3, <2>4
  <1>8. ASSUME NEW s \in Runs PROVE RunInv(s)'
    <2>1. CASE s # r
      BY <1>1, <1>3, <2>1, OthersKeep DEF IInv
    <2>2. CASE s = r
      <3>1. \A f \in found[r] : f.version \in recorded'
        BY <1>0, <1>1 DEF RunInv, Working
      <3> QED BY <1>1, <1>2, <2>2, <3>1 DEF RunInv, Closed, Checked, Working, Done
    <2> QED BY <2>1, <2>2
  <1> QED BY <1>5, <1>6, <1>7, <1>8 DEF IInv

(* A rollback leaves nothing open and nothing recorded.                     *)
LEMMA FailIInv == ASSUME NEW r \in Runs PROVE IInv /\ Fail(r) => IInv'
  <1> SUFFICES ASSUME IInv, Fail(r) PROVE IInv'
    OBVIOUS
  <1>0. TypeOK /\ Apart
    BY DEF IInv
  <1>1. /\ mine' = [mine EXCEPT ![r] = {}] /\ todo' = [todo EXCEPT ![r] = {}]
        /\ pc' = [pc EXCEPT ![r] = "failed"]
        /\ UNCHANGED <<disk, tracked, recorded, applied, mode, found, printed, starts>>
    BY DEF Fail, table
  <1>2. mine'[r] = {} /\ todo'[r] = {} /\ pc'[r] = "failed"
    BY <1>0, <1>1 DEF TypeOK
  <1>3. \A s \in Runs : s # r => mine'[s] = mine[s] /\ todo'[s] = todo[s] /\ pc'[s] = pc[s]
    BY <1>0, <1>1 DEF TypeOK
  <1>4. TypeOK'
    BY <1>0, <1>1 DEF TypeOK
  <1>5. Apart'
    <2>1. \A s \in Runs : mine'[s] \subseteq mine[s]
      BY <1>2, <1>3
    <2> QED BY <1>0, <1>1, <2>1 DEF Apart
  <1>6. AppliedOnce'
    BY <1>1 DEF IInv, AppliedOnce
  <1>7. ASSUME NEW s \in Runs PROVE RunInv(s)'
    <2>1. CASE s # r
      BY <1>1, <1>3, <2>1, OthersKeep DEF IInv
    <2>2. CASE s = r
      BY <1>2, <2>2 DEF RunInv, Closed, Checked, Working, Done
    <2> QED BY <2>1, <2>2
  <1> QED BY <1>4, <1>5, <1>6, <1>7 DEF IInv

(* Every step keeps the invariant.                                          *)
LEMMA NextIInv == IInv /\ [Next]_vars => IInv'
  <1> SUFFICES ASSUME IInv, [Next]_vars PROVE IInv'
    OBVIOUS
  <1>1. CASE AddFile
    BY <1>1, AddFileIInv
  <1>2. ASSUME NEW r \in Runs, Discover(r) PROVE IInv'
    BY <1>2, DiscoverIInv
  <1>3. ASSUME NEW r \in Runs, EnsureTrackingTable(r) PROVE IInv'
    BY <1>3, EnsureTrackingTableIInv
  <1>4. ASSUME NEW r \in Runs, ReadApplied(r) PROVE IInv'
    BY <1>4, ReadAppliedIInv
  <1>5. ASSUME NEW r \in Runs, ApplyMigration(r) PROVE IInv'
    BY <1>5, ApplyMigrationIInv
  <1>6. ASSUME NEW r \in Runs, Commit(r) PROVE IInv'
    BY <1>6, CommitIInv
  <1>7. ASSUME NEW r \in Runs, Fail(r) PROVE IInv'
    BY <1>7, FailIInv
  <1>8. CASE UNCHANGED vars
    BY <1>8 DEF IInv, TypeOK, Apart, AppliedOnce, RunInv, Closed, Checked, Working, Done,
                Duplicated, vars, table, runs
  <1> QED
    BY <1>1, <1>2, <1>3, <1>4, <1>5, <1>6, <1>7, <1>8 DEF Next, Step, Conflict

-----------------------------------------------------------------------------
(* The theorems.                                                            *)

(* The inductive invariant holds.                                           *)
LEMMA Invariance == Spec => []IInv
  <1> QED BY InitIInv, NextIInv, PTL DEF Spec

(* Every variable keeps its shape.                                          *)
THEOREM MigrateTypeCorrect == Spec => []TypeOK
  <1>1. IInv => TypeOK
    BY DEF IInv
  <1> QED BY <1>1, Invariance, PTL

(* However many runs overlap, fail and are repeated (main, apply_migration),*)
(* no version takes effect twice.                                           *)
THEOREM NothingIsAppliedTwice == Spec => []AppliedOnce
  <1>1. IInv => AppliedOnce
    BY DEF IInv
  <1> QED BY <1>1, Invariance, PTL

(* A run that ends well has its whole checkout recorded (main's exit 0).    *)
THEOREM SuccessIsComplete == Spec => []SuccessMeansApplied
  <1>1. IInv => SuccessMeansApplied
    BY DEF IInv, RunInv, Done, SuccessMeansApplied
  <1> QED BY <1>1, Invariance, PTL

(* A migration is applied on top of every lower-numbered one of its         *)
(* checkout (the order discover_migrations gives), recorded meanwhile or    *)
(* in the same transaction.                                                 *)
THEOREM AppliedInOrder == Spec => []InOrder
  <1>1. IInv => InOrder
    <2> SUFFICES ASSUME IInv,
                        NEW r \in Runs, NEW f \in Files, NEW g \in Files,
                        f \in found[r], g \in found[r], f.number < g.number,
                        g.version \in mine[r]
                 PROVE  f.version \in recorded \union mine[r]
      BY DEF InOrder
    <2>1. RunInv(r)
      BY DEF IInv
    <2>2. pc[r] = "applying"
      BY <2>1 DEF RunInv, Closed
    <2>3. f \in todo[r] => g.number <= f.number
      BY <2>1, <2>2 DEF RunInv, Working
    <2>4. f.number \in Nat /\ g.number \in Nat
      BY FilesHaveVersions
    <2>5. f \notin todo[r]
      BY <2>3, <2>4
    <2> QED BY <2>1, <2>2, <2>5 DEF RunInv, Working
  <1> QED BY <1>1, Invariance, PTL

-----------------------------------------------------------------------------
(* The refinement.                                                          *)

(* A run has found files that are deployed, and inserted versions of those. *)
Found ==
    \A r \in Runs : found[r] \subseteq disk
                   /\ mine[r] \subseteq {f.version : f \in found[r]}

LEMMA FoundStep ==
    ASSUME IInv, Found, [Next]_vars
    PROVE  Found'
  <1>0. TypeOK /\ \A r \in Runs : RunInv(r)
    BY DEF IInv
  <1>1. CASE AddFile
    BY <1>1 DEF AddFile, table, runs, Found
  <1>2. ASSUME NEW r \in Runs, Discover(r) PROVE Found'
    <2>1. disk' = disk /\ mine' = mine /\ mine[r] = {}
      BY <1>0, <1>2 DEF Discover, RunInv, Closed, Idle
    <2>2. found'[r] = disk /\ \A s \in Runs : s # r => found'[s] = found[s]
      BY <1>0, <1>2 DEF Discover, TypeOK
    <2> QED BY <2>1, <2>2 DEF Found
  <1>3. ASSUME NEW r \in Runs, ApplyMigration(r) PROVE Found'
    <2>1. PICK f \in todo[r] : mine' = [mine EXCEPT ![r] = @ \union {f.version}]
      BY <1>3 DEF ApplyMigration, Earliest
    <2>2. f \in found[r] /\ disk' = disk /\ found' = found
      BY <1>0, <1>3 DEF ApplyMigration, RunInv, Working
    <2>3. \A s \in Runs : mine'[s] \subseteq mine[s] \union
                              (IF s = r THEN {f.version} ELSE {})
      BY <1>0, <2>1 DEF TypeOK
    <2> QED BY <2>2, <2>3 DEF Found
  <1>4. ASSUME NEW r \in Runs, Commit(r) \/ Fail(r) PROVE Found'
    <2>1. mine' = [mine EXCEPT ![r] = {}] /\ disk' = disk /\ found' = found
      BY <1>4 DEF Commit, Fail
    <2>2. \A s \in Runs : mine'[s] \subseteq mine[s]
      BY <1>0, <2>1 DEF TypeOK
    <2> QED BY <2>1, <2>2 DEF Found
  <1>5. ASSUME NEW r \in Runs, EnsureTrackingTable(r) \/ ReadApplied(r) PROVE Found'
    BY <1>5 DEF EnsureTrackingTable, ReadApplied, Found
  <1>6. CASE UNCHANGED vars
    BY <1>6 DEF vars, runs, Found
  <1> QED BY <1>1, <1>2, <1>3, <1>4, <1>5, <1>6 DEF Next, Step, Conflict

LEMMA FoundInvariance == Spec => []Found
  <1>1. Init => Found
    BY DEF Init, Found
  <1> QED BY <1>1, FoundStep, Invariance, PTL DEF Spec

(* A commit is the run: what it has inserted is what was missing of its     *)
(* checkout, also if others have committed since it began.                  *)
LEMMA CommitIsRun ==
    ASSUME IInv, Found, NEW r \in Runs, Commit(r)
    PROVE  Ledger!MigrateTo(found[r])
  <1>0. RunInv(r) /\ pc[r] = "applying" /\ todo[r] = {}
    BY DEF IInv, Commit, AllApplied
  <1>1. Ledger!VersionsOf(found[r]) = {f.version : f \in found[r]}
    BY DEF Ledger!VersionsOf
  <1>2. mine[r] = Ledger!VersionsOf(found[r]) \ recorded
    <2>1. \A f \in found[r] : f.version \in recorded \union mine[r]
      BY <1>0 DEF RunInv, Working
    <2>2. mine[r] \subseteq {f.version : f \in found[r]} /\ mine[r] \intersect recorded = {}
      BY DEF IInv, Apart, Found
    <2> QED BY <1>1, <2>1, <2>2
  <1>3. Ledger!Checkout(found[r])
    BY <1>0 DEF Found, RunInv, Checked, Duplicated, Ledger!Checkout
  <1>4. /\ recorded' = recorded \union mine[r] /\ disk' = disk
        /\ applied' = [v \in Versions |->
                          IF v \in mine[r] THEN applied[v] + 1 ELSE applied[v]]
    BY DEF Commit
  <1>5. Versions = Ledger!VersionsOf(Files)
    BY DEF Versions, Ledger!VersionsOf
  <1> QED BY <1>2, <1>3, <1>4, <1>5 DEF Ledger!MigrateTo

(* Overlapping, failing and repeated runs (main, apply_migration) give the  *)
(* database the history of runs that come one after the other.              *)
THEOREM RunsSerialize == Spec => RunsAreSerial
  <1>1. Init => Ledger!Init
    BY DEF Init, Ledger!Init, Versions, Ledger!VersionsOf
  <1>2. ASSUME IInv, Found, [Next]_vars
        PROVE  [Ledger!Next]_Ledger!mvars
    <2>1. CASE AddFile
      <3>1. Ledger!Deploy
        BY <2>1 DEF AddFile, table, Ledger!Deploy
      <3> QED BY <3>1 DEF Ledger!Next
    <2>2. ASSUME NEW r \in Runs, Commit(r) PROVE Ledger!Next
      <3>1. found[r] \in SUBSET disk
        BY <1>2 DEF Found
      <3> QED BY <1>2, <2>2, <3>1, CommitIsRun DEF Ledger!Next
    <2>3. ASSUME NEW r \in Runs,
                 \/ Discover(r) \/ Fail(r) \/ EnsureTrackingTable(r)
                 \/ ReadApplied(r) \/ ApplyMigration(r)
          PROVE  UNCHANGED Ledger!mvars
      BY <2>3 DEF Discover, Fail, EnsureTrackingTable, ReadApplied, ApplyMigration, table,
                  Ledger!mvars
    <2>4. CASE UNCHANGED vars
      BY <2>4 DEF vars, table, Ledger!mvars
    <2> QED BY <1>2, <2>1, <2>2, <2>3, <2>4 DEF Next, Step, Conflict
  <1> QED BY <1>1, <1>2, Invariance, FoundInvariance, PTL DEF Spec, RunsAreSerial, Ledger!Spec
=============================================================================
