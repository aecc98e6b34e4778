--------------------------- MODULE StartUpProofs ---------------------------
(***************************************************************************)
(* Proofs about StartUp, for every number of processes, hosts, migrations  *)
(* and faults, and every environment.                                      *)
(***************************************************************************)
EXTENDS StartUp, TLAPS

LEMMA StartInit == Init => StartInv
<1> SUFFICES ASSUME Init PROVE StartInv
  OBVIOUS
<1>1. TypeOK
  <2>1. version \in 0 .. Count /\ applied \in [Migrations -> Nat] /\ faults \in Nat
    BY StartBounds DEF Init
  <2>2. lock \in Instances \cup {NULL} /\ pc \in [Instances -> PCs]
        /\ daemon \in [Instances -> {"none", "starting", "up", "failed"}]
    BY DEF Init, PCs
  <2>3. dirty \in BOOLEAN /\ keyed \in BOOLEAN
    BY DEF Init
  <2> QED
    BY <2>1, <2>2, <2>3 DEF TypeOK
<1>2. VersionMatches
  BY DEF Init, VersionMatches, Migrations
<1>3. ASSUME NEW i \in Instances PROVE Placed(i)
  <2>1. pc[i] = "down" /\ lock # i
    BY StartNull DEF Init
  <2> QED
    BY <2>1 DEF Placed, Locked
<1> QED
  BY <1>1, <1>2, <1>3 DEF StartInv

LEMMA FaultsTyped == TypeOK /\ (UNCHANGED faults \/ Fault) => faults' \in Nat
  BY DEF TypeOK, Fault

\* A step of one process that leaves the schema and the key alone.
LEMMA LocalStep ==
  ASSUME StartInv, UNCHANGED <<version, dirty, applied, keyed>>,
         NEW i \in Instances, NEW next \in PCs, Goes(i, next),
         lock' \in Instances \cup {NULL}, faults' \in Nat,
         daemon' \in [Instances -> {"none", "starting", "up", "failed"}],
         \A j \in Instances \ {i} : lock = j <=> lock' = j,
         Placed(i)'
  PROVE  StartInv'
<1>1. pc' = [pc EXCEPT ![i] = next] /\ pc \in [Instances -> PCs]
  BY DEF Goes, StartInv, TypeOK
<1>2. TypeOK'
  BY <1>1 DEF StartInv, TypeOK
<1>3. VersionMatches'
  BY DEF StartInv, VersionMatches
<1>4. ASSUME NEW j \in Instances \ {i} PROVE Placed(j)'
  <2>1. pc'[j] = pc[j] /\ Placed(j) /\ (lock = j <=> lock' = j)
    BY <1>1 DEF StartInv
  <2> QED
    BY <2>1 DEF Placed, Locked
<1> QED
  BY <1>2, <1>3, <1>4 DEF StartInv

\* The end of a process, wherever it is.
LEMMA DeathStep ==
  ASSUME StartInv, UNCHANGED <<version, dirty, applied, keyed>>,
         NEW i \in Instances, Dies(i), faults' \in Nat
  PROVE  StartInv'
<1>1. Goes(i, "down") /\ "down" \in PCs
  BY DEF Dies, PCs
<1>2. /\ lock' \in Instances \cup {NULL} /\ lock' # i
      /\ \A j \in Instances \ {i} : lock = j <=> lock' = j
  BY StartNull DEF Dies, StartInv, TypeOK
<1>3. daemon' \in [Instances -> {"none", "starting", "up", "failed"}]
  BY DEF Dies, StartInv, TypeOK
<1>4. Placed(i)'
  <2>1. pc'[i] = "down"
    BY <1>1 DEF Goes, StartInv, TypeOK
  <2> QED
    BY <1>2, <2>1 DEF Placed, Locked
<1> QED
  BY <1>1, <1>2, <1>3, <1>4, LocalStep

LEMMA LoadStep == ASSUME StartInv, NEW i \in Instances, Load(i) PROVE StartInv'
<1>1. Goes(i, "open") /\ "open" \in PCs /\ pc'[i] = "open"
  BY DEF Load, PCs, Goes, StartInv, TypeOK
<1>2. Placed(i)'
  BY <1>1 DEF Load, StartInv, Placed, Locked
<1> QED
  BY <1>1, <1>2, LocalStep DEF Load, Schema, StartInv, TypeOK

LEMMA InitDBStep == ASSUME StartInv, NEW i \in Instances, InitDB(i) PROVE StartInv'
<1>1. UNCHANGED <<version, dirty, applied, keyed>> /\ faults' \in Nat
  BY FaultsTyped DEF InitDB, Schema, StartInv
<1>2. CASE Dies(i)
  BY <1>1, <1>2, DeathStep
<1>3. CASE Goes(i, "lock") /\ Still
  <2>1. pc'[i] = "lock" /\ "lock" \in PCs
    BY <1>3 DEF PCs, Goes, StartInv, TypeOK
  <2>2. Placed(i)'
    BY <1>3, <2>1 DEF InitDB, Still, StartInv, Placed, Locked
  <2> QED
    BY <1>1, <1>3, <2>1, <2>2, LocalStep DEF Still, StartInv, TypeOK
<1> QED
  BY <1>2, <1>3 DEF InitDB

LEMMA LockStep == ASSUME StartInv, NEW i \in Instances, RunMigrations(i) PROVE StartInv'
<1>1. UNCHANGED <<version, dirty, applied, keyed>> /\ faults' \in Nat
  BY FaultsTyped DEF RunMigrations, Schema, StartInv
<1>2. CASE Dies(i)
  BY <1>1, <1>2, DeathStep
<1>3. CASE lock = NULL /\ Goes(i, "up") /\ lock' = i /\ UNCHANGED daemon
  <2>1. pc'[i] = "up" /\ "up" \in PCs
    BY <1>3 DEF PCs, Goes, StartInv, TypeOK
  <2>2. Placed(i)'
    BY <1>3, <2>1 DEF Placed, Locked
  <2>3. \A j \in Instances \ {i} : lock = j <=> lock' = j
    BY <1>3, StartNull
  <2> QED
    BY <1>1, <1>3, <2>1, <2>2, <2>3, LocalStep DEF StartInv, TypeOK
<1> QED
  BY <1>2, <1>3 DEF RunMigrations

\* Whoever holds the lock is alone with the schema.
LEMMA LockHolderAlone ==
  ASSUME StartInv, NEW i \in Instances, Locked(i), NEW j \in Instances \ {i}
  PROVE  ~Locked(j)
  BY DEF StartInv, Placed

LEMMA UpStep == ASSUME StartInv, NEW i \in Instances, Up(i) PROVE StartInv'
<1>1. UNCHANGED <<applied, keyed, faults>> /\ pc[i] = "up" /\ lock = i /\ faults' \in Nat
  BY DEF Up, StartInv, Placed, Locked, TypeOK
<1>2. CASE Dies(i) /\ UNCHANGED <<version, dirty>>
  BY <1>1, <1>2, DeathStep
<1>3. CASE ~dirty /\ version = Count /\ Goes(i, "key") /\ lock' = NULL /\ UNCHANGED <<version, dirty, daemon>>
  <2>1. pc'[i] = "key" /\ "key" \in PCs
    BY <1>3 DEF PCs, Goes, StartInv, TypeOK
  <2>2. Placed(i)'
    BY <1>3, <2>1, StartNull DEF Placed, Locked
  <2>3. \A j \in Instances \ {i} : lock = j <=> lock' = j
    BY <1>1, <1>3, StartNull
  <2> QED
    BY <1>1, <1>3, <2>1, <2>2, <2>3, LocalStep DEF StartInv, TypeOK
<1>4. CASE ~dirty /\ version < Count /\ version' = version + 1 /\ dirty' = TRUE /\ Goes(i, "run") /\ Still
  <2>1. pc' = [pc EXCEPT ![i] = "run"] /\ pc \in [Instances -> PCs] /\ version \in 0 .. Count
    BY <1>4 DEF Goes, StartInv, TypeOK
  <2>2. version' \in 1 .. Count
    BY <1>4, <2>1, StartBounds
  <2>3. TypeOK'
    BY <1>1, <1>4, <2>1, <2>2 DEF StartInv, TypeOK, Still, PCs
  <2>4. applied[version + 1] = 0
    BY <1>4, <2>1, <2>2 DEF StartInv, VersionMatches, Migrations
  <2>5. VersionMatches'
    BY <1>1, <1>4, <2>1, <2>2, <2>4, StartBounds DEF StartInv, VersionMatches, Migrations
  <2>6. ASSUME NEW j \in Instances PROVE Placed(j)'
    <3>1. CASE j = i
      BY <1>1, <1>4, <2>1, <2>4, <3>1 DEF Placed, Locked, Still
    <3>2. CASE j # i
      <4>1. pc'[j] = pc[j] /\ ~Locked(j) /\ Placed(j)
        BY <1>1, <2>1, <3>2, LockHolderAlone DEF StartInv, Locked
      <4>2. pc[j] \notin {"key", "listen", "serving"} /\ lock' = lock
        BY <1>4, <2>1, <4>1, StartBounds DEF Placed, Still
      <4> QED
        BY <4>1, <4>2 DEF Placed, Locked
    <3> QED
      BY <3>1, <3>2
  <2> QED
    BY <2>3, <2>5, <2>6 DEF StartInv
<1> QED
  BY <1>2, <1>3, <1>4 DEF Up

LEMMA MigrateStep == ASSUME StartInv, NEW i \in Instances, Migrate(i) PROVE StartInv'
<1> DEFINE done == [applied EXCEPT ![version] = @ + 1]
<1>1. /\ pc[i] = "run" /\ lock = i /\ dirty /\ applied[version] = 0
      /\ version \in 1 .. Count /\ applied \in [Migrations -> Nat]
      /\ pc \in [Instances -> PCs]
      /\ UNCHANGED <<version, dirty, keyed>> /\ faults' \in Nat
  BY FaultsTyped, StartBounds DEF Migrate, StartInv, Placed, Locked, VersionMatches, TypeOK
<1>2. done \in [Migrations -> Nat] /\ done[version] = 1
      /\ \A m \in Migrations : m # version => done[m] = applied[m]
  BY <1>1 DEF Migrations
<1>3. \/ Dies(i) /\ UNCHANGED applied
      \/ Dies(i) /\ applied' = done
      \/ Goes(i, "clean") /\ Still /\ applied' = done
  BY DEF Migrate
<1> HIDE DEF done
<1>4. CASE Dies(i) /\ UNCHANGED applied
  BY <1>1, <1>4, DeathStep
<1>5. CASE applied' = done /\ (Dies(i) \/ (Goes(i, "clean") /\ Still))
  <2>1. VersionMatches'
    BY <1>1, <1>2, <1>5 DEF StartInv, VersionMatches, Migrations
  <2>2. lock' \in Instances \cup {NULL} /\ pc' \in [Instances -> PCs]
        /\ daemon' \in [Instances -> {"none", "starting", "up", "failed"}]
    BY <1>5 DEF StartInv, TypeOK, PCs, Dies, Goes, Still
  <2>3. TypeOK'
    BY <1>1, <1>2, <1>5, <2>2 DEF StartInv, TypeOK
  <2>4. ASSUME NEW j \in Instances PROVE Placed(j)'
    <3>1. CASE j = i
      <4>1. (pc'[i] = "down" /\ lock' # i) \/ (pc'[i] = "clean" /\ lock' = i)
        BY <1>1, <1>5, StartNull DEF Dies, Goes, Still
      <4> QED
        BY <1>1, <1>2, <1>5, <3>1, <4>1 DEF Placed, Locked
    <3>2. CASE j # i
      <4>1. pc'[j] = pc[j] /\ lock' # j
        BY <1>1, <1>5, <3>2, StartNull DEF Dies, Goes, Still
      <4>2. ~Locked(j) /\ Placed(j)
        BY <1>1, <3>2, LockHolderAlone DEF StartInv, Locked
      <4> QED
        BY <1>1, <4>1, <4>2 DEF Placed, Locked
    <3> QED
      BY <3>1, <3>2
  <2> QED
    BY <2>1, <2>3, <2>4 DEF StartInv
<1> QED
  BY <1>3, <1>4, <1>5

LEMMA CleanStep == ASSUME StartInv, NEW i \in Instances, MarkClean(i) PROVE StartInv'
<1>1. /\ pc[i] = "clean" /\ lock = i /\ dirty /\ applied[version] = 1 /\ version > 0
      /\ UNCHANGED <<version, applied, keyed>> /\ faults' \in Nat
  BY FaultsTyped DEF MarkClean, StartInv, Placed, Locked, VersionMatches
<1>2. CASE Dies(i) /\ UNCHANGED dirty
  BY <1>1, <1>2, DeathStep
<1>3. CASE dirty' = FALSE /\ Goes(i, "up") /\ Still
  <2>1. TypeOK' /\ VersionMatches'
    BY <1>1, <1>3 DEF StartInv, TypeOK, VersionMatches, Migrations, PCs, Goes, Still
  <2>2. ASSUME NEW j \in Instances PROVE Placed(j)'
    <3>1. CASE j = i
      BY <1>1, <1>3, <3>1 DEF StartInv, TypeOK, Placed, Locked, Goes, Still
    <3>2. CASE j # i
      <4>1. pc'[j] = pc[j] /\ ~Locked(j) /\ Placed(j) /\ lock' = lock
        BY <1>1, <1>3, <3>2, LockHolderAlone DEF StartInv, TypeOK, Goes, Locked, Still
      <4> QED
        BY <1>1, <4>1 DEF Placed, Locked
    <3> QED
      BY <3>1, <3>2
  <2> QED
    BY <2>1, <2>2 DEF StartInv
<1> QED
  BY <1>2, <1>3 DEF MarkClean

LEMMA ServicesStep == ASSUME StartInv, NEW i \in Instances, StartServices(i) PROVE StartInv'
<1>1. UNCHANGED <<version, dirty, applied, keyed>> /\ faults' \in Nat /\ pc[i] = "key"
  BY FaultsTyped DEF StartServices, Schema, StartInv
<1>2. CASE Dies(i)
  BY <1>1, <1>2, DeathStep
<1>3. CASE keyed /\ Goes(i, "listen") /\ UNCHANGED lock /\ daemon' = [daemon EXCEPT ![i] = "starting"]
  <2>1. /\ pc'[i] = "listen" /\ "listen" \in PCs
        /\ version = Count /\ ~dirty /\ lock # i
    BY <1>1, <1>3 DEF PCs, Goes, StartInv, TypeOK, Placed, Locked
  <2>2. Placed(i)'
    BY <1>1, <1>3, <2>1 DEF Placed, Locked
  <2> QED
    BY <1>1, <1>3, <2>1, <2>2, LocalStep DEF StartInv, TypeOK
<1> QED
  BY <1>2, <1>3 DEF StartServices

LEMMA ServeStep == ASSUME StartInv, NEW i \in Instances, Serve(i) PROVE StartInv'
<1>1. UNCHANGED <<version, dirty, applied, keyed>> /\ faults' \in Nat /\ pc[i] = "listen"
  BY DEF Serve, Schema, StartInv, TypeOK
<1>2. CASE Dies(i)
  BY <1>1, <1>2, DeathStep
<1>3. CASE Goes(i, "serving") /\ Still
  <2>1. /\ pc'[i] = "serving" /\ "serving" \in PCs
        /\ version = Count /\ ~dirty /\ keyed /\ lock # i
    BY <1>1, <1>3 DEF PCs, Goes, StartInv, TypeOK, Placed, Locked
  <2>2. Placed(i)'
    BY <1>1, <1>3, <2>1 DEF Placed, Locked, Still
  <2> QED
    BY <1>1, <1>3, <2>1, <2>2, LocalStep DEF Still, StartInv, TypeOK
<1> QED
  BY <1>2, <1>3 DEF Serve

LEMMA StartStep == StartInv /\ [Next]_vars => StartInv'
<1> SUFFICES ASSUME StartInv, [Next]_vars PROVE StartInv'
  OBVIOUS
<1>1. CASE AddKey
  <2>1. UNCHANGED <<version, dirty, applied, lock, pc, daemon, faults>> /\ keyed' = TRUE
    BY <1>1 DEF AddKey, Schema
  <2> QED
    BY <2>1 DEF StartInv, TypeOK, VersionMatches, Placed, Locked
<1>2. CASE \E i \in Instances : Main(i)
  BY <1>2, LoadStep, InitDBStep, UpStep, MigrateStep, CleanStep, ServicesStep, ServeStep DEF Main
<1>3. CASE \E i \in Instances : RunMigrations(i)
  BY <1>3, LockStep
<1>4. CASE \E i \in Instances : StartDaemonServer(i)
  BY <1>4 DEF StartDaemonServer, Schema, StartInv, TypeOK, VersionMatches, Placed, Locked
<1>5. CASE \E i \in Instances : Crash(i)
  <2>1. PICK i \in Instances : Crash(i)
    BY <1>5
  <2>2. UNCHANGED <<version, dirty, applied, keyed>> /\ faults' \in Nat /\ Dies(i)
    BY <2>1, FaultsTyped DEF Crash, Schema, StartInv
  <2> QED
    BY <2>2, DeathStep
<1>6. CASE UNCHANGED vars
  BY <1>6 DEF vars, StartInv, TypeOK, VersionMatches, Placed, Locked
<1> QED
  BY <1>1, <1>2, <1>3, <1>4, <1>5, <1>6 DEF Next

\* The schema's row, the schema, the lock and the processes fit together.
THEOREM StartInvariant == Spec => []StartInv
  BY StartInit, StartStep, PTL DEF Spec

\* A process that serves does so on the complete schema and with a key,
\* however many processes start, die and start again.
THEOREM ServesComplete == Spec => []ServesACompleteSystem
<1>1. StartInv => ServesACompleteSystem
  <2> SUFFICES ASSUME StartInv, NEW i \in Instances, pc[i] \in {"listen", "serving"}
               PROVE  version = Count /\ ~dirty /\ keyed /\ \A m \in Migrations : applied[m] = 1
    BY DEF ServesACompleteSystem
  <2>1. version = Count /\ ~dirty /\ keyed
    BY DEF StartInv, Placed
  <2> QED
    BY <2>1, StartBounds DEF StartInv, VersionMatches, Migrations
<1> QED
  BY <1>1, StartInvariant, PTL

\* Migrations take effect once at most and in their order.
THEOREM MigrationsOnceInOrder == Spec => []AppliedOnceInOrder
<1>1. StartInv => AppliedOnceInOrder
  BY StartBounds DEF StartInv, TypeOK, VersionMatches, AppliedOnceInOrder, Migrations
<1> QED
  BY <1>1, StartInvariant, PTL

\* While a version is dirty and nobody works on it, no step of any process
\* touches the schema, and none gets past the migrations.
LEMMA StuckStep ==
  ASSUME StartInv, [Next]_vars, Stuck
  PROVE  /\ Stuck' /\ UNCHANGED Schema
         /\ \A i \in Instances : pc'[i] = "key" => pc[i] = "key"
<1> USE DEF Schema
<1>1. pc \in [Instances -> PCs]
  BY DEF StartInv, TypeOK
<1>2. ASSUME NEW i \in Instances, NEW next \in PCs \ {"run", "clean", "key"},
             Goes(i, next), UNCHANGED Schema
      PROVE  /\ Stuck' /\ UNCHANGED Schema
             /\ \A j \in Instances : pc'[j] = "key" => pc[j] = "key"
  BY <1>1, <1>2 DEF Stuck, Goes
<1>3. CASE AddKey
  BY <1>3 DEF AddKey, Stuck
<1>4. CASE \E i \in Instances : Main(i)
  <2>1. PICK i \in Instances : Main(i)
    BY <1>4
  <2>2. pc[i] \notin {"run", "clean"} /\ dirty
    BY DEF Stuck
  <2>3. CASE Load(i)
    BY <1>2, <2>3 DEF Load, PCs
  <2>4. CASE InitDB(i)
    BY <1>2, <2>4 DEF InitDB, Dies, PCs
  <2>5. CASE Up(i)
    BY <1>2, <2>2, <2>5 DEF Up, Dies, PCs
  <2>6. CASE StartServices(i)
    BY <1>2, <2>6 DEF StartServices, Dies, PCs
  <2>7. CASE Serve(i)
    BY <1>2, <2>7 DEF Serve, Dies, PCs
  <2> QED
    BY <2>1, <2>2, <2>3, <2>4, <2>5, <2>6, <2>7 DEF Main, Migrate, MarkClean
<1>5. CASE \E i \in Instances : RunMigrations(i)
  BY <1>2, <1>5 DEF RunMigrations, Dies, PCs
<1>6. CASE \E i \in Instances : StartDaemonServer(i)
  BY <1>6 DEF StartDaemonServer, Stuck
<1>7. CASE \E i \in Instances : Crash(i)
  BY <1>2, <1>7 DEF Crash, Dies, PCs
<1>8. CASE UNCHANGED vars
  BY <1>8 DEF vars, Stuck
<1> QED
  BY <1>3, <1>4, <1>5, <1>6, <1>7, <1>8 DEF Next

\* A dirty schema that nobody works on stays as it is, and stops every start.
THEOREM DirtyIsFinal == Spec => DirtyIsForGood
<1>1. StartInv /\ [Next]_vars =>
        [Stuck => /\ Stuck' /\ UNCHANGED Schema
                  /\ \A i \in Instances : pc'[i] = "key" => pc[i] = "key"]_vars
  BY StuckStep
<1> QED
  BY <1>1, StartInvariant, PTL DEF Spec, DirtyIsForGood

\* A version that is being worked on is left dirty by a refusal or a failure.
LEMMA ExplainedStep ==
  ASSUME StartInv, DirtyIsExplained, [Next]_vars
  PROVE  DirtyIsExplained'
<1> SUFFICES ASSUME Stuck' PROVE version' \notin Valid \/ faults' > 0
  BY DEF DirtyIsExplained
<1>1. faults \in Nat /\ (Fault => faults' > 0)
  BY DEF StartInv, TypeOK, Fault
<1>2. CASE Stuck
  <2>1. version' = version
    BY <1>2, StuckStep DEF Schema
  <2>2. faults' = faults \/ Fault
    BY DEF Next, Main, vars, AddKey, Load, InitDB, RunMigrations, Up, Migrate, MarkClean,
           StartServices, Serve, StartDaemonServer, Crash
  <2> QED
    BY <1>1, <1>2, <2>1, <2>2 DEF DirtyIsExplained
<1>3. CASE ~dirty
  \* Only Up marks a version, and it goes on to run the migration.
  <2>1. PICK i \in Instances : Up(i) /\ Goes(i, "run")
    BY <1>3 DEF Stuck, Next, Main, vars, Schema, AddKey, Load, InitDB, RunMigrations, Up,
                Migrate, MarkClean, StartServices, Serve, StartDaemonServer, Crash
  <2> QED
    BY <2>1 DEF Stuck, Goes, StartInv, TypeOK
<1>4. CASE dirty /\ ~Stuck
  <2>1. PICK i \in Instances : pc[i] \in {"run", "clean"}
    BY <1>4 DEF Stuck
  <2>2. pc'[i] # pc[i] /\ pc'[i] \notin {"run", "clean"} /\ dirty'
    BY <2>1 DEF Stuck
  <2>3. Migrate(i) \/ MarkClean(i) \/ \E j \in Instances : Crash(j)
    <3>1. ASSUME NEW j \in Instances, NEW next, Goes(j, next) PROVE j = i
      BY <2>2, <3>1 DEF Goes, StartInv, TypeOK
    <3>2. pc' # pc
      BY <2>2
    <3>3. CASE \E j \in Instances : Main(j) \/ RunMigrations(j)
      <4>1. PICK j \in Instances : Main(j) \/ RunMigrations(j)
        BY <3>3
      <4>2. \E next : Goes(j, next)
        BY <4>1 DEF Main, Load, InitDB, RunMigrations, Up, Migrate, MarkClean,
                    StartServices, Serve, Dies
      <4>3. Main(i) \/ RunMigrations(i)
        BY <3>1, <4>1, <4>2
      <4> QED
        BY <2>1, <4>3 DEF Main, Load, InitDB, RunMigrations, Up, StartServices, Serve
    <3> QED
      BY <3>2, <3>3 DEF Next, vars, AddKey, StartDaemonServer
  <2>4. CASE Migrate(i)
    <3>1. ~Goes(i, "clean")
      BY <2>2 DEF Goes, StartInv, TypeOK
    <3> QED
      BY <1>1, <2>4, <3>1 DEF Migrate
  <2>5. CASE MarkClean(i)
    BY <1>1, <2>2, <2>5 DEF MarkClean
  <2>6. CASE \E j \in Instances : Crash(j)
    BY <1>1, <2>6 DEF Crash
  <2> QED
    BY <2>3, <2>4, <2>5, <2>6
<1> QED
  BY <1>2, <1>3, <1>4

\* However many processes start at once, a schema is left dirty only by a
\* migration that is refused or by a failure.
THEOREM DirtyExplained == Spec => []DirtyIsExplained
<1>1. Init => DirtyIsExplained
  BY DEF Init, DirtyIsExplained, Stuck
<1> QED
  BY <1>1, ExplainedStep, StartInvariant, PTL DEF Spec
=============================================================================
