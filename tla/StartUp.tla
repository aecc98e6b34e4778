------------------------------ MODULE StartUp ------------------------------
(***************************************************************************)
(* From the start of a process to serving requests: main reads its         *)
(* configuration, opens the database, runs the migrations, loads the CA    *)
(* key and listens on two ports.  Several processes start against one      *)
(* database, on one host or on several; whatever goes wrong ends a process *)
(* (log.Fatal), and the container starts it again (--restart=always).      *)
(*                                                                         *)
(* Of golang-migrate (external) the model takes that Up holds an advisory  *)
(* lock of PostgreSQL, which goes with the connection, refuses a dirty     *)
(* version, and for every pending migration marks the version dirty, runs  *)
(* the file as one transaction, and marks it clean, in three statements.   *)
(***************************************************************************)
EXTENDS Integers

CONSTANTS
    Instances,  \* processes
    Host,       \* Host[i] is the host of process i
    Env,        \* Env[i]: what the environment of process i says
    NULL,       \* the absence of a value, or a text that is no number
    Count,      \* the migrations are 1 .. Count
    Valid,      \* those that PostgreSQL accepts
    MaxFaults   \* bound on crashes and on failing statements

Migrations == 1 .. Count

ASSUME StartBounds == Count \in Nat /\ MaxFaults \in Nat
ASSUME StartEnv    == \A i \in Instances :
    Env[i] \in [dbPort : Int \cup {NULL}, httpPort : Int \cup {NULL}, password : BOOLEAN]
ASSUME StartNull   == NULL \notin Instances /\ NULL \notin Int

VARIABLES
    version, dirty, \* the row of schema_migrations
    applied,        \* applied[m]: how often migration m has taken effect
    lock,           \* the process that holds the advisory lock, or NULL
    keyed,          \* whether gate_ca_keys has a live key
    pc,             \* pc[i]: what main is about to do in process i
    daemon,         \* daemon[i]: its goroutine for the gRPC server
    faults

vars == <<version, dirty, applied, lock, keyed, pc, daemon, faults>>

PCs == {"down", "open", "lock", "up", "run", "clean", "key", "listen", "serving"}

TypeOK ==
    /\ version \in 0 .. Count /\ dirty \in BOOLEAN
    /\ applied \in [Migrations -> Nat]
    /\ lock \in Instances \cup {NULL}
    /\ keyed \in BOOLEAN
    /\ pc \in [Instances -> PCs]
    /\ daemon \in [Instances -> {"none", "starting", "up", "failed"}]
    /\ faults \in Nat

Init ==
    /\ version = 0 /\ dirty = FALSE
    /\ applied = [m \in Migrations |-> 0]
    /\ lock = NULL /\ keyed = FALSE
    /\ pc = [i \in Instances |-> "down"]
    /\ daemon = [i \in Instances |-> "none"]
    /\ faults = 0

Fault == faults < MaxFaults /\ faults' = faults + 1

Goes(i, next) == pc' = [pc EXCEPT ![i] = next]

\* log.Fatal, or a crash: connections, and with them the advisory lock, and
\* ports are let go of.
Dies(i) ==
    /\ Goes(i, "down")
    /\ lock' = IF lock = i THEN NULL ELSE lock
    /\ daemon' = [daemon EXCEPT ![i] = "none"]

Still == UNCHANGED <<lock, daemon>>
Schema == <<version, dirty, applied>>

\* An operator puts in a key (external: nothing under src/ does).
AddKey ==
    /\ ~keyed /\ applied[1] > 0
    /\ keyed' = TRUE
    /\ UNCHANGED <<Schema, lock, pc, daemon, faults>>

-----------------------------------------------------------------------------
\* config.Load: ports that are numbers in range, and a password.
Loads(env) ==
    /\ env.dbPort \in 1 .. 65535
    /\ env.httpPort \in 1 .. 65535
    /\ env.password

Load(i) ==
    /\ pc[i] = "down" /\ Loads(Env[i])
    /\ Goes(i, "open")
    /\ UNCHANGED <<Schema, lock, keyed, daemon, faults>>

\* InitDB pings the database; if that fails, the process ends.
InitDB(i) ==
    /\ pc[i] = "open"
    /\ \/ Goes(i, "lock") /\ Still /\ UNCHANGED faults
       \/ Fault /\ Dies(i)
    /\ UNCHANGED <<Schema, keyed>>

\* Variant: the library's lock is not taken.
LockAnyway(i) ==
    /\ pc[i] = "lock"
    /\ Goes(i, "up") /\ lock' = i
    /\ UNCHANGED <<Schema, keyed, daemon, faults>>

\* RunMigrations: Up gets the lock, or gives up after 15 seconds; a holder that
\* is that slow counts as a fault.
RunMigrations(i) ==
    /\ pc[i] = "lock"
    /\ \/ lock = NULL /\ Goes(i, "up") /\ lock' = i /\ UNCHANGED <<daemon, faults>>
       \/ lock # NULL /\ Fault /\ Dies(i)
    /\ UNCHANGED <<Schema, keyed>>

\* Variant: a dirty version is taken for a clean one.
UpThoughDirty(i) ==
    /\ pc[i] = "up"
    /\ \/ /\ version = Count
          /\ Goes(i, "key") /\ lock' = NULL /\ UNCHANGED <<version, dirty, daemon>>
       \/ /\ version < Count
          /\ version' = version + 1 /\ dirty' = TRUE
          /\ Goes(i, "run") /\ Still
    /\ UNCHANGED <<applied, keyed, faults>>

\* Variant: ErrNoChange is taken for an error.
UpNoChangeFails(i) ==
    /\ pc[i] = "up"
    /\ \/ (dirty \/ version = Count) /\ Dies(i) /\ UNCHANGED <<version, dirty>>
       \/ /\ ~dirty /\ version < Count
          /\ version' = version + 1 /\ dirty' = TRUE
          /\ Goes(i, "run") /\ Still
    /\ UNCHANGED <<applied, keyed, faults>>

\* A dirty version is refused.  Without a pending migration Up is done
\* (ErrNoChange is no error); the next one is marked dirty before it runs.
Up(i) ==
    /\ pc[i] = "up"
    /\ \/ dirty /\ Dies(i) /\ UNCHANGED <<version, dirty>>
       \/ /\ ~dirty /\ version = Count
          /\ Goes(i, "key") /\ lock' = NULL /\ UNCHANGED <<version, dirty, daemon>>
       \/ /\ ~dirty /\ version < Count
          /\ version' = version + 1 /\ dirty' = TRUE
          /\ Goes(i, "run") /\ Still
    /\ UNCHANGED <<applied, keyed, faults>>

\* Variant: a version that has been migrated stays marked.
MigrateLeavesMark(i) ==
    /\ pc[i] = "run"
    /\ IF version \in Valid
       THEN applied' = [applied EXCEPT ![version] = @ + 1] /\ Goes(i, "up") /\ Still
       ELSE UNCHANGED applied /\ Dies(i)
    /\ UNCHANGED <<version, dirty, keyed, faults>>

\* The file of the migration: all of it or nothing takes effect.
Migrate(i) ==
    LET done == [applied EXCEPT ![version] = @ + 1]
    IN  /\ pc[i] = "run"
        /\ \/ version \in Valid /\ applied' = done /\ Goes(i, "clean") /\ Still /\ UNCHANGED faults
           \/ version \notin Valid /\ UNCHANGED applied /\ Dies(i) /\ UNCHANGED faults
           \/ version \in Valid /\ Fault /\ applied' \in {done, applied} /\ Dies(i)
        /\ UNCHANGED <<version, dirty, keyed>>

MarkClean(i) ==
    /\ pc[i] = "clean"
    /\ \/ dirty' = FALSE /\ Goes(i, "up") /\ Still /\ UNCHANGED faults
       \/ Fault /\ Dies(i) /\ UNCHANGED dirty
    /\ UNCHANGED <<version, applied, keyed>>

\* Variant: a process without a key serves all the same.
WithoutKey(i) ==
    /\ pc[i] = "key"
    /\ Goes(i, "listen") /\ lock' = lock
    /\ daemon' = [daemon EXCEPT ![i] = "starting"]
    /\ UNCHANGED <<Schema, keyed, faults>>

\* Variant: the goroutine stands behind router.Run, which does not return.
GoroutineBehindRun(i) ==
    /\ pc[i] = "key"
    /\ \/ keyed /\ Goes(i, "listen") /\ UNCHANGED <<lock, daemon, faults>>
       \/ ~keyed /\ Dies(i) /\ UNCHANGED faults
       \/ Fault /\ Dies(i)
    /\ UNCHANGED <<Schema, keyed>>

\* The services: the CA needs a key, the recordings a directory.  Then the
\* goroutine of the daemon server is under way.
StartServices(i) ==
    /\ pc[i] = "key"
    /\ \/ /\ keyed /\ Goes(i, "listen") /\ UNCHANGED <<lock, faults>>
          /\ daemon' = [daemon EXCEPT ![i] = "starting"]
       \/ ~keyed /\ Dies(i) /\ UNCHANGED faults
       \/ Fault /\ Dies(i)
    /\ UNCHANGED <<Schema, keyed>>

Neighbours(i) == {j \in Instances \ {i} : Host[j] = Host[i]}

\* The daemons' port is the same in every process.
DaemonPort == 9090

\* The two servers of a process, its own and its neighbours', share the ports
\* of one host.
Holds(j, port) ==
    \/ daemon[j] = "up" /\ port = DaemonPort
    \/ pc[j] = "serving" /\ port = Env[j].httpPort

Taken(i, port) == \E j \in Neighbours(i) \cup {i} : Holds(j, port)

\* One attempt to listen; if the port is taken, that is logged, and the process
\* goes on without a daemon server.
StartDaemonServer(i) ==
    /\ daemon[i] = "starting"
    /\ daemon' = [daemon EXCEPT ![i] = IF Taken(i, DaemonPort) THEN "failed" ELSE "up"]
    /\ UNCHANGED <<Schema, lock, keyed, pc, faults>>

\* router.Run: if the HTTP port is taken, the process ends.
Serve(i) ==
    /\ pc[i] = "listen"
    /\ \/ ~Taken(i, Env[i].httpPort) /\ Goes(i, "serving") /\ Still
       \/ Taken(i, Env[i].httpPort) /\ Dies(i)
    /\ UNCHANGED <<Schema, keyed, faults>>

Crash(i) ==
    /\ Fault /\ pc[i] # "down" /\ Dies(i)
    /\ UNCHANGED <<Schema, keyed>>

Main(i) == Load(i) \/ InitDB(i) \/ Up(i) \/ Migrate(i) \/ MarkClean(i) \/ StartServices(i) \/ Serve(i)

Next ==
    \/ AddKey
    \/ \E i \in Instances : Main(i) \/ RunMigrations(i) \/ StartDaemonServer(i) \/ Crash(i)

Spec == Init /\ [][Next]_vars

(***************************************************************************)
(* Every process runs and is restarted, PostgreSQL hands its lock to a     *)
(* process that keeps asking, and an operator puts in the key.             *)
(***************************************************************************)
Fairness ==
    /\ WF_vars(AddKey)
    /\ \A i \in Instances :
        /\ WF_vars(Main(i)) /\ WF_vars(StartDaemonServer(i))
        /\ SF_vars(RunMigrations(i) /\ lock = NULL)

FairSpec == Spec /\ Fairness

-----------------------------------------------------------------------------
(***************************************************************************)
(* Properties.                                                             *)
(***************************************************************************)

\* A process that has got past the migrations works on the complete schema,
\* with a key, even if others were interrupted or are starting beside it.
ServesACompleteSystem ==
    \A i \in Instances : pc[i] \in {"listen", "serving"} =>
        /\ version = Count /\ ~dirty /\ keyed
        /\ \A m \in Migrations : applied[m] = 1

\* No migration ever takes effect twice or before its predecessor, whatever
\* dies between its three statements and however many processes start.
AppliedOnceInOrder ==
    \A m \in Migrations :
        /\ applied[m] <= 1
        /\ m > 1 /\ applied[m] = 1 => applied[m - 1] = 1

\* A version is marked dirty and nobody is there who would clean it.
Stuck == dirty /\ \A i \in Instances : pc[i] \notin {"run", "clean"}

\* A schema is left dirty only by a migration that PostgreSQL refuses or by a
\* failure in the middle of one: processes that start at the same time, queue
\* for the lock and find each other's marks never do it to each other.
DirtyIsExplained == Stuck => version \notin Valid \/ faults > 0

\* ... and then it stays so, and no process gets past the migrations any more:
\* the restarts that make good every other failure are in vain.
DirtyIsForGood ==
    [][Stuck => /\ Stuck' /\ UNCHANGED Schema
                /\ \A i \in Instances : pc'[i] = "key" => pc[i] = "key"]_vars

\* A configured process whose HTTP port no other process of its host was given,
\* nor the servers for the daemons have.
OwnPort(i) ==
    /\ Loads(Env[i])
    /\ Env[i].httpPort # DaemonPort
    /\ \A j \in Neighbours(i) : Loads(Env[j]) => Env[j].httpPort # Env[i].httpPort

\* The only thing that keeps a configured process from serving for good is a
\* migration that was interrupted: no lock is left behind, no process waits
\* for another, and what fails is made good by a restart.
ServesUnlessDirty ==
    <>[]dirty \/ \A i \in Instances : OwnPort(i) => <>[](pc[i] = "serving")

\* The port for the daemons is bound by one goroutine that tries it once, yet
\* every host whose processes have HTTP ports of their own has a daemon server in
\* the end, unless the schema is dirty.  (An HTTP server on the daemons' port, which
\* config.Load allows, leaves its host without one for good; and of two processes
\* with one HTTP port the one that goes on dying may hold the daemons' port.)
DaemonServerComesBack ==
    <>[]dirty \/ \A i \in Instances :
        Loads(Env[i]) /\ (\A j \in Neighbours(i) \cup {i} : Loads(Env[j]) => OwnPort(j)) =>
        <>[](\E j \in Neighbours(i) \cup {i} : daemon[j] = "up")

(***************************************************************************)
(* A promise that the code does not keep.                                  *)
(***************************************************************************)

\* After docker-compose up on an empty database, /health answers (Quick Start
\* in README.md, "Verify Health" in docs/DEPLOYMENT.md).
ComesUp == <>(\E i \in Instances : pc[i] = "serving")

(***************************************************************************)
(* The inductive invariant of the proofs.                                  *)
(***************************************************************************)
Locked(i) == pc[i] \in {"up", "run", "clean"}

\* The schema's row against what has been done: the current version may be
\* under way, all before it are done, none after it.
VersionMatches ==
    /\ \A m \in Migrations :
        /\ m < version => applied[m] = 1
        /\ m = version => applied[m] \in {0, 1} /\ (~dirty => applied[m] = 1)
        /\ m > version => applied[m] = 0
    /\ dirty => version > 0

\* What must be true where process i is.
Placed(i) ==
    /\ Locked(i) <=> lock = i
    /\ pc[i] = "run" => dirty /\ applied[version] = 0
    /\ pc[i] = "clean" => dirty /\ applied[version] = 1
    /\ pc[i] \in {"key", "listen", "serving"} => version = Count /\ ~dirty
    /\ pc[i] \in {"listen", "serving"} => keyed

StartInv == TypeOK /\ VersionMatches /\ \A i \in Instances : Placed(i)
=============================================================================
