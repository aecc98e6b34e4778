--------------------------- MODULE PolicyService ---------------------------
(***************************************************************************)
(* PolicyService and its endpoint: Jenn is the source of truth for access  *)
(* policies and sends them to the instances, which keep them in a map in   *)
(* memory.  The requests of Jenn are concurrent calls, so they arrive in   *)
(* any order; they may be lost, and are repeated when only their reply is. *)
(*                                                                         *)
(* A key is the text "user:device"; both are UUIDs, so a pair stands for   *)
(* it.  A request that does not parse changes nothing: it counts as lost.  *)
(***************************************************************************)
EXTENDS Naturals, Sequences

CONSTANTS
    Instances, Callers, Home, Keys, Slots, Permissions, Batches, NULL, \* see PolicyMap
    MaxEdits,   \* bound on the policies changed in Jenn
    MaxFaults   \* bound on lost and repeated requests and on restarts

Entries == [slot : Slots, permissions : Permissions]

ASSUME PolicyHome   == Home \in [Callers -> Instances]
ASSUME PolicySlots  == Slots \subseteq [principalType : STRING, targetType : STRING, key : Keys]
ASSUME PolicyNull   == NULL \notin Permissions \cup Batches
ASSUME PolicyBatch  == Batches \subseteq Seq(Entries)
ASSUME PolicyBounds == MaxEdits \in Nat /\ MaxFaults \in Nat

VARIABLES
    jenn,    \* jenn[s]: the permissions that Jenn holds for slot s
    held,    \* history: held[s] are the permissions it ever held for s
    net,     \* requests that are under way
    cache,   \* cache[i]: the map of instance i
    call,    \* call[c] is what caller c is doing
    edits, faults

vars == <<jenn, held, net, cache, call, edits, faults>>

\* The map that callers see: a merge takes effect when SyncPolicies returns.
Runs(c, op) == call[c].pc = "run" /\ call[c].op = op
Asked(c) == call[c].op \in {"sync", "set"}
Merging(i) == {c \in Callers : Home[c] = i /\ Runs(c, "sync")}

One(S)  == CHOOSE c \in S : TRUE
Seen(i) == IF Merging(i) = {} THEN cache[i] ELSE call[One(Merging(i))].before

M == INSTANCE PolicyMap WITH
        policies <- [i \in Instances |-> Seen(i)],
        pending  <- [c \in Callers |-> IF Asked(c) THEN call[c].entries ELSE NULL],
        answer   <- [c \in Callers |-> call[c].answer]

Requests == [to : Instances, entries : Batches]

\* pc  idle -> lock -> run -> idle; done counts the entries handled and before
\* remembers the cache (history); a check has a key and leaves an answer.
Idle(answer) == [pc |-> "idle", op |-> "none", entries |-> << >>, key |-> NULL,
                 done |-> 0, before |-> NULL, answer |-> answer]

Caches == [Keys -> Permissions \cup {NULL}]

Calls == [ pc : {"idle", "lock", "run"}, op : {"none", "sync", "set", "check"},
           entries : Seq(Entries), key : Keys \cup {NULL}, done : Nat,
           before : Caches \cup {NULL}, answer : BOOLEAN \cup {NULL} ]

TypeOK ==
    /\ jenn \in [Slots -> Permissions \cup {NULL}]
    /\ held \in [Slots -> SUBSET Permissions]
    /\ net \subseteq Requests
    /\ cache \in [Instances -> Caches]
    /\ call \in [Callers -> Calls]
    /\ edits \in Nat /\ faults \in Nat

Init ==
    /\ jenn = [s \in Slots |-> NULL] /\ held = [s \in Slots |-> {}]
    /\ net = {}
    /\ cache = [i \in Instances |-> M!Empty]
    /\ call = [c \in Callers |-> Idle(NULL)]
    /\ edits = 0 /\ faults = 0

Fault == faults < MaxFaults /\ faults' = faults + 1

-----------------------------------------------------------------------------
(***************************************************************************)
(* Jenn and the network (external).                                        *)
(***************************************************************************)
\* A policy is created or modified in Jenn, which pushes it to every instance.
\* A deletion that is sent as an entry without permissions is one of these.
Change(s, p) ==
    /\ edits < MaxEdits /\ jenn[s] # p
    /\ jenn' = [jenn EXCEPT ![s] = p]
    /\ held' = [held EXCEPT ![s] = @ \cup {p}]
    /\ <<[slot |-> s, permissions |-> p]>> \in Batches
    /\ net' = net \cup { [to |-> i, entries |-> <<[slot |-> s, permissions |-> p]>>] : i \in Instances }
    /\ edits' = edits + 1
    /\ UNCHANGED <<cache, call, faults>>

\* A request has no way to say that a policy is gone.
Delete(s) ==
    /\ edits < MaxEdits /\ jenn[s] # NULL
    /\ jenn' = [jenn EXCEPT ![s] = NULL]
    /\ edits' = edits + 1
    /\ UNCHANGED <<held, net, cache, call, faults>>

Lists(es) == { es[j] : j \in DOMAIN es } =
             { [slot |-> s, permissions |-> jenn[s]] : s \in {t \in Slots : jenn[t] # NULL} }

\* The hourly reconciliation: all that Jenn holds now, unless a request under
\* way says the same.
FullSync(i) ==
    /\ ~\E m \in net : m.to = i /\ Lists(m.entries)
    /\ \E es \in Batches :
        Lists(es) /\ net' = net \cup {[to |-> i, entries |-> es]}
    /\ UNCHANGED <<jenn, held, cache, call, edits, faults>>

Lose(m) ==
    /\ Fault
    /\ net' = net \ {m}
    /\ UNCHANGED <<jenn, held, cache, call, edits>>

\* A request reaches a goroutine of its instance.  It stays under way if its
\* reply gets lost and Jenn will repeat it.  A single policy may be handed to
\* SetPolicy as well.
Deliver(m, c) ==
    /\ call[c].pc = "idle" /\ Home[c] = m.to
    /\ \/ net' = net \ {m} /\ UNCHANGED faults
       \/ Fault /\ UNCHANGED net
    /\ \E op \in {"sync", "set"} :
        /\ op = "set" => Len(m.entries) = 1 /\ M!Kept(m.entries[1])
        /\ call' = [call EXCEPT ![c] = [Idle(@.answer) EXCEPT
                        !.pc = "lock", !.op = op, !.entries = m.entries]]
    /\ UNCHANGED <<jenn, held, cache, edits>>

Ask(c) ==
    /\ call[c].pc = "idle"
    /\ \E k \in Keys : call' = [call EXCEPT ![c] = [Idle(@.answer) EXCEPT
                                   !.pc = "lock", !.op = "check", !.key = k]]
    /\ UNCHANGED <<jenn, held, net, cache, edits, faults>>

-----------------------------------------------------------------------------
(***************************************************************************)
(* The methods.                                                            *)
(***************************************************************************)

\* Variant: the write lock is taken by SetPolicy alone.
SharesWhenSyncing(op) == op = "set"

\* Lock or RLock.
Exclusive(op) == op \in {"sync", "set"}

Lock(c) ==
    /\ call[c].pc = "lock"
    /\ \A d \in Callers \ {c} : Home[d] = Home[c] /\ call[d].pc = "run" =>
           ~Exclusive(call[c].op) /\ ~Exclusive(call[d].op)
    /\ call' = [call EXCEPT ![c] = [@ EXCEPT !.pc = "run",
                    !.before = IF call[c].op = "sync" THEN cache[Home[c]] ELSE NULL]]
    /\ UNCHANGED <<jenn, held, net, cache, edits, faults>>

\* Variant: the types of a policy are not looked at.
PutAny(map, e) == [map EXCEPT ![e.slot.key] = e.permissions]

\* Variant: a policy that is there already stays.
PutNew(map, e) ==
    IF M!Kept(e) /\ map[e.slot.key] = NULL THEN [map EXCEPT ![e.slot.key] = e.permissions] ELSE map

\* The body of the loop in SyncPolicies.
Put(map, e) ==
    IF M!Kept(e) THEN [map EXCEPT ![e.slot.key] = e.permissions] ELSE map

SyncPolicy(c) ==
    LET k == call[c]
    IN  /\ Runs(c, "sync") /\ k.done < Len(k.entries)
        /\ cache' = [cache EXCEPT ![Home[c]] = Put(@, k.entries[k.done + 1])]
        /\ call' = [call EXCEPT ![c] = [@ EXCEPT !.done = k.done + 1]]
        /\ UNCHANGED <<jenn, held, net, edits, faults>>

SyncPolicies(c) ==
    /\ Runs(c, "sync") /\ call[c].done = Len(call[c].entries)
    /\ call' = [call EXCEPT ![c] = Idle(@.answer)]
    /\ UNCHANGED <<jenn, held, net, cache, edits, faults>>

SetPolicy(c) ==
    LET e == call[c].entries[1]
    IN  /\ Runs(c, "set")
        /\ cache' = [cache EXCEPT ![Home[c]] = [@ EXCEPT ![e.slot.key] = e.permissions]]
        /\ call' = [call EXCEPT ![c] = Idle(@.answer)]
        /\ UNCHANGED <<jenn, held, net, edits, faults>>

CanAccessGUI(c) ==
    /\ Runs(c, "check")
    /\ call' = [call EXCEPT ![c] = Idle(M!Allows(cache[Home[c]][@.key]))]
    /\ UNCHANGED <<jenn, held, net, cache, edits, faults>>

\* The cache lives and dies with the process.
NewPolicyService(i) ==
    /\ Fault
    /\ cache' = [cache EXCEPT ![i] = M!Empty]
    /\ call' = [c \in Callers |-> IF Home[c] = i THEN Idle(NULL) ELSE call[c]]
    /\ UNCHANGED <<jenn, held, net, edits>>

Step(c) == Lock(c) \/ SyncPolicy(c) \/ SyncPolicies(c) \/ SetPolicy(c) \/ CanAccessGUI(c)

Next ==
    \/ \E s \in Slots : Delete(s) \/ \E p \in Permissions : Change(s, p)
    \/ \E i \in Instances : FullSync(i) \/ NewPolicyService(i)
    \/ \E m \in net : Lose(m) \/ \E c \in Callers : Deliver(m, c)
    \/ \E c \in Callers : Ask(c) \/ Step(c)

Spec == Init /\ [][Next]_vars

(***************************************************************************)
(* Jenn repeats its reconciliation, the network and the server hand every  *)
(* request to a goroutine sooner or later, and the RWMutex starves nobody. *)
(***************************************************************************)
Fairness ==
    /\ \A i \in Instances :
        /\ WF_vars(FullSync(i))
        /\ SF_vars(\E m \in net, c \in Callers : m.to = i /\ Deliver(m, c) /\ UNCHANGED faults)
    /\ \A c \in Callers : WF_vars(Step(c)) /\ SF_vars(Lock(c))

FairSpec == Spec /\ Fairness

-----------------------------------------------------------------------------
(***************************************************************************)
(* Properties.                                                             *)
(***************************************************************************)

\* To its callers the service is PolicyMap: a batch shows up at one instant,
\* whole, and entries about groups and other targets never do.
MapSpec == M!Spec

\* An instance never grants what Jenn did not hold for that very user and
\* device at some time, however requests overlap, repeat, arrive late or get
\* lost, and whatever Jenn holds about groups and other targets.
OnlyWhatJennHeld ==
    \A i \in Instances, k \in Keys :
        cache[i][k] # NULL =>
            \E s \in Slots : /\ s.principalType = "user" /\ s.targetType = "device"
                             /\ s.key = k /\ cache[i][k] \in held[s]

Agrees(i) ==
    \A s \in Slots :
        s.principalType = "user" /\ s.targetType = "device" /\ jenn[s] # NULL
            => cache[i][s.key] = jenn[s]

\* "Ensures consistency" (the hourly reconciliation): when SyncPolicies returns
\* from a batch that lists all that Jenn holds, the instance agrees with Jenn,
\* whatever other requests the loop has been racing with.
FullSyncRepairs ==
    [][\A c \in Callers :
          SyncPolicies(c) /\ Lists(call[c].entries) => Agrees(Home[c])']_vars

\* An entry that says what Jenn holds, or is about what Jenn has deleted.
Current(es) == \A j \in DOMAIN es : M!Kept(es[j]) => jenn[es[j].slot] \in {es[j].permissions, NULL}

InStep(i) ==
    /\ Agrees(i)
    /\ \A m \in net : m.to = i => Current(m.entries)
    /\ \A c \in Callers : Home[c] = i /\ Asked(c) => Current(call[c].entries)

\* An instance that agrees with Jenn, and to which nothing older is under way,
\* goes on agreeing until Jenn sets a policy or the instance restarts: no merge
\* half-way through its batch, repeated request or policy about a group undoes it.
AgreementLasts ==
    [][\A i \in Instances :
          InStep(i) => \/ InStep(i)'
                       \/ NewPolicyService(i)
                       \/ \E s \in Slots, p \in Permissions : Change(s, p)]_vars

\* Jenn wins in the end (the integration design): reconciliation repairs what
\* may happen to a policy that Jenn still holds, be it a push that is lost or
\* overtaken by an older one, or a restart that empties the cache.
Reconciled == <>[](\A i \in Instances : Agrees(i))

\* Reconciliation "ensures consistency", deletions included (the integration
\* design): in the end no instance grants what Jenn has deleted.
RevokedIsForgotten ==
    <>[](\A i \in Instances, s \in Slots :
            s.principalType = "user" /\ s.targetType = "device" /\ jenn[s] = NULL
                => ~M!Allows(cache[i][s.key]))

(***************************************************************************)
(* The inductive invariant of the proofs.                                  *)
(***************************************************************************)
CallsInOrder ==
    \A c \in Callers :
        LET k == call[c]
        IN  /\ k.pc = "idle" <=> k.op = "none"
            /\ k.op \in {"sync", "set"} => k.entries \in Batches
            /\ k.op = "set" => Len(k.entries) = 1 /\ M!Kept(k.entries[1])
            /\ k.op = "check" => k.key \in Keys
            /\ k.pc = "lock" => k.done = 0

SyncsRunAlone ==
    \A c, d \in Callers :
        c # d /\ Home[c] = Home[d] /\ call[c].pc = "run" /\ call[d].pc = "run"
            => call[c].op = "check" /\ call[d].op = "check"

\* Half-way through a batch, the cache is that half merged into the old cache.
MergesInProgress ==
    \A c \in Callers :
        Runs(c, "sync") =>
            /\ call[c].before \in Caches /\ call[c].done <= Len(call[c].entries)
            /\ cache[Home[c]] = M!Merged(call[c].before, call[c].entries, call[c].done)

HeldOnce(es) == \A j \in DOMAIN es : es[j].permissions \in held[es[j].slot]

RequestsWereHeld ==
    /\ \A m \in net : HeldOnce(m.entries)
    /\ \A c \in Callers : Asked(c) => HeldOnce(call[c].entries)
    /\ \A s \in Slots : jenn[s] # NULL => jenn[s] \in held[s]

PolicyInv ==
    /\ TypeOK
    /\ CallsInOrder
    /\ SyncsRunAlone
    /\ MergesInProgress
    /\ RequestsWereHeld
    /\ OnlyWhatJennHeld
=============================================================================
