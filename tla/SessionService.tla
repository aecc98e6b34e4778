--------------------------- MODULE SessionService ---------------------------
(***************************************************************************)
(* SessionService: goroutines that call its methods, the sync.RWMutex of   *)
(* each process, and the statements the methods send to the database.      *)
(*                                                                         *)
(* CreateSession and the two GUI methods hold the mutex exclusively.  All  *)
(* others, the writers UpdateSessionState, MarkConnected,                  *)
(* DisconnectSession and CleanupExpiredSessions among them, hold it only   *)
(* shared, and three of those read the state in one statement and write it *)
(* in another.  Whatever other callers do between the two is in the model. *)
(*                                                                         *)
(* The mutex is private to a process; several processes (Instances) may    *)
(* run against one database.  Clocks of all processes are taken to agree.  *)
(***************************************************************************)
EXTENDS SessionStore

CONSTANTS
    Callers,    \* goroutines, each making one call at a time
    Instances,  \* processes, each with a mutex of its own
    Home,       \* Home[c] is the process that caller c runs in
    Texts,      \* the text arguments that occur: states, reasons, protocols
    Workload,   \* Workload[c] is the set of requests that caller c may make
    LateWrites, \* whether a statement may outlive the method that sent it
    MaxTime,    \* bound on the clock
    MaxFaults   \* bound on failing statements and process crashes together

Checked   == {"update", "connect", "disconnect"}   \* SELECT first, then UPDATE
Exclusive == {"create", "gui_start", "gui_end"}    \* mu.Lock, not mu.RLock
Writers   == Checked \cup Exclusive \cup {"cleanup"}
Ops       == Writers \cup {"get", "list"}

\* A call and its arguments: expires is CreateSession's certExpiresAt, vnc and
\* x11 are the port arguments of UpdateSessionGUIStatus, arg is its protocol,
\* DisconnectSession's reason or UpdateSessionState's newState.
Request == [ op : Ops, sid : Sessions \cup {NULL}, arg : Texts \cup {NULL},
             expires : Nat, vnc : Nat, x11 : Nat ]

OnSession(r) == r.op \notin {"cleanup", "list"}

ASSUME HomeAssumption == Home \in [Callers -> Instances]
ASSUME WorkloadAssumption ==
    /\ Workload \in [Callers -> SUBSET Request]
    /\ \A c \in Callers : \A r \in Workload[c] : OnSession(r) => r.sid \in Sessions
ASSUME BoundAssumption ==
    LateWrites \in BOOLEAN /\ MaxTime \in Nat /\ MaxFaults \in Nat

VARIABLES
    table,      \* gate_sessions
    now,        \* the wall clock
    call,       \* call[c] is what caller c is doing
    late,       \* statements that the database has yet to run for nobody
    faults,     \* how many failures have happened
    authorized  \* history: the sessions that were AUTHORIZED at some time

vars == <<table, now, call, late, faults, authorized>>

NoRequest == [op |-> "none", sid |-> NULL, arg |-> NULL,
              expires |-> 0, vnc |-> 0, x11 |-> 0]

\* pc    idle -> lock -> (drain) -> (check) -> exec -> return -> idle
\* seen  the state its SELECT returned;  at  the earliest instant at which
\* the method can have read its clock;  ret  what the method returns.
Idle == [pc |-> "idle", req |-> NoRequest, seen |-> NULL, at |-> 0, ret |-> NULL]

PCs == {"idle", "lock", "drain", "check", "exec", "return"}

\* A statement whose method is over: what it writes, the state its SELECT had
\* returned, its argument of the time, its sender, and the failure since which
\* nobody waits for it (by and nth tell equal statements apart).
Statement == [ req : Request, seen : States \cup {Absent, NULL}, at : Nat,
               by : Callers, nth : Nat ]

TypeOK ==
    /\ table \in [Sessions -> RowOf(Texts \cup {CertExpired}, Texts)]
    /\ now \in Nat
    /\ call \in [Callers -> [ pc   : PCs,
                              req  : Request \cup {NoRequest},
                              seen : States \cup {Absent, NULL},
                              at   : Nat,
                              ret  : {"ok", "err", NULL} ]]
    /\ late \subseteq Statement
    /\ faults \in Nat
    /\ authorized \subseteq Sessions

Init ==
    /\ table = EmptyTable
    /\ now = 0
    /\ call = [c \in Callers |-> Idle]
    /\ late = {}
    /\ faults = 0
    /\ authorized = {}

-----------------------------------------------------------------------------
(***************************************************************************)
(* Calling a method, and the RWMutex.                                      *)
(***************************************************************************)
Holds(c)       == call[c].pc \in {"check", "exec", "return"}
Peers(c)       == {d \in Callers \ {c} : Home[d] = Home[c]}

\* Lock rather than RLock is what the method asks for.
IsExclusive(c) == call[c].req.op \in Exclusive

\* A writer that waits in Lock, or holds the lock, keeps new readers out.
Announced(d) == IsExclusive(d) /\ (call[d].pc = "drain" \/ Holds(d))

\* uuid.New draws an id that no row and no other pending INSERT has.
Inserts(r, s) == r.op = "create" /\ r.sid = s

Undrawn(s) ==
    /\ ~Exists(table, s)
    /\ \A d \in Callers : ~Inserts(call[d].req, s)
    /\ \A w \in late : ~Inserts(w.req, s)

Begin(c) ==
    /\ call[c].pc = "idle"
    /\ \E r \in Workload[c] :
        /\ r.op = "create" => Undrawn(r.sid)
        /\ call' = [call EXCEPT ![c] = [@ EXCEPT !.pc = "lock", !.req = r]]
    /\ UNCHANGED <<table, now, late, faults, authorized>>

FirstStep(c) == IF call[c].req.op \in Checked THEN "check" ELSE "exec"

Enter(c) == call' = [call EXCEPT ![c] = [@ EXCEPT !.pc = FirstStep(c), !.at = now]]

\* What each step of the RWMutex waits for.
DoorOpen(c) == call[c].pc = "lock"  /\ \A d \in Peers(c) : ~Announced(d)
Drained(c)  == call[c].pc = "drain" /\ \A d \in Peers(c) : ~Holds(d)

RLock(c) ==
    /\ DoorOpen(c) /\ ~IsExclusive(c)
    /\ Enter(c)
    /\ UNCHANGED <<table, now, late, faults, authorized>>

\* Lock first queues with the other writers and shuts the door ...
LockAnnounce(c) ==
    /\ DoorOpen(c) /\ IsExclusive(c)
    /\ call' = [call EXCEPT ![c] = [@ EXCEPT !.pc = "drain"]]
    /\ UNCHANGED <<table, now, late, faults, authorized>>

\* ... and then waits for the readers inside to leave.
LockDrained(c) ==
    /\ Drained(c)
    /\ Enter(c)
    /\ UNCHANGED <<table, now, late, faults, authorized>>

\* Variant: an Unlock that is not deferred is missed on the error paths.
UnlocksOnSuccess(c) == call[c].pc = "return" /\ call[c].ret = "ok"

\* The Unlock or RUnlock is deferred: every path out of a method runs it.
Unlocks(c) == call[c].pc = "return"

Return(c) ==
    /\ Unlocks(c)
    /\ call' = [call EXCEPT ![c] = Idle]
    /\ UNCHANGED <<table, now, late, faults, authorized>>

-----------------------------------------------------------------------------
(***************************************************************************)
(* The bodies of the methods.                                              *)
(***************************************************************************)
Replies(c, result) ==
    call' = [call EXCEPT ![c] = [@ EXCEPT !.pc = "return", !.ret = result]]

Fault ==
    /\ faults < MaxFaults
    /\ faults' = faults + 1

\* Variant: the table lets a session skip AUTHORIZED.
SkippingTransitions ==
    [ s \in States |->
        CASE s = Requested    -> {Authorized, Active, Disconnected}
          [] s = Authorized   -> {Active, Disconnected}
          [] s = Active       -> {Disconnected}
          [] s = Disconnected -> {} ]

\* The table validTransitions of UpdateSessionState.
ValidTransitions ==
    [ s \in States |->
        CASE s = Requested    -> {Authorized, Disconnected}
          [] s = Authorized   -> {Active, Disconnected}
          [] s = Active       -> {Disconnected}
          [] s = Disconnected -> {} ]

\* Variants: one of the three methods forgets its check.
AcceptsAnyUpdate(r, state) ==
    /\ state \in States
    /\ \/ r.op = "update"
       \/ r.op = "connect"    /\ state = Authorized
       \/ r.op = "disconnect" /\ state # Disconnected

AcceptsAnyConnect(r, state) ==
    /\ state \in States
    /\ \/ r.op = "update"     /\ r.arg \in ValidTransitions[state]
       \/ r.op = "connect"
       \/ r.op = "disconnect" /\ state # Disconnected

AcceptsAnyDisconnect(r, state) ==
    /\ state \in States
    /\ \/ r.op = "update"     /\ r.arg \in ValidTransitions[state]
       \/ r.op = "connect"    /\ state = Authorized
       \/ r.op = "disconnect"

\* What each checking method accepts after its SELECT; no row is no state.
Accepts(r, state) ==
    /\ state \in States
    /\ \/ r.op = "update"     /\ r.arg \in ValidTransitions[state]
       \/ r.op = "connect"    /\ state = Authorized
       \/ r.op = "disconnect" /\ state # Disconnected

\* Variant: the method reads its clock first of all, before its SELECT.
PassesAsOfEntry(c, seen) ==
    call' = [call EXCEPT ![c] = [@ EXCEPT !.pc = "exec", !.seen = seen]]

\* The check is passed; time.Now() comes after it.
Passes(c, seen) ==
    call' = [call EXCEPT ![c] = [@ EXCEPT !.pc = "exec", !.seen = seen, !.at = now]]

\* SELECT state, and the decision on it.  (newState is validated even before
\* the SELECT, with the same outcome.)
Select(c) ==
    LET r    == call[c].req
        seen == table[r.sid].state
    IN  /\ call[c].pc = "check"
        /\ \/ Accepts(r, seen) /\ Passes(c, seen) /\ UNCHANGED faults
           \/ ~Accepts(r, seen) /\ Replies(c, "err") /\ UNCHANGED faults
           \/ Fault /\ Replies(c, "err")
        /\ UNCHANGED <<table, now, late, authorized>>

Store(result) ==
    /\ table' = result
    /\ authorized' = authorized \cup {s \in Sessions : result[s].state = Authorized}

\* The write statement of a request, and what it makes of the table.
Written(r, at) ==
    CASE r.op = "create"     -> InsertSession(table, r.sid, r.expires, at)
      [] r.op = "update"     -> SetState(table, r.sid, r.arg, at)
      [] r.op = "connect"    -> SetConnected(table, r.sid, at)
      [] r.op = "disconnect" -> SetDisconnected(table, r.sid, r.arg, at)
      [] r.op = "cleanup"    -> DisconnectExpired(table, at)
      [] r.op = "gui_start"  -> SetGUI(table, r.sid, r.arg, r.vnc, r.x11, at)
      [] r.op = "gui_end"    -> ClearGUI(table, r.sid, at)

\* time.Now() is read between the previous statement and this one; the NOW()
\* of a GUI statement is the instant at which the statement starts.
Stamps(c) == call[c].at .. now

\* The statement of c as it goes on without c.
Sent(c, at) == [ req |-> call[c].req, seen |-> call[c].seen, at |-> at,
                 by |-> c, nth |-> faults ]

\* When the statement fails (connection lost, context cancelled) the caller
\* cannot tell whether the database applied it, or still will.
Executes(c, at) ==
    /\ \/ /\ Store(Written(call[c].req, at))
          /\ Replies(c, "ok")
          /\ UNCHANGED <<late, faults>>
       \/ /\ Fault
          /\ Replies(c, "err")
          /\ \/ Store(Written(call[c].req, at)) /\ UNCHANGED late
             \/ Store(table) /\ UNCHANGED late
             \/ Store(table) /\ LateWrites /\ late' = late \cup {Sent(c, at)}
    /\ UNCHANGED now

Running(c, op) == call[c].pc = "exec" /\ call[c].req.op = op

Writes(c, op) == Running(c, op) /\ \E at \in Stamps(c) : Executes(c, at)

CreateSession(c)          == Writes(c, "create")
UpdateSessionState(c)     == Writes(c, "update")
MarkConnected(c)          == Writes(c, "connect")
DisconnectSession(c)      == Writes(c, "disconnect")
CleanupExpiredSessions(c) == Writes(c, "cleanup")
UpdateSessionGUIStatus(c) == Writes(c, "gui_start")
EndGUISession(c)          == Writes(c, "gui_end")

\* One SELECT; a missing row is an error.
GetSession(c) ==
    /\ Running(c, "get")
    /\ \/ Replies(c, IF Exists(table, call[c].req.sid) THEN "ok" ELSE "err") /\ UNCHANGED faults
       \/ Fault /\ Replies(c, "err")
    /\ UNCHANGED <<table, now, late, authorized>>

\* ListSessionsByDevice, ListActiveSessions and ListSessionsByUser: one SELECT
\* that may find nothing.
ListSessions(c) ==
    /\ Running(c, "list")
    /\ \/ Replies(c, "ok") /\ UNCHANGED faults
       \/ Fault /\ Replies(c, "err")
    /\ UNCHANGED <<table, now, late, authorized>>

Execute(c) ==
    \/ CreateSession(c)
    \/ UpdateSessionState(c)
    \/ MarkConnected(c)
    \/ DisconnectSession(c)
    \/ CleanupExpiredSessions(c)
    \/ UpdateSessionGUIStatus(c)
    \/ EndGUISession(c)
    \/ GetSession(c)
    \/ ListSessions(c)

-----------------------------------------------------------------------------
(***************************************************************************)
(* The environment, and the specification.                                 *)
(***************************************************************************)

\* The calls of process i whose write statement is on its way.
Sending(i) == {c \in Callers : /\ Home[c] = i /\ call[c].pc = "exec"
                               /\ call[c].req.op \in Writers}

\* A process dies: its goroutines and its mutex are gone, the table stays, and
\* statements that it had sent may still be run.
Crash(i) ==
    /\ Fault
    /\ \E S \in SUBSET (IF LateWrites THEN Sending(i) ELSE {}) :
         \E at \in [S -> 0 .. now] :
            /\ \A c \in S : at[c] \in Stamps(c)
            /\ late' = late \cup {Sent(c, at[c]) : c \in S}
    /\ call' = [c \in Callers |-> IF Home[c] = i THEN Idle ELSE call[c]]
    /\ UNCHANGED <<table, now, authorized>>

\* Only the NOW() of a GUI statement is evaluated by the database itself.
LateStamps(w) == IF w.req.op \in {"gui_start", "gui_end"} THEN w.at .. now ELSE {w.at}

\* The database runs a statement that nobody waits for.
RunLate(w) ==
    /\ \E at \in LateStamps(w) : Store(Written(w.req, at))
    /\ late' = late \ {w}
    /\ UNCHANGED <<now, call, faults>>

Tick ==
    /\ now < MaxTime
    /\ now' = now + 1
    /\ UNCHANGED <<table, call, late, faults, authorized>>

Next ==
    \/ \E c \in Callers :
        \/ Begin(c) \/ RLock(c) \/ LockAnnounce(c) \/ LockDrained(c)
        \/ Select(c) \/ Execute(c) \/ Return(c)
    \/ \E i \in Instances : Crash(i)
    \/ \E w \in late : RunLate(w)
    \/ Tick

Spec == Init /\ [][Next]_vars

\* A goroutine that can run does run.  RWMutex is starvation-free: a queued
\* writer shuts out later readers, and unlocking admits the queued readers
\* before the next writer, hence strong fairness on getting in.
Fairness ==
    \A c \in Callers :
        /\ WF_vars(LockDrained(c) \/ Select(c) \/ Execute(c) \/ Return(c))
        /\ SF_vars(RLock(c))
        /\ SF_vars(LockAnnounce(c))

FairSpec == Spec /\ Fairness
=============================================================================
