------------------------- MODULE SessionProperties -------------------------
(***************************************************************************)
(* What SessionService guarantees however its callers interleave, what it  *)
(* guarantees only to callers that keep off each other's sessions, and     *)
(* what its documentation promises beyond that.                            *)
(***************************************************************************)
EXTENDS SessionService

Lifecycle == INSTANCE SessionLifecycle
             WITH state <- [s \in Sessions |-> table[s].state]

\* The lifecycle that the documentation draws: sessions move REQUESTED ->
\* AUTHORIZED -> ACTIVE -> DISCONNECTED and never back.
LifecycleSpec == Lifecycle!Spec

(***************************************************************************)
(* Properties of every use of the service.                                 *)
(***************************************************************************)

\* While CreateSession or a GUI method is inside, no other method of the same
\* process is, in whatever order lockers, readers and crashes come.
ExclusiveCallsRunAlone ==
    \A c \in Callers : \A d \in Peers(c) :
        Holds(c) /\ call[c].req.op \in Exclusive => ~Holds(d)

\* Some caller of the process can take its next step: it gets the lock, its
\* statement returns with a result or an error, or it gives the lock back.
CanMove(c) ==
    \/ DoorOpen(c) \/ Drained(c) \/ Unlocks(c)
    \/ call[c].pc = "check"
    \/ call[c].pc = "exec" /\ Stamps(c) # {}

\* The callers of a process never all wait for each other: whatever mix of
\* readers and writers queues for the mutex, and whatever failed before, as
\* long as a call is under way one of that process can go on.
NobodyIsStuck ==
    \A c \in Callers : call[c].pc # "idle" =>
        \E d \in Callers : Home[d] = Home[c] /\ CanMove(d)

\* No interleaving of UpdateSessionState, MarkConnected and the cleanup makes
\* a session ACTIVE that was never AUTHORIZED, not even one that resurrects
\* a disconnected session.
ActiveWasAuthorized ==
    \A s \in Sessions : table[s].state = Active => s \in authorized

\* The row says "cert_expired" only if the certificate really had expired at
\* the recorded disconnect time: no later writer mixes its own columns into
\* the pair that CleanupExpiredSessions wrote.
\* This takes callers of DisconnectSession that do not claim the cleanup's
\* reason for themselves.
ReasonsAreTheCallersOwn ==
    \A c \in Callers : \A r \in Workload[c] :
        r.op = "disconnect" => r.arg # CertExpired

ReasonSound(row) ==
    row.reason = CertExpired =>
        row.disconnectedAt \in Nat /\ row.certExpiresAt < row.disconnectedAt

CleanupReasonSound == \A s \in Sessions : ReasonSound(table[s])

\* The methods that read and then write break the lifecycle in one way only:
\* the state changed between the SELECT and the UPDATE of the very call whose
\* UPDATE breaks it.
StaleFor(r, seen, s) == r.op \in Checked /\ r.sid = s /\ seen # table[s].state

StaleWrite(s) ==
    \/ \E c \in Callers : /\ call[c].pc = "exec" /\ call'[c].pc = "return"
                          /\ StaleFor(call[c].req, call[c].seen, s)
    \/ \E w \in late \ late' : StaleFor(w.req, w.seen, s)

OnlyStaleChecksBreakOrder ==
    [][\A s \in Sessions :
          \/ table'[s].state = table[s].state
          \/ Lifecycle!Follows(table[s].state, table'[s].state)
          \/ StaleWrite(s)]_vars

\* Every method that was called returns to its caller: neither the mutex nor
\* an abandoned statement can block it for ever, readers cannot starve a
\* writer nor writers a reader.
EveryCallReturns ==
    \A c \in Callers : call[c].pc # "idle" ~> call[c].pc = "idle"

\* As long as somebody calls CleanupExpiredSessions time and again and it works,
\* a session whose certificate has expired ends up DISCONNECTED and stays so:
\* what a racing MarkConnected reopens, a later cleanup closes.  The
\* code itself starts no such calls; they are this property's premise.
Expired(s) == Exists(table, s) /\ table[s].certExpiresAt < now

CleanedUp ==
    \E c \in Callers : /\ call[c].req.op = "cleanup" /\ call[c].pc = "exec"
                       /\ call'[c].pc = "return" /\ call'[c].ret = "ok"

CleanupsCloseExpired ==
    []<><<CleanedUp>>_vars =>
        \A s \in Sessions : Expired(s) ~> [](table[s].state = Disconnected)

\* A DISCONNECTED row is a closed record: no later call alters its state,
\* reason or times (the GUI columns are another matter).
SameLifecycle(old, new) ==
    /\ new.state = old.state
    /\ new.certExpiresAt = old.certExpiresAt
    /\ new.createdAt = old.createdAt
    /\ new.updatedAt = old.updatedAt
    /\ new.connectedAt = old.connectedAt
    /\ new.disconnectedAt = old.disconnectedAt
    /\ new.reason = old.reason

\* A closed session is final, for all callers and processes, as soon as the
\* statements of calls that had passed their checks before have been run: no
\* call that comes later, no cleanup, failure or restart brings a new one.
PastItsCheck(c, s) ==
    call[c].pc = "exec" /\ call[c].req.op \in Checked /\ call[c].req.sid = s

LateFor(s) == {w \in late : w.req.op \in Checked /\ w.req.sid = s}

Settled(s) ==
    /\ table[s].state = Disconnected
    /\ \A c \in Callers : ~PastItsCheck(c, s)
    /\ LateFor(s) = {}

SettledRowsAreFinal ==
    [][\A s \in Sessions :
          Settled(s) => Settled(s)' /\ SameLifecycle(table[s], table'[s])]_vars

\* Whoever writes, with whatever clock reading and however late: no session is
\* connected before it was created, nor touched or closed before, unless its
\* certificate had expired even then; and nothing lies in the future.  (A cleanup
\* that read its clock before the INSERT closes such a session all the same.)
CreatedFirst(row) ==
    /\ row.createdAt <= now /\ row.updatedAt <= now
    /\ row.connectedAt # NULL =>
         row.createdAt <= row.connectedAt /\ row.connectedAt <= now
    /\ row.disconnectedAt # NULL => row.disconnectedAt <= now
    /\ row.certExpiresAt >= row.createdAt =>
         /\ row.createdAt <= row.updatedAt
         /\ row.disconnectedAt # NULL => row.createdAt <= row.disconnectedAt

TimesFollowCreation == \A s \in Sessions : CreatedFirst(table[s])

(***************************************************************************)
(* Properties of callers that keep off each other's sessions: no session   *)
(* is checked and written by two of them, none of them cleans up while     *)
(* another checks, and no statement outlives its method.  Under these      *)
(* conditions LifecycleSpec holds as well.                                 *)
(***************************************************************************)
Independent ==
    /\ ~LateWrites
    /\ \A c \in Callers : \A d \in Callers \ {c} :
         \A r \in Workload[c], q \in Workload[d] :
            r.op \in Checked =>
                /\ q.op # "cleanup"
                /\ q.op \in Checked => q.sid # r.sid

\* For them a SELECT is as good at the UPDATE as it was when it returned.
ChecksAreFresh ==
    \A c \in Callers :
        call[c].pc = "exec" /\ call[c].req.op \in Checked =>
            call[c].seen = table[call[c].req.sid].state

\* With such callers a DISCONNECTED row is final at once.
ClosedRowsStayClosed ==
    [][\A s \in Sessions :
          table[s].state = Disconnected => SameLifecycle(table[s], table'[s])]_vars

(***************************************************************************)
(* A promise the code does not keep.                                       *)
(***************************************************************************)

\* DISCONNECTED is the last state of a session (the comment of
\* UpdateSessionState, and a test that a disconnected session cannot move).
DisconnectedIsFinal ==
    [][\A s \in Sessions :
          table[s].state = Disconnected => table'[s].state = Disconnected]_vars

(***************************************************************************)
(* The inductive invariant behind the properties of every use.             *)
(***************************************************************************)

\* A call in progress makes a request of its caller's workload, and only the
\* checking methods read a state.
CallsInOrder ==
    \A c \in Callers :
        /\ call[c].pc = "idle" => call[c].req.op = "none"
        /\ call[c].pc # "idle" => call[c].req \in Workload[c]
        /\ call[c].pc = "check" => call[c].req.op \in Checked
        /\ call[c].pc = "drain" => IsExclusive(c)

\* At most one writer of a process has announced itself, and inside it is alone.
WritersTakeTurns ==
    \A c \in Callers : \A d \in Peers(c) :
        /\ Announced(c) => ~Announced(d)
        /\ Holds(c) /\ IsExclusive(c) => ~Holds(d)

\* An id that is about to be inserted is nobody else's, and has no row yet.
InsertsAreFresh ==
    /\ \A c \in Callers : call[c].req.op = "create" =>
         /\ call[c].pc # "return" =>
              /\ ~Exists(table, call[c].req.sid)
              /\ \A w \in late : ~Inserts(w.req, call[c].req.sid)
         /\ \A d \in Callers \ {c} : ~Inserts(call[d].req, call[c].req.sid)
    /\ \A w \in late : w.req.op = "create" =>
         /\ ~Exists(table, w.req.sid)
         /\ \A v \in late \ {w} : ~Inserts(v.req, w.req.sid)

\* A request that is past its check names a session that exists, and was told a
\* state that it may leave and that the session really had.
WasPassed(r, seen) ==
    r.op \in Checked =>
        /\ Exists(table, r.sid)
        /\ Accepts(r, seen)
        /\ seen = Authorized => r.sid \in authorized

ChecksWerePassed ==
    /\ \A c \in Callers : call[c].pc = "exec" => WasPassed(call[c].req, call[c].seen)
    /\ \A w \in late : WasPassed(w.req, w.seen)

\* Statements without a method are write statements of the callers' workloads.
LateInOrder ==
    /\ late # {} => LateWrites
    /\ \A w \in late : w.req.op \in Writers /\ w.req \in Workload[w.by]

\* The history variable keeps up with the table.
AuthorizedRemembered ==
    \A s \in Sessions :
        table[s].state \in {Authorized, Active} => s \in authorized

SessionInv ==
    /\ TypeOK
    /\ CallsInOrder
    /\ WritersTakeTurns
    /\ InsertsAreFresh
    /\ ChecksWerePassed
    /\ LateInOrder
    /\ AuthorizedRemembered
=============================================================================
