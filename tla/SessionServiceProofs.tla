------------------------ MODULE SessionServiceProofs ------------------------
(***************************************************************************)
(* Proofs about SessionService, for every set of callers, processes and    *)
(* sessions, every workload, and every bound on time and failures.         *)
(***************************************************************************)
EXTENDS SessionProperties, TLAPS

Row      == RowOf(Texts \cup {CertExpired}, Texts)
Table    == [Sessions -> Row]
CallType == [ pc : PCs, req : Request \cup {NoRequest},
              seen : States \cup {Absent, NULL}, at : Nat, ret : {"ok", "err", NULL} ]

-----------------------------------------------------------------------------
(***************************************************************************)
(* The statements keep the table well typed.                               *)
(***************************************************************************)

LEMMA NoRowTyped == NoRow \in Row
  BY DEF NoRow, FreshRow, Row, RowOf, TimeOrNil, Time, States, Absent

\* A statement that writes one good row keeps the table good.
LEMMA OneRowTyped ==
  ASSUME NEW t \in Table, NEW s \in Sessions, NEW row \in Row
  PROVE  [t EXCEPT ![s] = row] \in Table
  BY DEF Table

LEMMA ClosedTyped ==
  ASSUME NEW row \in Row, NEW at \in Nat, NEW why \in Texts \cup {NULL, CertExpired}
  PROVE  Closed(row, why, at) \in Row
  BY DEF Closed, Row, RowOf, TimeOrNil, Time, States, Disconnected

LEMMA StatementsTyped ==
  ASSUME NEW t \in Table, NEW s \in Sessions, NEW at \in Nat
  PROVE  /\ \A n \in Nat : InsertSession(t, s, n, at) \in Table
         /\ \A to \in States : SetState(t, s, to, at) \in Table
         /\ SetConnected(t, s, at) \in Table
         /\ \A why \in Texts \cup {NULL} : SetDisconnected(t, s, why, at) \in Table
         /\ \A proto \in Texts \cup {NULL}, m, n \in Nat :
               SetGUI(t, s, proto, m, n, at) \in Table
         /\ ClearGUI(t, s, at) \in Table
<1> DEFINE row == t[s]
<1>0. row \in Row
  BY DEF Table
<1> HIDE DEF row
<1>1. ASSUME NEW n \in Nat PROVE InsertSession(t, s, n, at) \in Table
  <2>1. FreshRow(Requested, n, at) \in Row
    BY <1>1 DEF FreshRow, Row, RowOf, TimeOrNil, Time, States, Requested
  <2> QED
    BY <2>1, OneRowTyped DEF InsertSession
<1>2. ASSUME NEW to \in States PROVE SetState(t, s, to, at) \in Table
  <2>1. [row EXCEPT !.state = to, !.updatedAt = at] \in Row
    BY <1>0 DEF Row, RowOf, Time
  <2> QED
    BY <2>1, OneRowTyped DEF SetState, row
<1>3. SetConnected(t, s, at) \in Table
  <2>1. [row EXCEPT !.state = Active, !.connectedAt = at, !.updatedAt = at] \in Row
    BY <1>0 DEF Row, RowOf, TimeOrNil, Time, States, Active
  <2> QED
    BY <2>1, OneRowTyped DEF SetConnected, row
<1>4. ASSUME NEW why \in Texts \cup {NULL} PROVE SetDisconnected(t, s, why, at) \in Table
  <2>1. t[s] \in Row /\ why \in Texts \cup {NULL, CertExpired}
    BY DEF Table
  <2>2. Closed(t[s], why, at) \in Row
    BY <2>1, ClosedTyped
  <2> QED
    BY <2>2, OneRowTyped DEF SetDisconnected
<1>5. \A proto \in Texts \cup {NULL}, m, n \in Nat :
        SetGUI(t, s, proto, m, n, at) \in Table
  <2> SUFFICES ASSUME NEW proto \in Texts \cup {NULL}, NEW m \in Nat, NEW n \in Nat
               PROVE  SetGUI(t, s, proto, m, n, at) \in Table
    OBVIOUS
  <2>1. [row EXCEPT !.guiProtocol = proto, !.vncPort = m,
                   !.x11Port = n, !.guiStartedAt = at] \in Row
    BY <1>0 DEF Row, RowOf, TimeOrNil, Time
  <2> QED
    BY <2>1 DEF SetGUI, Table, row
<1>6. ClearGUI(t, s, at) \in Table
  <2>1. [row EXCEPT !.guiProtocol = NULL, !.vncPort = NULL,
                     !.x11Port = NULL, !.guiEndedAt = at] \in Row
    BY <1>0 DEF Row, RowOf, TimeOrNil, Time
  <2> QED
    BY <2>1 DEF ClearGUI, Table, row
<1> QED
  BY <1>1, <1>2, <1>3, <1>4, <1>5, <1>6

LEMMA CleanupTyped ==
  ASSUME NEW t \in Table, NEW at \in Nat
  PROVE  DisconnectExpired(t, at) \in Table
<1>1. \A s \in Sessions : t[s] \in Row
  BY DEF Table
<1>2. \A s \in Sessions : Closed(t[s], CertExpired, at) \in Row
  BY <1>1, ClosedTyped
<1> QED
  BY <1>2 DEF DisconnectExpired, Table

-----------------------------------------------------------------------------
(***************************************************************************)
(* What a statement does to the states.                                    *)
(***************************************************************************)

\* The request of a call that is under way.
LEMMA RequestTyped ==
  ASSUME CallsInOrder, NEW c \in Callers, call[c].pc # "idle"
  PROVE  /\ call[c].req \in Request
         /\ OnSession(call[c].req) => call[c].req.sid \in Sessions
  BY WorkloadAssumption DEF CallsInOrder

\* The state a checked request asks for.
Target(r) == IF r.op = "update" THEN r.arg
             ELSE IF r.op = "connect" THEN Active ELSE Disconnected

LEMMA AcceptedTarget ==
  ASSUME NEW r \in Request, NEW st, Accepts(r, st)
  PROVE  /\ st \in States /\ Target(r) \in States
         /\ Lifecycle!Follows(st, Target(r))
         /\ Target(r) = Active => st = Authorized
  BY DEF Accepts, Target, ValidTransitions, States, Requested, Authorized,
         Active, Disconnected, Lifecycle!Follows, Lifecycle!Open, Request, Ops,
         Checked, Exclusive

\* How the row of session s moves when the statement of request r turns
\* table t into table u.
Moves(t, u, r, s) ==
    /\ \/ SameLifecycle(t[s], u[s])
       \/ r.op = "create" /\ r.sid = s /\ u[s].state = Requested
       \/ r.op \in Checked /\ r.sid = s /\ u[s].state = Target(r)
       \/ /\ r.op = "cleanup" /\ u[s].state = Disconnected
          /\ t[s].state \in States \ {Disconnected}
    /\ ReasonSound(t[s]) /\ (r.op = "disconnect" => r.arg # CertExpired)
          => ReasonSound(u[s])

LEMMA StatementsMove ==
  ASSUME NEW t \in Table, NEW r \in Request, NEW at \in Nat, NEW s \in Sessions,
         r.sid \in Sessions
  PROVE  /\ r.op = "create" => Moves(t, InsertSession(t, r.sid, r.expires, at), r, s)
         /\ r.op = "update" => Moves(t, SetState(t, r.sid, r.arg, at), r, s)
         /\ r.op = "connect" => Moves(t, SetConnected(t, r.sid, at), r, s)
         /\ r.op = "disconnect" => Moves(t, SetDisconnected(t, r.sid, r.arg, at), r, s)
         /\ Moves(t, SetGUI(t, r.sid, r.arg, r.vnc, r.x11, at), r, s)
         /\ Moves(t, ClearGUI(t, r.sid, at), r, s)
<1> USE NullAssumption DEF Table, Row, RowOf, Moves, SameLifecycle, ReasonSound,
                               TimeOrNil, Time
<1>1. r.op = "create" => Moves(t, InsertSession(t, r.sid, r.expires, at), r, s)
  BY DEF InsertSession, FreshRow
<1>2. r.op = "update" => Moves(t, SetState(t, r.sid, r.arg, at), r, s)
  BY DEF SetState, Target, Checked
<1>3. r.op = "connect" => Moves(t, SetConnected(t, r.sid, at), r, s)
  BY DEF SetConnected, Target, Checked
<1>4. r.op = "disconnect" => Moves(t, SetDisconnected(t, r.sid, r.arg, at), r, s)
  BY DEF SetDisconnected, Closed, Target, Checked
<1>5. Moves(t, SetGUI(t, r.sid, r.arg, r.vnc, r.x11, at), r, s)
  BY DEF SetGUI
<1>6. Moves(t, ClearGUI(t, r.sid, at), r, s)
  BY DEF ClearGUI
<1> QED
  BY <1>1, <1>2, <1>3, <1>4, <1>5, <1>6

LEMMA CleanupMoves ==
  ASSUME NEW t \in Table, NEW r, r.op = "cleanup", NEW at \in Nat, NEW s \in Sessions
  PROVE  Moves(t, DisconnectExpired(t, at), r, s)
  BY DEF Moves, SameLifecycle, ReasonSound, Time, DisconnectExpired, Closed, Overdue, Table, Row, RowOf, States,
         Absent, Disconnected

-----------------------------------------------------------------------------
(***************************************************************************)
(* The effect of the steps of a call.                                      *)
(***************************************************************************)

\* The table is where the statement of request r, run or not, has taken it.
Moved(r) ==
    /\ table' \in Table
    /\ \A s \in Sessions : Moves(table, table', r, s)
    /\ authorized' = authorized \cup {s \in Sessions : table'[s].state = Authorized}

\* The method has run its last statement: the caller's reply is ready, and a
\* statement that goes on without it has not been run yet.
Executed(c) ==
    /\ call[c].pc = "exec"
    /\ \E result \in {"ok", "err"} : Replies(c, result)
    /\ now' = now
    /\ faults' \in Nat
    /\ Moved(call[c].req)
    /\ \/ late' = late
       \/ /\ LateWrites /\ table' = table /\ call[c].req.op \in Writers
          /\ \E at \in Stamps(c) : late' = late \cup {Sent(c, at)}

LEMMA StampsTyped ==
  ASSUME TypeOK, NEW c \in Callers, NEW at \in Stamps(c)
  PROVE  at \in Nat
<1>1. call[c].at \in Nat /\ now \in Nat
  BY DEF TypeOK
<1> QED
  BY <1>1 DEF Stamps

\* What the write statement of any request may do.
LEMMA WrittenMoves ==
  ASSUME table \in Table, NEW r \in Request, r.op \in Writers, NEW at \in Nat,
         OnSession(r) => r.sid \in Sessions, r.op = "update" => r.arg \in States
  PROVE  /\ Written(r, at) \in Table
         /\ \A s \in Sessions : Moves(table, Written(r, at), r, s)
<1> DEFINE u == Written(r, at)
<1>1. r.arg \in Texts \cup {NULL} /\ r.expires \in Nat /\ r.vnc \in Nat /\ r.x11 \in Nat
  BY DEF Request
<1>2. CASE r.op = "cleanup"
  <2>1. u = DisconnectExpired(table, at)
    BY <1>2 DEF Written
  <2> QED
    BY <1>2, <2>1, CleanupTyped, CleanupMoves
<1>3. CASE r.op # "cleanup"
  <2>1. r.sid \in Sessions
    BY <1>3 DEF OnSession, Writers, Checked, Exclusive
  <2>2. /\ r.op = "create" => u = InsertSession(table, r.sid, r.expires, at)
        /\ r.op = "update" => u = SetState(table, r.sid, r.arg, at)
        /\ r.op = "connect" => u = SetConnected(table, r.sid, at)
        /\ r.op = "disconnect" => u = SetDisconnected(table, r.sid, r.arg, at)
        /\ r.op = "gui_start" => u = SetGUI(table, r.sid, r.arg, r.vnc, r.x11, at)
        /\ r.op = "gui_end" => u = ClearGUI(table, r.sid, at)
    BY DEF Written
  <2> HIDE DEF u
  <2>3. r.op \in {"create", "update", "connect", "disconnect", "gui_start", "gui_end"}
    BY <1>3 DEF Writers, Checked, Exclusive
  <2>4. u \in Table
    <3>1. CASE r.op \in {"create", "update", "connect"}
      <4>1. InsertSession(table, r.sid, r.expires, at) \in Table
        BY <1>1, <2>1, StatementsTyped
      <4>2. r.op = "update" => SetState(table, r.sid, r.arg, at) \in Table
        BY <2>1, StatementsTyped
      <4>3. SetConnected(table, r.sid, at) \in Table
        BY <2>1, StatementsTyped
      <4> QED
        BY <2>2, <3>1, <4>1, <4>2, <4>3
    <3>2. CASE r.op = "disconnect"
      <4>1. SetDisconnected(table, r.sid, r.arg, at) \in Table
        BY <1>1, <2>1, StatementsTyped
      <4> QED
        BY <2>2, <3>2, <4>1
    <3>3. CASE r.op = "gui_start"
      <4>1. \A proto \in Texts \cup {NULL}, m, n \in Nat :
              SetGUI(table, r.sid, proto, m, n, at) \in Table
        BY <2>1, StatementsTyped
      <4>2. SetGUI(table, r.sid, r.arg, r.vnc, r.x11, at) \in Table
        BY <1>1, <4>1
      <4> QED
        BY <2>2, <3>3, <4>2
    <3>4. CASE r.op = "gui_end"
      BY <1>1, <2>1, <2>2, <3>4, StatementsTyped
    <3> QED
      BY <2>3, <3>1, <3>2, <3>3, <3>4
  <2>5. ASSUME NEW s \in Sessions PROVE Moves(table, u, r, s)
    <3>1. CASE r.op \in {"create", "update", "connect"}
      BY <2>1, <2>2, <3>1, StatementsMove
    <3>2. CASE r.op \in {"disconnect", "gui_start", "gui_end"}
      BY <2>1, <2>2, <3>2, StatementsMove
    <3> QED
      BY <2>3, <3>1, <3>2
  <2> QED
    BY <2>4, <2>5 DEF u
<1> QED
  BY <1>2, <1>3

\* A request that is past its check has one of the four states as its target.
LEMMA PassedTarget ==
  ASSUME NEW r \in Request, NEW seen, WasPassed(r, seen)
  PROVE  r.op = "update" => r.arg \in States
  BY AcceptedTarget DEF WasPassed, Checked, Target

\* The table after a statement, or after none, that Store has recorded.
LEMMA StoreMoves ==
  ASSUME SessionInv, NEW r \in Request, r.op \in Writers, NEW seen, WasPassed(r, seen),
         OnSession(r) => r.sid \in Sessions, NEW at \in Nat,
         Store(Written(r, at)) \/ Store(table)
  PROVE  Moved(r)
<1>1. table \in Table
  BY DEF SessionInv, TypeOK, Table, Row
<1>2. Written(r, at) \in Table /\ \A s \in Sessions : Moves(table, Written(r, at), r, s)
  BY <1>1, PassedTarget, WrittenMoves
<1>3. \A s \in Sessions : Moves(table, table, r, s)
  BY DEF Moves, SameLifecycle
<1>4. table' = Written(r, at) \/ table' = table
  BY DEF Store
<1>5. authorized' = authorized \cup {s \in Sessions : table'[s].state = Authorized}
  BY DEF Store
<1> QED
  BY <1>1, <1>2, <1>3, <1>4, <1>5 DEF Moved

LEMMA ExecuteEffect ==
  ASSUME SessionInv, NEW c \in Callers, Execute(c)
  PROVE  Executed(c)
<1> DEFINE r == call[c].req
<1>1. TypeOK /\ CallsInOrder /\ faults \in Nat /\ table \in Table
  BY DEF SessionInv, TypeOK, Table, Row
<1>2. call[c].pc = "exec"
  BY DEF Execute, CreateSession, UpdateSessionState, MarkConnected, DisconnectSession,
         CleanupExpiredSessions, UpdateSessionGUIStatus, EndGUISession, GetSession,
         ListSessions, Writes, Running
<1>3. r \in Request /\ (OnSession(r) => r.sid \in Sessions) /\ WasPassed(r, call[c].seen)
  BY <1>1, <1>2, RequestTyped DEF SessionInv, ChecksWerePassed
<1>4. CASE GetSession(c) \/ ListSessions(c)
  <2>1. UNCHANGED <<table, now, late, authorized>> /\ faults' \in Nat
    BY <1>1, <1>4 DEF GetSession, ListSessions, Fault
  <2>2. \E result \in {"ok", "err"} : Replies(c, result)
    BY <1>4 DEF GetSession, ListSessions
  <2>3. \A s \in Sessions : Moves(table, table', r, s)
    BY <2>1 DEF Moves, SameLifecycle, ReasonSound
  <2>4. authorized' = authorized \cup {s \in Sessions : table'[s].state = Authorized}
    BY <2>1 DEF SessionInv, AuthorizedRemembered
  <2> QED
    BY <1>1, <1>2, <2>1, <2>2, <2>3, <2>4 DEF Executed, Moved
<1>5. CASE \E op \in Writers : Writes(c, op)
  <2>1. r.op \in Writers
    BY <1>5 DEF Writes, Running
  <2>2. PICK at \in Stamps(c) : Executes(c, at)
    BY <1>5 DEF Writes
  <2>3. at \in Nat
    BY <1>1, StampsTyped
  <2>4. Moved(r)
    BY <1>3, <2>1, <2>2, <2>3, StoreMoves DEF Executes
  <2>5. /\ \E result \in {"ok", "err"} : Replies(c, result)
        /\ now' = now /\ faults' \in Nat
    BY <1>1, <2>2 DEF Executes, Fault
  <2>6. \/ late' = late
        \/ LateWrites /\ table' = table /\ late' = late \cup {Sent(c, at)}
    BY <2>2 DEF Executes, Store
  <2> QED
    BY <1>2, <2>1, <2>4, <2>5, <2>6 DEF Executed
<1>6. (\E op \in Writers : Writes(c, op)) \/ GetSession(c) \/ ListSessions(c)
  BY DEF Execute, CreateSession, UpdateSessionState, MarkConnected, DisconnectSession,
         CleanupExpiredSessions, UpdateSessionGUIStatus, EndGUISession, Writers, Checked,
         Exclusive
<1> QED
  BY <1>4, <1>5, <1>6

\* A statement without a method is a request of the workload.
LEMMA LateTyped ==
  ASSUME SessionInv, NEW w \in late
  PROVE  /\ w \in Statement /\ w.req \in Request /\ w.req.op \in Writers
         /\ OnSession(w.req) => w.req.sid \in Sessions
         /\ WasPassed(w.req, w.seen)
<1>1. w \in Statement /\ w.req \in Workload[w.by] /\ w.req.op \in Writers
  BY DEF SessionInv, TypeOK, LateInOrder
<1>2. w.by \in Callers /\ w.req \in Request
  BY <1>1 DEF Statement
<1> QED
  BY <1>1, <1>2, WorkloadAssumption DEF SessionInv, ChecksWerePassed

LEMMA RunLateEffect ==
  ASSUME SessionInv, NEW w \in late, RunLate(w)
  PROVE  Moved(w.req) /\ late' = late \ {w} /\ UNCHANGED <<now, call, faults>>
<1>1. PICK at \in LateStamps(w) : Store(Written(w.req, at))
  BY DEF RunLate
<1>2. w.at \in Nat /\ now \in Nat
  BY LateTyped DEF Statement, SessionInv, TypeOK
<1>3. at \in Nat
  BY <1>1, <1>2 DEF LateStamps
<1>4. Moved(w.req)
  BY <1>1, <1>3, LateTyped, StoreMoves
<1> QED
  BY <1>4 DEF RunLate

\* What is under way stays as it was, whatever a request that is past its check
\* writes meanwhile.
LEMMA MovedKeeps ==
  ASSUME SessionInv, NEW r \in Request, NEW seen, WasPassed(r, seen), Moved(r),
         OnSession(r) => r.sid \in Sessions
  PROVE  /\ authorized' \subseteq Sessions
         /\ \A s \in Sessions : Exists(table, s) => Exists(table', s)
         /\ \A s \in Sessions : ~Exists(table, s) /\ ~Inserts(r, s) => ~Exists(table', s)
         /\ \A q \in Request : \A st :
               (OnSession(q) => q.sid \in Sessions) /\ WasPassed(q, st) => WasPassed(q, st)'
         /\ AuthorizedRemembered'
<1>1. \A s \in Sessions : Moves(table, table', r, s)
  BY DEF Moved
<1>2. authorized' = authorized \cup {s \in Sessions : table'[s].state = Authorized}
  BY DEF Moved
<1>3. r.op \in Checked => Exists(table, r.sid) /\ Accepts(r, seen)
                          /\ (seen = Authorized => r.sid \in authorized)
  BY DEF WasPassed
<1>4. authorized' \subseteq Sessions
  BY <1>2 DEF SessionInv, TypeOK
<1>5. r.op \in Checked => Target(r) \in States /\ (Target(r) = Active => seen = Authorized)
  BY <1>3, AcceptedTarget
<1>6. \A s \in Sessions : Exists(table, s) => Exists(table', s)
  BY <1>1, <1>5 DEF Moves, SameLifecycle, Exists, Absent, States, Requested, Disconnected,
                    Authorized, Active
<1>7. \A s \in Sessions : ~Exists(table, s) /\ ~Inserts(r, s) => ~Exists(table', s)
  BY <1>1, <1>3 DEF Moves, SameLifecycle, Exists, Inserts, States, Absent, Requested,
                    Authorized, Active, Disconnected
<1>8. ASSUME NEW q \in Request, NEW st, OnSession(q) => q.sid \in Sessions,
             WasPassed(q, st)
      PROVE  WasPassed(q, st)'
  BY <1>2, <1>6, <1>8 DEF WasPassed, OnSession, Checked, Exists
<1>9. ASSUME NEW s \in Sessions, table'[s].state \in {Authorized, Active}
      PROVE  s \in authorized'
  <2>1. CASE table'[s].state = Authorized
    BY <1>2, <2>1
  <2>2. CASE table'[s].state = Active
    <3>1. CASE table[s].state = Active
      BY <1>2, <3>1 DEF SessionInv, AuthorizedRemembered
    <3>2. CASE r.op \in Checked /\ r.sid = s /\ Target(r) = Active
      BY <1>2, <1>3, <1>5, <3>2
    <3> QED
      BY <1>1, <2>2, <3>1, <3>2 DEF Moves, SameLifecycle, Active, Requested, Disconnected
  <2> QED
    BY <1>9, <2>1, <2>2
<1> QED
  BY <1>4, <1>6, <1>7, <1>8, <1>9 DEF AuthorizedRemembered

-----------------------------------------------------------------------------
(***************************************************************************)
(* The inductive invariant.                                                *)
(***************************************************************************)

LEMMA InitInv == Init => SessionInv
<1> SUFFICES ASSUME Init PROVE SessionInv
  OBVIOUS
<1> USE DEF Init
<1>1. \A c \in Callers : call[c] = Idle
  OBVIOUS
<1>2. \A s \in Sessions : table[s].state = Absent
  BY DEF EmptyTable, NoRow, FreshRow
<1>3. TypeOK
  <2>1. Idle \in CallType
    BY DEF Idle, CallType, PCs, NoRequest
  <2>2. table \in Table
    BY NoRowTyped DEF EmptyTable, Table
  <2> QED
    BY <2>1, <2>2 DEF TypeOK, CallType, Table, Row
<1>4. CallsInOrder /\ LateInOrder
  BY <1>1 DEF CallsInOrder, LateInOrder, Idle, NoRequest
<1>5. WritersTakeTurns
  BY <1>1 DEF WritersTakeTurns, Announced, Holds, Peers, Idle
<1>6. InsertsAreFresh
  BY <1>1 DEF InsertsAreFresh, Inserts, Idle, NoRequest
<1>7. ChecksWerePassed
  BY <1>1 DEF ChecksWerePassed, Idle
<1>8. AuthorizedRemembered
  BY <1>2 DEF AuthorizedRemembered, Absent, Authorized, Active
<1> QED
  BY <1>3, <1>4, <1>5, <1>6, <1>7, <1>8 DEF SessionInv

\* Only caller c moves, and only its record changes.
CallBecomes(c, k) ==
    /\ k \in CallType
    /\ call' = [call EXCEPT ![c] = k]
    /\ UNCHANGED <<table, now, late, authorized>>
    /\ faults' \in Nat

LEMMA CallBecomesEffect ==
  ASSUME TypeOK, NEW c \in Callers, NEW k, CallBecomes(c, k)
  PROVE  /\ TypeOK'
         /\ call'[c] = k
         /\ \A d \in Callers \ {c} : call'[d] = call[d]
         /\ table' = table /\ authorized' = authorized /\ late' = late
         /\ LateInOrder => LateInOrder'
  BY DEF CallBecomes, LateInOrder, TypeOK, CallType

LEMMA BeginInv ==
  ASSUME SessionInv, NEW c \in Callers, Begin(c)
  PROVE  SessionInv'
<1> USE DEF SessionInv
<1>1. PICK r \in Workload[c] :
        /\ r.op = "create" => Undrawn(r.sid)
        /\ call' = [call EXCEPT ![c] = [@ EXCEPT !.pc = "lock", !.req = r]]
  BY DEF Begin
<1> DEFINE k == [call[c] EXCEPT !.pc = "lock", !.req = r]
<1>2. r \in Request
  BY WorkloadAssumption
<1>3. k \in CallType /\ k.pc = "lock" /\ k.req = r
  BY <1>2 DEF TypeOK, CallType, PCs
<1>4. CallBecomes(c, k)
  BY <1>1, <1>3 DEF Begin, CallBecomes, TypeOK
<1>5. /\ TypeOK' /\ call'[c] = k /\ \A d \in Callers \ {c} : call'[d] = call[d]
      /\ table' = table /\ authorized' = authorized /\ late' = late
      /\ LateInOrder'
  BY <1>4, CallBecomesEffect
<1> HIDE DEF k
<1>6. CallsInOrder'
  BY <1>3, <1>5 DEF CallsInOrder, IsExclusive
<1>7. WritersTakeTurns'
  BY <1>3, <1>5 DEF WritersTakeTurns, Announced, Holds, Peers, IsExclusive
<1>8. InsertsAreFresh'
  BY <1>1, <1>3, <1>5 DEF InsertsAreFresh, Inserts, Undrawn, Exists
<1>9. ChecksWerePassed'
  BY <1>3, <1>5 DEF ChecksWerePassed, WasPassed, Exists
<1>10. AuthorizedRemembered'
  BY <1>5 DEF AuthorizedRemembered
<1> QED
  BY <1>5, <1>6, <1>7, <1>8, <1>9, <1>10

LEMMA EnterTyped ==
  ASSUME TypeOK, NEW c \in Callers
  PROVE  /\ [call[c] EXCEPT !.pc = FirstStep(c), !.at = now] \in CallType
         /\ [call[c] EXCEPT !.pc = "drain"] \in CallType
         /\ \A ret \in {"ok", "err"} :
              [call[c] EXCEPT !.pc = "return", !.ret = ret] \in CallType
  BY DEF TypeOK, CallType, PCs, FirstStep

LEMMA RLockInv ==
  ASSUME SessionInv, NEW c \in Callers, RLock(c)
  PROVE  SessionInv'
<1> USE DEF SessionInv
<1> DEFINE k == [call[c] EXCEPT !.pc = FirstStep(c), !.at = now]
<1>1. /\ call[c].pc = "lock" /\ ~IsExclusive(c)
      /\ \A d \in Peers(c) : ~Announced(d)
  BY DEF RLock, DoorOpen
<1>2. /\ k \in CallType /\ k.pc = FirstStep(c) /\ k.req = call[c].req
  BY EnterTyped DEF TypeOK
<1>3. CallBecomes(c, k)
  BY <1>2 DEF RLock, Enter, CallBecomes, TypeOK
<1>4. /\ TypeOK' /\ call'[c] = k /\ \A d \in Callers \ {c} : call'[d] = call[d]
      /\ table' = table /\ authorized' = authorized /\ late' = late
      /\ LateInOrder'
  BY <1>3, CallBecomesEffect
<1> HIDE DEF k
<1>5. CallsInOrder'
  BY <1>1, <1>2, <1>4 DEF CallsInOrder, IsExclusive, FirstStep
<1>6. WritersTakeTurns'
  BY <1>1, <1>2, <1>4 DEF WritersTakeTurns, Announced, Holds, Peers, IsExclusive, FirstStep
<1>7. InsertsAreFresh'
  BY <1>1, <1>2, <1>4 DEF InsertsAreFresh, Inserts, Exists
<1>8. ChecksWerePassed'
  BY <1>2, <1>4 DEF ChecksWerePassed, WasPassed, FirstStep, Exists
<1>9. AuthorizedRemembered'
  BY <1>4 DEF AuthorizedRemembered
<1> QED
  BY <1>4, <1>5, <1>6, <1>7, <1>8, <1>9

LEMMA LockAnnounceInv ==
  ASSUME SessionInv, NEW c \in Callers, LockAnnounce(c)
  PROVE  SessionInv'
<1> USE DEF SessionInv
<1> DEFINE k == [call[c] EXCEPT !.pc = "drain"]
<1>1. /\ call[c].pc = "lock" /\ IsExclusive(c)
      /\ \A d \in Peers(c) : ~Announced(d)
  BY DEF LockAnnounce, DoorOpen
<1>2. /\ k \in CallType /\ k.pc = "drain" /\ k.req = call[c].req
  BY EnterTyped DEF TypeOK
<1>3. CallBecomes(c, k)
  BY <1>2 DEF LockAnnounce, CallBecomes, TypeOK
<1>4. /\ TypeOK' /\ call'[c] = k /\ \A d \in Callers \ {c} : call'[d] = call[d]
      /\ table' = table /\ authorized' = authorized /\ late' = late
      /\ LateInOrder'
  BY <1>3, CallBecomesEffect
<1> HIDE DEF k
<1>5. CallsInOrder'
  BY <1>1, <1>2, <1>4 DEF CallsInOrder, IsExclusive
<1>6. WritersTakeTurns'
  BY <1>1, <1>2, <1>4, HomeAssumption DEF WritersTakeTurns, Announced, Holds, Peers, IsExclusive
<1>7. InsertsAreFresh'
  BY <1>1, <1>2, <1>4 DEF InsertsAreFresh, Inserts, Exists
<1>8. ChecksWerePassed'
  BY <1>2, <1>4 DEF ChecksWerePassed, WasPassed, Exists
<1>9. AuthorizedRemembered'
  BY <1>4 DEF AuthorizedRemembered
<1> QED
  BY <1>4, <1>5, <1>6, <1>7, <1>8, <1>9

LEMMA LockDrainedInv ==
  ASSUME SessionInv, NEW c \in Callers, LockDrained(c)
  PROVE  SessionInv'
<1> USE DEF SessionInv
<1> DEFINE k == [call[c] EXCEPT !.pc = FirstStep(c), !.at = now]
<1>1. /\ call[c].pc = "drain" /\ IsExclusive(c)
      /\ \A d \in Peers(c) : ~Holds(d)
  BY DEF LockDrained, Drained, CallsInOrder
<1>2. FirstStep(c) = "exec"
  BY <1>1 DEF FirstStep, IsExclusive, Exclusive, Checked
<1>3. /\ k \in CallType /\ k.pc = "exec" /\ k.req = call[c].req
  BY <1>2, EnterTyped DEF TypeOK
<1>4. CallBecomes(c, k)
  BY <1>3 DEF LockDrained, Enter, CallBecomes, TypeOK
<1>5. /\ TypeOK' /\ call'[c] = k /\ \A d \in Callers \ {c} : call'[d] = call[d]
      /\ table' = table /\ authorized' = authorized /\ late' = late
      /\ LateInOrder'
  BY <1>4, CallBecomesEffect
<1> HIDE DEF k
<1>6. CallsInOrder'
  BY <1>1, <1>3, <1>5 DEF CallsInOrder, IsExclusive
<1>7. WritersTakeTurns'
  BY <1>1, <1>3, <1>5, HomeAssumption DEF WritersTakeTurns, Announced, Holds, Peers, IsExclusive
<1>8. InsertsAreFresh'
  BY <1>1, <1>3, <1>5 DEF InsertsAreFresh, Inserts, Exists
<1>9. ChecksWerePassed'
  BY <1>1, <1>3, <1>5 DEF ChecksWerePassed, WasPassed, IsExclusive, Exclusive, Checked, Exists
<1>10. AuthorizedRemembered'
  BY <1>5 DEF AuthorizedRemembered
<1> QED
  BY <1>5, <1>6, <1>7, <1>8, <1>9, <1>10

LEMMA SelectInv ==
  ASSUME SessionInv, NEW c \in Callers, Select(c)
  PROVE  SessionInv'
<1> USE DEF SessionInv
<1> DEFINE r == call[c].req
           seen == table[r.sid].state
           pass == [call[c] EXCEPT !.pc = "exec", !.seen = seen, !.at = now]
           fail == [call[c] EXCEPT !.pc = "return", !.ret = "err"]
<1>1. call[c].pc = "check" /\ r.op \in Checked
  BY DEF Select, CallsInOrder
<1>2. r.sid \in Sessions
  BY <1>1, RequestTyped DEF OnSession, Checked
<1>3. seen \in States \cup {Absent}
  BY <1>2 DEF TypeOK, RowOf
<1>4. pass \in CallType /\ pass.pc = "exec" /\ pass.req = r /\ pass.seen = seen
  BY <1>3 DEF TypeOK, CallType, PCs
<1>5. fail \in CallType /\ fail.pc = "return" /\ fail.req = r
  BY EnterTyped DEF TypeOK, CallType
<1>6. PICK k \in {pass, fail} :
        /\ CallBecomes(c, k)
        /\ k = pass => Accepts(r, seen)
  <2>1. \/ Accepts(r, seen) /\ call' = [call EXCEPT ![c] = pass]
        \/ call' = [call EXCEPT ![c] = fail]
    BY DEF Select, Passes, Replies
  <2>2. UNCHANGED <<table, now, late, authorized>> /\ faults' \in Nat
    BY DEF Select, Fault, TypeOK
  <2>3. pass # fail
    BY <1>4, <1>5
  <2> QED
    BY <1>4, <1>5, <2>1, <2>2, <2>3 DEF CallBecomes
<1>7. /\ TypeOK' /\ call'[c] = k /\ \A d \in Callers \ {c} : call'[d] = call[d]
      /\ table' = table /\ authorized' = authorized /\ late' = late
      /\ LateInOrder'
  BY <1>6, CallBecomesEffect
<1>8. /\ k.pc \in {"exec", "return"} /\ k.req = r
      /\ k.pc = "exec" => k.seen = seen /\ Accepts(r, seen)
  BY <1>4, <1>5, <1>6
<1> HIDE DEF pass, fail
<1>9. CallsInOrder'
  BY <1>1, <1>7, <1>8 DEF CallsInOrder, IsExclusive
<1>10. WritersTakeTurns'
  BY <1>1, <1>7, <1>8 DEF WritersTakeTurns, Announced, Holds, Peers, IsExclusive
<1>11. InsertsAreFresh'
  BY <1>1, <1>7, <1>8 DEF InsertsAreFresh, Inserts, Exists
<1>12. ChecksWerePassed'
  <2>1. Accepts(r, seen) => Exists(table, r.sid)
    BY DEF Accepts, Exists, Absent, States, Requested, Authorized, Active, Disconnected
  <2>2. seen = Authorized => r.sid \in authorized
    BY <1>2 DEF AuthorizedRemembered
  <2> QED
    BY <1>7, <1>8, <2>1, <2>2 DEF ChecksWerePassed, WasPassed, Exists
<1>13. AuthorizedRemembered'
  BY <1>7 DEF AuthorizedRemembered
<1> QED
  BY <1>7, <1>9, <1>10, <1>11, <1>12, <1>13

LEMMA IdleTyped == Idle \in CallType /\ Idle.pc = "idle" /\ Idle.req.op = "none"
  BY DEF Idle, CallType, PCs, NoRequest

LEMMA ReturnInv ==
  ASSUME SessionInv, NEW c \in Callers, Return(c)
  PROVE  SessionInv'
<1> USE DEF SessionInv
<1>1. CallBecomes(c, Idle)
  BY IdleTyped DEF Return, CallBecomes, TypeOK
<1>2. /\ TypeOK' /\ call'[c] = Idle /\ \A d \in Callers \ {c} : call'[d] = call[d]
      /\ table' = table /\ authorized' = authorized /\ late' = late
      /\ LateInOrder'
  BY <1>1, CallBecomesEffect
<1>3. CallsInOrder'
  BY <1>2, IdleTyped DEF CallsInOrder, IsExclusive
<1>4. WritersTakeTurns'
  BY <1>2, IdleTyped DEF WritersTakeTurns, Announced, Holds, Peers, IsExclusive
<1>5. InsertsAreFresh'
  BY <1>2, IdleTyped DEF InsertsAreFresh, Inserts, Exists
<1>6. ChecksWerePassed'
  BY <1>2, IdleTyped DEF ChecksWerePassed, WasPassed, Exists
<1>7. AuthorizedRemembered'
  BY <1>2 DEF AuthorizedRemembered
<1> QED
  BY <1>2, <1>3, <1>4, <1>5, <1>6, <1>7

\* What a crash leaves behind is what was on its way.
LEMMA CrashEffect ==
  ASSUME SessionInv, NEW i \in Instances, Crash(i)
  PROVE  /\ UNCHANGED <<table, now, authorized>> /\ faults' \in Nat
         /\ \A d \in Callers : call'[d] = IF Home[d] = i THEN Idle ELSE call[d]
         /\ late # late' => LateWrites
         /\ late \subseteq late'
         /\ \A w \in late' \ late : \E d \in Sending(i) :
               \E at \in Stamps(d) : w = Sent(d, at)
         /\ \A v, w \in late' \ late : v.by = w.by => v = w
<1>1. PICK S \in SUBSET Sending(i) : \E at \in [S -> 0 .. now] :
        /\ S # {} => LateWrites
        /\ \A c \in S : at[c] \in Stamps(c)
        /\ late' = late \cup {Sent(c, at[c]) : c \in S}
  BY DEF Crash
<1>2. PICK at \in [S -> 0 .. now] :
        /\ S # {} => LateWrites
        /\ \A c \in S : at[c] \in Stamps(c)
        /\ late' = late \cup {Sent(c, at[c]) : c \in S}
  BY <1>1
<1>3. \A v, w \in late' \ late : v.by = w.by => v = w
  BY <1>2 DEF Sent
<1>4. faults' \in Nat
  BY DEF Crash, Fault, SessionInv, TypeOK
<1>5. \A d \in Callers : call'[d] = IF Home[d] = i THEN Idle ELSE call[d]
  BY DEF Crash
<1>6. UNCHANGED <<table, now, authorized>>
  BY DEF Crash
<1> QED
  BY <1>2, <1>3, <1>4, <1>5, <1>6

\* A statement goes on as the write statement of the call that sent it.
LEMMA SentTyped ==
  ASSUME SessionInv, NEW c \in Callers, call[c].pc = "exec", call[c].req.op \in Writers,
         NEW at \in Stamps(c)
  PROVE  /\ Sent(c, at) \in Statement /\ Sent(c, at).by = c
         /\ Sent(c, at).req = call[c].req /\ Sent(c, at).seen = call[c].seen
         /\ Sent(c, at).at = at /\ Sent(c, at).req \in Workload[c]
         /\ WasPassed(call[c].req, call[c].seen)
<1>1. TypeOK /\ call[c].req \in Request /\ call[c].req \in Workload[c] /\ at \in Nat
  BY RequestTyped, StampsTyped DEF SessionInv, CallsInOrder
<1>2. call[c].seen \in States \cup {Absent, NULL} /\ faults \in Nat
  BY <1>1 DEF TypeOK
<1> QED
  BY <1>1, <1>2 DEF Sent, Statement, SessionInv, ChecksWerePassed

LEMMA CrashInv ==
  ASSUME SessionInv, NEW i \in Instances, Crash(i)
  PROVE  SessionInv'
<1> USE DEF SessionInv
<1> DEFINE new == late' \ late
<1>1. /\ \A d \in Callers : call'[d] = IF Home[d] = i THEN Idle ELSE call[d]
      /\ UNCHANGED <<table, now, authorized>>
      /\ late \subseteq late' /\ (late' # late => LateWrites)
  BY CrashEffect
<1>2. ASSUME NEW w \in new
      PROVE  /\ w \in Statement /\ w.by \in Callers /\ Home[w.by] = i
             /\ call[w.by].pc = "exec" /\ w.req = call[w.by].req /\ w.seen = call[w.by].seen
             /\ w.req \in Workload[w.by] /\ w.req.op \in Writers /\ WasPassed(w.req, w.seen)
  <2>1. PICK d \in Sending(i) : \E at \in Stamps(d) : w = Sent(d, at)
    BY CrashEffect
  <2>2. PICK at \in Stamps(d) : w = Sent(d, at)
    BY <2>1
  <2>3. d \in Callers /\ Home[d] = i /\ call[d].pc = "exec" /\ call[d].req.op \in Writers
    BY DEF Sending
  <2> QED
    BY <2>2, <2>3, SentTyped
<1>3. TypeOK'
  <2>1. call' \in [Callers -> CallType]
    BY IdleTyped DEF Crash, TypeOK, CallType
  <2>2. faults' \in Nat
    BY CrashEffect
  <2>3. late' \subseteq Statement
    BY <1>1, <1>2 DEF TypeOK
  <2> QED
    BY <1>1, <2>1, <2>2, <2>3 DEF TypeOK, CallType, Statement
<1>4. CallsInOrder'
  BY <1>1, IdleTyped DEF CallsInOrder, IsExclusive
<1>5. WritersTakeTurns'
  BY <1>1, IdleTyped DEF WritersTakeTurns, Announced, Holds, Peers, IsExclusive
<1>6. InsertsAreFresh'
  <2>1. ASSUME NEW c \in Callers, call'[c].req.op = "create"
        PROVE  /\ call'[c].pc # "return" =>
                    /\ ~Exists(table', call'[c].req.sid)
                    /\ \A w \in late' : ~Inserts(w.req, call'[c].req.sid)
               /\ \A d \in Callers \ {c} : ~Inserts(call'[d].req, call'[c].req.sid)
    <3>1. call'[c] = call[c] /\ Home[c] # i
      BY <1>1, <2>1, IdleTyped
    <3>2. \A d \in Callers \ {c} : ~Inserts(call'[d].req, call'[c].req.sid)
      BY <1>1, <2>1, <3>1, IdleTyped DEF InsertsAreFresh, Inserts
    <3>3. \A w \in new : ~Inserts(w.req, call'[c].req.sid)
      BY <1>2, <2>1, <3>1 DEF InsertsAreFresh
    <3> QED
      BY <1>1, <2>1, <3>1, <3>2, <3>3 DEF InsertsAreFresh, Exists
  <2>2. ASSUME NEW w \in late', w.req.op = "create"
        PROVE  /\ ~Exists(table', w.req.sid)
               /\ \A v \in late' \ {w} : ~Inserts(v.req, w.req.sid)
    <3>1. CASE w \in late
      <4>1. \A v \in new : ~Inserts(v.req, w.req.sid)
        BY <1>2, <2>2, <3>1 DEF InsertsAreFresh, Inserts
      <4> QED
        BY <1>1, <2>2, <3>1, <4>1 DEF InsertsAreFresh, Exists
    <3>2. CASE w \in new
      <4>1. \A v \in new \ {w} : v.by # w.by
        BY <3>2, CrashEffect
      <4>2. \A v \in new \ {w} : ~Inserts(v.req, w.req.sid)
        BY <1>2, <2>2, <3>2, <4>1 DEF InsertsAreFresh
      <4> QED
        BY <1>1, <1>2, <2>2, <3>2, <4>2 DEF InsertsAreFresh, Exists
    <3> QED
      BY <3>1, <3>2
  <2> QED
    BY <2>1, <2>2 DEF InsertsAreFresh, Exists
<1>7. ChecksWerePassed'
  BY <1>1, <1>2, IdleTyped DEF ChecksWerePassed, WasPassed, Exists
<1>8. AuthorizedRemembered'
  BY <1>1 DEF AuthorizedRemembered
<1>9. LateInOrder'
  BY <1>1, <1>2 DEF LateInOrder
<1> QED
  BY <1>3, <1>4, <1>5, <1>6, <1>7, <1>8, <1>9

LEMMA ExecuteInv ==
  ASSUME SessionInv, NEW c \in Callers, Execute(c)
  PROVE  SessionInv'
<1> USE DEF SessionInv
<1> DEFINE r == call[c].req
<1>1. Executed(c)
  BY ExecuteEffect
<1>2. call[c].pc = "exec" /\ Moved(r)
  BY <1>1 DEF Executed
<1>3. PICK result \in {"ok", "err"} : Replies(c, result)
  BY <1>1, Zenon DEF Executed
<1> DEFINE k == [call[c] EXCEPT !.pc = "return", !.ret = result]
<1>4. k \in CallType /\ k.pc = "return" /\ k.req = r
  BY EnterTyped DEF TypeOK, CallType
<1>5. /\ call' \in [Callers -> CallType] /\ call'[c] = k
      /\ \A d \in Callers \ {c} : call'[d] = call[d]
  BY <1>3, <1>4 DEF Replies, TypeOK, CallType
<1> HIDE DEF k
<1>6. r \in Request /\ (OnSession(r) => r.sid \in Sessions) /\ WasPassed(r, call[c].seen)
  BY <1>2, RequestTyped DEF ChecksWerePassed
<1>7. /\ authorized' \subseteq Sessions /\ AuthorizedRemembered'
      /\ \A s \in Sessions : Exists(table, s) => Exists(table', s)
      /\ \A s \in Sessions : ~Exists(table, s) /\ ~Inserts(r, s) => ~Exists(table', s)
      /\ \A q \in Request : \A st :
            (OnSession(q) => q.sid \in Sessions) /\ WasPassed(q, st) => WasPassed(q, st)'
  BY <1>2, <1>6, MovedKeeps
<1>8. ASSUME NEW w \in late', w \notin late
      PROVE  /\ LateWrites /\ table' = table /\ w \in Statement /\ w.by = c /\ w.req = r
             /\ w.seen = call[c].seen /\ w.req.op \in Writers /\ w.req \in Workload[c]
             /\ late' = late \cup {w}
  <2>1. /\ LateWrites /\ table' = table /\ r.op \in Writers
        /\ \E at \in Stamps(c) : late' = late \cup {Sent(c, at)}
    BY <1>1, <1>8 DEF Executed
  <2>2. PICK at \in Stamps(c) : late' = late \cup {Sent(c, at)}
    BY <2>1
  <2> QED
    BY <1>2, <1>8, <2>1, <2>2, SentTyped
<1>9. late \subseteq late'
  BY <1>1 DEF Executed
<1>10. TypeOK'
  <2>1. table' \in Table /\ now' \in Nat /\ faults' \in Nat
    BY <1>1, <1>2 DEF TypeOK, Executed, Moved
  <2>2. late' \subseteq Statement
    BY <1>8 DEF TypeOK
  <2> QED
    BY <1>5, <1>7, <2>1, <2>2 DEF TypeOK, Table, Row, CallType, Statement
<1>11. CallsInOrder'
  BY <1>2, <1>4, <1>5 DEF CallsInOrder, IsExclusive
<1>12. WritersTakeTurns'
  BY <1>2, <1>4, <1>5 DEF WritersTakeTurns, Announced, Holds, Peers, IsExclusive
<1>13. \A e \in Callers : call'[e].req = call[e].req
  BY <1>4, <1>5
<1>14. InsertsAreFresh'
  <2>1. ASSUME NEW d \in Callers, call'[d].req.op = "create"
        PROVE  /\ call'[d].pc # "return" =>
                    /\ ~Exists(table', call'[d].req.sid)
                    /\ \A w \in late' : ~Inserts(w.req, call'[d].req.sid)
               /\ \A e \in Callers \ {d} : ~Inserts(call'[e].req, call'[d].req.sid)
    <3>1. \A e \in Callers \ {d} : ~Inserts(call'[e].req, call'[d].req.sid)
      BY <1>13, <2>1 DEF InsertsAreFresh
    <3>2. ASSUME call'[d].pc # "return"
          PROVE  /\ ~Exists(table', call'[d].req.sid)
                 /\ \A w \in late' : ~Inserts(w.req, call'[d].req.sid)
      <4>1. d # c /\ call'[d] = call[d]
        BY <1>4, <1>5, <3>2
      <4>2. call[d].pc # "return" /\ call[d].pc # "idle"
        BY <2>1, <3>2, <4>1 DEF CallsInOrder
      <4>3. call[d].req.sid \in Sessions
        BY <2>1, <4>1, <4>2, RequestTyped DEF OnSession
      <4>4. ~Inserts(r, call[d].req.sid)
        BY <2>1, <4>1 DEF InsertsAreFresh
      <4>5. ~Exists(table, call[d].req.sid) /\ \A w \in late : ~Inserts(w.req, call[d].req.sid)
        BY <2>1, <4>1, <4>2 DEF InsertsAreFresh
      <4> QED
        BY <1>7, <1>8, <4>1, <4>3, <4>4, <4>5
    <3> QED
      BY <3>1, <3>2
  <2>2. ASSUME NEW w \in late', w.req.op = "create"
        PROVE  /\ ~Exists(table', w.req.sid)
               /\ \A v \in late' \ {w} : ~Inserts(v.req, w.req.sid)
    <3>1. CASE w \in late
      <4>1. w.req.sid \in Sessions /\ ~Exists(table, w.req.sid)
            /\ \A v \in late \ {w} : ~Inserts(v.req, w.req.sid)
        BY <2>2, <3>1, LateTyped DEF InsertsAreFresh, OnSession
      <4>2. ~Inserts(r, w.req.sid)
        BY <1>2, <2>2, <3>1 DEF InsertsAreFresh, Inserts
      <4> QED
        BY <1>7, <1>8, <4>1, <4>2
    <3>2. CASE w \notin late
      <4>1. /\ ~Exists(table, w.req.sid)
            /\ \A v \in late : ~Inserts(v.req, w.req.sid)
        BY <1>2, <1>8, <2>2, <3>2 DEF InsertsAreFresh
      <4> QED
        BY <1>8, <2>2, <3>2, <4>1 DEF Exists
    <3> QED
      BY <3>1, <3>2
  <2> QED
    BY <2>1, <2>2 DEF InsertsAreFresh, Exists
<1>15. ChecksWerePassed'
  <2>1. ASSUME NEW d \in Callers, call'[d].pc = "exec"
        PROVE  WasPassed(call[d].req, call[d].seen)'
    <3>1. call'[d] = call[d]
      BY <1>4, <1>5, <2>1
    <3>2. PICK q, st : q = call[d].req /\ st = call[d].seen
      OBVIOUS
    <3>3. q \in Request /\ (OnSession(q) => q.sid \in Sessions) /\ WasPassed(q, st)
      BY <2>1, <3>1, <3>2, RequestTyped DEF ChecksWerePassed
    <3>4. WasPassed(q, st)'
      BY <1>7, <3>3
    <3> QED
      BY <3>1, <3>2, <3>4 DEF WasPassed, Exists
  <2>2. ASSUME NEW w \in late' PROVE WasPassed(w.req, w.seen)'
    <3>1. CASE w \in late
      BY <1>7, <3>1, LateTyped
    <3>2. CASE w \notin late
      BY <1>6, <1>7, <1>8, <3>2 DEF WasPassed, Exists
    <3> QED
      BY <3>1, <3>2
  <2> QED
    BY <2>1, <2>2 DEF ChecksWerePassed
<1>16. LateInOrder'
  BY <1>8 DEF LateInOrder
<1> QED
  BY <1>7, <1>10, <1>11, <1>12, <1>14, <1>15, <1>16

LEMMA RunLateInv ==
  ASSUME SessionInv, NEW w \in late, RunLate(w)
  PROVE  SessionInv'
<1> USE DEF SessionInv
<1>1. Moved(w.req) /\ late' = late \ {w} /\ UNCHANGED <<now, call, faults>>
  BY RunLateEffect
<1>2. /\ authorized' \subseteq Sessions /\ AuthorizedRemembered'
      /\ \A s \in Sessions : ~Exists(table, s) /\ ~Inserts(w.req, s) => ~Exists(table', s)
      /\ \A q \in Request : \A st :
            (OnSession(q) => q.sid \in Sessions) /\ WasPassed(q, st) => WasPassed(q, st)'
  BY <1>1, LateTyped, MovedKeeps
<1>3. TypeOK'
  <2>1. table' \in Table
    BY <1>1 DEF Moved
  <2> QED
    BY <1>1, <1>2, <2>1 DEF TypeOK, Table, Row, Statement
<1>4. CallsInOrder' /\ WritersTakeTurns' /\ LateInOrder'
  BY <1>1 DEF CallsInOrder, WritersTakeTurns, LateInOrder, Announced, Holds, Peers, IsExclusive
<1>5. InsertsAreFresh'
  <2>1. ASSUME NEW c \in Callers, call[c].req.op = "create", call[c].pc # "return"
        PROVE  ~Exists(table', call[c].req.sid)
    <3>1. call[c].req.sid \in Sessions
      BY <2>1, RequestTyped DEF OnSession, CallsInOrder
    <3> QED
      BY <1>2, <2>1, <3>1 DEF InsertsAreFresh
  <2>2. ASSUME NEW v \in late \ {w}, v.req.op = "create" PROVE ~Exists(table', v.req.sid)
    <3>1. v.req.sid \in Sessions
      BY <2>2, LateTyped DEF OnSession
    <3> QED
      BY <1>2, <2>2, <3>1 DEF InsertsAreFresh
  <2> QED
    BY <1>1, <2>1, <2>2 DEF InsertsAreFresh, Exists
<1>6. ChecksWerePassed'
  <2>1. ASSUME NEW c \in Callers, call[c].pc = "exec"
        PROVE  WasPassed(call[c].req, call[c].seen)'
    <3>1. PICK q, st : q = call[c].req /\ st = call[c].seen
      OBVIOUS
    <3>2. q \in Request /\ (OnSession(q) => q.sid \in Sessions) /\ WasPassed(q, st)
      BY <2>1, <3>1, RequestTyped DEF ChecksWerePassed
    <3>3. WasPassed(q, st)'
      BY <1>2, <3>2
    <3> QED
      BY <1>1, <3>1, <3>3 DEF WasPassed, Exists
  <2>2. ASSUME NEW v \in late PROVE WasPassed(v.req, v.seen)'
    BY <1>2, LateTyped
  <2> QED
    BY <1>1, <2>1, <2>2 DEF ChecksWerePassed, WasPassed, Exists
<1> QED
  BY <1>2, <1>3, <1>4, <1>5, <1>6

LEMMA NextInv == SessionInv /\ [Next]_vars => SessionInv'
<1> SUFFICES ASSUME SessionInv, [Next]_vars PROVE SessionInv'
  OBVIOUS
<1>1. ASSUME NEW c \in Callers, Begin(c) PROVE SessionInv'
  BY <1>1, BeginInv
<1>2. ASSUME NEW c \in Callers, RLock(c) PROVE SessionInv'
  BY <1>2, RLockInv
<1>3. ASSUME NEW c \in Callers, LockAnnounce(c) PROVE SessionInv'
  BY <1>3, LockAnnounceInv
<1>4. ASSUME NEW c \in Callers, LockDrained(c) PROVE SessionInv'
  BY <1>4, LockDrainedInv
<1>5. ASSUME NEW c \in Callers, Select(c) PROVE SessionInv'
  BY <1>5, SelectInv
<1>6. ASSUME NEW c \in Callers, Execute(c) PROVE SessionInv'
  BY <1>6, ExecuteInv
<1>7. ASSUME NEW c \in Callers, Return(c) PROVE SessionInv'
  BY <1>7, ReturnInv
<1>8. ASSUME NEW i \in Instances, Crash(i) PROVE SessionInv'
  BY <1>8, CrashInv
<1>9. ASSUME NEW w \in late, RunLate(w) PROVE SessionInv'
  BY <1>9, RunLateInv
<1>10. CASE Tick \/ UNCHANGED vars
  <2>1. now' \in Nat /\ UNCHANGED <<table, call, late, faults, authorized>>
    BY <1>10 DEF Tick, vars, SessionInv, TypeOK
  <2>2. TypeOK'
    BY <2>1 DEF SessionInv, TypeOK
  <2>3. CallsInOrder' /\ WritersTakeTurns'
    BY <2>1 DEF SessionInv, CallsInOrder, WritersTakeTurns, Announced, Holds, Peers,
                IsExclusive
  <2>4. InsertsAreFresh'
    BY <2>1 DEF SessionInv, InsertsAreFresh, Exists, Inserts
  <2>5. ChecksWerePassed'
    BY <2>1 DEF SessionInv, ChecksWerePassed, WasPassed, Exists
  <2>6. LateInOrder' /\ AuthorizedRemembered'
    BY <2>1 DEF SessionInv, LateInOrder, AuthorizedRemembered
  <2> QED
    BY <2>2, <2>3, <2>4, <2>5, <2>6 DEF SessionInv
<1> QED
  BY <1>1, <1>2, <1>3, <1>4, <1>5, <1>6, <1>7, <1>8, <1>9, <1>10 DEF Next

-----------------------------------------------------------------------------
(***************************************************************************)
(* The theorems.                                                           *)
(***************************************************************************)

\* The inductive invariant holds in every reachable state.
THEOREM SessionInvariant == Spec => []SessionInv
  BY InitInv, NextInv, PTL DEF Spec

\* Every row, call and clock value stays within its type: no method writes a
\* state outside the four, or a reason or protocol that nobody passed.
THEOREM TypeCorrect == Spec => []TypeOK
<1>1. SessionInv => TypeOK
  BY DEF SessionInv
<1> QED
  BY <1>1, SessionInvariant, PTL

\* CreateSession and the GUI methods never overlap another method of their process.
THEOREM LockExcludes == Spec => []ExclusiveCallsRunAlone
<1>1. SessionInv => ExclusiveCallsRunAlone
  BY DEF SessionInv, WritersTakeTurns, IsExclusive, ExclusiveCallsRunAlone
<1> QED
  BY <1>1, SessionInvariant, PTL

\* However MarkConnected, UpdateSessionState and the cleanup interleave, an
\* ACTIVE session was AUTHORIZED once.
THEOREM ActiveOnlyAfterAuthorized == Spec => []ActiveWasAuthorized
<1>1. SessionInv => ActiveWasAuthorized
  BY DEF SessionInv, AuthorizedRemembered, ActiveWasAuthorized
<1> QED
  BY <1>1, SessionInvariant, PTL

LEMMA NonExecuteKeepsTable ==
  ASSUME [Next]_vars
  PROVE  \/ table' = table
         \/ \E c \in Callers : Execute(c)
         \/ \E w \in late : RunLate(w)
  BY DEF Next, Begin, RLock, LockAnnounce, LockDrained, Select, Return, Crash, Tick, vars

\* A "cert_expired" row was disconnected after its certificate had expired.
THEOREM CleanupReasons ==
  ASSUME ReasonsAreTheCallersOwn
  PROVE  Spec => []CleanupReasonSound
<1>1. Init => CleanupReasonSound
  BY NullAssumption DEF Init, EmptyTable, NoRow, FreshRow, CleanupReasonSound, ReasonSound
<1>2. SessionInv /\ CleanupReasonSound /\ [Next]_vars => CleanupReasonSound'
  <2> SUFFICES ASSUME SessionInv, CleanupReasonSound, [Next]_vars
               PROVE  CleanupReasonSound'
    OBVIOUS
  <2>1. CASE table' = table
    BY <2>1 DEF CleanupReasonSound, ReasonSound
  <2>2. ASSUME NEW c \in Callers, Execute(c) PROVE CleanupReasonSound'
    <3>1. Executed(c)
      BY <2>2, ExecuteEffect
    <3>2. call[c].req \in Workload[c]
      BY <3>1 DEF Executed, SessionInv, CallsInOrder
    <3>3. call[c].req.op = "disconnect" => call[c].req.arg # CertExpired
      BY <3>2 DEF ReasonsAreTheCallersOwn
    <3> QED
      BY <3>1, <3>3 DEF Executed, Moved, Moves, CleanupReasonSound, ReasonSound
  <2>3. ASSUME NEW w \in late, RunLate(w) PROVE CleanupReasonSound'
    <3>1. Moved(w.req)
      BY <2>3, RunLateEffect
    <3>2. w.req \in Workload[w.by] /\ w.by \in Callers
      BY LateTyped DEF SessionInv, LateInOrder, Statement
    <3>3. w.req.op = "disconnect" => w.req.arg # CertExpired
      BY <3>2 DEF ReasonsAreTheCallersOwn
    <3> QED
      BY <3>1, <3>3 DEF Moved, Moves, CleanupReasonSound, ReasonSound
  <2> QED
    BY <2>1, <2>2, <2>3, NonExecuteKeepsTable
<1> QED
  BY <1>1, <1>2, SessionInvariant, PTL DEF Spec

\* How a request that is past its check may move a state.
LEMMA PassedMoves ==
  ASSUME SessionInv, NEW r \in Request, NEW seen, WasPassed(r, seen), NEW s \in Sessions,
         Moved(r), r.op = "create" /\ r.sid = s => ~Exists(table, s)
  PROVE  \/ table'[s].state = table[s].state
         \/ Lifecycle!Follows(table[s].state, table'[s].state)
         \/ StaleFor(r, seen, s)
<1>1. Moves(table, table', r, s)
  BY DEF Moved
<1>2. CASE r.op = "create" /\ r.sid = s /\ table'[s].state = Requested
  BY <1>2 DEF Exists, Absent, Requested, Lifecycle!Follows
<1>3. CASE r.op \in Checked /\ r.sid = s /\ table'[s].state = Target(r)
  <2>1. Lifecycle!Follows(seen, table'[s].state)
    BY <1>3, AcceptedTarget DEF WasPassed
  <2> QED
    BY <1>3, <2>1 DEF StaleFor
<1>4. CASE r.op = "cleanup" /\ table'[s].state = Disconnected
           /\ table[s].state \in States \ {Disconnected}
  BY <1>4 DEF Lifecycle!Follows, Lifecycle!Open, States, Requested, Authorized,
              Active, Disconnected
<1> QED
  BY <1>1, <1>2, <1>3, <1>4 DEF Moves, SameLifecycle

\* A step against the order of the lifecycle is the UPDATE of a call whose
\* SELECT had been overtaken.
THEOREM OrderBrokenOnlyByStaleChecks == Spec => OnlyStaleChecksBreakOrder
<1> DEFINE Step == \A s \in Sessions :
                     \/ table'[s].state = table[s].state
                     \/ Lifecycle!Follows(table[s].state, table'[s].state)
                     \/ StaleWrite(s)
<1>1. SessionInv /\ [Next]_vars => Step
  <2> SUFFICES ASSUME SessionInv, [Next]_vars, NEW s \in Sessions
               PROVE  \/ table'[s].state = table[s].state
                      \/ Lifecycle!Follows(table[s].state, table'[s].state)
                      \/ StaleWrite(s)
    OBVIOUS
  <2>1. CASE table' = table
    BY <2>1
  <2>2. ASSUME NEW c \in Callers, Execute(c)
        PROVE  \/ table'[s].state = table[s].state
               \/ Lifecycle!Follows(table[s].state, table'[s].state)
               \/ StaleWrite(s)
    <3> DEFINE r == call[c].req
    <3>1. Executed(c)
      BY <2>2, ExecuteEffect
    <3>2. call[c].pc = "exec" /\ Moved(r)
      BY <3>1 DEF Executed
    <3>3. r \in Request /\ WasPassed(r, call[c].seen)
      BY <3>2, RequestTyped DEF SessionInv, ChecksWerePassed
    <3>4. r.op = "create" /\ r.sid = s => ~Exists(table, s)
      BY <3>2 DEF SessionInv, InsertsAreFresh
    <3>5. call'[c].pc = "return"
      BY <3>1 DEF Executed, Replies, SessionInv, TypeOK
    <3>6. StaleFor(r, call[c].seen, s) => StaleWrite(s)
      BY <3>2, <3>5 DEF StaleWrite
    <3> QED
      BY <3>2, <3>3, <3>4, <3>6, PassedMoves
  <2>3. ASSUME NEW w \in late, RunLate(w)
        PROVE  \/ table'[s].state = table[s].state
               \/ Lifecycle!Follows(table[s].state, table'[s].state)
               \/ StaleWrite(s)
    <3>1. Moved(w.req) /\ w \in late \ late'
      BY <2>3, RunLateEffect
    <3>2. w.req.op = "create" /\ w.req.sid = s => ~Exists(table, s)
      BY DEF SessionInv, InsertsAreFresh
    <3>3. StaleFor(w.req, w.seen, s) => StaleWrite(s)
      BY <3>1 DEF StaleWrite
    <3> QED
      BY <3>1, <3>2, <3>3, LateTyped, PassedMoves
  <2> QED
    BY <2>1, <2>2, <2>3, NonExecuteKeepsTable
<1> QED
  BY <1>1, SessionInvariant, PTL DEF Spec, OnlyStaleChecksBreakOrder

\* The earliest instant at which a method can have read its clock is past.
ClocksWereRead == \A c \in Callers : call[c].pc = "exec" => call[c].at <= now

LEMMA ClockMoves ==
  ASSUME TypeOK, [Next]_vars
  PROVE  now \in Nat /\ now' \in {now, now + 1}
<1>1. now \in Nat
  BY DEF TypeOK
<1>2. ASSUME NEW c \in Callers, Execute(c) PROVE now' = now
  <2>1. (\E op \in Writers : Writes(c, op)) \/ GetSession(c) \/ ListSessions(c)
    BY <1>2 DEF Execute, CreateSession, UpdateSessionState, MarkConnected,
           DisconnectSession, CleanupExpiredSessions, UpdateSessionGUIStatus,
           EndGUISession, Writers, Checked, Exclusive
  <2> QED
    BY <2>1 DEF Writes, Executes, GetSession, ListSessions
<1>3. ASSUME NEW c \in Callers,
             Begin(c) \/ RLock(c) \/ LockAnnounce(c) \/ LockDrained(c) \/ Select(c) \/ Return(c)
      PROVE  now' = now
  BY <1>3 DEF Begin, RLock, LockAnnounce, LockDrained, Select, Return
<1>4. ASSUME NEW i \in Instances, Crash(i) PROVE now' = now
  BY <1>4 DEF Crash
<1>5. ASSUME NEW w \in late, RunLate(w) PROVE now' = now
  BY <1>5 DEF RunLate
<1> QED
  BY <1>1, <1>2, <1>3, <1>4, <1>5 DEF Next, Tick, vars

\* A call that is about to run its last statement was so before, or has just
\* read its clock: at the end of its SELECT, or on entering without one.
LEMMA ExecComes ==
  ASSUME SessionInv, [Next]_vars, NEW c \in Callers, call'[c].pc = "exec"
  PROVE  \/ call'[c] = call[c]
         \/ /\ call'[c].at = now /\ call'[c].req = call[c].req /\ UNCHANGED <<table, now, late>>
            /\ \/ call'[c].req.op \notin Checked
               \/ /\ Accepts(call[c].req, table[call[c].req.sid].state)
                  /\ call'[c].seen = table[call[c].req.sid].state
<1> USE DEF SessionInv
<1>1. ASSUME NEW d \in Callers, Begin(d) \/ LockAnnounce(d) PROVE call'[c] = call[c]
  BY <1>1 DEF Begin, LockAnnounce, TypeOK
<1>2. ASSUME NEW d \in Callers, RLock(d) \/ LockDrained(d), call'[c] # call[c]
      PROVE  /\ call'[c].at = now /\ call'[c].req = call[c].req
             /\ UNCHANGED <<table, now, late>> /\ call'[c].req.op \notin Checked
  <2>1. Enter(d) /\ UNCHANGED <<table, now, late>>
    BY <1>2 DEF RLock, LockDrained
  <2>2. d = c
    BY <1>2, <2>1 DEF Enter, TypeOK
  <2>3. call'[c].pc = FirstStep(c) /\ call'[c].req = call[c].req /\ call'[c].at = now
    BY <2>1, <2>2 DEF Enter, TypeOK
  <2> QED
    BY <2>1, <2>3 DEF FirstStep
<1>3. ASSUME NEW d \in Callers, Select(d), call'[c] # call[c]
      PROVE  /\ call'[c].at = now /\ call'[c].req = call[c].req
             /\ UNCHANGED <<table, now, late>>
             /\ Accepts(call[c].req, table[call[c].req.sid].state)
             /\ call'[c].seen = table[call[c].req.sid].state
  <2>1. d = c
    <3>1. Passes(d, table[call[d].req.sid].state) \/ Replies(d, "err")
      BY <1>3 DEF Select
    <3> QED
      BY <1>3, <3>1 DEF Passes, Replies, TypeOK
  <2>2. ~Replies(c, "err")
    BY DEF Replies, TypeOK
  <2>3. /\ Accepts(call[c].req, table[call[c].req.sid].state)
        /\ Passes(c, table[call[c].req.sid].state)
        /\ UNCHANGED <<table, now, late>>
    BY <1>3, <2>1, <2>2 DEF Select
  <2> QED
    BY <2>3 DEF Passes, TypeOK
<1>4. ASSUME NEW d \in Callers, Execute(d) PROVE call'[c] = call[c]
  <2>1. \E result : Replies(d, result)
    BY <1>4, ExecuteEffect DEF Executed
  <2> QED
    BY <2>1 DEF Replies, TypeOK
<1>5. ASSUME NEW d \in Callers, Return(d) PROVE call'[c] = call[c]
  BY <1>5 DEF Return, Idle, TypeOK
<1>6. ASSUME NEW i \in Instances, Crash(i) PROVE call'[c] = call[c]
  BY <1>6 DEF Crash, Idle
<1>7. ASSUME NEW w \in late, RunLate(w) PROVE call'[c] = call[c]
  BY <1>7 DEF RunLate
<1> QED
  BY <1>1, <1>2, <1>3, <1>4, <1>5, <1>6, <1>7 DEF Next, Tick, vars

LEMMA ClocksStep ==
  ASSUME SessionInv, ClocksWereRead, [Next]_vars
  PROVE  ClocksWereRead'
<1> SUFFICES ASSUME NEW c \in Callers, call'[c].pc = "exec" PROVE call'[c].at <= now'
  BY DEF ClocksWereRead
<1>1. now \in Nat /\ now' \in {now, now + 1}
  BY ClockMoves DEF SessionInv
<1>2. CASE call'[c] = call[c]
  BY <1>1, <1>2 DEF ClocksWereRead, SessionInv, TypeOK
<1>3. CASE call'[c].at = now
  BY <1>1, <1>3
<1> QED
  BY <1>2, <1>3, ExecComes

\* Whatever mix of readers and writers waits for a mutex, a caller of that
\* process can go on.
THEOREM SomebodyCanMove == Spec => []NobodyIsStuck
<1>1. Init => ClocksWereRead
  BY DEF Init, ClocksWereRead, Idle
<1>2. SessionInv /\ ClocksWereRead => NobodyIsStuck
  <2> SUFFICES ASSUME SessionInv, ClocksWereRead, NEW c \in Callers, call[c].pc # "idle"
               PROVE  \E d \in Callers : Home[d] = Home[c] /\ CanMove(d)
    BY DEF NobodyIsStuck
  <2> DEFINE Others == {d \in Callers : Home[d] = Home[c]}
  \* Whoever is inside can go on ...
  <2>1. ASSUME NEW d \in Others, Holds(d) PROVE CanMove(d)
    <3>1. call[d].pc = "exec" => call[d].at \in Stamps(d)
      BY DEF ClocksWereRead, Stamps, SessionInv, TypeOK
    <3> QED
      BY <2>1, <3>1 DEF Holds, CanMove, Unlocks
  \* ... if nobody is, a writer that waits for readers to leave can ...
  <2>2. ASSUME \A d \in Others : ~Holds(d), NEW d \in Others, call[d].pc = "drain"
        PROVE  CanMove(d)
    BY <2>2 DEF CanMove, Drained, Peers
  \* ... and if there is none, nothing keeps the caller itself out.
  <2>3. ASSUME \A d \in Others : ~Holds(d) /\ call[d].pc # "drain" PROVE CanMove(c)
    <3>1. call[c].pc = "lock"
      BY <2>3 DEF Holds, SessionInv, TypeOK, PCs
    <3> QED
      BY <2>3, <3>1 DEF CanMove, DoorOpen, Announced, Peers
  <2> QED
    BY <2>1, <2>2, <2>3
<1> QED
  BY <1>1, <1>2, ClocksStep, SessionInvariant, PTL DEF Spec

\* A call gets past its check only in a state that it accepts.
LEMMA ChecksPass ==
  ASSUME SessionInv, [Next]_vars, NEW s \in Sessions, NEW c \in Callers,
         ~PastItsCheck(c, s), PastItsCheck(c, s)'
  PROVE  Accepts(call[c].req, table[s].state)
<1>1. /\ call'[c].pc = "exec" /\ call'[c].req.op \in Checked /\ call'[c].req.sid = s
      /\ call'[c] # call[c]
  BY DEF PastItsCheck
<1> QED
  BY <1>1, ExecComes

\* A statement that goes on without its method was sent by a call that had
\* passed its check.
LEMMA LateComes ==
  ASSUME SessionInv, [Next]_vars, NEW w \in late', w \notin late
  PROVE  /\ \E c \in Callers : /\ call[c].pc = "exec" /\ w.req = call[c].req
                               /\ \E at \in Stamps(c) : w.at = at
         /\ UNCHANGED <<table, now>>
<1>1. ASSUME NEW c \in Callers, Execute(c)
      PROVE  /\ call[c].pc = "exec" /\ w.req = call[c].req /\ UNCHANGED <<table, now>>
             /\ \E at \in Stamps(c) : w.at = at
  <2>1. Executed(c)
    BY <1>1, ExecuteEffect
  <2>2. PICK at \in Stamps(c) : late' = late \cup {Sent(c, at)}
    BY <2>1 DEF Executed
  <2>3. w = Sent(c, at) /\ table' = table
    BY <2>1, <2>2 DEF Executed
  <2> QED
    BY <2>1, <2>3 DEF Executed, Sent
<1>2. ASSUME NEW i \in Instances, Crash(i)
      PROVE  /\ \E c \in Callers : /\ call[c].pc = "exec" /\ w.req = call[c].req
                                   /\ \E at \in Stamps(c) : w.at = at
             /\ UNCHANGED <<table, now>>
  <2>1. /\ \E d \in Sending(i) : \E at \in Stamps(d) : w = Sent(d, at)
        /\ UNCHANGED <<table, now>>
    BY <1>2, CrashEffect
  <2>2. PICK d \in Sending(i) : \E at \in Stamps(d) : w = Sent(d, at)
    BY <2>1
  <2> QED
    BY <2>1, <2>2 DEF Sending, Sent
<1>3. CASE late' \subseteq late
  BY <1>3
<1>4. ASSUME NEW c \in Callers,
             Begin(c) \/ RLock(c) \/ LockAnnounce(c) \/ LockDrained(c) \/ Select(c) \/ Return(c)
      PROVE  late' = late
  BY <1>4 DEF Begin, RLock, LockAnnounce, LockDrained, Select, Return
<1>5. ASSUME NEW v \in late, RunLate(v) PROVE late' \subseteq late
  BY <1>5 DEF RunLate
<1>6. late' \subseteq late \/ (\E c \in Callers : Execute(c)) \/ (\E i \in Instances : Crash(i))
  BY <1>4, <1>5 DEF Next, Tick, vars
<1> QED
  BY <1>1, <1>2, <1>3, <1>6

\* Once the calls that had passed their checks have written, nothing reopens or
\* rewrites a closed session, whoever calls.
THEOREM SettledIsFinal == Spec => SettledRowsAreFinal
<1> DEFINE Step == \A s \in Sessions :
              Settled(s) => Settled(s)' /\ SameLifecycle(table[s], table'[s])
<1>1. SessionInv /\ [Next]_vars => Step
  <2> SUFFICES ASSUME SessionInv, [Next]_vars, NEW s \in Sessions, Settled(s)
               PROVE  Settled(s)' /\ SameLifecycle(table[s], table'[s])
    OBVIOUS
  <2>1. SameLifecycle(table[s], table'[s])
    <3>1. CASE table' = table
      BY <3>1 DEF SameLifecycle
    <3>2. ASSUME NEW c \in Callers, Execute(c) PROVE SameLifecycle(table[s], table'[s])
      <4>1. Executed(c)
        BY <3>2, ExecuteEffect
      <4>2. call[c].pc = "exec" /\ Moves(table, table', call[c].req, s)
        BY <4>1 DEF Executed, Moved
      <4>3. ~(call[c].req.op = "create" /\ call[c].req.sid = s)
        BY <4>2 DEF Settled, SessionInv, InsertsAreFresh, Exists, Absent, Disconnected
      <4>4. ~(call[c].req.op \in Checked /\ call[c].req.sid = s)
        BY <4>2 DEF Settled, PastItsCheck
      <4> QED
        BY <4>2, <4>3, <4>4 DEF Moves, Settled
    <3>3. ASSUME NEW w \in late, RunLate(w) PROVE SameLifecycle(table[s], table'[s])
      <4>1. Moves(table, table', w.req, s)
        BY <3>3, RunLateEffect DEF Moved
      <4>2. ~(w.req.op = "create" /\ w.req.sid = s)
        BY DEF Settled, SessionInv, InsertsAreFresh, Exists, Absent, Disconnected
      <4>3. ~(w.req.op \in Checked /\ w.req.sid = s)
        BY DEF Settled, LateFor
      <4> QED
        BY <4>1, <4>2, <4>3 DEF Moves, Settled
    <3> QED
      BY <3>1, <3>2, <3>3, NonExecuteKeepsTable
  <2>2. ASSUME NEW c \in Callers PROVE ~PastItsCheck(c, s)'
    <3>1. ~Accepts(call[c].req, Disconnected)
      BY DEF Accepts, ValidTransitions, States, Requested, Authorized, Active, Disconnected
    <3> QED
      BY <3>1, ChecksPass DEF Settled
  <2>3. ASSUME NEW w \in late', w.req.op \in Checked, w.req.sid = s PROVE FALSE
    <3>1. w \notin late
      BY <2>3 DEF Settled, LateFor
    <3> QED
      BY <2>3, <3>1, LateComes DEF Settled, PastItsCheck
  <2> QED
    BY <2>1, <2>2, <2>3 DEF Settled, SameLifecycle, LateFor
<1> QED
  BY <1>1, SessionInvariant, PTL DEF Spec, SettledRowsAreFinal

-----------------------------------------------------------------------------
(***************************************************************************)
(* The times of a row.                                                     *)
(***************************************************************************)

SameTimes(old, new) ==
    /\ new.certExpiresAt = old.certExpiresAt
    /\ new.createdAt = old.createdAt
    /\ new.updatedAt = old.updatedAt
    /\ new.connectedAt = old.connectedAt
    /\ new.disconnectedAt = old.disconnectedAt

\* How the statement of request r, at time at, stamps the row of session s.
Stamped(old, new, r, at, s) ==
    \/ SameTimes(old, new)
    \/ /\ r.op = "create" /\ r.sid = s
       /\ new.createdAt = at /\ new.updatedAt = at
       /\ new.connectedAt = NULL /\ new.disconnectedAt = NULL
    \/ /\ r.op \in Checked /\ r.sid = s
       /\ new.certExpiresAt = old.certExpiresAt /\ new.createdAt = old.createdAt
       /\ new.updatedAt = at
       /\ new.connectedAt \in {old.connectedAt, at}
       /\ new.disconnectedAt \in {old.disconnectedAt, at}
    \/ /\ r.op = "cleanup" /\ old.certExpiresAt < at
       /\ new.certExpiresAt = old.certExpiresAt /\ new.createdAt = old.createdAt
       /\ new.connectedAt = old.connectedAt
       /\ new.updatedAt = at /\ new.disconnectedAt = at

LEMMA WrittenStamps ==
  ASSUME table \in Table, NEW r \in Request, r.op \in Writers, NEW at \in Nat,
         OnSession(r) => r.sid \in Sessions, NEW s \in Sessions
  PROVE  Stamped(table[s], Written(r, at)[s], r, at, s)
<1>1. CASE r.op = "cleanup"
  BY <1>1 DEF Written, DisconnectExpired, Overdue, Closed, Stamped, SameTimes, Table, Row, RowOf
<1>2. CASE r.op = "create"
  BY <1>2 DEF Written, InsertSession, FreshRow, Stamped, SameTimes, Table
<1>3. CASE r.op = "update"
  BY <1>3 DEF Written, SetState, Stamped, SameTimes, Table, Row, RowOf, Checked
<1>4. CASE r.op = "connect"
  BY <1>4 DEF Written, SetConnected, Stamped, SameTimes, Table, Row, RowOf, Checked
<1>5. CASE r.op = "disconnect"
  BY <1>5 DEF Written, SetDisconnected, Closed, Stamped, SameTimes, Table, Row, RowOf, Checked
<1>6. CASE r.op = "gui_start"
  BY <1>6 DEF Written, SetGUI, Stamped, SameTimes, Table, Row, RowOf
<1>7. CASE r.op = "gui_end"
  BY <1>7 DEF Written, ClearGUI, Stamped, SameTimes, Table, Row, RowOf
<1> QED
  BY <1>1, <1>2, <1>3, <1>4, <1>5, <1>6, <1>7 DEF Writers, Checked, Exclusive

\* No clock reading lies in the future, and a call that is past its check, or a
\* statement of one, carries a reading taken after its session was created.
ClocksFollowCreation ==
    /\ \A c \in Callers : call[c].pc = "exec" =>
         /\ call[c].at <= now
         /\ call[c].req.op \in Checked => table[call[c].req.sid].createdAt <= call[c].at
    /\ \A w \in late :
         /\ w.at <= now
         /\ w.req.op \in Checked => table[w.req.sid].createdAt <= w.at

TimesInv == SessionInv /\ ClocksFollowCreation /\ TimesFollowCreation

\* What may change the table: one statement, with such a reading of the clock.
LEMMA TableMoves ==
  ASSUME TimesInv, [Next]_vars, table' # table
  PROVE  \E r \in Request, at \in Nat :
            /\ table' = Written(r, at)
            /\ r.op \in Writers /\ (OnSession(r) => r.sid \in Sessions)
            /\ at <= now
            /\ r.op \in Checked => table[r.sid].createdAt <= at
            /\ r.op = "create" => ~Exists(table, r.sid)
<1>1. now \in Nat /\ table \in Table /\ CallsInOrder
  BY DEF TimesInv, SessionInv, TypeOK, Table, Row
<1>2. ASSUME NEW c \in Callers, Execute(c)
      PROVE  \E r \in Request, at \in Nat :
                /\ table' = Written(r, at)
                /\ r.op \in Writers /\ (OnSession(r) => r.sid \in Sessions)
                /\ at <= now
                /\ r.op \in Checked => table[r.sid].createdAt <= at
                /\ r.op = "create" => ~Exists(table, r.sid)
  <2>1. PICK op \in Writers : Writes(c, op)
    BY <1>2 DEF Execute, CreateSession, UpdateSessionState, MarkConnected, DisconnectSession,
           CleanupExpiredSessions, UpdateSessionGUIStatus, EndGUISession, GetSession,
           ListSessions, Writers, Checked, Exclusive
  <2>2. call[c].pc = "exec" /\ call[c].req.op \in Writers
    BY <2>1 DEF Writes, Running
  <2>3. PICK at \in Stamps(c) : Executes(c, at)
    BY <2>1 DEF Writes
  <2>4. table' = Written(call[c].req, at)
    BY <2>3 DEF Executes, Store
  <2>5. at \in Nat /\ call[c].at \in Nat /\ call[c].at <= at /\ at <= now
    BY <1>1, <2>3 DEF Stamps, TimesInv, SessionInv, TypeOK
  <2>6. /\ call[c].req \in Request
        /\ OnSession(call[c].req) => call[c].req.sid \in Sessions
    BY <1>1, <2>2, RequestTyped
  <2>7. call[c].req.op \in Checked => table[call[c].req.sid].createdAt <= at
    <3>1. SUFFICES ASSUME call[c].req.op \in Checked
                   PROVE  table[call[c].req.sid].createdAt <= at
      OBVIOUS
    <3>2. table[call[c].req.sid].createdAt \in Nat
      BY <1>1, <2>6, <3>1 DEF Table, Row, RowOf, Time, OnSession, Checked
    <3>3. table[call[c].req.sid].createdAt <= call[c].at
      BY <2>2, <3>1 DEF TimesInv, ClocksFollowCreation
    <3> QED
      BY <2>5, <3>2, <3>3
  <2>8. call[c].req.op = "create" => ~Exists(table, call[c].req.sid)
    BY <2>2 DEF TimesInv, SessionInv, InsertsAreFresh
  <2> QED
    BY <2>2, <2>4, <2>5, <2>6, <2>7, <2>8
<1>3. ASSUME NEW w \in late, RunLate(w)
      PROVE  \E r \in Request, at \in Nat :
                /\ table' = Written(r, at)
                /\ r.op \in Writers /\ (OnSession(r) => r.sid \in Sessions)
                /\ at <= now
                /\ r.op \in Checked => table[r.sid].createdAt <= at
                /\ r.op = "create" => ~Exists(table, r.sid)
  <2>1. PICK at \in LateStamps(w) : table' = Written(w.req, at)
    BY <1>3 DEF RunLate, Store
  <2>2. /\ w.req \in Request /\ w.req.op \in Writers /\ w.at \in Nat
        /\ OnSession(w.req) => w.req.sid \in Sessions
    BY LateTyped DEF TimesInv, Statement
  <2>3. w.at <= now
    BY DEF TimesInv, ClocksFollowCreation
  <2>4. at \in Nat /\ at <= now /\ (w.req.op \in Checked => at = w.at)
    BY <1>1, <2>1, <2>2, <2>3 DEF LateStamps, Checked
  <2>5. w.req.op \in Checked => table[w.req.sid].createdAt <= at
    BY <2>4 DEF TimesInv, ClocksFollowCreation
  <2>6. w.req.op = "create" => ~Exists(table, w.req.sid)
    BY DEF TimesInv, SessionInv, InsertsAreFresh
  <2> QED
    BY <2>1, <2>2, <2>4, <2>5, <2>6
<1> QED
  BY <1>2, <1>3, NonExecuteKeepsTable

\* Such a stamp keeps the times of a row in order.
LEMMA StampKeepsOrder ==
  ASSUME NEW old \in Row, NEW new \in Row, NEW r, NEW at \in Nat, NEW s,
         now \in Nat, now' \in {now, now + 1}, at <= now,
         CreatedFirst(old), Stamped(old, new, r, at, s),
         r.op \in Checked /\ r.sid = s => old.createdAt <= at
  PROVE  CreatedFirst(new)'
<1> USE NullAssumption DEF Row, RowOf, Time, TimeOrNil, CreatedFirst
<1>1. CASE SameTimes(old, new)
  BY <1>1 DEF SameTimes
<1>2. CASE /\ new.createdAt = at /\ new.updatedAt = at
           /\ new.connectedAt = NULL /\ new.disconnectedAt = NULL
  BY <1>2
<1>3. CASE /\ old.createdAt <= at
           /\ new.certExpiresAt = old.certExpiresAt /\ new.createdAt = old.createdAt
           /\ new.updatedAt = at
           /\ new.connectedAt \in {old.connectedAt, at}
           /\ new.disconnectedAt \in {old.disconnectedAt, at}
  BY <1>3
<1>4. CASE /\ old.certExpiresAt < at
           /\ new.certExpiresAt = old.certExpiresAt /\ new.createdAt = old.createdAt
           /\ new.connectedAt = old.connectedAt
           /\ new.updatedAt = at /\ new.disconnectedAt = at
  BY <1>4
<1> QED
  BY <1>1, <1>2, <1>3, <1>4 DEF Stamped

\* The times of every row stay in order, and a row once created keeps its time.
LEMMA RowsInTime ==
  ASSUME TimesInv, [Next]_vars
  PROVE  /\ TimesFollowCreation'
         /\ \A s \in Sessions : Exists(table, s) => table'[s].createdAt = table[s].createdAt
<1>1. now \in Nat /\ now' \in {now, now + 1} /\ table \in Table /\ table' \in Table
  BY ClockMoves, NextInv DEF TimesInv, SessionInv, TypeOK, Table, Row
<1> SUFFICES ASSUME NEW s \in Sessions
             PROVE  /\ CreatedFirst(table[s])'
                    /\ Exists(table, s) => table'[s].createdAt = table[s].createdAt
  BY DEF TimesFollowCreation
<1>2. table[s] \in Row /\ table'[s] \in Row /\ CreatedFirst(table[s])
  BY <1>1 DEF Table, TimesInv, TimesFollowCreation
<1>3. CASE table' = table
  BY <1>1, <1>2, <1>3, NullAssumption DEF CreatedFirst, Row, RowOf, Time, TimeOrNil
<1>4. CASE table' # table
  <2>1. PICK r \in Request, at \in Nat :
            /\ table' = Written(r, at)
            /\ r.op \in Writers /\ (OnSession(r) => r.sid \in Sessions)
            /\ at <= now
            /\ r.op \in Checked => table[r.sid].createdAt <= at
            /\ r.op = "create" => ~Exists(table, r.sid)
    BY <1>4, TableMoves
  <2>2. Stamped(table[s], table'[s], r, at, s)
    BY <1>1, <2>1, WrittenStamps
  <2>3. PICK new \in Row : new = table'[s]
    BY <1>2
  <2>4. CreatedFirst(new)'
    BY <1>1, <1>2, <2>1, <2>2, <2>3, StampKeepsOrder
  <2>5. CreatedFirst(table[s])'
    BY <2>3, <2>4 DEF CreatedFirst
  <2>6. Exists(table, s) => table'[s].createdAt = table[s].createdAt
    BY <2>1, <2>2 DEF Stamped, SameTimes
  <2> QED
    BY <2>5, <2>6
<1> QED
  BY <1>3, <1>4

LEMMA ClocksFollow ==
  ASSUME TimesInv, [Next]_vars
  PROVE  ClocksFollowCreation'
<1>1. /\ SessionInv /\ now \in Nat /\ now' \in {now, now + 1}
      /\ table \in Table
  BY ClockMoves DEF TimesInv, SessionInv, TypeOK, Table, Row
<1>2. \A s \in Sessions : Exists(table, s) => table'[s].createdAt = table[s].createdAt
  BY RowsInTime
<1>3. ASSUME NEW c \in Callers, call'[c].pc = "exec"
      PROVE  /\ call'[c].at <= now'
             /\ call'[c].req.op \in Checked =>
                  table'[call'[c].req.sid].createdAt <= call'[c].at
  <2>1. CASE call'[c] = call[c]
    <3>1. call[c].at \in Nat /\ call[c].at <= now
      BY <1>1, <1>3, <2>1 DEF TimesInv, ClocksFollowCreation, SessionInv, TypeOK
    <3>2. ASSUME call[c].req.op \in Checked
          PROVE  table'[call[c].req.sid].createdAt <= call[c].at
      <4>1. /\ call[c].req.sid \in Sessions /\ Exists(table, call[c].req.sid)
            /\ table[call[c].req.sid].createdAt <= call[c].at
        BY <1>1, <1>3, <2>1, <3>2, RequestTyped
           DEF TimesInv, ClocksFollowCreation, SessionInv, ChecksWerePassed, WasPassed,
               OnSession, Checked
      <4> QED
        BY <1>2, <4>1
    <3> QED
      BY <1>1, <2>1, <3>1, <3>2
  <2>2. CASE call'[c] # call[c]
    <3>1. /\ call'[c].at = now /\ call'[c].req = call[c].req /\ table' = table
          /\ call'[c].req.op \notin Checked
             \/ Accepts(call[c].req, table[call[c].req.sid].state)
      BY <1>1, <1>3, <2>2, ExecComes
    <3>2. ASSUME call[c].req.op \in Checked
          PROVE  table[call[c].req.sid].createdAt <= now
      <4>1. call[c].req.op # "none" /\ call[c].pc # "idle"
        BY <1>1, <3>2 DEF SessionInv, CallsInOrder, Checked
      <4>2. call[c].req.sid \in Sessions
        BY <1>1, <3>2, <4>1, RequestTyped DEF SessionInv, OnSession, Checked
      <4> QED
        BY <4>2 DEF TimesInv, TimesFollowCreation, CreatedFirst
    <3> QED
      BY <1>1, <3>1, <3>2
  <2> QED
    BY <2>1, <2>2
<1>4. ASSUME NEW w \in late'
      PROVE  /\ w.at <= now'
             /\ w.req.op \in Checked => table'[w.req.sid].createdAt <= w.at
  <2>1. CASE w \in late
    <3>1. w.at \in Nat /\ w.at <= now
      BY <1>1, <2>1, LateTyped DEF TimesInv, ClocksFollowCreation, Statement
    <3>2. ASSUME w.req.op \in Checked
          PROVE  table'[w.req.sid].createdAt <= w.at
      <4>1. w.req.sid \in Sessions /\ Exists(table, w.req.sid)
        BY <1>1, <2>1, <3>2, LateTyped DEF WasPassed, OnSession, Checked
      <4>2. table[w.req.sid].createdAt <= w.at
        BY <2>1, <3>2 DEF TimesInv, ClocksFollowCreation
      <4> QED
        BY <1>2, <4>1, <4>2
    <3> QED
      BY <1>1, <3>1, <3>2
  <2>2. CASE w \notin late
    <3>1. UNCHANGED <<table, now>>
      BY <1>1, <2>2, LateComes
    <3>2. PICK c \in Callers : /\ call[c].pc = "exec" /\ w.req = call[c].req
                               /\ \E at \in Stamps(c) : w.at = at
      BY <1>1, <2>2, LateComes
    <3>3. call[c].at \in Nat /\ w.at \in Nat /\ call[c].at <= w.at /\ w.at <= now
      BY <1>1, <3>2 DEF Stamps, SessionInv, TypeOK
    <3>4. ASSUME w.req.op \in Checked PROVE table[w.req.sid].createdAt <= w.at
      <4>1. w.req.sid \in Sessions
        BY <1>1, <3>2, <3>4, RequestTyped DEF SessionInv, OnSession, Checked
      <4>2. table[w.req.sid].createdAt \in Nat
        BY <1>1, <4>1 DEF Table, Row, RowOf, Time
      <4>3. table[w.req.sid].createdAt <= call[c].at
        BY <3>2, <3>4 DEF TimesInv, ClocksFollowCreation
      <4> QED
        BY <3>3, <4>2, <4>3
    <3> QED
      BY <3>1, <3>3, <3>4
  <2> QED
    BY <2>1, <2>2
<1> QED
  BY <1>3, <1>4 DEF ClocksFollowCreation

\* However many callers and processes write a row, and however late, its times
\* are not before its creation, but for a cleanup of an overdue certificate.
THEOREM TimesAreInOrder == Spec => []TimesFollowCreation
<1>1. Init => ClocksFollowCreation /\ TimesFollowCreation
  BY NullAssumption DEF Init, ClocksFollowCreation, TimesFollowCreation, CreatedFirst,
     EmptyTable, NoRow, FreshRow, Idle
<1>2. TimesInv /\ [Next]_vars => TimesInv'
  BY NextInv, RowsInTime, ClocksFollow DEF TimesInv
<1>3. Init => TimesInv
  BY <1>1, InitInv DEF TimesInv
<1>4. TimesInv => TimesFollowCreation
  BY DEF TimesInv
<1> QED
  BY <1>2, <1>3, <1>4, PTL DEF Spec

-----------------------------------------------------------------------------
(***************************************************************************)
(* Callers that keep off each other's sessions.                            *)
(***************************************************************************)

\* What a statement does to a row when every check is fresh.
LEMMA FreshMoves ==
  ASSUME SessionInv, ChecksAreFresh, NEW c \in Callers, Executed(c), NEW s \in Sessions
  PROVE  \/ SameLifecycle(table[s], table'[s])
         \/ /\ call[c].req.op = "create" /\ call[c].req.sid = s
            /\ table[s].state = Absent /\ table'[s].state = Requested
         \/ /\ call[c].req.op \in Checked /\ call[c].req.sid = s
            /\ table[s].state # Disconnected
            /\ Lifecycle!Follows(table[s].state, table'[s].state)
            /\ table'[s].state # Requested
         \/ /\ call[c].req.op = "cleanup"
            /\ table[s].state \in States \ {Disconnected}
            /\ table'[s].state = Disconnected
<1> DEFINE r == call[c].req
<1>1. call[c].pc = "exec" /\ Moves(table, table', r, s)
  BY DEF Executed, Moved
<1>2. CASE r.op = "create" /\ r.sid = s /\ table'[s].state = Requested
  BY <1>1, <1>2 DEF SessionInv, InsertsAreFresh, Exists
<1>3. CASE r.op \in Checked /\ r.sid = s /\ table'[s].state = Target(r)
  <2>1. r \in Request /\ Accepts(r, table[s].state)
    BY <1>1, <1>3, RequestTyped DEF SessionInv, ChecksWerePassed, WasPassed, ChecksAreFresh
  <2>2. Lifecycle!Follows(table[s].state, table'[s].state) /\ table[s].state \in States
    BY <1>3, <2>1, AcceptedTarget
  <2> QED
    BY <1>3, <2>2 DEF Lifecycle!Follows, Lifecycle!Open, States, Requested, Disconnected,
                      Authorized, Active
<1> QED
  BY <1>1, <1>2, <1>3 DEF Moves

\* Nobody else moves the session that a caller has checked.
LEMMA FreshNext ==
  ASSUME Independent
  PROVE  SessionInv /\ ChecksAreFresh /\ [Next]_vars => ChecksAreFresh'
<1> SUFFICES ASSUME SessionInv, ChecksAreFresh, [Next]_vars,
                    NEW c \in Callers, call'[c].pc = "exec", call'[c].req.op \in Checked
             PROVE  call'[c].seen = table'[call'[c].req.sid].state
  BY DEF ChecksAreFresh
<1> USE DEF SessionInv
<1>1. CASE call'[c] # call[c]
  BY <1>1, ExecComes
<1>2. CASE call'[c] = call[c] /\ table' = table
  BY <1>2 DEF ChecksAreFresh
<1>3. ASSUME NEW d \in Callers, Execute(d), call'[c] = call[c]
      PROVE  call'[c].seen = table'[call'[c].req.sid].state
  <2> DEFINE s == call[c].req.sid
  <2>1. Executed(d)
    BY <1>3, ExecuteEffect
  <2>2. call'[d].pc = "return"
    BY <2>1 DEF Executed, Replies, TypeOK
  <2>3. c # d /\ call[c].pc = "exec" /\ call[c].req.op \in Checked
    BY <1>3, <2>2
  <2>4. s \in Sessions
    BY <2>3, RequestTyped DEF OnSession, Checked
  <2>5. call[c].req \in Workload[c] /\ call[d].req \in Workload[d]
    BY <2>1, <2>3 DEF Executed, CallsInOrder
  <2>6. /\ call[d].req.op # "cleanup"
        /\ call[d].req.op \in Checked => call[d].req.sid # s
    BY <2>3, <2>5 DEF Independent
  <2>7. Exists(table, s)
    BY <2>3 DEF ChecksWerePassed, WasPassed
  <2>8. SameLifecycle(table[s], table'[s])
    BY <2>1, <2>4, <2>6, <2>7, FreshMoves DEF Exists
  <2> QED
    BY <1>3, <2>3, <2>8 DEF ChecksAreFresh, SameLifecycle
<1>4. late = {}
  BY DEF Independent, LateInOrder
<1> QED
  BY <1>1, <1>2, <1>3, <1>4, NonExecuteKeepsTable

LEMMA FreshInit == Init => ChecksAreFresh
  BY DEF Init, ChecksAreFresh, Idle

\* What a SELECT returned still holds when the UPDATE runs.
LEMMA FreshChecks ==
  ASSUME Independent
  PROVE  Spec => []ChecksAreFresh
<1>1. SessionInv /\ ChecksAreFresh /\ [Next]_vars => ChecksAreFresh'
  BY FreshNext
<1> QED
  BY <1>1, FreshInit, SessionInvariant, PTL DEF Spec

\* A disconnected row is never rewritten.
THEOREM ClosedRowsAreFinal ==
  ASSUME Independent
  PROVE  Spec => ClosedRowsStayClosed
<1> DEFINE Step == \A s \in Sessions :
              table[s].state = Disconnected => SameLifecycle(table[s], table'[s])
<1>1. SessionInv /\ ChecksAreFresh /\ [Next]_vars => Step
  <2> SUFFICES ASSUME SessionInv, ChecksAreFresh, [Next]_vars, NEW s \in Sessions,
                      table[s].state = Disconnected
               PROVE  SameLifecycle(table[s], table'[s])
    OBVIOUS
  <2>1. CASE table' = table
    BY <2>1 DEF SameLifecycle
  <2>2. ASSUME NEW c \in Callers, Execute(c) PROVE SameLifecycle(table[s], table'[s])
    <3>1. Executed(c)
      BY <2>2, ExecuteEffect
    <3> QED
      BY <3>1, FreshMoves DEF Absent, Disconnected
  <2>3. late = {}
    BY DEF Independent, SessionInv, LateInOrder
  <2> QED
    BY <2>1, <2>2, <2>3, NonExecuteKeepsTable
<1> QED
  BY <1>1, SessionInvariant, FreshChecks, PTL DEF Spec, ClosedRowsStayClosed

\* The service implements the documented lifecycle.
THEOREM ImplementsLifecycle ==
  ASSUME Independent
  PROVE  Spec => LifecycleSpec
<1> DEFINE st == [s \in Sessions |-> table[s].state]
<1>1. Init => Lifecycle!Init
  BY DEF Init, EmptyTable, NoRow, FreshRow, Absent, Lifecycle!Init
<1>2. SessionInv /\ ChecksAreFresh /\ [Next]_vars => [Lifecycle!Next]_st
  <2> SUFFICES ASSUME SessionInv, ChecksAreFresh, [Next]_vars
               PROVE  [Lifecycle!Next]_st
    OBVIOUS
  <2>1. CASE table' = table
    BY <2>1
  <2>2. ASSUME NEW c \in Callers, Execute(c) PROVE Lifecycle!Next \/ st' = st
    <3> DEFINE r == call[c].req
    <3>1. Executed(c)
      BY <2>2, ExecuteEffect
    <3>2. \A s \in Sessions :
             \/ table'[s].state = table[s].state
             \/ /\ r.op = "create" /\ r.sid = s
                /\ table[s].state = Absent /\ table'[s].state = Requested
             \/ /\ r.op \in Checked /\ r.sid = s
                /\ Lifecycle!Follows(table[s].state, table'[s].state)
                /\ table'[s].state # Requested
             \/ /\ r.op = "cleanup"
                /\ table[s].state \in States \ {Disconnected}
                /\ table'[s].state = Disconnected
      BY <3>1, FreshMoves DEF SameLifecycle
    <3>3. st = [s \in Sessions |-> table[s].state] /\ st' = [s \in Sessions |-> table'[s].state]
      OBVIOUS
    <3> HIDE DEF st
    <3>4. CASE r.op = "cleanup"
      <4>1. PICK S \in SUBSET Sessions :
              S = {s \in Sessions : table'[s].state # table[s].state}
        OBVIOUS
      <4>2. \A s \in S : table[s].state \in States \ {Disconnected}
                         /\ table'[s].state = Disconnected
        BY <3>2, <3>4, <4>1 DEF Checked
      <4>3. \A s \in S : st[s] \in Lifecycle!Open
        BY <3>3, <4>2, <4>1 DEF Lifecycle!Open, States, Requested, Authorized, Active, Disconnected
      <4>4. st' = [s \in Sessions |-> IF s \in S THEN "DISCONNECTED" ELSE st[s]]
        BY <3>3, <4>2, <4>1 DEF Disconnected
      <4>5. Lifecycle!Close(S)
        BY <3>3, <4>3, <4>4 DEF Lifecycle!Close
      <4> QED
        BY <4>5 DEF Lifecycle!Next
    <3>5. CASE r.op # "cleanup"
      <4>1. CASE \A s \in Sessions : table'[s].state = table[s].state
        BY <3>3, <4>1
      <4>2. CASE \E s \in Sessions : table'[s].state # table[s].state
        <5>1. PICK s \in Sessions : table'[s].state # table[s].state
          BY <4>2
        <5>2. r.sid = s /\ Lifecycle!Follows(table[s].state, table'[s].state)
          BY <3>2, <3>5, <5>1 DEF Lifecycle!Follows, Absent, Requested
        <5>3. \A x \in Sessions \ {s} : table'[x].state = table[x].state
          BY <3>2, <3>5, <5>2
        <5>4. st' = [st EXCEPT ![s] = table'[s].state]
          BY <3>3, <5>3
        <5>5. st[s] = table[s].state
          BY <3>3
        <5>6. CASE table'[s].state = "DISCONNECTED"
          <6>1. st' = [x \in Sessions |-> IF x \in {s} THEN "DISCONNECTED" ELSE st[x]]
            BY <3>3, <5>4, <5>6
          <6>2. \A x \in {s} : st[x] \in Lifecycle!Open
            BY <5>2, <5>5, <5>6 DEF Lifecycle!Follows
          <6>3. Lifecycle!Close({s})
            BY <3>3, <6>1, <6>2 DEF Lifecycle!Close
          <6> QED
            BY <6>3 DEF Lifecycle!Next
        <5>7. CASE table'[s].state # "DISCONNECTED"
          <6>1. Lifecycle!Create(s) \/ Lifecycle!Authorize(s) \/ Lifecycle!Activate(s)
            BY <3>3, <5>2, <5>4, <5>5, <5>7 DEF Lifecycle!Follows, Lifecycle!Create,
                  Lifecycle!Authorize, Lifecycle!Activate, Lifecycle!Move
          <6> QED
            BY <6>1 DEF Lifecycle!Next
        <5> QED
          BY <5>6, <5>7
      <4> QED
        BY <4>1, <4>2
    <3> QED
      BY <3>4, <3>5
  <2>3. late = {}
    BY DEF Independent, SessionInv, LateInOrder
  <2> QED
    BY <2>1, <2>2, <2>3, NonExecuteKeepsTable
<1> QED
  BY <1>1, <1>2, SessionInvariant, FreshChecks, PTL DEF Spec, LifecycleSpec, Lifecycle!Spec
=============================================================================
