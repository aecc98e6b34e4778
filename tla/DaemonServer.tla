---------------------------- MODULE DaemonServer ----------------------------
(***************************************************************************)
(* DaemonServer and the status endpoint: daemons report that a VNC or X11  *)
(* server of a session came up or went away, the reports are handled by    *)
(* concurrent goroutines in any order, and SessionStatus shows clients     *)
(* what the row says.                                                      *)
(*                                                                         *)
(* One process.  Both reports end in a SessionService method that holds    *)
(* the mutex exclusively around one statement, so a handler changes the    *)
(* table in one step.  The audit log is a log line and is left out.  A     *)
(* statement takes effect before its caller hears of it or dies, or never  *)
(* (statements that come later still are in SessionService).               *)
(***************************************************************************)
EXTENDS SessionStore, FiniteSets

CONSTANTS
    Protocols,  \* what daemons may name as a protocol, supported or not
    Ports,      \* what they may name as a port, 0 included
    MaxTime,    \* bound on the clock
    MaxReports, \* bound on the reports that daemons send
    MaxFaults   \* bound on failing statements and on crashes

ASSUME PortsAssumption == Ports \subseteq Nat
ASSUME BoundsAssumption ==
    MaxTime \in Nat /\ MaxReports \in Nat /\ MaxFaults \in Nat

VARIABLES
    table,      \* gate_sessions
    now,        \* the database's clock
    calls,      \* reports that are being handled
    reports,    \* history: every report a daemon sent
    applied,    \* history: the reports that were written and answered without an error
    follows,    \* history: <<q, r>> when q was over before r was sent
    status,     \* status[s] is the last reply of SessionStatus for s
    faults

history == <<reports, applied, follows>>
vars == <<table, now, calls, history, status, faults>>

Supported == {"vnc", "x11"}

ASSUME DaemonNull == NULL \notin Supported

\* The arguments of NotifyGUISessionStart and NotifyGUISessionEnd; n tells
\* apart reports that are otherwise the same.
Reports == [ n : Nat, kind : {"start", "end"}, sid : Sessions,
             protocol : Protocols \cup {NULL}, port : Nat ]

Replies == [ code : {200, 500}, state : States \cup {NULL}, guiActive : BOOLEAN,
             guiProtocol : Protocols \cup {NULL}, guiPort : Nat \cup {NULL} ]

NoReply == [code |-> 0]

TypeOK ==
    /\ table \in [Sessions -> RowOf({}, Protocols)]
    /\ now \in Nat
    /\ calls \subseteq reports
    /\ reports \subseteq Reports
    /\ applied \subseteq reports
    /\ follows \subseteq reports \X reports
    /\ status \in [Sessions -> Replies \cup {NoReply}]
    /\ faults \in Nat

Init ==
    /\ table = EmptyTable
    /\ now = 0
    /\ calls = {}
    /\ reports = {} /\ applied = {} /\ follows = {}
    /\ status = [s \in Sessions |-> NoReply]
    /\ faults = 0

Fault == faults < MaxFaults /\ faults' = faults + 1

-----------------------------------------------------------------------------
(***************************************************************************)
(* What SessionService does to the session meanwhile.                      *)
(***************************************************************************)
CreateSession(s) ==
    /\ ~Exists(table, s)
    /\ table' = InsertSession(table, s, MaxTime, now)
    /\ UNCHANGED <<now, calls, history, status, faults>>

\* DisconnectSession writes the lifecycle columns only.
DisconnectSession(s) ==
    /\ table[s].state \in States \ {Disconnected}
    /\ table' = SetDisconnected(table, s, NULL, now)
    /\ UNCHANGED <<now, calls, history, status, faults>>

-----------------------------------------------------------------------------
(***************************************************************************)
(* The daemons.                                                            *)
(***************************************************************************)
Send(r) ==
    /\ Cardinality(reports) < MaxReports
    /\ reports' = reports \cup {r}
    /\ follows' = follows \cup ((reports \ calls) \X {r})
    /\ calls' = calls \cup {r}
    /\ UNCHANGED <<table, now, applied, status, faults>>

ReportStart(s) ==
    \E protocol \in Protocols, port \in Ports :
        Send([n |-> Cardinality(reports), kind |-> "start", sid |-> s,
              protocol |-> protocol, port |-> port])

ReportEnd(s) ==
    Send([n |-> Cardinality(reports), kind |-> "end", sid |-> s,
          protocol |-> NULL, port |-> 0])

-----------------------------------------------------------------------------
(***************************************************************************)
(* The handlers.                                                           *)
(***************************************************************************)

\* One UPDATE; the daemon gets an error if it fails, applied or not.
Apply(r, result) ==
    /\ calls' = calls \ {r}
    /\ \/ /\ table' = result
          /\ applied' = IF Exists(table, r.sid) THEN applied \cup {r} ELSE applied
          /\ UNCHANGED faults
       \/ Fault /\ table' \in {result, table} /\ UNCHANGED applied
    /\ UNCHANGED <<now, reports, follows, status>>

\* Variant: the port goes to the X11 column whatever the protocol.
PortsAsX11(r) == [vnc |-> 0, x11 |-> r.port]

\* The port is stored in the column of its protocol, and 0 in the other.
PortsOf(r) == IF r.protocol = "vnc" THEN [vnc |-> r.port, x11 |-> 0]
                                    ELSE [vnc |-> 0, x11 |-> r.port]

NotifyGUISessionStart(r) ==
    /\ r.kind = "start"
    /\ \/ /\ r.protocol \in Supported
          /\ Apply(r, SetGUI(table, r.sid, r.protocol, PortsOf(r).vnc, PortsOf(r).x11, now))
       \/ /\ r.protocol \notin Supported
          /\ calls' = calls \ {r}
          /\ UNCHANGED <<table, now, history, status, faults>>

\* Variant: the end of a GUI session is stamped but its columns stay.
NotifyGUISessionEndOnly(r) ==
    /\ r.kind = "end"
    /\ Apply(r, [table EXCEPT ![r.sid].guiEndedAt = now])

NotifyGUISessionEnd(r) ==
    /\ r.kind = "end"
    /\ Apply(r, ClearGUI(table, r.sid, now))

\* The reply SessionStatus computes from a row.
StatusOf(row) ==
    LET port == IF row.guiProtocol = "vnc" THEN row.vncPort
                ELSE IF row.guiProtocol = "x11" THEN row.x11Port ELSE NULL
    IN  [ code |-> 200, state |-> row.state, guiActive |-> row.guiProtocol \notin {NULL, ""},
          guiProtocol |-> row.guiProtocol, guiPort |-> port ]

ErrorReply(code) == [ code |-> code, state |-> NULL, guiActive |-> FALSE,
                      guiProtocol |-> NULL, guiPort |-> NULL ]

\* GetSession wraps sql.ErrNoRows in a new error, which the handler's test for
\* sql.ErrNoRows does not recognise: a session without a row is a 500.
SessionStatus(s) ==
    /\ \/ /\ Exists(table, s)
          /\ status' = [status EXCEPT ![s] = StatusOf(table[s])]
          /\ UNCHANGED faults
       \/ /\ ~Exists(table, s)
          /\ status' = [status EXCEPT ![s] = ErrorReply(500)]
          /\ UNCHANGED faults
       \/ /\ Fault
          /\ status' = [status EXCEPT ![s] = ErrorReply(500)]
    /\ UNCHANGED <<table, now, calls, history>>

\* The process dies with the calls it was handling.
Crash ==
    /\ Fault
    /\ calls' = {}
    /\ UNCHANGED <<table, now, history, status>>

Tick ==
    /\ now < MaxTime
    /\ now' = now + 1
    /\ UNCHANGED <<table, calls, history, status, faults>>

Next ==
    \/ \E s \in Sessions :
        \/ CreateSession(s) \/ DisconnectSession(s)
        \/ ReportStart(s) \/ ReportEnd(s) \/ SessionStatus(s)
    \/ \E r \in calls : NotifyGUISessionStart(r) \/ NotifyGUISessionEnd(r)
    \/ Crash
    \/ Tick

Spec == Init /\ [][Next]_vars

-----------------------------------------------------------------------------
(***************************************************************************)
(* Properties.                                                             *)
(***************************************************************************)

\* A client that is told of a GUI server is told the protocol and the port of
\* one and the same report, for this session, however reports, ends, protocol
\* changes and failures interleave.
StatusIsOneReport ==
    \A s \in Sessions :
        status[s].code = 200 /\ status[s].guiActive =>
            \E r \in reports :
                /\ r.kind = "start" /\ r.sid = s /\ r.protocol \in Supported
                /\ r.protocol = status[s].guiProtocol /\ r.port = status[s].guiPort

\* The two GUI time stamps tell whether a GUI server is up: it is when the last
\* start is not older than the last end, even if reports overtake each other.
GUITimesMatch ==
    \A s \in Sessions :
        LET row == table[s]
        IN  /\ row.guiProtocol # NULL =>
                 /\ row.guiStartedAt # NULL
                 /\ row.guiEndedAt # NULL => row.guiEndedAt <= row.guiStartedAt
            /\ row.guiProtocol = NULL /\ row.guiStartedAt # NULL =>
                 /\ row.guiEndedAt # NULL
                 /\ row.guiStartedAt <= row.guiEndedAt

\* What report r of session s leaves in the GUI columns of the row.
ReportOf(r, s, row) ==
    /\ r.kind = "start" /\ r.sid = s /\ r.protocol \in Supported
    /\ r.protocol = row.guiProtocol
    /\ r.port = IF row.guiProtocol = "vnc" THEN row.vncPort ELSE row.x11Port

EndOf(r, s, row) ==
    /\ r.kind = "end" /\ r.sid = s
    /\ row.guiProtocol = NULL /\ row.vncPort = NULL /\ row.x11Port = NULL

\* The row shows report r, and no report that was sent after r was over has
\* been written and acknowledged since.
Shows(r, s) ==
    /\ ReportOf(r, s, table[s]) \/ EndOf(r, s, table[s])
    /\ \A q \in applied : q.sid = s => <<r, q>> \notin follows

\* Reports that overlap may be written in any order, but a daemon that waits
\* for its answer before it reports again is never overtaken by itself: the row
\* shows a report that no acknowledged one follows.
NewestReportShows ==
    \A s \in Sessions :
        \/ \E r \in reports \ calls : Shows(r, s)
        \/ table[s].guiProtocol = NULL /\ \A q \in applied : q.sid # s

\* The inductive invariant of the proofs: the times of a row are not in the
\* future, reports are numbered, and what follows a report finds it over.
RowsMatchReports ==
    \A s \in Sessions :
        /\ table[s].guiProtocol # NULL => \E r \in reports : ReportOf(r, s, table[s])
        /\ table[s].guiStartedAt # NULL => table[s].guiStartedAt <= now
        /\ table[s].guiEndedAt # NULL => table[s].guiEndedAt <= now

ReportsInOrder ==
    /\ IsFiniteSet(reports)
    /\ \A r \in reports : r.n < Cardinality(reports)
    /\ applied \cap calls = {} /\ \A r \in applied : Exists(table, r.sid)
    /\ \A r \in calls, q \in reports : <<r, q>> \notin follows

DaemonInv ==
    /\ TypeOK
    /\ ReportsInOrder
    /\ RowsMatchReports
    /\ NewestReportShows
    /\ StatusIsOneReport
    /\ GUITimesMatch
=============================================================================
