------------------------- MODULE DaemonServerProofs -------------------------
(***************************************************************************)
(* Proofs about DaemonServer, for every set of sessions, protocols and     *)
(* ports, and every bound on reports, failures and the clock.              *)
(***************************************************************************)
EXTENDS DaemonServer, FiniteSetTheorems, TLAPS

RowType == RowOf({}, Protocols)

LEMMA DaemonInit == Init => DaemonInv
<1> SUFFICES ASSUME Init PROVE DaemonInv
  OBVIOUS
<1>1. NoRow \in RowType /\ \A s \in Sessions : table[s] = NoRow
  BY DEF Init, EmptyTable, NoRow, FreshRow, RowType, RowOf, Time, TimeOrNil
<1>2. /\ NoRow.guiProtocol = NULL /\ NoRow.guiStartedAt = NULL /\ NoRow.guiEndedAt = NULL
  BY DEF NoRow, FreshRow
<1>3. TypeOK
  BY <1>1 DEF Init, TypeOK, EmptyTable, RowType
<1>4. ReportsInOrder
  BY FS_EmptySet DEF Init, ReportsInOrder
<1>5. RowsMatchReports /\ GUITimesMatch /\ NewestReportShows
  BY <1>1, <1>2 DEF Init, RowsMatchReports, GUITimesMatch, NewestReportShows
<1>6. StatusIsOneReport
  BY DEF Init, StatusIsOneReport, NoReply
<1> QED
  BY <1>3, <1>4, <1>5, <1>6 DEF DaemonInv

\* What a row must be like for the table to satisfy the invariant.
GoodRow(s, row) ==
    /\ row \in RowType
    /\ row.guiProtocol # NULL => \E r \in reports : ReportOf(r, s, row)
    /\ row.guiStartedAt # NULL => row.guiStartedAt <= now
    /\ row.guiEndedAt # NULL => row.guiEndedAt <= now
    /\ row.guiProtocol # NULL =>
         /\ row.guiStartedAt # NULL
         /\ row.guiEndedAt # NULL => row.guiEndedAt <= row.guiStartedAt
    /\ row.guiProtocol = NULL /\ row.guiStartedAt # NULL =>
         /\ row.guiEndedAt # NULL
         /\ row.guiStartedAt <= row.guiEndedAt

LEMMA RowsAreGood ==
  ASSUME DaemonInv, NEW s \in Sessions PROVE GoodRow(s, table[s])
  BY DEF DaemonInv, TypeOK, RowsMatchReports, GUITimesMatch, GoodRow, RowType

\* NewestReportShows, of one row, of the reports that are over and of those
\* that are applied.
Shown(s, row, over, done) ==
    \/ \E r \in over : /\ ReportOf(r, s, row) \/ EndOf(r, s, row)
                       /\ \A q \in done : q.sid = s => <<r, q>> \notin follows
    \/ row.guiProtocol = NULL /\ \A q \in done : q.sid # s

LEMMA RowsAreShown ==
  ASSUME DaemonInv, NEW s \in Sessions PROVE Shown(s, table[s], reports \ calls, applied)
  BY DEF DaemonInv, NewestReportShows, Shows, Shown

\* A step that changes one row at most, to a good one, and may end a report
\* about its session.
LEMMA OneRow ==
  ASSUME DaemonInv, NEW s \in Sessions, NEW row, GoodRow(s, row),
         table' = [table EXCEPT ![s] = row],
         calls' \subseteq calls, UNCHANGED <<now, reports, follows, status>>, faults' \in Nat,
         applied \subseteq applied', applied' \subseteq reports \ calls',
         \A q \in applied' \ applied : q.sid = s,
         \A q \in applied' : q.sid = s => row.state # Absent,
         Shown(s, row, reports \ calls', applied')
  PROVE  DaemonInv'
<1>1. table \in [Sessions -> RowType] /\ row \in RowType
  BY DEF DaemonInv, TypeOK, GoodRow, RowType
<1>2. \A x \in Sessions : table'[x] = IF x = s THEN row ELSE table[x]
  BY <1>1
<1>3. TypeOK'
  BY <1>1 DEF DaemonInv, TypeOK, RowType
<1>4. StatusIsOneReport'
  BY DEF DaemonInv, StatusIsOneReport
<1>5. ReportsInOrder'
  <2>1. \A q \in applied' : table'[q.sid].state # Absent
    <3>1. \A q \in applied' : q.sid \in Sessions
      BY DEF DaemonInv, TypeOK, Reports
    <3>2. \A q \in applied' : q.sid # s => table[q.sid].state # Absent
      BY DEF DaemonInv, ReportsInOrder, Exists
    <3> QED
      BY <1>2, <3>1, <3>2
  <2> QED
    BY <2>1 DEF DaemonInv, ReportsInOrder, Exists
<1>6. RowsMatchReports'
  BY <1>2 DEF DaemonInv, RowsMatchReports, GoodRow, ReportOf
<1>7. GUITimesMatch'
  BY <1>2 DEF DaemonInv, GUITimesMatch, GoodRow
<1>8. NewestReportShows'
  <2>1. ASSUME NEW x \in Sessions \ {s} PROVE Shown(x, table[x], reports \ calls', applied')
    <3>1. \A q \in applied' : q.sid = x => q \in applied
      OBVIOUS
    <3> QED
      BY <3>1, RowsAreShown DEF Shown
  <2>2. \A x \in Sessions : Shown(x, table'[x], reports \ calls', applied')
    BY <1>2, <2>1
  <2> QED
    BY <2>2 DEF NewestReportShows, Shows, Shown, ReportOf, EndOf
<1> QED
  BY <1>3, <1>4, <1>5, <1>6, <1>7, <1>8 DEF DaemonInv

LEMMA FaultsTyped == TypeOK /\ (UNCHANGED faults \/ Fault) => faults' \in Nat
  BY DEF TypeOK, Fault

LEMMA CreateStep == ASSUME DaemonInv, NEW s \in Sessions, CreateSession(s) PROVE DaemonInv'
<1> DEFINE row == FreshRow(Requested, MaxTime, now)
<1>1. GoodRow(s, row)
  BY BoundsAssumption
     DEF GoodRow, FreshRow, RowType, RowOf, States, Requested, Time, TimeOrNil, DaemonInv, TypeOK
<1>2. table' = [table EXCEPT ![s] = row]
  BY DEF CreateSession, InsertSession
<1>3. UNCHANGED <<now, calls, reports, applied, follows, status>> /\ faults' \in Nat
  BY DEF CreateSession, history, DaemonInv, TypeOK
<1>4. row.state # Absent /\ row.guiProtocol = NULL
  BY DEF FreshRow, Requested, Absent
<1>5. \A q \in applied : q.sid # s
  BY DEF CreateSession, DaemonInv, ReportsInOrder
<1>6. Shown(s, row, reports \ calls, applied)
  BY <1>4, <1>5 DEF Shown
<1> HIDE DEF row
<1> QED
  BY <1>1, <1>2, <1>3, <1>4, <1>5, <1>6, OneRow DEF DaemonInv, TypeOK, ReportsInOrder

LEMMA DisconnectStep == ASSUME DaemonInv, NEW s \in Sessions, DisconnectSession(s) PROVE DaemonInv'
<1> DEFINE row == Closed(table[s], NULL, now)
<1>1. GoodRow(s, table[s]) /\ now \in Nat
  BY RowsAreGood DEF DaemonInv, TypeOK
<1>2. row \in RowType
  BY <1>1 DEF GoodRow, Closed, RowType, RowOf, States, Time, TimeOrNil
<1>3. /\ row.guiProtocol = table[s].guiProtocol
      /\ row.vncPort = table[s].vncPort /\ row.x11Port = table[s].x11Port
      /\ row.guiStartedAt = table[s].guiStartedAt /\ row.guiEndedAt = table[s].guiEndedAt
  BY <1>1 DEF GoodRow, Closed, RowType, RowOf
<1>4. GoodRow(s, row)
  BY <1>1, <1>2, <1>3 DEF GoodRow, ReportOf
<1>5. /\ table' = [table EXCEPT ![s] = row] /\ faults' \in Nat
      /\ UNCHANGED <<now, calls, reports, applied, follows, status>>
  BY DEF DisconnectSession, SetDisconnected, history, DaemonInv, TypeOK
<1>6. row.state # Absent
  BY <1>1 DEF GoodRow, Closed, RowType, RowOf, Disconnected, Absent
<1>7. Shown(s, row, reports \ calls, applied)
  BY <1>3, RowsAreShown DEF Shown, ReportOf, EndOf
<1> HIDE DEF row
<1> QED
  BY <1>4, <1>5, <1>6, <1>7, OneRow DEF DaemonInv, TypeOK, ReportsInOrder

\* A report is over: its row now shows it, or is as before.
LEMMA ApplyStep ==
  ASSUME DaemonInv, NEW r \in calls, NEW row, GoodRow(r.sid, row),
         row.state = table[r.sid].state,
         ReportOf(r, r.sid, row) \/ EndOf(r, r.sid, row),
         Apply(r, [table EXCEPT ![r.sid] = IF Exists(table, r.sid) THEN row ELSE table[r.sid]])
  PROVE  DaemonInv'
<1> DEFINE s == r.sid
<1>1. /\ r \in reports /\ s \in Sessions /\ calls' = calls \ {r}
      /\ UNCHANGED <<now, reports, follows, status>> /\ faults' \in Nat
  BY FaultsTyped DEF Apply, DaemonInv, TypeOK, Reports
<1>2. applied \subseteq reports \ calls /\ \A q \in reports : <<r, q>> \notin follows
  BY DEF DaemonInv, TypeOK, ReportsInOrder
<1>3. GoodRow(s, table[s]) /\ Shown(s, table[s], reports \ calls, applied)
  BY <1>1, RowsAreGood, RowsAreShown
<1>4. \A q \in applied : q.sid = s => table[s].state # Absent
  BY DEF DaemonInv, ReportsInOrder, Exists
<1>5. CASE /\ Exists(table, s) /\ table' = [table EXCEPT ![s] = row]
           /\ applied' \in {applied, applied \cup {r}}
  <2>1. row.state # Absent
    BY <1>5 DEF Exists
  <2>2. Shown(s, row, reports \ calls', applied')
    BY <1>1, <1>2, <1>5 DEF Shown
  <2>3. /\ applied \subseteq applied' /\ applied' \subseteq reports \ calls'
        /\ \A q \in applied' \ applied : q.sid = s
    BY <1>1, <1>2, <1>5
  <2> QED
    BY <1>1, <1>5, <2>1, <2>2, <2>3, OneRow
<1>6. CASE table' = table /\ applied' = applied
  <2>1. table' = [table EXCEPT ![s] = table[s]]
    BY <1>1, <1>6 DEF DaemonInv, TypeOK
  <2>2. Shown(s, table[s], reports \ calls', applied')
    BY <1>1, <1>3, <1>6 DEF Shown
  <2>3. applied' \subseteq reports \ calls'
    BY <1>1, <1>2, <1>6
  <2> QED
    BY <1>1, <1>3, <1>4, <1>6, <2>1, <2>2, <2>3, OneRow
<1>7. ~Exists(table, s) => [table EXCEPT ![s] = table[s]] = table
  BY <1>1 DEF DaemonInv, TypeOK
<1> QED
  BY <1>5, <1>6, <1>7 DEF Apply

LEMMA StartStep == ASSUME DaemonInv, NEW r \in calls, NotifyGUISessionStart(r) PROVE DaemonInv'
<1> DEFINE s == r.sid
           ports == PortsOf(r)
           row == [table[s] EXCEPT !.guiProtocol = r.protocol, !.vncPort = ports.vnc,
                                   !.x11Port = ports.x11, !.guiStartedAt = now]
<1>1. r \in Reports /\ r \in reports /\ r.kind = "start" /\ s \in Sessions /\ now \in Nat
  BY DEF NotifyGUISessionStart, DaemonInv, TypeOK, Reports
<1>2. GoodRow(s, table[s])
  BY <1>1, RowsAreGood
<1>3. CASE r.protocol \in Supported
  <2>1. ports.vnc \in Nat /\ ports.x11 \in Nat
        /\ r.port = IF r.protocol = "vnc" THEN ports.vnc ELSE ports.x11
    BY <1>1 DEF PortsOf, Reports
  <2>2. Apply(r, [table EXCEPT ![s] = IF Exists(table, s) THEN row ELSE table[s]])
    BY <1>3 DEF NotifyGUISessionStart, SetGUI
  <2> HIDE DEF ports
  <2>3. row \in RowType
    BY <1>1, <1>2, <2>1 DEF GoodRow, RowType, RowOf, TimeOrNil, Time, Reports
  <2>4. /\ row.guiProtocol = r.protocol /\ row.vncPort = ports.vnc /\ row.x11Port = ports.x11
        /\ row.guiStartedAt = now /\ row.guiEndedAt = table[s].guiEndedAt
        /\ row.state = table[s].state
    BY <1>2 DEF GoodRow, RowType, RowOf
  <2>5. ReportOf(r, s, row)
    BY <1>1, <1>3, <2>1, <2>4 DEF ReportOf
  <2>6. now # NULL /\ row.guiProtocol # NULL
    BY <1>1, <1>3, <2>4, NullAssumption, DaemonNull
  <2> HIDE DEF row
  <2>7. GoodRow(s, row)
    <3> HIDE DEF s
    <3> QED
      BY <1>1, <1>2, <2>3, <2>4, <2>5, <2>6 DEF GoodRow
  <2> QED
    BY <2>2, <2>4, <2>5, <2>7, ApplyStep
\* A protocol that is not supported ends the report and nothing else.
<1>4. CASE r.protocol \notin Supported
  <2>1. /\ calls' = calls \ {r}
        /\ UNCHANGED <<table, now, reports, applied, follows, status, faults>>
    BY <1>4 DEF NotifyGUISessionStart, history
  <2>2. table' = [table EXCEPT ![s] = table[s]] /\ faults' \in Nat
    BY <1>1, <2>1 DEF DaemonInv, TypeOK
  <2>3. Shown(s, table[s], reports \ calls', applied')
    <3>1. Shown(s, table[s], reports \ calls, applied)
      BY <1>1, RowsAreShown
    <3> QED
      BY <2>1, <3>1 DEF Shown
  <2>4. /\ applied' \subseteq reports \ calls'
        /\ \A q \in applied' : q.sid = s => table[s].state # Absent
    BY <2>1 DEF DaemonInv, TypeOK, ReportsInOrder, Exists
  <2> QED
    BY <1>1, <1>2, <2>1, <2>2, <2>3, <2>4, OneRow
<1> QED
  BY <1>3, <1>4

LEMMA EndStep == ASSUME DaemonInv, NEW r \in calls, NotifyGUISessionEnd(r) PROVE DaemonInv'
<1> DEFINE s == r.sid
           row == [table[s] EXCEPT !.guiProtocol = NULL, !.vncPort = NULL,
                                   !.x11Port = NULL, !.guiEndedAt = now]
<1>1. s \in Sessions /\ now \in Nat
  BY DEF DaemonInv, TypeOK, Reports
<1>2. GoodRow(s, table[s])
  BY <1>1, RowsAreGood
<1>3. Apply(r, [table EXCEPT ![s] = IF Exists(table, s) THEN row ELSE table[s]])
      /\ r.kind = "end"
  BY DEF NotifyGUISessionEnd, ClearGUI
<1>4. row \in RowType
  BY <1>1, <1>2 DEF GoodRow, RowType, RowOf, TimeOrNil, Time
<1>5. /\ row.guiProtocol = NULL /\ row.vncPort = NULL /\ row.x11Port = NULL
      /\ row.guiEndedAt = now /\ row.guiStartedAt = table[s].guiStartedAt
      /\ row.state = table[s].state
  BY <1>2 DEF GoodRow, RowType, RowOf
<1>6. now # NULL
  BY <1>1, NullAssumption
<1> HIDE DEF row
<1>7. GoodRow(s, row)
  <2> HIDE DEF s
  <2> QED
    BY <1>1, <1>2, <1>4, <1>5, <1>6 DEF GoodRow
<1>8. EndOf(r, s, row)
  BY <1>3, <1>5 DEF EndOf
<1> QED
  BY <1>3, <1>5, <1>7, <1>8, ApplyStep

LEMMA SendStep ==
  ASSUME DaemonInv, NEW r \in Reports, r.n = Cardinality(reports), Send(r) PROVE DaemonInv'
<1>1. /\ reports' = reports \cup {r} /\ calls' = calls \cup {r}
      /\ follows' = follows \cup ((reports \ calls) \X {r})
      /\ UNCHANGED <<table, now, applied, status, faults>>
  BY DEF Send
<1>2. /\ IsFiniteSet(reports) /\ Cardinality(reports) \in Nat
      /\ \A q \in reports : q.n < Cardinality(reports)
  BY FS_CardinalityType DEF DaemonInv, ReportsInOrder
<1>3. r \notin reports
  BY <1>2
<1>4. TypeOK'
  BY <1>1 DEF DaemonInv, TypeOK
<1>5. ReportsInOrder'
  <2>1. IsFiniteSet(reports') /\ Cardinality(reports') = Cardinality(reports) + 1
    BY <1>1, <1>2, <1>3, FS_AddElement
  <2>2. \A q \in reports' : q.n < Cardinality(reports')
    BY <1>1, <1>2, <2>1 DEF DaemonInv, TypeOK, Reports
  <2>3. applied' \cap calls' = {} /\ \A q \in applied' : Exists(table, q.sid)'
    BY <1>1, <1>3 DEF DaemonInv, TypeOK, ReportsInOrder, Exists
  <2>4. \A x \in calls', q \in reports' : <<x, q>> \notin follows'
    BY <1>1, <1>3 DEF DaemonInv, TypeOK, ReportsInOrder
  <2> QED
    BY <2>1, <2>2, <2>3, <2>4 DEF ReportsInOrder
<1>6. RowsMatchReports'
  BY <1>1 DEF DaemonInv, RowsMatchReports, ReportOf
<1>7. StatusIsOneReport' /\ GUITimesMatch'
  BY <1>1 DEF DaemonInv, StatusIsOneReport, GUITimesMatch
<1>8. NewestReportShows'
  <2>1. \A x \in reports \ calls : x \in reports' \ calls'
    BY <1>1, <1>3
  <2>2. \A x \in reports, q \in applied : <<x, q>> \notin follows => <<x, q>> \notin follows'
    BY <1>1, <1>3 DEF DaemonInv, TypeOK
  <2> QED
    BY <1>1, <2>1, <2>2 DEF DaemonInv, NewestReportShows, Shows, ReportOf, EndOf
<1> QED
  BY <1>4, <1>5, <1>6, <1>7, <1>8 DEF DaemonInv

LEMMA ReportSteps ==
  ASSUME DaemonInv, NEW s \in Sessions, ReportStart(s) \/ ReportEnd(s) PROVE DaemonInv'
<1>1. Cardinality(reports) \in Nat
  BY FS_CardinalityType DEF DaemonInv, ReportsInOrder
<1>2. CASE ReportStart(s)
  <2>1. PICK protocol \in Protocols, port \in Ports :
          Send([n |-> Cardinality(reports), kind |-> "start", sid |-> s,
                protocol |-> protocol, port |-> port])
    BY <1>2 DEF ReportStart
  <2>2. [n |-> Cardinality(reports), kind |-> "start", sid |-> s,
         protocol |-> protocol, port |-> port] \in Reports
    BY <1>1, PortsAssumption DEF Reports
  <2> QED
    BY <2>1, <2>2, SendStep
<1>3. CASE ReportEnd(s)
  <2>1. [n |-> Cardinality(reports), kind |-> "end", sid |-> s,
         protocol |-> NULL, port |-> 0] \in Reports
    BY <1>1 DEF Reports
  <2> QED
    BY <1>3, <2>1, SendStep DEF ReportEnd
<1> QED
  BY <1>2, <1>3

LEMMA StatusStep == ASSUME DaemonInv, NEW s \in Sessions, SessionStatus(s) PROVE DaemonInv'
<1> DEFINE reply == StatusOf(table[s])
<1>1. GoodRow(s, table[s])
  BY RowsAreGood
<1>2. UNCHANGED <<table, now, calls, reports, applied, follows>> /\ faults' \in Nat
  BY FaultsTyped DEF SessionStatus, history, DaemonInv
<1>3. \/ Exists(table, s) /\ status' = [status EXCEPT ![s] = reply]
      \/ status' = [status EXCEPT ![s] = ErrorReply(500)]
  BY DEF SessionStatus
<1>4. \A x \in Sessions :
        \/ status'[x] = status[x]
        \/ x = s /\ Exists(table, s) /\ status'[x] = reply
        \/ x = s /\ status'[x] = ErrorReply(500)
  BY <1>3 DEF DaemonInv, TypeOK
<1>5. Exists(table, s) => reply \in Replies
  BY <1>1 DEF StatusOf, Replies, GoodRow, RowType, RowOf, Exists
<1>6. ErrorReply(500) \in Replies /\ ErrorReply(500).code = 500
  BY DEF ErrorReply, Replies
<1>7. TypeOK'
  <2> HIDE DEF reply
  <2>1. status' \in [Sessions -> Replies \cup {NoReply}]
    BY <1>3, <1>5, <1>6 DEF DaemonInv, TypeOK
  <2> QED
    BY <1>2, <2>1 DEF DaemonInv, TypeOK
<1>8. StatusIsOneReport'
  <2>1. reply.guiActive => \E r \in reports :
          /\ r.kind = "start" /\ r.sid = s /\ r.protocol \in Supported
          /\ r.protocol = reply.guiProtocol /\ r.port = reply.guiPort
    <3> SUFFICES ASSUME reply.guiActive
                 PROVE  \E r \in reports :
                   /\ r.kind = "start" /\ r.sid = s /\ r.protocol \in Supported
                   /\ r.protocol = reply.guiProtocol /\ r.port = reply.guiPort
      OBVIOUS
    <3>1. PICK r \in reports : ReportOf(r, s, table[s])
      BY <1>1 DEF StatusOf, GoodRow
    <3> QED
      BY <3>1 DEF ReportOf, StatusOf, Supported
  <2> HIDE DEF reply
  <2>2. ASSUME NEW x \in Sessions, status'[x].code = 200, status'[x].guiActive
        PROVE  \E r \in reports :
                 /\ r.kind = "start" /\ r.sid = x /\ r.protocol \in Supported
                 /\ r.protocol = status'[x].guiProtocol /\ r.port = status'[x].guiPort
    <3>1. CASE status'[x] = status[x]
      BY <2>2, <3>1 DEF DaemonInv, StatusIsOneReport
    <3>2. CASE x = s /\ status'[x] = reply
      BY <2>1, <2>2, <3>2
    <3>3. CASE status'[x] = ErrorReply(500)
      BY <1>6, <2>2, <3>3
    <3> QED
      BY <1>4, <3>1, <3>2, <3>3
  <2> QED
    BY <1>2, <2>2 DEF StatusIsOneReport
<1>9. (ReportsInOrder /\ RowsMatchReports /\ NewestReportShows /\ GUITimesMatch)'
  BY <1>2 DEF DaemonInv, ReportsInOrder, RowsMatchReports, NewestReportShows, Shows,
              GUITimesMatch, ReportOf, EndOf, Exists
<1> QED
  BY <1>7, <1>8, <1>9 DEF DaemonInv

LEMMA CrashStep == ASSUME DaemonInv, Crash PROVE DaemonInv'
  BY FaultsTyped
     DEF Crash, history, DaemonInv, TypeOK, ReportsInOrder, RowsMatchReports, NewestReportShows,
         Shows, ReportOf, EndOf, Exists, StatusIsOneReport, GUITimesMatch

LEMMA TickStep == ASSUME DaemonInv, Tick PROVE DaemonInv'
<1>1. /\ now \in Nat /\ now' = now + 1
      /\ UNCHANGED <<table, calls, reports, applied, follows, status, faults>>
  BY DEF Tick, history, DaemonInv, TypeOK
<1>2. RowsMatchReports'
  <2> SUFFICES ASSUME NEW s \in Sessions
               PROVE  /\ table[s].guiProtocol # NULL => \E r \in reports : ReportOf(r, s, table[s])
                      /\ table[s].guiStartedAt # NULL => table[s].guiStartedAt <= now'
                      /\ table[s].guiEndedAt # NULL => table[s].guiEndedAt <= now'
    BY <1>1 DEF RowsMatchReports, ReportOf
  <2>1. GoodRow(s, table[s])
    BY RowsAreGood
  <2>2. table[s].guiStartedAt \in TimeOrNil /\ table[s].guiEndedAt \in TimeOrNil
    BY <2>1 DEF GoodRow, RowType, RowOf
  <2> QED
    BY <1>1, <2>1, <2>2 DEF GoodRow, TimeOrNil
<1> QED
  BY <1>1, <1>2 DEF DaemonInv, TypeOK, ReportsInOrder, NewestReportShows, Shows, ReportOf, EndOf,
                    Exists, StatusIsOneReport, GUITimesMatch

LEMMA DaemonStep == DaemonInv /\ [Next]_vars => DaemonInv'
<1> SUFFICES ASSUME DaemonInv, [Next]_vars PROVE DaemonInv'
  OBVIOUS
<1>1. CASE \E s \in Sessions : CreateSession(s)
  BY <1>1, CreateStep
<1>2. CASE \E s \in Sessions : DisconnectSession(s)
  BY <1>2, DisconnectStep
<1>3. CASE \E s \in Sessions : ReportStart(s) \/ ReportEnd(s)
  BY <1>3, ReportSteps
<1>4. CASE \E s \in Sessions : SessionStatus(s)
  BY <1>4, StatusStep
<1>5. CASE \E r \in calls : NotifyGUISessionStart(r)
  BY <1>5, StartStep
<1>6. CASE \E r \in calls : NotifyGUISessionEnd(r)
  BY <1>6, EndStep
<1>7. CASE Crash
  BY <1>7, CrashStep
<1>8. CASE Tick
  BY <1>8, TickStep
<1>9. CASE UNCHANGED vars
  BY <1>9 DEF vars, history, DaemonInv, TypeOK, ReportsInOrder, RowsMatchReports,
              NewestReportShows, Shows, ReportOf, EndOf, Exists, StatusIsOneReport, GUITimesMatch
<1> QED
  BY <1>1, <1>2, <1>3, <1>4, <1>5, <1>6, <1>7, <1>8, <1>9 DEF Next

\* Types, rows, replies and times fit together in every reachable state.
THEOREM DaemonInvariant == Spec => []DaemonInv
  BY DaemonInit, DaemonStep, PTL DEF Spec

\* Every row, report and reply has its type (the handlers write nothing else).
THEOREM DaemonTypeCorrect == Spec => []TypeOK
<1>1. DaemonInv => TypeOK
  BY DEF DaemonInv
<1> QED
  BY <1>1, DaemonInvariant, PTL

\* A client of SessionStatus is shown the protocol and the port of one report,
\* whatever the number of sessions, daemons and reports.
THEOREM StatusShowsOneReport == Spec => []StatusIsOneReport
<1>1. DaemonInv => StatusIsOneReport
  BY DEF DaemonInv
<1> QED
  BY <1>1, DaemonInvariant, PTL

\* A report that is sent after another one was over, and is acknowledged, is
\* never hidden by it, whatever else overlaps, fails or crashes.
THEOREM AcknowledgedReportsWin == Spec => []NewestReportShows
<1>1. DaemonInv => NewestReportShows
  BY DEF DaemonInv
<1> QED
  BY <1>1, DaemonInvariant, PTL

\* The time stamps of a GUI session tell whether its server is up.
THEOREM TimesMatchGUI == Spec => []GUITimesMatch
<1>1. DaemonInv => GUITimesMatch
  BY DEF DaemonInv
<1> QED
  BY <1>1, DaemonInvariant, PTL
=============================================================================
