---------------------------- MODULE SessionStore ----------------------------
(***************************************************************************)
(* The table gate_sessions and the SQL statements that SessionService      *)
(* sends to it.  A table maps every session id that can ever be drawn to   *)
(* a row; an id that no INSERT has used yet has the row NoRow.  Each       *)
(* operator below is one statement: it takes the table before and returns  *)
(* the table after, and PostgreSQL applies it atomically.                  *)
(*                                                                         *)
(* User, device and serial number never change after the INSERT and no     *)
(* statement modelled here selects on them, so the columns are left out:   *)
(* all sessions belong to one user on one device.  started_at and          *)
(* created_at hold the same instant; createdAt stands for both.            *)
(***************************************************************************)
EXTENDS Naturals

CONSTANTS
    Sessions,   \* the session ids uuid.New can draw
    NULL        \* an SQL NULL, and the absence of a value

Absent       == "ABSENT"        \* not a state of the code: no row with this id
Requested    == "REQUESTED"
Authorized   == "AUTHORIZED"
Active       == "ACTIVE"
Disconnected == "DISCONNECTED"

States == {Requested, Authorized, Active, Disconnected}

\* The reason CleanupExpiredSessions writes.
CertExpired == "cert_expired"

ASSUME NullAssumption == NULL \notin Nat \cup States \cup {CertExpired}

Time      == Nat
TimeOrNil == Nat \cup {NULL}

\* The columns of a row; Texts is the set of free-text values (disconnect
\* reasons) and Protocols the set of GUI protocols that occur in them.
RowOf(Texts, Protocols) ==
    [ state          : States \cup {Absent},
      certExpiresAt  : Time,
      createdAt      : Time,
      updatedAt      : Time,
      connectedAt    : TimeOrNil,
      disconnectedAt : TimeOrNil,
      reason         : Texts \cup {NULL},
      guiProtocol    : Protocols \cup {NULL},
      vncPort        : Nat \cup {NULL},
      x11Port        : Nat \cup {NULL},
      guiStartedAt   : TimeOrNil,
      guiEndedAt     : TimeOrNil ]

\* A row as INSERT leaves it: every column the statement does not name is
\* NULL (the GUI columns come from migration 002, without defaults).
FreshRow(state, expires, at) ==
    [ state |-> state, certExpiresAt |-> expires,
      createdAt |-> at, updatedAt |-> at,
      connectedAt |-> NULL, disconnectedAt |-> NULL, reason |-> NULL,
      guiProtocol |-> NULL, vncPort |-> NULL, x11Port |-> NULL,
      guiStartedAt |-> NULL, guiEndedAt |-> NULL ]

NoRow == FreshRow(Absent, 0, 0)

EmptyTable == [s \in Sessions |-> NoRow]

Exists(table, s) == table[s].state # Absent

-----------------------------------------------------------------------------
(***************************************************************************)
(* The statements.                                                         *)
(***************************************************************************)

\* Variant: a session starts out authorized.
InsertAuthorized(table, s, expires, at) ==
    [table EXCEPT ![s] = FreshRow(Authorized, expires, at)]

\* INSERT INTO gate_sessions, in state REQUESTED.
InsertSession(table, s, expires, at) ==
    [table EXCEPT ![s] = FreshRow(Requested, expires, at)]

\* UPDATE ... SET state, updated_at WHERE id: no other column follows the state.
SetState(table, s, to, at) ==
    [table EXCEPT ![s] = [@ EXCEPT !.state = to, !.updatedAt = at]]

\* UPDATE ... SET connected_at, state = ACTIVE, updated_at WHERE id.
SetConnected(table, s, at) ==
    [table EXCEPT ![s] = [@ EXCEPT !.state = Active,
                                   !.connectedAt = at,
                                   !.updatedAt = at]]

\* The row that both disconnecting statements write.
Closed(row, why, at) ==
    [row EXCEPT !.state = Disconnected,
                !.disconnectedAt = at,
                !.reason = why,
                !.updatedAt = at]

\* UPDATE ... SET state = DISCONNECTED, disconnected_at, ... WHERE id.
SetDisconnected(table, s, why, at) ==
    [table EXCEPT ![s] = Closed(@, why, at)]

\* Variant: a certificate that expires at this very instant counts as expired.
OverdueAtExpiry(row, at) ==
    row.state \notin {Absent, Disconnected} /\ row.certExpiresAt <= at

\* Variant: only ACTIVE sessions are cleaned up.
OverdueActive(row, at) ==
    row.state = Active /\ row.certExpiresAt < at

\* The WHERE clause of the cleanup: not yet disconnected, certificate expired
\* strictly before the instant the caller read from its clock.
Overdue(row, at) ==
    /\ row.state \notin {Absent, Disconnected}
    /\ row.certExpiresAt < at

\* UPDATE over all overdue rows at once.
DisconnectExpired(table, at) ==
    [s \in Sessions |-> IF Overdue(table[s], at)
                        THEN Closed(table[s], CertExpired, at)
                        ELSE table[s]]

\* UPDATE of the GUI columns; an id without a row matches nothing.  The
\* timestamps come from NOW() in the database and updated_at is not touched.
SetGUI(table, s, protocol, vnc, x11, at) ==
    [table EXCEPT ![s] = IF Exists(table, s)
                         THEN [@ EXCEPT !.guiProtocol = protocol,
                                        !.vncPort = vnc,
                                        !.x11Port = x11,
                                        !.guiStartedAt = at]
                         ELSE @]

ClearGUI(table, s, at) ==
    [table EXCEPT ![s] = IF Exists(table, s)
                         THEN [@ EXCEPT !.guiProtocol = NULL,
                                        !.vncPort = NULL,
                                        !.x11Port = NULL,
                                        !.guiEndedAt = at]
                         ELSE @]
=============================================================================
