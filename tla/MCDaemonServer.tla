--------------------------- MODULE MCDaemonServer ---------------------------
(***************************************************************************)
(* Small instances of DaemonServer: one or two sessions, both supported    *)
(* protocols and one that is not.                                          *)
(***************************************************************************)
EXTENDS DaemonServer

CONSTANTS s1, s2

MCProtocols == {"vnc", "x11", "rdp"}
=============================================================================
