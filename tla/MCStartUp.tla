----------------------------- MODULE MCStartUp -----------------------------
(***************************************************************************)
(* Two processes on one host with an HTTP port each, and a third that was  *)
(* given one of these but lacks its password; on another host one with a   *)
(* port of its own beside one that was given the daemons' port.            *)
(***************************************************************************)
EXTENDS StartUp, TLC

CONSTANTS i1, i2, i3, i4, i5, h1, h2

Environment(port, password) == [dbPort |-> 5432, httpPort |-> port, password |-> password]

TwoHosts == (i1 :> h1) @@ (i2 :> h1) @@ (i3 :> h2) @@ (i4 :> h2) @@ (i5 :> h1)
MCEnv    == (i1 :> Environment(8081, TRUE)) @@ (i2 :> Environment(8082, TRUE))
            @@ (i3 :> Environment(8081, TRUE)) @@ (i4 :> Environment(DaemonPort, TRUE))
            @@ (i5 :> Environment(8081, FALSE))
=============================================================================
