-------------------------- MODULE SessionLifecycle --------------------------
(***************************************************************************)
(* What the documentation promises about a session, and nothing else:      *)
(* REQUESTED -> AUTHORIZED -> ACTIVE -> DISCONNECTED, where a session may  *)
(* be closed early from any open state and DISCONNECTED is final.          *)
(***************************************************************************)
CONSTANT Sessions

VARIABLE state

States == {"ABSENT", "REQUESTED", "AUTHORIZED", "ACTIVE", "DISCONNECTED"}
Open   == {"REQUESTED", "AUTHORIZED", "ACTIVE"}

TypeOK == state \in [Sessions -> States]

Init == state = [s \in Sessions |-> "ABSENT"]

Move(s, from, to) ==
    /\ state[s] = from
    /\ state' = [state EXCEPT ![s] = to]

Create(s)    == Move(s, "ABSENT", "REQUESTED")
Authorize(s) == Move(s, "REQUESTED", "AUTHORIZED")
Activate(s)  == Move(s, "AUTHORIZED", "ACTIVE")

\* Any number of open sessions end together (one session, or a cleanup sweep).
Close(S) ==
    /\ \A s \in S : state[s] \in Open
    /\ state' = [s \in Sessions |-> IF s \in S THEN "DISCONNECTED" ELSE state[s]]

Next ==
    \/ \E s \in Sessions : Create(s) \/ Authorize(s) \/ Activate(s)
    \/ \E S \in SUBSET Sessions : Close(S)

Spec == Init /\ [][Next]_state

\* The order as a relation between two states of one session.
Follows(from, to) ==
    \/ from = "ABSENT"     /\ to = "REQUESTED"
    \/ from = "REQUESTED"  /\ to = "AUTHORIZED"
    \/ from = "AUTHORIZED" /\ to = "ACTIVE"
    \/ from \in Open       /\ to = "DISCONNECTED"
=============================================================================
