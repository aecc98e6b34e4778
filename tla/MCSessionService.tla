-------------------------- MODULE MCSessionService --------------------------
(***************************************************************************)
(* Small instances of SessionService.  Every run gives Sessions, Callers   *)
(* and Instances in its .cfg and picks a Workload and a Home from here.    *)
(***************************************************************************)
EXTENDS SessionProperties

CONSTANTS s1, s2, a, b, c, p, q

MCTexts == {Authorized, Active, Disconnected, Requested, "BOGUS", "logout", "vnc"}

Req(op, s, arg, expires) ==
    [op |-> op, sid |-> s, arg |-> arg, expires |-> expires, vnc |-> 0, x11 |-> 0]

Create(s, expires) == Req("create", s, NULL, expires)
Update(s, to)      == Req("update", s, to, 0)
Connect(s)         == Req("connect", s, NULL, 0)
Disconnect(s)      == Req("disconnect", s, "logout", 0)
Cleanup            == Req("cleanup", NULL, NULL, 0)
Get(s)             == Req("get", s, NULL, 0)
List               == Req("list", NULL, NULL, 0)
GUIStart(s)        == [Req("gui_start", s, "vnc", 0) EXCEPT !.vnc = 5]
GUIEnd(s)          == Req("gui_end", s, NULL, 0)

OneProcess   == [x \in Callers |-> p]
TwoProcesses == [x \in Callers |-> IF x = a THEN p ELSE q]
CloserApart  == [x \in Callers |-> IF x = c THEN q ELSE p]

\* Three callers that race for one session: one opens it, one uses it, one
\* ends it.
RaceWorkload ==
    [x \in Callers |->
        CASE x = a -> {Create(s1, 1), Update(s1, Authorized)}
          [] x = b -> {Connect(s1), Get(s1)}
          [] x = c -> {Disconnect(s1), Update(s1, Active), Cleanup}]

\* A caller that walks one session through every transition, one that keeps
\* to another session, and one that never checks a state.
IndependentWorkload ==
    [x \in Callers |->
        CASE x = a -> {Create(s1, 1), Update(s1, Authorized), Update(s1, Active),
                       Update(s1, "BOGUS"), Connect(s1), Disconnect(s1)}
          [] x = b -> {Create(s2, 0), Disconnect(s2)}
          [] x = c -> {GUIStart(s1), GUIEnd(s1), List}]

\* A caller that opens a session and moves it on, and one that closes it.
ClosingWorkload ==
    [x \in Callers |->
        CASE x = a -> {Create(s1, 0), Update(s1, Authorized)}
          [] x = b -> {Disconnect(s1)}]

\* Readers and writers of the mutex, on a session that is opened and used
\* while somebody cleans up again and again.
ServedWorkload ==
    [x \in Callers |->
        CASE x = a -> {Create(s1, 0), Update(s1, Authorized)}
          [] x = b -> {Connect(s1), GUIEnd(s1)}
          [] x = c -> {Cleanup}]
=============================================================================
