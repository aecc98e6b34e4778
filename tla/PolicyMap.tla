----------------------------- MODULE PolicyMap -----------------------------
(***************************************************************************)
(* What PolicyService promises its callers, without a mutex or a loop: a   *)
(* batch of policies is merged into the cache at one instant between the   *)
(* call and its return, and an access check sees the cache of one instant. *)
(***************************************************************************)
EXTENDS Naturals, Sequences

CONSTANTS
    Instances,   \* processes, each with a cache of its own
    Callers,     \* goroutines, each making one call at a time
    Home,        \* Home[c] is the process that caller c runs in
    Keys,        \* the pairs of user and device
    Slots,       \* what Jenn has policies about: two types and a key
    Permissions, \* sets of permissions
    Batches,     \* lists of entries that a request can carry
    NULL         \* the absence of a value

VARIABLES
    policies,    \* policies[i][k]: the permissions that process i has for k
    pending,     \* pending[c]: the batch that caller c wants merged
    answer       \* answer[c]: the last answer to an access check

vars == <<policies, pending, answer>>

Empty == [k \in Keys |-> NULL]

\* CanAccessGUI.
Allows(perms) == perms # NULL /\ "gate.gui.access" \in perms

\* Only policies of a user about a device are kept.
Kept(e) == e.slot.principalType = "user" /\ e.slot.targetType = "device"

\* The positions among the first n entries that set the policy for k.
Setters(es, n, k) == {j \in 1 .. n : Kept(es[j]) /\ es[j].slot.key = k}

Last(S) == CHOOSE j \in S : \A x \in S : x <= j

\* The cache after the first n entries: the last one for a key wins, other
\* keys stay.
Merged(cache, es, n) ==
    [k \in Keys |-> IF Setters(es, n, k) = {} THEN cache[k]
                    ELSE es[Last(Setters(es, n, k))].permissions]

Init ==
    /\ policies = [i \in Instances |-> Empty]
    /\ pending = [c \in Callers |-> NULL]
    /\ answer = [c \in Callers |-> NULL]

Submit(c) ==
    /\ pending[c] = NULL
    /\ \E es \in Batches : pending' = [pending EXCEPT ![c] = es]
    /\ UNCHANGED <<policies, answer>>

Apply(c) ==
    LET es == pending[c]
    IN  /\ es # NULL
        /\ policies' = [policies EXCEPT ![Home[c]] = Merged(@, es, Len(es))]
        /\ pending' = [pending EXCEPT ![c] = NULL]
        /\ UNCHANGED answer

Check(c) ==
    /\ \E k \in Keys : answer' = [answer EXCEPT ![c] = Allows(policies[Home[c]][k])]
    /\ UNCHANGED <<policies, pending>>

\* A new process starts with an empty cache and no requests.
Restart(i) ==
    /\ policies' = [policies EXCEPT ![i] = Empty]
    /\ pending' = [c \in Callers |-> IF Home[c] = i THEN NULL ELSE pending[c]]
    /\ answer' = [c \in Callers |-> IF Home[c] = i THEN NULL ELSE answer[c]]

Next ==
    \/ \E c \in Callers : Submit(c) \/ Apply(c) \/ Check(c)
    \/ \E i \in Instances : Restart(i)

Spec == Init /\ [][Next]_vars
=============================================================================
