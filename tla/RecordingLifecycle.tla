------------------------- MODULE RecordingLifecycle -------------------------
(***************************************************************************)
(* What RecordingService promises about a recording and its file, without  *)
(* calls, mutexes or processes: an id is used once, a recording that is    *)
(* complete stays so until it is deleted, deleting is final, and only the  *)
(* file of a deleted recording is ever removed.                            *)
(***************************************************************************)
CONSTANT Recordings

VARIABLES
    state,  \* state[r] is "absent", "open", "completed" or "deleted"
    files   \* the recordings whose file exists

vars == <<state, files>>

Init ==
    /\ state = [r \in Recordings |-> "absent"]
    /\ files = {}

Becomes(r, to) ==
    /\ state' = [state EXCEPT ![r] = to]
    /\ UNCHANGED files

Create(r)   == state[r] = "absent" /\ Becomes(r, "open")
Complete(r) == state[r] = "open" /\ Becomes(r, "completed")
Delete(r)   == state[r] \in {"open", "completed"} /\ Becomes(r, "deleted")

\* The id of an INSERT that failed is never used again.
Abandon(r)  == state[r] = "absent" /\ Becomes(r, "deleted")

\* A recorder may go on writing after the delete.
Write(r) ==
    /\ state[r] # "absent"
    /\ files' = files \cup {r}
    /\ UNCHANGED state

Remove(r) ==
    /\ state[r] = "deleted"
    /\ files' = files \ {r}
    /\ UNCHANGED state

Next == \E r \in Recordings :
    Create(r) \/ Complete(r) \/ Delete(r) \/ Abandon(r) \/ Write(r) \/ Remove(r)

Spec == Init /\ [][Next]_vars
=============================================================================
