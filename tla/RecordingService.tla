-------------------------- MODULE RecordingService --------------------------
(***************************************************************************)
(* RecordingService: the rows of gate_recordings and the .cast files they  *)
(* name.  A row and its file are removed by separate steps, on a database  *)
(* and on a file system that fail separately, and several processes that   *)
(* do not see each other's mutex may work on the same rows.                *)
(*                                                                         *)
(* The path of a file contains the recording's UUID, so every row has a    *)
(* file of its own and the id stands for both.  All methods that write     *)
(* hold the mutex exclusively; each of them is one call here.  A statement *)
(* takes effect before its caller hears of it or dies, or never            *)
(* (statements that come later still are in SessionService).               *)
(***************************************************************************)
EXTENDS Naturals

CONSTANTS
    Recordings, \* the recording ids that uuid.New can draw
    Callers,    \* goroutines, each making one call at a time
    Instances,  \* processes, each with a mutex of its own
    Home,       \* Home[c] is the process that caller c runs in
    NULL,       \* the absence of a value
    MaxFaults   \* bound on failing statements, failing removals and crashes

ASSUME RecordingHome   == Home \in [Callers -> Instances]
ASSUME RecordingBounds == MaxFaults \in Nat

VARIABLES
    rows,       \* rows[r]: "none" (no row), "open" or "completed"
    files,      \* the recordings whose file exists
    recorders,  \* the recordings that a recorder is still writing (external)
    call,       \* call[c] is what caller c is doing
    drawn,      \* history: the ids that INSERT has used
    recorded,   \* history: the recordings whose file was ever written
    late,       \* history: those whose file was written when the row had gone
    faults

vars == <<rows, files, recorders, call, drawn, recorded, late, faults>>

Shared    == {"get"}
Ops       == {"create", "update", "delete"} \cup Shared

\* pc  idle -> lock -> (find) -> exec -> (remove) -> return -> idle
Idle == [pc |-> "idle", op |-> "none", rec |-> NULL, ret |-> NULL]

PCs == {"idle", "lock", "find", "exec", "remove", "return"}

TypeOK ==
    /\ rows \in [Recordings -> {"none", "open", "completed"}]
    /\ files \subseteq Recordings
    /\ recorders \subseteq Recordings
    /\ call \in [Callers -> [ pc : PCs, op : Ops \cup {"none"},
                              rec : Recordings \cup {NULL}, ret : {"ok", "err", NULL} ]]
    /\ drawn \subseteq Recordings
    /\ recorded \subseteq Recordings
    /\ late \subseteq Recordings
    /\ faults \in Nat

Init ==
    /\ rows = [r \in Recordings |-> "none"]
    /\ files = {} /\ recorders = {} /\ drawn = {} /\ recorded = {} /\ late = {}
    /\ call = [c \in Callers |-> Idle]
    /\ faults = 0

Fault == faults < MaxFaults /\ faults' = faults + 1

-----------------------------------------------------------------------------
(***************************************************************************)
(* Calling a method, and the mutex.                                        *)
(***************************************************************************)
Holds(c) == call[c].pc \in {"find", "exec", "remove", "return"}
Peers(c) == {d \in Callers \ {c} : Home[d] = Home[c]}

Goes(c, pc)      == call' = [call EXCEPT ![c] = [@ EXCEPT !.pc = pc]]
Returns(c, ret)  == call' = [call EXCEPT ![c] = [@ EXCEPT !.pc = "return", !.ret = ret]]

\* A caller names a recording it knows of, or asks for a new one with an id
\* that uuid.New has not drawn before.
Begin(c) ==
    /\ call[c].pc = "idle"
    /\ \E op \in Ops, r \in Recordings :
        /\ IF op = "create"
           THEN r \notin drawn /\ \A d \in Callers : call[d].op = "create" => call[d].rec # r
           ELSE r \in drawn
        /\ call' = [call EXCEPT ![c] = [pc |-> "lock", op |-> op, rec |-> r, ret |-> NULL]]
    /\ UNCHANGED <<rows, files, recorders, drawn, recorded, late, faults>>

\* mu.Lock for the writing methods, mu.RLock for the reading ones.
Lock(c) ==
    /\ call[c].pc = "lock"
    /\ \A d \in Peers(c) : Holds(d) => call[c].op \in Shared /\ call[d].op \in Shared
    /\ Goes(c, IF call[c].op = "delete" THEN "find" ELSE "exec")
    /\ UNCHANGED <<rows, files, recorders, drawn, recorded, late, faults>>

\* The deferred Unlock.
Return(c) ==
    /\ call[c].pc = "return"
    /\ call' = [call EXCEPT ![c] = Idle]
    /\ UNCHANGED <<rows, files, recorders, drawn, recorded, late, faults>>

-----------------------------------------------------------------------------
(***************************************************************************)
(* The bodies of the methods.                                              *)
(***************************************************************************)
Running(c, op) == call[c].pc = "exec" /\ call[c].op = op

\* One write statement that leaves the rows as `result`; a failing one may or
\* may not have been applied.
Writes(c, result, next) ==
    \/ rows' = result /\ next /\ UNCHANGED faults
    \/ Fault /\ rows' \in {result, rows} /\ Returns(c, "err")

CreateRecording(c) ==
    LET r == call[c].rec
    IN  /\ Running(c, "create")
        /\ Writes(c, [rows EXCEPT ![r] = "open"], Returns(c, "ok"))
        /\ drawn' = drawn \cup {r}
        /\ UNCHANGED <<files, recorders, recorded, late>>

\* Variant: UPDATE is an upsert.
Upserted(r) == [rows EXCEPT ![r] = "completed"]

\* UPDATE ... WHERE id: no row, no effect, and no error either.
Completed(r) ==
    [rows EXCEPT ![r] = IF @ = "none" THEN "none" ELSE "completed"]

UpdateRecording(c) ==
    /\ Running(c, "update")
    /\ Writes(c, Completed(call[c].rec), Returns(c, "ok"))
    /\ UNCHANGED <<files, recorders, drawn, recorded, late>>

\* SELECT file_path: the row must exist.
FindFile(c) ==
    LET r == call[c].rec
    IN  /\ call[c].pc = "find"
        /\ \/ rows[r] # "none" /\ Goes(c, "exec") /\ UNCHANGED faults
           \/ rows[r] = "none" /\ Returns(c, "err") /\ UNCHANGED faults
           \/ Fault /\ Returns(c, "err")
        /\ UNCHANGED <<rows, files, recorders, drawn, recorded, late>>

\* Variant: the file goes first, before the row is known to be gone.
DeleteFileFirst(c) ==
    LET r == call[c].rec
    IN  /\ Running(c, "delete")
        /\ Writes(c, [rows EXCEPT ![r] = "none"], Goes(c, "remove"))
        /\ files' = files \ {r}
        /\ UNCHANGED <<recorders, drawn, recorded, late>>

\* DELETE FROM gate_recordings; it succeeds even if the row has gone since.
DeleteRow(c) ==
    /\ Running(c, "delete")
    /\ Writes(c, [rows EXCEPT ![call[c].rec] = "none"], Goes(c, "remove"))
    /\ UNCHANGED <<files, recorders, drawn, recorded, late>>

\* Variant: the method returns without removing the file.
RemoveNothing(c) ==
    /\ call[c].pc = "remove"
    /\ Returns(c, "ok")
    /\ UNCHANGED <<rows, files, recorders, drawn, recorded, late, faults>>

\* os.Remove, whose error is ignored.
RemoveFile(c) ==
    /\ call[c].pc = "remove"
    /\ Returns(c, "ok")
    /\ \/ files' = files \ {call[c].rec} /\ UNCHANGED faults
       \/ Fault /\ UNCHANGED files
    /\ UNCHANGED <<rows, recorders, drawn, recorded, late>>

\* GetRecording and the List methods: one SELECT, nothing written.
GetRecording(c) ==
    /\ Running(c, "get")
    /\ \/ Returns(c, IF rows[call[c].rec] = "none" THEN "err" ELSE "ok") /\ UNCHANGED faults
       \/ Fault /\ Returns(c, "err")
    /\ UNCHANGED <<rows, files, recorders, drawn, recorded, late>>

-----------------------------------------------------------------------------
(***************************************************************************)
(* The environment: recorders, the database's cascade, crashes.            *)
(***************************************************************************)

\* A recorder takes up the file of a recording that has a row ...
StartRecorder(r) ==
    /\ rows[r] = "open" /\ r \notin recorders
    /\ recorders' = recorders \cup {r}
    /\ UNCHANGED <<rows, files, call, drawn, recorded, late, faults>>

\* ... writes to it (creating it if it is not there) ...
WriteFile(r) ==
    /\ r \in recorders /\ r \notin files
    /\ files' = files \cup {r}
    /\ recorded' = recorded \cup {r}
    /\ late' = IF rows[r] = "none" THEN late \cup {r} ELSE late
    /\ UNCHANGED <<rows, recorders, call, drawn, faults>>

\* ... and stops.
StopRecorder(r) ==
    /\ r \in recorders
    /\ recorders' = recorders \ {r}
    /\ UNCHANGED <<rows, files, call, drawn, recorded, late, faults>>

\* ON DELETE CASCADE from a session or a device takes rows but no files.
Cascade(r) ==
    /\ Fault /\ rows[r] # "none"
    /\ rows' = [rows EXCEPT ![r] = "none"]
    /\ UNCHANGED <<files, recorders, call, drawn, recorded, late>>

Crash(i) ==
    /\ Fault
    /\ call' = [c \in Callers |-> IF Home[c] = i THEN Idle ELSE call[c]]
    /\ UNCHANGED <<rows, files, recorders, drawn, recorded, late>>

Step(c) ==
    \/ Lock(c) \/ FindFile(c) \/ CreateRecording(c) \/ UpdateRecording(c)
    \/ DeleteRow(c) \/ RemoveFile(c) \/ GetRecording(c) \/ Return(c)

Next ==
    \/ \E c \in Callers : Begin(c) \/ Step(c)
    \/ \E r \in Recordings : StartRecorder(r) \/ WriteFile(r) \/ StopRecorder(r) \/ Cascade(r)
    \/ \E i \in Instances : Crash(i)

Spec == Init /\ [][Next]_vars

-----------------------------------------------------------------------------
(***************************************************************************)
(* Properties.                                                             *)
(***************************************************************************)

\* A recording that can still be found has not lost its transcript: whatever
\* statement fails, process dies or second process deletes at the same time,
\* DeleteRecording removes a file only when its row is gone for good.
NoRowLosesItsFile ==
    \A r \in Recordings : rows[r] # "none" /\ r \in recorded => r \in files

\* A deleted recording never comes back: not by an UpdateRecording that
\* arrives after the delete, nor by the end of a session in another process.
DeletedStaysDeleted ==
    [][\A r \in Recordings :
          r \in drawn /\ rows[r] = "none" => rows'[r] = "none"]_vars

\* To its callers the service is RecordingLifecycle, whichever processes work on
\* a recording at a time and whatever fails between a row and its file.
L == INSTANCE RecordingLifecycle WITH
        state <- [r \in Recordings |-> IF r \notin drawn THEN "absent"
                                       ELSE IF rows[r] = "none" THEN "deleted" ELSE rows[r]]

LifecycleSpec == L!Spec

\* As long as nothing fails, a file is left without a row only on its way out,
\* or because a recorder that nobody stopped wrote it after the delete.
OrphansAreExplained ==
    \A r \in files :
        faults = 0 /\ rows[r] = "none" =>
            \/ r \in late
            \/ \E c \in Callers : call[c].pc = "remove" /\ call[c].rec = r

\* The inductive invariant behind NoRowLosesItsFile and DeletedStaysDeleted.
RowsWereDrawn ==
    /\ \A r \in Recordings : rows[r] # "none" => r \in drawn
    /\ recorders \cup recorded \subseteq drawn

InsertsAreFresh ==
    \A c \in Callers :
        call[c].op = "create" =>
            /\ call[c].pc \in {"lock", "exec", "return"} /\ call[c].rec \in Recordings
            /\ call[c].pc # "return" => call[c].rec \notin drawn
            /\ \A d \in Callers \ {c} : call[d].op = "create" => call[d].rec # call[c].rec

OthersWereDrawn ==
    \A c \in Callers :
        /\ call[c].pc = "idle" <=> call[c].op = "none"
        /\ call[c].op \in {"update", "delete", "get"} => call[c].rec \in drawn

RemovalFollowsDelete ==
    \A c \in Callers : call[c].pc = "remove" =>
        call[c].op = "delete" /\ rows[call[c].rec] = "none"

RecordingInv ==
    /\ TypeOK
    /\ RowsWereDrawn
    /\ InsertsAreFresh
    /\ OthersWereDrawn
    /\ RemovalFollowsDelete
    /\ NoRowLosesItsFile
=============================================================================
