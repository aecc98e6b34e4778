----------------------- MODULE RecordingServiceProofs -----------------------
(***************************************************************************)
(* Proofs about RecordingService, for every set of recordings, callers and *)
(* processes, and every bound on failures.                                 *)
(***************************************************************************)
EXTENDS RecordingService, TLAPS

CallType == [ pc : PCs, op : Ops \cup {"none"},
              rec : Recordings \cup {NULL}, ret : {"ok", "err", NULL} ]

LEMMA RecordingInit == Init => RecordingInv
<1> SUFFICES ASSUME Init PROVE RecordingInv
  OBVIOUS
<1>1. \A c \in Callers : call[c] = Idle
  BY DEF Init
<1>2. TypeOK
  BY RecordingBounds DEF Init, TypeOK, Idle, PCs
<1> QED
  BY <1>1, <1>2 DEF Init, RecordingInv, RowsWereDrawn, InsertsAreFresh, OthersWereDrawn,
                    RemovalFollowsDelete, NoRowLosesItsFile, Idle

\* Only caller c moves, to the record k, which still is the same call.
LEMMA CallMoves ==
  ASSUME RecordingInv, NEW c \in Callers, NEW k \in CallType,
         call' = [call EXCEPT ![c] = k],
         k.op = call[c].op, k.rec = call[c].rec, k.pc # "idle", call[c].pc # "idle",
         k.op = "create" => k.pc \in {"exec", "return"},
         k.pc = "remove" => k.op = "delete",
         drawn \subseteq drawn'
  PROVE  /\ call' \in [Callers -> CallType]
         /\ call'[c] = k
         /\ \A d \in Callers \ {c} : call'[d] = call[d]
         /\ OthersWereDrawn'
         /\ \A d \in Callers : call'[d].op = "create" =>
              /\ call'[d].pc \in {"lock", "exec", "return"} /\ call'[d].rec \in Recordings
              /\ \A e \in Callers \ {d} : call'[e].op = "create" => call'[e].rec # call'[d].rec
<1>1. call \in [Callers -> CallType]
  BY DEF RecordingInv, TypeOK, CallType
<1>2. /\ call' \in [Callers -> CallType] /\ call'[c] = k
      /\ \A d \in Callers \ {c} : call'[d] = call[d]
  BY <1>1
<1>3. \A d \in Callers : call'[d].op = call[d].op /\ call'[d].rec = call[d].rec
  BY <1>2
<1>4. OthersWereDrawn'
  BY <1>2, <1>3 DEF RecordingInv, OthersWereDrawn
<1>5. \A d \in Callers : call'[d].op = "create" =>
        /\ call'[d].pc \in {"lock", "exec", "return"} /\ call'[d].rec \in Recordings
        /\ \A e \in Callers \ {d} : call'[e].op = "create" => call'[e].rec # call'[d].rec
  BY <1>2, <1>3 DEF RecordingInv, InsertsAreFresh
<1> QED
  BY <1>2, <1>4, <1>5

LEMMA CallRecords ==
  ASSUME TypeOK, NEW c \in Callers
  PROVE  /\ call[c] \in CallType
         /\ \A ret \in {"ok", "err"} :
              [call[c] EXCEPT !.pc = "return", !.ret = ret] \in CallType
  BY DEF TypeOK, CallType, PCs

\* A step that moves only the call and perhaps counts a failure.
LEMMA QuietStep ==
  ASSUME RecordingInv, NEW c \in Callers, NEW k \in CallType,
         call' = [call EXCEPT ![c] = k],
         k.op = call[c].op, k.rec = call[c].rec, k.pc # "idle", call[c].pc # "idle",
         k.op = "create" => k.pc \in {"exec", "return"},
         k.op = "create" /\ k.pc = "exec" => call[c].pc = "lock",
         k.pc # "remove",
         UNCHANGED <<rows, files, recorders, drawn, recorded, late>>, faults' \in Nat
  PROVE  RecordingInv'
<1>1. /\ call' \in [Callers -> CallType] /\ call'[c] = k
      /\ \A d \in Callers \ {c} : call'[d] = call[d]
      /\ OthersWereDrawn'
      /\ \A d \in Callers : call'[d].op = "create" =>
           /\ call'[d].pc \in {"lock", "exec", "return"} /\ call'[d].rec \in Recordings
           /\ \A e \in Callers \ {d} : call'[e].op = "create" => call'[e].rec # call'[d].rec
  BY CallMoves
<1>2. TypeOK'
  BY <1>1 DEF RecordingInv, TypeOK, CallType
<1>3. RowsWereDrawn' /\ NoRowLosesItsFile'
  BY DEF RecordingInv, RowsWereDrawn, NoRowLosesItsFile
<1>4. InsertsAreFresh'
  BY <1>1 DEF RecordingInv, InsertsAreFresh
<1>5. RemovalFollowsDelete'
  BY <1>1 DEF RecordingInv, RemovalFollowsDelete
<1> QED
  BY <1>1, <1>2, <1>3, <1>4, <1>5 DEF RecordingInv

LEMMA FaultTyped == TypeOK /\ (UNCHANGED faults \/ Fault) => faults' \in Nat
  BY DEF TypeOK, Fault

LEMMA LockStep ==
  ASSUME RecordingInv, NEW c \in Callers, Lock(c)
  PROVE  RecordingInv'
<1> DEFINE pc == IF call[c].op = "delete" THEN "find" ELSE "exec"
           k == [call[c] EXCEPT !.pc = pc]
<1>1. k \in CallType /\ k.pc = pc /\ k.op = call[c].op /\ k.rec = call[c].rec
  BY DEF RecordingInv, TypeOK, PCs, CallType
<1>2. call[c].pc = "lock" /\ call' = [call EXCEPT ![c] = k]
  BY DEF Lock, Goes
<1>3. UNCHANGED <<rows, files, recorders, drawn, recorded, late>> /\ faults' \in Nat
  BY FaultTyped DEF Lock, RecordingInv
<1> HIDE DEF k
<1> QED
  BY <1>1, <1>2, <1>3, QuietStep

LEMMA FindFileStep ==
  ASSUME RecordingInv, NEW c \in Callers, FindFile(c)
  PROVE  RecordingInv'
<1> DEFINE found == [call[c] EXCEPT !.pc = "exec"]
           fail  == [call[c] EXCEPT !.pc = "return", !.ret = "err"]
<1>1. /\ found \in CallType /\ found.pc = "exec" /\ found.op = call[c].op /\ found.rec = call[c].rec
      /\ fail \in CallType /\ fail.pc = "return" /\ fail.op = call[c].op /\ fail.rec = call[c].rec
  BY DEF RecordingInv, TypeOK, PCs, CallType
<1>2. /\ call[c].pc = "find" /\ call[c].op # "create"
      /\ call' = [call EXCEPT ![c] = found] \/ call' = [call EXCEPT ![c] = fail]
  BY DEF FindFile, Goes, Returns, RecordingInv, InsertsAreFresh
<1>3. UNCHANGED <<rows, files, recorders, drawn, recorded, late>> /\ faults' \in Nat
  BY FaultTyped DEF FindFile, RecordingInv
<1> HIDE DEF found, fail
<1> QED
  BY <1>1, <1>2, <1>3, QuietStep

LEMMA GetRecordingStep ==
  ASSUME RecordingInv, NEW c \in Callers, GetRecording(c)
  PROVE  RecordingInv'
<1>1. PICK ret \in {"ok", "err"} : Returns(c, ret)
  BY DEF GetRecording
<1> DEFINE k == [call[c] EXCEPT !.pc = "return", !.ret = ret]
<1>2. k \in CallType /\ k.pc = "return" /\ k.op = call[c].op /\ k.rec = call[c].rec
  BY CallRecords DEF RecordingInv, CallType
<1>3. call[c].pc = "exec" /\ call[c].op = "get" /\ call' = [call EXCEPT ![c] = k]
  BY <1>1 DEF GetRecording, Returns, Running
<1>4. UNCHANGED <<rows, files, recorders, drawn, recorded, late>> /\ faults' \in Nat
  BY FaultTyped DEF GetRecording, RecordingInv
<1> HIDE DEF k
<1> QED
  BY <1>2, <1>3, <1>4, QuietStep

LEMMA CreateStep ==
  ASSUME RecordingInv, NEW c \in Callers, CreateRecording(c)
  PROVE  RecordingInv'
<1> DEFINE r == call[c].rec
<1>1. call[c].pc = "exec" /\ call[c].op = "create" /\ r \in Recordings /\ r \notin drawn
  BY DEF CreateRecording, Running, RecordingInv, InsertsAreFresh
<1>2. PICK ret \in {"ok", "err"} : Returns(c, ret)
  BY DEF CreateRecording, Writes
<1> DEFINE k == [call[c] EXCEPT !.pc = "return", !.ret = ret]
<1>3. k \in CallType /\ k.pc = "return" /\ k.op = call[c].op /\ k.rec = r
  BY CallRecords DEF RecordingInv, CallType
<1>4. /\ rows' = [rows EXCEPT ![r] = "open"] \/ rows' = rows
      /\ drawn' = drawn \cup {r} /\ faults' \in Nat
      /\ UNCHANGED <<files, recorders, recorded, late>>
  BY FaultTyped DEF CreateRecording, Writes, RecordingInv
<1>5. call' = [call EXCEPT ![c] = k]
  BY <1>2 DEF Returns
<1> HIDE DEF k
<1>6. /\ call' \in [Callers -> CallType] /\ call'[c] = k
      /\ \A d \in Callers \ {c} : call'[d] = call[d]
      /\ OthersWereDrawn'
      /\ \A d \in Callers : call'[d].op = "create" =>
           /\ call'[d].pc \in {"lock", "exec", "return"} /\ call'[d].rec \in Recordings
           /\ \A e \in Callers \ {d} : call'[e].op = "create" => call'[e].rec # call'[d].rec
  BY <1>1, <1>3, <1>4, <1>5, CallMoves
<1>7. TypeOK'
  BY <1>1, <1>4, <1>6 DEF RecordingInv, TypeOK, CallType
<1>8. RowsWereDrawn'
  BY <1>1, <1>4 DEF RecordingInv, RowsWereDrawn, TypeOK
<1>9. InsertsAreFresh'
  BY <1>1, <1>3, <1>4, <1>6 DEF RecordingInv, InsertsAreFresh
<1>10. RemovalFollowsDelete'
  <2> SUFFICES ASSUME NEW d \in Callers, call'[d].pc = "remove"
               PROVE  call'[d].op = "delete" /\ rows'[call'[d].rec] = "none"
    BY DEF RemovalFollowsDelete
  <2>1. call'[d] = call[d] /\ call[d].op = "delete" /\ rows[call[d].rec] = "none"
    BY <1>3, <1>6 DEF RecordingInv, RemovalFollowsDelete
  <2>2. call[d].rec # r /\ call[d].rec \in Recordings
    BY <1>1, <2>1 DEF RecordingInv, OthersWereDrawn, TypeOK
  <2> QED
    BY <1>1, <1>4, <2>1, <2>2 DEF RecordingInv, TypeOK
<1>11. NoRowLosesItsFile'
  <2>1. r \notin recorded
    BY <1>1 DEF RecordingInv, RowsWereDrawn
  <2> QED
    BY <1>1, <1>4, <2>1 DEF RecordingInv, NoRowLosesItsFile, TypeOK
<1> QED
  BY <1>6, <1>7, <1>8, <1>9, <1>10, <1>11 DEF RecordingInv

LEMMA UpdateStep ==
  ASSUME RecordingInv, NEW c \in Callers, UpdateRecording(c)
  PROVE  RecordingInv'
<1> DEFINE r == call[c].rec
<1>1. call[c].pc = "exec" /\ call[c].op = "update"
  BY DEF UpdateRecording, Running
<1>2. PICK ret \in {"ok", "err"} : Returns(c, ret)
  BY DEF UpdateRecording, Writes
<1> DEFINE k == [call[c] EXCEPT !.pc = "return", !.ret = ret]
<1>3. k \in CallType /\ k.pc = "return" /\ k.op = call[c].op /\ k.rec = r
  BY CallRecords DEF RecordingInv, CallType
<1>4. /\ rows' \in [Recordings -> {"none", "open", "completed"}]
      /\ \A x \in Recordings : rows'[x] = "none" <=> rows[x] = "none"
      /\ faults' \in Nat
      /\ UNCHANGED <<files, recorders, drawn, recorded, late>>
  BY FaultTyped DEF UpdateRecording, Writes, Completed, RecordingInv, TypeOK
<1>5. call' = [call EXCEPT ![c] = k]
  BY <1>2 DEF Returns
<1> HIDE DEF k
<1>6. /\ call' \in [Callers -> CallType] /\ call'[c] = k
      /\ \A d \in Callers \ {c} : call'[d] = call[d]
      /\ OthersWereDrawn'
      /\ \A d \in Callers : call'[d].op = "create" =>
           /\ call'[d].pc \in {"lock", "exec", "return"} /\ call'[d].rec \in Recordings
           /\ \A e \in Callers \ {d} : call'[e].op = "create" => call'[e].rec # call'[d].rec
  BY <1>1, <1>3, <1>4, <1>5, CallMoves
<1>7. TypeOK'
  BY <1>4, <1>6 DEF RecordingInv, TypeOK, CallType
<1>8. RowsWereDrawn' /\ NoRowLosesItsFile'
  BY <1>4 DEF RecordingInv, RowsWereDrawn, NoRowLosesItsFile
<1>9. InsertsAreFresh'
  BY <1>1, <1>3, <1>4, <1>6 DEF RecordingInv, InsertsAreFresh
<1>10. RemovalFollowsDelete'
  <2> SUFFICES ASSUME NEW d \in Callers, call'[d].pc = "remove"
               PROVE  call'[d].op = "delete" /\ rows'[call'[d].rec] = "none"
    BY DEF RemovalFollowsDelete
  <2>1. call'[d] = call[d] /\ call[d].op = "delete" /\ rows[call[d].rec] = "none"
    BY <1>3, <1>6 DEF RecordingInv, RemovalFollowsDelete
  <2>2. call[d].rec \in Recordings
    BY <2>1 DEF RecordingInv, OthersWereDrawn, TypeOK
  <2> QED
    BY <1>4, <2>1, <2>2
<1> QED
  BY <1>6, <1>7, <1>8, <1>9, <1>10 DEF RecordingInv

LEMMA DeleteRowStep ==
  ASSUME RecordingInv, NEW c \in Callers, DeleteRow(c)
  PROVE  RecordingInv'
<1> DEFINE r == call[c].rec
           gone == [call[c] EXCEPT !.pc = "remove"]
           fail == [call[c] EXCEPT !.pc = "return", !.ret = "err"]
<1>1. call[c].pc = "exec" /\ call[c].op = "delete" /\ r \in drawn /\ r \in Recordings
  BY DEF DeleteRow, Running, RecordingInv, OthersWereDrawn, TypeOK
<1>2. /\ gone \in CallType /\ gone.pc = "remove" /\ gone.op = call[c].op /\ gone.rec = r
      /\ fail \in CallType /\ fail.pc = "return" /\ fail.op = call[c].op /\ fail.rec = r
  BY DEF RecordingInv, TypeOK, PCs, CallType
<1>3. PICK k \in {gone, fail} :
        /\ call' = [call EXCEPT ![c] = k]
        /\ k = gone => rows'[r] = "none"
  <2>1. \/ call' = [call EXCEPT ![c] = gone] /\ rows' = [rows EXCEPT ![r] = "none"]
        \/ call' = [call EXCEPT ![c] = fail]
    BY DEF DeleteRow, Writes, Goes, Returns
  <2> QED
    BY <1>1, <1>2, <2>1 DEF RecordingInv, TypeOK
<1>4. /\ rows' = [rows EXCEPT ![r] = "none"] \/ rows' = rows
      /\ faults' \in Nat
      /\ UNCHANGED <<files, recorders, drawn, recorded, late>>
  BY FaultTyped DEF DeleteRow, Writes, RecordingInv
<1>5. k \in CallType /\ k.pc \in {"remove", "return"} /\ k.op = "delete" /\ k.rec = r
      /\ (k.pc = "remove" => rows'[r] = "none")
  BY <1>1, <1>2, <1>3
<1> HIDE DEF gone, fail
<1>6. /\ call' \in [Callers -> CallType] /\ call'[c] = k
      /\ \A d \in Callers \ {c} : call'[d] = call[d]
      /\ OthersWereDrawn'
      /\ \A d \in Callers : call'[d].op = "create" =>
           /\ call'[d].pc \in {"lock", "exec", "return"} /\ call'[d].rec \in Recordings
           /\ \A e \in Callers \ {d} : call'[e].op = "create" => call'[e].rec # call'[d].rec
  BY <1>1, <1>3, <1>4, <1>5, CallMoves
<1>7. TypeOK'
  BY <1>1, <1>4, <1>6 DEF RecordingInv, TypeOK, CallType
<1>8. RowsWereDrawn' /\ NoRowLosesItsFile'
  BY <1>1, <1>4 DEF RecordingInv, RowsWereDrawn, NoRowLosesItsFile, TypeOK
<1>9. InsertsAreFresh'
  BY <1>4, <1>5, <1>6 DEF RecordingInv, InsertsAreFresh
<1>10. RemovalFollowsDelete'
  <2> SUFFICES ASSUME NEW d \in Callers, call'[d].pc = "remove"
               PROVE  call'[d].op = "delete" /\ rows'[call'[d].rec] = "none"
    BY DEF RemovalFollowsDelete
  <2>1. CASE d = c
    BY <1>5, <1>6, <2>1
  <2>2. CASE d # c
    <3>1. call'[d] = call[d] /\ call[d].op = "delete" /\ rows[call[d].rec] = "none"
      BY <1>6, <2>2 DEF RecordingInv, RemovalFollowsDelete
    <3>2. call[d].rec \in Recordings
      BY <3>1 DEF RecordingInv, OthersWereDrawn, TypeOK
    <3> QED
      BY <1>1, <1>4, <3>1, <3>2 DEF RecordingInv, TypeOK
  <2> QED
    BY <2>1, <2>2
<1> QED
  BY <1>6, <1>7, <1>8, <1>9, <1>10 DEF RecordingInv

LEMMA RemoveFileStep ==
  ASSUME RecordingInv, NEW c \in Callers, RemoveFile(c)
  PROVE  RecordingInv'
<1> DEFINE r == call[c].rec
           k == [call[c] EXCEPT !.pc = "return", !.ret = "ok"]
<1>1. call[c].pc = "remove" /\ call[c].op = "delete" /\ rows[r] = "none"
  BY DEF RemoveFile, RecordingInv, RemovalFollowsDelete
<1>2. k \in CallType /\ k.pc = "return" /\ k.op = call[c].op /\ k.rec = r
  BY CallRecords DEF RecordingInv, CallType
<1>3. /\ files' = files \ {r} \/ files' = files
      /\ faults' \in Nat
      /\ UNCHANGED <<rows, recorders, drawn, recorded, late>>
      /\ call' = [call EXCEPT ![c] = k]
  BY FaultTyped DEF RemoveFile, Returns, RecordingInv
<1> HIDE DEF k
<1>4. /\ call' \in [Callers -> CallType] /\ call'[c] = k
      /\ \A d \in Callers \ {c} : call'[d] = call[d]
      /\ OthersWereDrawn'
      /\ \A d \in Callers : call'[d].op = "create" =>
           /\ call'[d].pc \in {"lock", "exec", "return"} /\ call'[d].rec \in Recordings
           /\ \A e \in Callers \ {d} : call'[e].op = "create" => call'[e].rec # call'[d].rec
  BY <1>1, <1>2, <1>3, CallMoves
<1>5. TypeOK'
  BY <1>3, <1>4 DEF RecordingInv, TypeOK, CallType
<1>6. RowsWereDrawn'
  BY <1>3 DEF RecordingInv, RowsWereDrawn
<1>7. NoRowLosesItsFile'
  BY <1>1, <1>3 DEF RecordingInv, NoRowLosesItsFile
<1>8. InsertsAreFresh'
  BY <1>1, <1>2, <1>3, <1>4 DEF RecordingInv, InsertsAreFresh
<1>9. RemovalFollowsDelete'
  BY <1>2, <1>3, <1>4 DEF RecordingInv, RemovalFollowsDelete
<1> QED
  BY <1>4, <1>5, <1>6, <1>7, <1>8, <1>9 DEF RecordingInv

LEMMA BeginStep ==
  ASSUME RecordingInv, NEW c \in Callers, Begin(c)
  PROVE  RecordingInv'
<1>1. PICK op \in Ops, r \in Recordings :
        /\ IF op = "create"
           THEN r \notin drawn /\ \A d \in Callers : call[d].op = "create" => call[d].rec # r
           ELSE r \in drawn
        /\ call' = [call EXCEPT ![c] = [pc |-> "lock", op |-> op, rec |-> r, ret |-> NULL]]
  BY DEF Begin
<1> DEFINE k == [pc |-> "lock", op |-> op, rec |-> r, ret |-> NULL]
<1>2. k \in CallType /\ k.pc = "lock" /\ k.op = op /\ k.rec = r
  BY DEF CallType, PCs
<1>3. UNCHANGED <<rows, files, recorders, drawn, recorded, late, faults>>
  BY DEF Begin
<1>4. /\ call' \in [Callers -> CallType] /\ call'[c] = k
      /\ \A d \in Callers \ {c} : call'[d] = call[d]
  BY <1>1, <1>2 DEF RecordingInv, TypeOK, CallType
<1> HIDE DEF k
<1>5. TypeOK' /\ RowsWereDrawn' /\ NoRowLosesItsFile'
  BY <1>3, <1>4 DEF RecordingInv, TypeOK, CallType, RowsWereDrawn, NoRowLosesItsFile
<1>6. InsertsAreFresh'
  BY <1>1, <1>2, <1>3, <1>4 DEF RecordingInv, InsertsAreFresh
<1>7. OthersWereDrawn'
  BY <1>1, <1>2, <1>3, <1>4 DEF RecordingInv, OthersWereDrawn, Ops, Shared
<1>8. RemovalFollowsDelete'
  BY <1>2, <1>3, <1>4 DEF RecordingInv, RemovalFollowsDelete
<1> QED
  BY <1>5, <1>6, <1>7, <1>8 DEF RecordingInv

LEMMA IdleRecord == Idle \in CallType /\ Idle.pc = "idle" /\ Idle.op = "none"
  BY DEF Idle, CallType, PCs

\* Return and Crash: some callers forget their calls.
LEMMA ForgetStep ==
  ASSUME RecordingInv, faults' \in Nat, DOMAIN call' = Callers,
         call' = [d \in Callers |-> call'[d]],
         \A d \in Callers : call'[d] = call[d] \/ call'[d] = Idle,
         UNCHANGED <<rows, files, recorders, drawn, recorded, late>>
  PROVE  RecordingInv'
<1>1. \A d \in Callers : call[d] \in CallType
  BY CallRecords DEF RecordingInv
<1>2. TypeOK'
  BY <1>1, IdleRecord DEF RecordingInv, TypeOK, CallType
<1>3. RowsWereDrawn' /\ NoRowLosesItsFile'
  BY DEF RecordingInv, RowsWereDrawn, NoRowLosesItsFile
<1>4. InsertsAreFresh'
  BY IdleRecord DEF RecordingInv, InsertsAreFresh
<1>5. OthersWereDrawn' /\ RemovalFollowsDelete'
  BY IdleRecord DEF RecordingInv, OthersWereDrawn, RemovalFollowsDelete
<1> QED
  BY <1>2, <1>3, <1>4, <1>5 DEF RecordingInv

LEMMA RecordingNext == RecordingInv /\ [Next]_vars => RecordingInv'
<1> SUFFICES ASSUME RecordingInv, [Next]_vars PROVE RecordingInv'
  OBVIOUS
<1>1. ASSUME NEW c \in Callers, Begin(c) \/ Lock(c) \/ FindFile(c) \/ GetRecording(c)
      PROVE  RecordingInv'
  BY <1>1, BeginStep, LockStep, FindFileStep, GetRecordingStep
<1>2. ASSUME NEW c \in Callers,
             CreateRecording(c) \/ UpdateRecording(c) \/ DeleteRow(c) \/ RemoveFile(c)
      PROVE  RecordingInv'
  BY <1>2, CreateStep, UpdateStep, DeleteRowStep, RemoveFileStep
<1>3. ASSUME NEW c \in Callers, Return(c) PROVE RecordingInv'
  <2>1. /\ DOMAIN call' = Callers /\ call' = [d \in Callers |-> call'[d]]
        /\ \A d \in Callers : call'[d] = call[d] \/ call'[d] = Idle
        /\ UNCHANGED <<rows, files, recorders, drawn, recorded, late>> /\ faults' \in Nat
    BY <1>3 DEF Return, RecordingInv, TypeOK
  <2> QED
    BY <2>1, ForgetStep
<1>4. ASSUME NEW i \in Instances, Crash(i) PROVE RecordingInv'
  <2>1. /\ DOMAIN call' = Callers /\ call' = [d \in Callers |-> call'[d]]
        /\ \A d \in Callers : call'[d] = call[d] \/ call'[d] = Idle
        /\ UNCHANGED <<rows, files, recorders, drawn, recorded, late>> /\ faults' \in Nat
    BY <1>4, FaultTyped DEF Crash, RecordingInv
  <2> QED
    BY <2>1, ForgetStep
<1>5. ASSUME NEW r \in Recordings, StartRecorder(r) \/ WriteFile(r) \/ StopRecorder(r)
      PROVE  RecordingInv'
  BY <1>5 DEF StartRecorder, WriteFile, StopRecorder, RecordingInv, TypeOK, RowsWereDrawn,
              InsertsAreFresh, OthersWereDrawn, RemovalFollowsDelete, NoRowLosesItsFile
<1>6. ASSUME NEW r \in Recordings, Cascade(r) PROVE RecordingInv'
  <2>1. rows' = [rows EXCEPT ![r] = "none"] /\ faults' \in Nat
        /\ UNCHANGED <<files, recorders, call, drawn, recorded, late>>
    BY <1>6, FaultTyped DEF Cascade, RecordingInv
  <2>2. TypeOK'
    BY <2>1 DEF RecordingInv, TypeOK
  <2>3. RowsWereDrawn' /\ NoRowLosesItsFile' /\ InsertsAreFresh' /\ OthersWereDrawn'
    BY <2>1 DEF RecordingInv, TypeOK, RowsWereDrawn, NoRowLosesItsFile, InsertsAreFresh,
                OthersWereDrawn
  <2>4. RemovalFollowsDelete'
    BY <2>1 DEF RecordingInv, TypeOK, RemovalFollowsDelete, OthersWereDrawn
  <2> QED
    BY <2>2, <2>3, <2>4 DEF RecordingInv
<1>7. CASE UNCHANGED vars
  BY <1>7 DEF vars, RecordingInv, TypeOK, RowsWereDrawn, InsertsAreFresh, OthersWereDrawn,
              RemovalFollowsDelete, NoRowLosesItsFile
<1> QED
  BY <1>1, <1>2, <1>3, <1>4, <1>5, <1>6, <1>7 DEF Next, Step

-----------------------------------------------------------------------------
(***************************************************************************)
(* The theorems.                                                           *)
(***************************************************************************)

\* The inductive invariant of the recording service.
THEOREM RecordingInvariant == Spec => []RecordingInv
  BY RecordingInit, RecordingNext, PTL DEF Spec

\* No recording that has a row has lost a file that was written for it.
THEOREM FilesOutliveRows == Spec => []NoRowLosesItsFile
<1>1. RecordingInv => NoRowLosesItsFile
  BY DEF RecordingInv
<1> QED
  BY <1>1, RecordingInvariant, PTL

\* No row reappears under an id that was used before.
THEOREM DeletesAreFinal == Spec => DeletedStaysDeleted
<1> DEFINE Kept == \A r \in Recordings :
                     r \in drawn /\ rows[r] = "none" => rows'[r] = "none"
<1>1. RecordingInv /\ [Next]_vars => Kept
  <2> SUFFICES ASSUME RecordingInv, [Next]_vars, NEW r \in Recordings,
                      r \in drawn, rows[r] = "none"
               PROVE  rows'[r] = "none"
    OBVIOUS
  <2>1. ASSUME NEW c \in Callers, CreateRecording(c) PROVE rows'[r] = "none"
    <3>1. call[c].rec # r
      BY <2>1 DEF CreateRecording, Running, RecordingInv, InsertsAreFresh
    <3> QED
      BY <2>1, <3>1 DEF CreateRecording, Writes, RecordingInv, TypeOK
  <2>2. ASSUME NEW c \in Callers, UpdateRecording(c) \/ DeleteRow(c) PROVE rows'[r] = "none"
    BY <2>2 DEF UpdateRecording, DeleteRow, Writes, Completed, RecordingInv, TypeOK
  <2>3. ASSUME NEW x \in Recordings, Cascade(x) PROVE rows'[r] = "none"
    BY <2>3 DEF Cascade, RecordingInv, TypeOK
  <2>4. rows' = rows \/ (\E c \in Callers : CreateRecording(c) \/ UpdateRecording(c) \/ DeleteRow(c))
                     \/ (\E x \in Recordings : Cascade(x))
    BY DEF Next, Step, Begin, Lock, FindFile, RemoveFile, GetRecording, Return,
           StartRecorder, WriteFile, StopRecorder, Crash, vars
  <2> QED
    BY <2>1, <2>2, <2>3, <2>4
<1> QED
  BY <1>1, RecordingInvariant, PTL DEF Spec, DeletedStaysDeleted

LEMMA OrphansStep ==
  RecordingInv /\ OrphansAreExplained /\ [Next]_vars => OrphansAreExplained'
<1> DEFINE Removing(x, r) == x.pc = "remove" /\ x.rec = r
<1> SUFFICES ASSUME RecordingInv, OrphansAreExplained, [Next]_vars,
                    NEW r \in files', faults' = 0, rows'[r] = "none"
             PROVE  r \in late' \/ \E c \in Callers : Removing(call'[c], r)
  BY DEF OrphansAreExplained
<1>1. /\ faults = 0 /\ faults' = faults /\ ~Fault
      /\ rows \in [Recordings -> {"none", "open", "completed"}]
      /\ DOMAIN call = Callers /\ files \subseteq Recordings /\ late \subseteq late'
  <2>1. faults \in Nat /\ (faults' = faults \/ faults' = faults + 1)
    BY DEF RecordingInv, TypeOK, Next, Step, Begin, Lock, FindFile, CreateRecording, UpdateRecording,
           DeleteRow, RemoveFile, GetRecording, Return, StartRecorder, WriteFile, StopRecorder,
           Cascade, Crash, Writes, Fault, vars
  <2>2. late \subseteq late'
    BY DEF Next, Step, Begin, Lock, FindFile, CreateRecording, UpdateRecording, DeleteRow, RemoveFile,
           GetRecording, Return, StartRecorder, WriteFile, StopRecorder, Cascade, Crash, vars
  <2> QED
    BY <2>1, <2>2 DEF Fault, RecordingInv, TypeOK
<1> DEFINE Kept == /\ r \in files /\ rows[r] = "none"
                   /\ \A c \in Callers : Removing(call[c], r) => call'[c] = call[c]
<1>2. CASE Kept
  BY <1>1, <1>2 DEF OrphansAreExplained
<1>3. ASSUME NEW c \in Callers, Begin(c) \/ Step(c)
      PROVE  Kept \/ (\E d \in Callers : Removing(call'[d], r))
  <2>1. \A d \in Callers \ {c} : call'[d] = call[d]
    BY <1>1, <1>3 DEF Begin, Step, Lock, FindFile, CreateRecording, UpdateRecording, DeleteRow,
                      RemoveFile, GetRecording, Return, Writes, Goes, Returns
  <2>2. CASE DeleteRow(c)
    <3>1. rows' = [rows EXCEPT ![call[c].rec] = "none"] /\ Goes(c, "remove") /\ files' = files
      BY <1>1, <2>2 DEF DeleteRow, Writes
    <3>2. CASE call[c].rec = r
      BY <1>1, <3>1, <3>2 DEF Goes
    <3>3. CASE call[c].rec # r
      BY <1>1, <2>1, <3>1, <3>3
    <3> QED
      BY <3>2, <3>3
  <2>3. CASE RemoveFile(c)
    BY <1>1, <2>1, <2>3 DEF RemoveFile
  <2>4. CASE CreateRecording(c)
    BY <1>1, <2>1, <2>4 DEF CreateRecording, Running, Writes
  <2>5. CASE UpdateRecording(c)
    BY <1>1, <2>1, <2>5 DEF UpdateRecording, Running, Writes, Completed
  <2>6. CASE Begin(c) \/ Lock(c) \/ FindFile(c) \/ GetRecording(c) \/ Return(c)
    BY <1>1, <2>1, <2>6 DEF Begin, Lock, FindFile, GetRecording, Running, Return
  <2> QED
    BY <1>3, <2>2, <2>3, <2>4, <2>5, <2>6 DEF Step
<1>4. ASSUME NEW x \in Recordings, WriteFile(x) PROVE Kept \/ r \in late'
  BY <1>1, <1>4 DEF WriteFile
<1>5. ASSUME NEW x \in Recordings, StartRecorder(x) \/ StopRecorder(x) \/ Cascade(x) PROVE Kept
  BY <1>1, <1>5 DEF StartRecorder, StopRecorder, Cascade
<1>6. ASSUME NEW i \in Instances, Crash(i) PROVE FALSE
  BY <1>1, <1>6 DEF Crash
<1>7. CASE UNCHANGED vars
  BY <1>1, <1>7 DEF vars, OrphansAreExplained
<1> HIDE DEF Kept
<1> QED
  BY <1>2, <1>3, <1>4, <1>5, <1>6, <1>7 DEF Next

\* Without failures, a file that has no row is being removed or was written late.
THEOREM OrphansExplained == Spec => []OrphansAreExplained
<1>1. Init => OrphansAreExplained
  BY DEF Init, OrphansAreExplained
<1> QED
  BY <1>1, OrphansStep, RecordingInvariant, PTL DEF Spec

-----------------------------------------------------------------------------
(***************************************************************************)
(* RecordingService implements RecordingLifecycle.                         *)
(***************************************************************************)
\* The state of a recording with the row `row`, and of all of them.
StateOf(row, isDrawn) ==
    IF ~isDrawn THEN "absent" ELSE IF row = "none" THEN "deleted" ELSE row

st == [r \in Recordings |-> IF r \notin drawn THEN "absent"
                            ELSE IF rows[r] = "none" THEN "deleted" ELSE rows[r]]

LEMMA StateIs == \A r \in Recordings : st[r] = StateOf(rows[r], r \in drawn)
  BY DEF st, StateOf

\* One row changes, and its id may be used by this very step.
LEMMA StateMoves ==
  ASSUME TypeOK, NEW r \in Recordings, NEW row,
         rows' = [rows EXCEPT ![r] = row], drawn' = drawn \cup {r}
  PROVE  st' = [st EXCEPT ![r] = StateOf(row, TRUE)]
<1>1. rows'[r] = row /\ \A x \in Recordings \ {r} : rows'[x] = rows[x]
  BY DEF TypeOK
<1>2. \A x \in Recordings : x \in drawn' <=> x = r \/ x \in drawn
  OBVIOUS
<1> QED
  BY <1>1, <1>2 DEF st, StateOf

LEMMA StateStays == rows' = rows /\ drawn' = drawn => st' = st
  BY DEF st

\* A statement that leaves its row as it was.
LEMMA RowStays ==
  ASSUME TypeOK, NEW r \in Recordings PROVE [rows EXCEPT ![r] = rows[r]] = rows
  BY DEF TypeOK

LEMMA CreateMaps ==
  ASSUME RecordingInv, NEW c \in Callers, CreateRecording(c) PROVE L!Next
<1> DEFINE r == call[c].rec
<1>1. TypeOK /\ r \in Recordings /\ r \notin drawn /\ rows[r] = "none"
  BY DEF CreateRecording, Running, RecordingInv, InsertsAreFresh, RowsWereDrawn
<1>2. /\ rows' = [rows EXCEPT ![r] = "open"] \/ rows' = [rows EXCEPT ![r] = "none"]
      /\ drawn' = drawn \cup {r} /\ UNCHANGED files
  BY <1>1, RowStays DEF CreateRecording, Writes
<1> HIDE DEF r
<1>3. st[r] = "absent"
  BY <1>1, StateIs DEF StateOf
<1>4. st' = [st EXCEPT ![r] = "open"] \/ st' = [st EXCEPT ![r] = "deleted"]
  BY <1>1, <1>2, StateMoves DEF StateOf
<1> QED
  BY <1>1, <1>2, <1>3, <1>4 DEF L!Next, L!Create, L!Abandon, L!Becomes, st

\* An UPDATE of an open row completes it; of any other it changes no state.
LEMMA UpdateMaps ==
  ASSUME RecordingInv, NEW c \in Callers, UpdateRecording(c)
  PROVE  L!Next \/ (st' = st /\ files' = files)
<1> DEFINE r == call[c].rec
<1>1. TypeOK /\ r \in Recordings /\ r \in drawn
  BY DEF UpdateRecording, Running, RecordingInv, OthersWereDrawn, TypeOK
<1>2. (rows' = Completed(r) \/ rows' = rows) /\ UNCHANGED <<files, drawn>>
  BY DEF UpdateRecording, Writes
<1> HIDE DEF r
<1>3. CASE rows[r] = "open" /\ rows' = Completed(r)
  <2>1. rows' = [rows EXCEPT ![r] = "completed"] /\ drawn' = drawn \cup {r}
    BY <1>1, <1>2, <1>3 DEF Completed
  <2>2. st[r] = "open" /\ st' = [st EXCEPT ![r] = "completed"]
    BY <1>1, <1>3, <2>1, StateIs, StateMoves DEF StateOf
  <2> QED
    BY <1>1, <1>2, <2>2 DEF L!Next, L!Complete, L!Becomes, st
<1>4. CASE rows[r] # "open" \/ rows' = rows
  <2>1. rows[r] # "open" => Completed(r) = rows
    BY <1>1, RowStays DEF Completed, TypeOK
  <2> QED
    BY <1>2, <1>4, <2>1, StateStays
<1> QED
  BY <1>2, <1>3, <1>4

\* A row that goes is deleted, whether by a DELETE or by a cascade.
LEMMA RowGoes ==
  ASSUME RecordingInv, NEW r \in Recordings, r \in drawn,
         rows' = [rows EXCEPT ![r] = "none"] \/ rows' = rows, UNCHANGED <<drawn, files>>
  PROVE  L!Next \/ (st' = st /\ files' = files)
<1>1. TypeOK
  BY DEF RecordingInv
<1>2. CASE rows[r] # "none" /\ rows' = [rows EXCEPT ![r] = "none"]
  <2>1. drawn' = drawn \cup {r}
    OBVIOUS
  <2>2. st[r] \in {"open", "completed"} /\ st' = [st EXCEPT ![r] = "deleted"]
    BY <1>1, <1>2, <2>1, StateIs, StateMoves DEF StateOf, TypeOK
  <2> QED
    BY <2>2 DEF L!Next, L!Delete, L!Becomes, st
<1>3. CASE rows[r] = "none" \/ rows' = rows
  BY <1>1, <1>3, RowStays, StateStays
<1> QED
  BY <1>2, <1>3

\* A file comes and goes as the lifecycle allows.
LEMMA FileMaps ==
  ASSUME RecordingInv,
         (\E c \in Callers : RemoveFile(c)) \/ (\E r \in Recordings : WriteFile(r))
  PROVE  L!Next \/ (st' = st /\ files' = files)
<1>1. st' = st
  BY StateStays DEF RemoveFile, WriteFile
<1>2. ASSUME NEW c \in Callers, RemoveFile(c) PROVE L!Next \/ files' = files
  <2> DEFINE r == call[c].rec
  <2>1. r \in Recordings /\ r \in drawn /\ rows[r] = "none"
    BY <1>2 DEF RemoveFile, RecordingInv, RemovalFollowsDelete, OthersWereDrawn, TypeOK
  <2>2. st[r] = "deleted"
    BY <2>1, StateIs DEF StateOf
  <2>3. files' = files \ {r} \/ files' = files
    BY <1>2 DEF RemoveFile
  <2> HIDE DEF r
  <2> QED
    BY <1>1, <2>1, <2>2, <2>3 DEF L!Next, L!Remove, st
<1>3. ASSUME NEW r \in Recordings, WriteFile(r) PROVE L!Next
  <2>1. r \in drawn /\ files' = files \cup {r}
    BY <1>3 DEF WriteFile, RecordingInv, RowsWereDrawn
  <2>2. st[r] # "absent"
    BY <2>1, StateIs DEF StateOf, RecordingInv, TypeOK
  <2> QED
    BY <1>1, <2>1, <2>2 DEF L!Next, L!Write, st
<1> QED
  BY <1>1, <1>2, <1>3

\* Every behaviour of the service is one of the lifecycle: each step is a step
\* of one recording there, or none.
THEOREM ImplementsLifecycle == Spec => LifecycleSpec
<1>1. Init => L!Init
  BY DEF Init, L!Init
<1>2. RecordingInv /\ [Next]_vars => [L!Next]_(L!vars)
  <2> SUFFICES ASSUME RecordingInv, [Next]_vars
               PROVE  L!Next \/ (st' = st /\ files' = files)
    BY DEF L!vars, st
  <2>1. CASE UNCHANGED <<rows, drawn, files>>
    BY <2>1, StateStays
  <2>2. ASSUME NEW c \in Callers, DeleteRow(c) PROVE L!Next \/ (st' = st /\ files' = files)
    <3>1. call[c].rec \in Recordings /\ call[c].rec \in drawn
      BY <2>2 DEF DeleteRow, Running, RecordingInv, OthersWereDrawn, TypeOK
    <3> QED
      BY <2>2, <3>1, RowGoes DEF DeleteRow, Writes
  <2>3. ASSUME NEW r \in Recordings, Cascade(r) PROVE L!Next \/ (st' = st /\ files' = files)
    <3>1. r \in drawn
      BY <2>3 DEF Cascade, RecordingInv, RowsWereDrawn
    <3> QED
      BY <2>3, <3>1, RowGoes DEF Cascade
  <2>4. \/ UNCHANGED <<rows, drawn, files>>
        \/ \E c \in Callers : \/ CreateRecording(c) \/ UpdateRecording(c)
                              \/ DeleteRow(c) \/ RemoveFile(c)
        \/ \E r \in Recordings : Cascade(r) \/ WriteFile(r)
    BY DEF Next, Step, Begin, Lock, FindFile, GetRecording, Return, StartRecorder, StopRecorder,
           Crash, vars
  <2> QED
    BY <2>1, <2>2, <2>3, <2>4, CreateMaps, UpdateMaps, FileMaps
<1> QED
  BY <1>1, <1>2, RecordingInvariant, PTL DEF Spec, LifecycleSpec, L!Spec
=============================================================================
