------------------------- MODULE MCRecordingService -------------------------
(***************************************************************************)
(* A small instance of RecordingService: two callers in two processes, and *)
(* a third that shares the second one's mutex.                             *)
(***************************************************************************)
EXTENDS RecordingService

CONSTANTS r1, a, b, c, p, q

MCHome == [x \in Callers |-> IF x = a THEN p ELSE q]
=============================================================================
