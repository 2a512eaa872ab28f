----------------------------- MODULE MCReplayLock -----------------------------
(***************************************************************************)
(* Instances of ReplayLock.  One unit of time is StepLimit = 600 s of the   *)
(* code, so that StaleAge = 3 and WaitLimit = 1.                            *)
(***************************************************************************)
EXTENDS ReplayLock
CONSTANTS p1, p2
=============================================================================
