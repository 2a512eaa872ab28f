---------------------------- MODULE MCReplayRecord ----------------------------
(***************************************************************************)
(* Two replays of one bundle directory, which has one of two regenerations  *)
(* of a request: Lean accepts c1 and refuses c2.                            *)
(***************************************************************************)
EXTENDS ReplayRecord, TLC

CONSTANTS r1, r2, b1, b2, c1, c2

(* Both take the default name of the capability.                            *)
SameName == [p \in Replayers |-> b1]

(* The same, or declarations of different names.                            *)
OwnOrSame == {SameName, (r1 :> b1) @@ (r2 :> b2)}
JustOne   == {SameName}
=============================================================================
