------------------------------- MODULE LeanStep -------------------------------
(***************************************************************************)
(* What the kernel replay promises of its Lean processes to the rest of the *)
(* replay: whoever replays a module gets one answer, once, as if nobody     *)
(* else had a part in it.  It is accepted or rejected as Lean alone decides *)
(* of the module, or there is no decision, for lack of time or of Lean.     *)
(***************************************************************************)
CONSTANT Replays   \* who replays the module

VARIABLES
  sound,    \* Lean accepts the module
  answers   \* answers[p]: "pending", or how the replay of p ended

lvars == <<sound, answers>>

NoDecision == {"unavailable", "limit", "error"}
Decision == IF sound THEN "accepted" ELSE "rejected"

LInit ==
  /\ sound \in BOOLEAN
  /\ answers = [p \in Replays |-> "pending"]

Decide(p) ==
  /\ answers[p] = "pending"
  /\ \E answer \in {Decision} \cup NoDecision :
       answers' = [answers EXCEPT ![p] = answer]
  /\ UNCHANGED sound

LNext == \E p \in Replays : Decide(p)

LSpec == LInit /\ [][LNext]_lvars

=============================================================================
