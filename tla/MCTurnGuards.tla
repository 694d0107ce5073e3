---------------------------- MODULE MCTurnGuards ----------------------------
(* A root and one sub-agent that runs one task after another. *)
EXTENDS TurnGuards

CONSTANTS root, sub

OneEach == [t \in {root, sub} |-> t]

=============================================================================
