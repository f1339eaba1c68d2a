---------------------------- MODULE MCAgentTurns ----------------------------
(* Two turns of one mission, and one of them sent again.  Handlers, turns   *)
(* and tool outputs are interchangeable.                                    *)
EXTENDS AgentTurns, TLC

TurnSymmetry == Permutations(Handlers) \cup Permutations(Turns) \cup Permutations(Outputs)
=============================================================================
