------------------------------ MODULE MCPractice -------------------------------
(* An instance of Practice for TLC. *)
EXTENDS Practice

\* Raichu, which evolves from Pikachu, and a trainer.
FewCards == {"raichu", "potion"}

FewKey == [e \in {"raichu"} |-> e]

\* An import takes any count.
Counts == -1 .. 2
================================================================================
