----------------------------- MODULE MCPosQueue -----------------------------
(* PosQueue on small instances. *)
EXTENDS PosQueue, TLC

MCSlots == Ops \cup Flushes \cup Strays

Symmetry == Permutations(Ops) \cup Permutations(Shifts) \cup Permutations(Strays)
=============================================================================
