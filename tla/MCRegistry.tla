----------------------------- MODULE MCRegistry -----------------------------
(* A small instance of Registry: two models, nodes with little or much      *)
(* memory, and a clock that lets nodes time out while others are fresh.     *)
EXTENDS Registry

MCMemory == {1, 2}
=============================================================================
