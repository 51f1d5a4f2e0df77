------------------------------ MODULE MCBuffer ------------------------------
(* A small instance of Buffer: three byte values, a vector of two bytes    *)
(* that grows to at most four.                                              *)
EXTENDS Buffer
=============================================================================
