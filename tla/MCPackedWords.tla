---------------------------- MODULE MCPackedWords ----------------------------
(***************************************************************************)
(* PackedWords for TLC, with the bitwise operations of the processor.      *)
(***************************************************************************)
EXTENDS PackedWords, Bitwise

WordOr(a, b)  == a | b
WordAnd(a, b) == a & b
=============================================================================
