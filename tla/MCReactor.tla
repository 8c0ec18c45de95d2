------------------------------ MODULE MCReactor ------------------------------
(* Two kinds of readiness of one descriptor and one of another.              *)
EXTENDS Reactor, TLC

CONSTANTS f1, f2

MCKeys == {<<f1, "read">>, <<f1, "write">>, <<f2, "read">>}
ThreadSymmetry == Permutations(Threads)
=============================================================================
