------------------------------- MODULE Futex -------------------------------
(***************************************************************************)
(* The operating-system futex the sync primitives block on, as            *)
(* core/sys/<os>/thread.vr exposes it.  A futex has no state of its own    *)
(* beyond the set of threads parked on the address, so the operators take  *)
(* that set as an argument; each primitive declares its own variable.      *)
(***************************************************************************)
EXTENDS Integers, FiniteSets

(***************************************************************************)
(* futex_wait(addr, expected): comparing the word and parking the caller   *)
(* is one atomic step of the kernel.  The word no longer equal to expected *)
(* is EAGAIN: the caller is not parked.                                    *)
(***************************************************************************)
Parked(parked, word, expected, t) ==
  IF word = expected THEN parked \cup {t} ELSE parked

(***************************************************************************)
(* futex_wake(addr, count): the sets of threads that may still be parked   *)
(* after the call.  It releases as many as count allows, in no promised    *)
(* order.                                                                  *)
(***************************************************************************)
StillParked(parked, count) ==
  {S \in SUBSET parked :
     LET n == Cardinality(parked)
     IN  Cardinality(S) = IF n <= count THEN 0 ELSE n - count}

(* futex_wake with a count of Int.MAX releases every parked thread.         *)
NoneParked == {}
=============================================================================
