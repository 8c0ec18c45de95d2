----------------------------- MODULE PackedWords -----------------------------
(***************************************************************************)
(* Phaser and AtomicU16 side by side: two components that pack several     *)
(* fields into one word and update it with compare_exchange loops.  A      *)
(* behaviour exercises the one that `client` names; the other stays as it  *)
(* began.                                                                  *)
(***************************************************************************)
EXTENDS Phaser

CONSTANTS AtomThreads, HalfSize, Args, AtomCalls, BitOr(_, _), BitAnd(_, _)

VARIABLES
  client,
  mem, atom_pc, req, word, ideal, agreed, atom_calls

atomVars == <<mem, atom_pc, req, word, ideal, agreed, atom_calls>>

Atom == INSTANCE AtomicU16 WITH
  Threads <- AtomThreads, MaxCalls <- AtomCalls, pc <- atom_pc, calls <- atom_calls

ASSUME AtomAssumption == Atom!AtomicU16Assumption

WordsInit == client \in {"atomic", "phaser"} /\ Atom!Init /\ Init

WordsNext ==
  /\ UNCHANGED client
  /\ \/ client = "atomic" /\ Atom!Next /\ UNCHANGED vars
     \/ client = "phaser" /\ Next /\ UNCHANGED atomVars

WordsSpec == WordsInit /\ [][WordsNext]_<<client, atomVars, vars>>

-----------------------------------------------------------------------------
(* AtomicU16: the halves of the word are two independent atomic registers:   *)
(* no update of either is lost or invented, and every answer is the          *)
(* register's.                                                               *)
HalvesIndependent == client = "atomic" => Atom!HalvesIndependent

(* Phaser: every field of the word stays within its bits; a terminated       *)
(* phaser stays so, and a phase in which no party comes or goes ends only    *)
(* when every registered thread has arrived, and by one.                     *)
AdvanceNeedsAll == []TypeOK /\ [][StaysTerminated /\ AdvancesWithAll]_vars
=============================================================================
