----------------------------- MODULE AtomicU16 -----------------------------
(***************************************************************************)
(* AtomicU16 of core/sync/atomic.vr: its read-modify-write operations run  *)
(* a compare-and-swap loop on the aligned 32-bit word, of which the other  *)
(* half is somebody else's: recovery.vr keeps failure_count and            *)
(* success_count side by side.  load() and store() touch the half alone.   *)
(***************************************************************************)
EXTENDS Integers

CONSTANTS Threads,
          HalfSize,   \* values of a half: 2^16 in the code
          Args,       \* the arguments callers pass
          MaxCalls,   \* bound: calls per thread
          BitOr(_, _), BitAnd(_, _)  \* the bitwise operations on a half

HalfValues == 0 .. HalfSize - 1

AtomicU16Assumption ==
  /\ HalfSize \in Nat \ {0} /\ Args \subseteq HalfValues
  /\ MaxCalls \in Nat
  /\ \A a, b \in HalfValues : BitOr(a, b) \in HalfValues /\ BitAnd(a, b) \in HalfValues

VARIABLES
  mem,     \* the 32-bit word that holds the two atomics
  pc,      \* where each thread is in its call
  req,     \* the call of each thread: operation, half, arguments
  word,    \* the word its loop loaded
  ideal,   \* history: the halves as two registers with atomic operations
  agreed,  \* history: every answer so far was the register's
  calls    \* calls each thread has made

vars == <<mem, pc, req, word, ideal, agreed, calls>>

Halves == {0, 1}
Ops    == {"swap", "fetch_add", "fetch_sub", "fetch_or", "fetch_and"}
Requests ==
  [op : Ops, half : Halves, val : Args, current : {0}]
    \cup [op : {"compare_exchange"}, half : Halves, val : Args, current : Args]

(* 1 << shift, (word >> shift) & 0xFFFF, and (word & !mask) | (v << shift)   *)
Shifted(h) == IF h = 0 THEN 1 ELSE HalfSize
Half(w, h) == (w \div Shifted(h)) % HalfSize
WithHalf(w, h, v) == w + (v - Half(w, h)) * Shifted(h)

(* The new half an operation computes from the old one.                      *)
NewHalf(r, old) ==
  CASE r.op \in {"swap", "compare_exchange"} -> r.val
    [] r.op = "fetch_add" -> (old + r.val) % HalfSize
    [] r.op = "fetch_sub" -> (old - r.val) % HalfSize
    [] r.op = "fetch_or"  -> BitOr(old, r.val)
    [] r.op = "fetch_and" -> BitAnd(old, r.val)

NoRequest == [op |-> "swap", half |-> 0, val |-> CHOOSE a \in Args : TRUE,
              current |-> 0]

Init ==
  /\ mem = 0
  /\ pc = [t \in Threads |-> "idle"]
  /\ req = [t \in Threads |-> NoRequest]
  /\ word = [t \in Threads |-> 0]
  /\ ideal = [h \in Halves |-> 0]
  /\ agreed = TRUE
  /\ calls = [t \in Threads |-> 0]

Goto(t, l) == pc' = [pc EXCEPT ![t] = l]

Start(t, r) ==
  /\ pc[t] = "idle" /\ calls[t] < MaxCalls
  /\ calls' = [calls EXCEPT ![t] = @ + 1]
  /\ req' = [req EXCEPT ![t] = r]
  /\ Goto(t, "load")
  /\ UNCHANGED <<mem, word, ideal, agreed>>

(* store(): the half alone, in the middle of anybody's loop.                 *)
Store(t, h, v) ==
  /\ pc[t] = "idle" /\ calls[t] < MaxCalls
  /\ calls' = [calls EXCEPT ![t] = @ + 1]
  /\ mem' = WithHalf(mem, h, v)
  /\ ideal' = [ideal EXCEPT ![h] = v]
  /\ UNCHANGED <<pc, req, word, agreed>>

(* The load of the loop; compare_exchange returns Err here when the half is  *)
(* not the expected one.                                                     *)
LoadWord(t) ==
  /\ pc[t] = "load"
  /\ word' = [word EXCEPT ![t] = mem]
  /\ LET r == req[t]
         mismatch == r.op = "compare_exchange" /\ Half(mem, r.half) # r.current
     IN  /\ Goto(t, IF mismatch THEN "idle" ELSE "cas")
         /\ agreed' = (agreed /\ (mismatch => ideal[r.half] # r.current))
  /\ UNCHANGED <<mem, req, ideal, calls>>

(* The exchange took effect: the answer is the old half, and the registers   *)
(* perform the operation in the same step.                                   *)
Swapped(t) ==
  LET r == req[t] IN
  /\ mem' = WithHalf(word[t], r.half, NewHalf(r, Half(word[t], r.half)))
  /\ agreed' = (agreed /\ Half(word[t], r.half) = ideal[r.half])
  /\ ideal' = [ideal EXCEPT ![r.half] = NewHalf(r, @) % HalfSize]
  /\ Goto(t, "idle")
  /\ UNCHANGED <<req, word, calls>>

(* Mutant: the exchange compares its own half only.                          *)
CasWordHalfOnly(t) ==
  /\ pc[t] = "cas"
  /\ IF Half(mem, req[t].half) = Half(word[t], req[t].half)
     THEN Swapped(t)
     ELSE Goto(t, "load") /\ UNCHANGED <<mem, req, word, ideal, agreed, calls>>

CasWord(t) ==
  /\ pc[t] = "cas"
  /\ IF mem = word[t]
     THEN Swapped(t)
     ELSE Goto(t, "load") /\ UNCHANGED <<mem, req, word, ideal, agreed, calls>>

Next == \E t \in Threads :
  \/ \E r \in Requests : Start(t, r)
  \/ \E h \in Halves, v \in Args : Store(t, h, v)
  \/ LoadWord(t) \/ CasWord(t)

Spec == Init /\ [][Next]_vars

-----------------------------------------------------------------------------
(* The two halves of the word behave as two independent atomic registers:    *)
(* no update of either is lost or invented, no carry and no stale copy of    *)
(* the neighbour gets across, with plain stores in between, and every        *)
(* answer, the old half or the Err of compare_exchange, is the one the       *)
(* register gives at that moment.                                            *)
HalvesIndependent == mem = ideal[0] + ideal[1] * HalfSize /\ agreed
=============================================================================
