-------------------------------- MODULE Once --------------------------------
(***************************************************************************)
(* Once of core/sync/once.vr: one atomic word that is INCOMPLETE, RUNNING, *)
(* COMPLETE or POISONED, a caller that wins the word runs the function f   *)
(* under an OnceGuard, and everybody else spins while the word is RUNNING. *)
(* The function may return, fail (try_call_once) or panic.                 *)
(***************************************************************************)
EXTENDS Naturals, FiniteSets

CONSTANTS Threads,     \* the callers
          LatePanics,  \* may a panic fire between publishing and disarming?
          MaxCalls     \* bound: calls per thread

ASSUME OnceAssumption ==
  /\ LatePanics \in BOOLEAN
  /\ MaxCalls \in Nat

VARIABLES
  state,   \* Once.state
  pc,      \* where each thread is in its call
  op,      \* the operation each thread called
  seen,    \* the word call_once_force loaded
  calls,   \* calls each thread has made
  succ,    \* history: how often f has run to a successful end
  overruns \* history: claims taken or poisoned from outside

onceVars == <<state, pc, op, seen, calls, succ, overruns>>

INCOMPLETE == 0
RUNNING    == 1
COMPLETE   == 2
POISONED   == 3

(* Labels at which a thread is between its claim and the release of it.      *)
Claimed == {"run", "publish", "reset", "unwind"}
PC == Claimed \cup {"idle", "cas", "force_load", "force_cas", "spin",
                    "disarm", "late", "done", "panicked"}
Ops == {"call_once", "try_call_once", "call_once_force"}

TypeOK ==
  /\ state \in {INCOMPLETE, RUNNING, COMPLETE, POISONED}
  /\ pc \in [Threads -> PC]
  /\ op \in [Threads -> Ops]
  /\ seen \in [Threads -> {INCOMPLETE, RUNNING, COMPLETE, POISONED}]
  /\ calls \in [Threads -> 0..MaxCalls]
  /\ succ \in Nat
  /\ overruns \in Nat

Init ==
  /\ state = INCOMPLETE
  /\ pc = [t \in Threads |-> "idle"]
  /\ op \in [Threads -> {"call_once"}]
  /\ seen = [t \in Threads |-> INCOMPLETE]
  /\ calls = [t \in Threads |-> 0]
  /\ succ = 0
  /\ overruns = 0

Goto(t, l) == pc' = [pc EXCEPT ![t] = l]

(* Where the loop of an operation begins.                                    *)
LoopHead(o) == IF o = "call_once_force" THEN "force_load" ELSE "cas"

-----------------------------------------------------------------------------
(* A call begins with the fast path: a load that finds COMPLETE returns.     *)
Call(t, o) ==
  /\ pc[t] = "idle" /\ calls[t] < MaxCalls
  /\ calls' = [calls EXCEPT ![t] = @ + 1]
  /\ op' = [op EXCEPT ![t] = o]
  /\ Goto(t, IF state = COMPLETE THEN "done" ELSE LoopHead(o))
  /\ UNCHANGED <<state, seen, succ, overruns>>

(* What compare_exchange(INCOMPLETE, RUNNING) and the match on its answer do *)
(* with the word s: the next label.                                          *)
Answer(s) ==
  CASE s = INCOMPLETE -> "run"
    [] s = COMPLETE   -> "done"
    [] s = POISONED   -> "panicked"
    [] s = RUNNING    -> "spin"

(* Mutants: a load and a store in place of the exchange, so that two threads *)
(* may both find INCOMPLETE; and a failed exchange that is taken for "done". *)
ClaimTorn(t) ==
  /\ pc[t] = "cas"
  /\ Goto(t, IF state = RUNNING THEN "run" ELSE Answer(state))
  /\ state' = IF state = INCOMPLETE THEN RUNNING ELSE state
  /\ UNCHANGED <<op, seen, calls, succ, overruns>>

ClaimNoSpin(t) ==
  /\ pc[t] = "cas"
  /\ Goto(t, IF state = RUNNING THEN "done" ELSE Answer(state))
  /\ state' = IF state = INCOMPLETE THEN RUNNING ELSE state
  /\ UNCHANGED <<op, seen, calls, succ, overruns>>

Claim(t) ==
  /\ pc[t] = "cas"
  /\ Goto(t, Answer(state))
  /\ state' = IF state = INCOMPLETE THEN RUNNING ELSE state
  /\ UNCHANGED <<op, seen, calls, succ, overruns>>

(* while state.load() == RUNNING, then around the loop again.                *)
SpinOver(t) ==
  /\ pc[t] = "spin" /\ state # RUNNING
  /\ Goto(t, LoopHead(op[t]))
  /\ UNCHANGED <<state, op, seen, calls, succ, overruns>>

(* call_once_force: the load, and the exchange from whatever it loaded.  An  *)
(* exchange of RUNNING for RUNNING overruns the claim of a running thread.   *)
ForceLoad(t) ==
  /\ pc[t] = "force_load"
  /\ seen' = [seen EXCEPT ![t] = state]
  /\ Goto(t, IF state = COMPLETE THEN "done" ELSE "force_cas")
  /\ UNCHANGED <<state, op, calls, succ, overruns>>

ForceCas(t) ==
  /\ pc[t] = "force_cas"
  /\ IF state = seen[t]
     THEN /\ state' = RUNNING /\ Goto(t, "run")
          /\ overruns' = IF state = RUNNING THEN overruns + 1 ELSE overruns
     ELSE /\ Goto(t, CASE state = COMPLETE -> "done"
                       [] state = RUNNING  -> "spin"
                       [] OTHER            -> "force_load")
          /\ UNCHANGED <<state, overruns>>
  /\ UNCHANGED <<op, seen, calls, succ>>

-----------------------------------------------------------------------------
(* f() returns, fails or panics.                                             *)
RunF(t) ==
  /\ pc[t] = "run"
  /\ \/ Goto(t, "publish")
     \/ op[t] = "try_call_once" /\ Goto(t, "reset")
     \/ Goto(t, "unwind")
  /\ UNCHANGED <<state, op, seen, calls, succ, overruns>>

Publish(t) ==
  /\ pc[t] = "publish"
  /\ state' = COMPLETE
  /\ succ' = succ + 1
  /\ Goto(t, "disarm")
  /\ UNCHANGED <<op, seen, calls, overruns>>

Reset(t) ==
  /\ pc[t] = "reset"
  /\ state' = INCOMPLETE
  /\ Goto(t, "disarm")
  /\ UNCHANGED <<op, seen, calls, succ, overruns>>

(* guard.completed = true and the return; or, in the window that the comment *)
(* on OnceGuard.drop describes, a panic with the guard still armed.          *)
Disarm(t) ==
  /\ pc[t] = "disarm"
  /\ \/ Goto(t, "done")
     \/ LatePanics /\ Goto(t, "late")
  /\ UNCHANGED <<state, op, seen, calls, succ, overruns>>

(* Mutants: the unconditional store the code used to have, and no store.     *)
GuardDropStores(t) ==
  /\ pc[t] \in {"unwind", "late"}
  /\ state' = POISONED
  /\ Goto(t, "panicked")
  /\ UNCHANGED <<op, seen, calls, succ, overruns>>

GuardDropForgets(t) ==
  /\ pc[t] \in {"unwind", "late"}
  /\ Goto(t, "panicked")
  /\ UNCHANGED <<state, op, seen, calls, succ, overruns>>

(* OnceGuard.drop with completed = false: RUNNING becomes POISONED.  A guard *)
(* that fires late and still finds RUNNING overruns a claim not its own.     *)
GuardDrop(t) ==
  /\ pc[t] \in {"unwind", "late"}
  /\ state' = IF state = RUNNING THEN POISONED ELSE state
  /\ overruns' = IF pc[t] = "late" /\ state = RUNNING THEN overruns + 1
                 ELSE overruns
  /\ Goto(t, "panicked")
  /\ UNCHANGED <<op, seen, calls, succ>>

(* The call is over, by a return or by a panic the caller has caught.        *)
Finish(t) ==
  /\ pc[t] \in {"done", "panicked"}
  /\ Goto(t, "idle")
  /\ UNCHANGED <<state, op, seen, calls, succ, overruns>>

-----------------------------------------------------------------------------
OnceStep(t) ==
  \/ Claim(t) \/ SpinOver(t) \/ ForceLoad(t) \/ ForceCas(t)
  \/ RunF(t) \/ Publish(t) \/ Reset(t) \/ Disarm(t) \/ GuardDrop(t)
  \/ Finish(t)

Next == \E t \in Threads : (\E o \in Ops : Call(t, o)) \/ OnceStep(t)

Spec == Init /\ [][Next]_onceVars

(* Threads run, and f ends one way or another.                               *)
FairSpec == Spec /\ \A t \in Threads : WF_onceVars(OnceStep(t))

-----------------------------------------------------------------------------
(* As long as no claim has been overrun, f is never run by two threads at a  *)
(* time, and once it has been run to a successful end nobody runs it again:  *)
(* what the exchange of the word is for, with f failing and panicking at     *)
(* will, callers of all three operations and guards that may fire late.      *)
OneRunner ==
  overruns = 0 =>
    /\ \A t, u \in Threads : pc[t] \in Claimed /\ pc[u] \in Claimed => t = u
    /\ succ > 0 => \A t \in Threads : pc[t] \notin Claimed

(* COMPLETE is final: no late guard, no second runner takes it back          *)
(* (once.vr:98, "SILENTLY OVERWRITES a successful COMPLETE with POISONED").  *)
CompleteIsFinal ==
  [][state = COMPLETE /\ overruns = 0 => state' = COMPLETE]_onceVars

(* Nobody spins on an orphan: a word that is RUNNING has a thread that will  *)
(* publish, surrender or poison it, overruns or not.  It is what the guard   *)
(* is for (once.vr:98), and the callers that spin in the loops rely on it.   *)
RunningHasRunner == state = RUNNING => \E t \in Threads : pc[t] \in Claimed

(* Who returns normally finds the initialisation done.                       *)
ReturnsInitialised ==
  overruns = 0 =>
    \A t \in Threads :
      pc[t] = "done" /\ op[t] # "try_call_once" => state = COMPLETE /\ succ > 0
=============================================================================
