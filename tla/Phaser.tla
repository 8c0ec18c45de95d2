------------------------------- MODULE Phaser -------------------------------
(***************************************************************************)
(* Phaser of core/sync/barrier.vr: parties, arrived, phase and a           *)
(* terminated bit packed into one atomic integer, advanced by a            *)
(* compare_exchange loop, and a condition variable for those who wait.     *)
(* register() and arrive_and_deregister() hold the mutex, the first half   *)
(* of arrive_and_await() and terminate() do not.                           *)
(***************************************************************************)
EXTENDS Condvar

CONSTANTS FieldSize,   \* parties and arrived are below it: 2^16 in the code
          PhaseSize,   \* phases are counted modulo it: 2^30 in the code
          Members0,    \* the threads counted by Phaser.new
          Operations,  \* the operations callers use
          MaxCalls     \* bound: calls per thread

ASSUME PhaserAssumption ==
  /\ FieldSize \in Nat /\ PhaseSize \in Nat \ {0, 1}
  /\ Members0 \subseteq Threads
  /\ Cardinality(Threads) < FieldSize
  /\ MaxCalls \in Nat

VARIABLES
  state,     \* the packed atomic
  pc,        \* where each thread is in its call
  phase,     \* the phase a thread arrived in
  cur,       \* the value its advance loop loaded
  calls,     \* calls each thread has made
  members,   \* history: threads that are registered
  here,      \* history: registered threads that arrived in this phase
  changed    \* history: has a party come or gone in this phase?

phaserVars == <<state, pc, phase, cur, calls, members, here, changed>>
vars == <<cvVars, phaserVars>>

-----------------------------------------------------------------------------
(* The fields of the packed integer.                                         *)
ARRIVED_ONE    == FieldSize
PHASE_ONE      == FieldSize * FieldSize
TERMINATED_BIT == PHASE_ONE * PhaseSize

Parties(s)      == s % FieldSize
Arrived(s)      == (s \div ARRIVED_ONE) % FieldSize
PhaseOf(s)      == (s \div PHASE_ONE) % PhaseSize
IsTerminated(s) == s >= TERMINATED_BIT

(* Mutant: the arrivals of the old phase are kept.                           *)
AdvancedKeepsArrived(s, p) ==
  ((p + 1) % PhaseSize) * PHASE_ONE + (s % PHASE_ONE)
    + (IF IsTerminated(s) THEN TERMINATED_BIT ELSE 0)

(* What the last arrival of phase p stores in place of s.                    *)
Advanced(s, p) ==
  ((p + 1) % PhaseSize) * PHASE_ONE + Parties(s)
    + (IF IsTerminated(s) THEN TERMINATED_BIT ELSE 0)

-----------------------------------------------------------------------------
PC == {"idle", "reg_lock", "reg_add", "dereg_lock", "dereg_add", "unlock",
       "adv_load", "adv_cas", "dadv_load", "dadv_cas", "notify", "dnotify",
       "lock", "loop"}

TypeOK ==
  /\ CvTypeOK
  /\ state \in 0 .. 2 * TERMINATED_BIT - 1
  /\ pc \in [Threads -> PC]
  /\ phase \in [Threads -> 0 .. PhaseSize - 1]
  /\ cur \in [Threads -> Nat]
  /\ calls \in [Threads -> 0..MaxCalls]
  /\ members \subseteq Threads /\ here \subseteq members
  /\ changed \in BOOLEAN

Init ==
  /\ CvInit
  /\ state = Cardinality(Members0)
  /\ pc = [t \in Threads |-> "idle"]
  /\ phase = [t \in Threads |-> 0]
  /\ cur = [t \in Threads |-> 0]
  /\ calls = [t \in Threads |-> 0]
  /\ members = Members0 /\ here = {} /\ changed = FALSE

Goto(t, l) == pc' = [pc EXCEPT ![t] = l]

(* A thread makes a call of its own free will.                               *)
Call(t, op) ==
  /\ op \in Operations
  /\ pc[t] = "idle" /\ cv[t] = "out" /\ calls[t] < MaxCalls
  /\ calls' = [calls EXCEPT ![t] = @ + 1]

-----------------------------------------------------------------------------
(* register(), by a thread that is not a party yet.                          *)
Register(t) ==
  /\ t \notin members
  /\ Call(t, "register")
  /\ Goto(t, "reg_lock")
  /\ UNCHANGED <<cvVars, state, phase, cur, members, here, changed>>

TakeMutex(t) ==
  /\ \/ pc[t] = "reg_lock" /\ Goto(t, "reg_add")
     \/ pc[t] = "dereg_lock" /\ Goto(t, "dereg_add")
     \/ pc[t] = "lock" /\ Goto(t, "loop")
  /\ Lock(t)
  /\ UNCHANGED <<state, phase, cur, calls, members, here, changed>>

RegisterAdd(t) ==
  /\ pc[t] = "reg_add"
  /\ state' = state + 1
  /\ members' = members \cup {t} /\ changed' = TRUE
  /\ Goto(t, "unlock")
  /\ UNCHANGED <<cvVars, phase, cur, calls, here>>

DropMutex(t) ==
  /\ pc[t] = "unlock"
  /\ Unlock(t)
  /\ Goto(t, "idle")
  /\ UNCHANGED <<state, phase, cur, calls, members, here, changed>>

-----------------------------------------------------------------------------
(* arrive_and_await() by a party: fetch_add(1 << ARRIVED_SHIFT).             *)
ArriveAndAwait(t) ==
  /\ t \in members
  /\ Call(t, "await")
  /\ state' = state + ARRIVED_ONE
  /\ phase' = [phase EXCEPT ![t] = PhaseOf(state)]
  /\ here' = here \cup {t}
  /\ Goto(t, IF Arrived(state) + 1 = Parties(state) THEN "adv_load" ELSE "lock")
  /\ UNCHANGED <<cvVars, cur, members, changed>>

(* arrive_and_deregister() by a party: one arrival more, one party less, in  *)
(* one addition.  The comparison uses the parties before the decrement.      *)
ArriveAndDeregister(t) ==
  /\ t \in members
  /\ Call(t, "deregister")
  /\ Goto(t, "dereg_lock")
  /\ UNCHANGED <<cvVars, state, phase, cur, members, here, changed>>

DeregisterAdd(t) ==
  /\ pc[t] = "dereg_add"
  /\ state' = state + (ARRIVED_ONE - 1)
  /\ phase' = [phase EXCEPT ![t] = PhaseOf(state)]
  /\ members' = members \ {t} /\ here' = here \ {t} /\ changed' = TRUE
  /\ Goto(t, IF Arrived(state) + 1 = Parties(state) THEN "dadv_load" ELSE "unlock")
  /\ UNCHANGED <<cvVars, cur, calls>>

(* The loop of the last arrival: load, give up if the phase has moved, else  *)
(* exchange.  The labels with a d are those of arrive_and_deregister.        *)
AdvanceLoad(t) ==
  /\ cur' = [cur EXCEPT ![t] = state]
  /\ \/ pc[t] = "adv_load"
        /\ Goto(t, IF PhaseOf(state) # phase[t] THEN "notify" ELSE "adv_cas")
     \/ pc[t] = "dadv_load"
        /\ Goto(t, IF PhaseOf(state) # phase[t] THEN "dnotify" ELSE "dadv_cas")
  /\ UNCHANGED <<cvVars, state, phase, calls, members, here, changed>>

(* Mutant: the plain store that the exchange replaced.                       *)
AdvanceStores(t) ==
  /\ \/ pc[t] = "adv_cas" /\ Goto(t, "notify")
     \/ pc[t] = "dadv_cas" /\ Goto(t, "dnotify")
  /\ state' = Advanced(cur[t], phase[t])
  /\ here' = {} /\ changed' = FALSE
  /\ UNCHANGED <<cvVars, phase, cur, calls, members>>

AdvanceCas(t) ==
  /\ IF state = cur[t]
     THEN /\ \/ pc[t] = "adv_cas" /\ Goto(t, "notify")
             \/ pc[t] = "dadv_cas" /\ Goto(t, "dnotify")
          /\ state' = Advanced(cur[t], phase[t])
          /\ here' = {} /\ changed' = FALSE
     ELSE /\ \/ pc[t] = "adv_cas" /\ Goto(t, "adv_load")
             \/ pc[t] = "dadv_cas" /\ Goto(t, "dadv_load")
          /\ UNCHANGED <<state, here, changed>>
  /\ UNCHANGED <<cvVars, phase, cur, calls, members>>

NotifyAdvance(t) ==
  /\ \/ pc[t] = "notify" /\ Goto(t, "idle")
     \/ pc[t] = "dnotify" /\ Goto(t, "unlock")
  /\ NotifyAll(t)
  /\ UNCHANGED <<state, phase, cur, calls, members, here, changed>>

(* while get_phase() == phase: wait, else return.                            *)
WaitPhase(t) ==
  /\ pc[t] = "loop" /\ cv[t] = "out" /\ owner = t
  /\ IF PhaseOf(state) = phase[t]
     THEN Wait(t, FALSE) /\ UNCHANGED pc
     ELSE Goto(t, "unlock") /\ UNCHANGED cvVars
  /\ UNCHANGED <<state, phase, cur, calls, members, here, changed>>

Terminate(t) ==
  /\ Call(t, "terminate")
  /\ state' = IF IsTerminated(state) THEN state ELSE state + TERMINATED_BIT
  /\ Goto(t, "notify")
  /\ UNCHANGED <<cvVars, phase, cur, members, here, changed>>

-----------------------------------------------------------------------------
CvAlone(t) == CvStep(t) /\ UNCHANGED phaserVars

Next == \E t \in Threads :
          \/ Register(t) \/ TakeMutex(t) \/ RegisterAdd(t) \/ DropMutex(t)
          \/ ArriveAndAwait(t) \/ ArriveAndDeregister(t) \/ DeregisterAdd(t)
          \/ AdvanceLoad(t) \/ AdvanceCas(t) \/ NotifyAdvance(t)
          \/ WaitPhase(t) \/ Terminate(t) \/ CvAlone(t)

Spec == Init /\ [][Next]_vars

-----------------------------------------------------------------------------
(* The packed count is the number of registered threads, whatever register() *)
(* and arrive_and_deregister() do between the arrival of the last thread and *)
(* its exchange: "concurrent registrations are preserved" (barrier.vr:343).  *)
PartiesExact == Parties(state) = Cardinality(members)

(* A terminated phaser stays terminated (barrier.vr:284 names the bug).      *)
StaysTerminated == IsTerminated(state) => IsTerminated(state')

(* A phase in which no party comes or goes ends only when every registered   *)
(* thread has arrived in it, and then by one: arrive_and_await() is "Arrive  *)
(* at the barrier && wait for others" (barrier.vr:329).                      *)
AdvancesWithAll ==
  PhaseOf(state') # PhaseOf(state) =>
    /\ PhaseOf(state') = (PhaseOf(state) + 1) % PhaseSize
    /\ ~changed => members \subseteq here
=============================================================================
