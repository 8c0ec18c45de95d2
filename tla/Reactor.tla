------------------------------ MODULE Reactor -------------------------------
(***************************************************************************)
(* The readiness reactor of crates/verum_vbc/src/interpreter/reactor.rs,   *)
(* with its epoll backend: wait(fd, kind, timeout) takes a slot from the   *)
(* arena, arms it, files it under its key, registers a one-shot interest   *)
(* and parks; the background thread harvests events, takes the slot filed  *)
(* under the key of each and fires it.  All descriptors are of one shard,  *)
(* so they share a free list.  Every lock region, exchange and system call *)
(* is a step.                                                              *)
(***************************************************************************)
EXTENDS Integers, Sequences, SequencesExt, FiniteSets

CONSTANTS Threads,
          Keys,       \* pairs of a descriptor and a kind of readiness
          NoSlot,     \* "no waiter under this key"
          MaxCalls    \* bound: calls of wait altogether

ASSUME ReactorAssumption ==
  /\ IsFiniteSet(Threads) /\ MaxCalls \in Nat
  /\ Keys # {}
  /\ \A k \in Keys : k = <<k[1], k[2]>> /\ k[2] \notin {"absent", "off"}
  /\ NoSlot \notin Nat

Fds   == {k[1] : k \in Keys}
Kinds == {k[2] : k \in Keys}
NoKey == CHOOSE k \in Keys : TRUE
Slots == 1 .. Cardinality(Threads)      \* each call holds one

VARIABLES
  waiters,          \* Shard: the slot filed under each key
  freed,            \* Shard: indices to reuse, a stack
  arena,            \* slots that exist
  state, notified,  \* Slot: SLOT_IDLE, SLOT_ARMED or SLOT_FIRED, and the flag
  healthy,          \* "yes" until the background thread gives up
  interest,         \* kernel: what epoll reports of a descriptor, "off" after
                    \* a report, "absent" when the table does not hold it
  bg, batch, shot,  \* background thread: where it is, the events it still has
                    \* to dispatch, the slot it has taken
  pc, key, slot,    \* each thread: where it is in wait, for what, with what
  outcome, calls,
  hit,              \* history: threads whose slot was fired in this call
  alone,            \* history: threads whose descriptor nobody else used
  reported          \* history: keys the kernel has reported so far

shardVars  == <<waiters, freed, arena>>
slotVars   == <<state, notified>>
bgVars     == <<bg, batch, shot>>
callVars   == <<key, slot, calls>>
history    == <<hit, alone, reported>>
vars == <<shardVars, slotVars, healthy, interest, bgVars, pc, callVars, outcome, history>>

PC == {"idle", "healthy", "alloc", "arm", "install", "mod", "add", "undo",
       "undo_idle", "park", "late", "uninstall", "deregister", "release"}

Using(t)   == pc[t] # "idle"
Holding(t) == pc[t] \notin {"idle", "healthy", "alloc"}

TypeOK ==
  /\ waiters \in [Keys -> Slots \cup {NoSlot}] /\ freed \in Seq(Slots)
  /\ arena \in 0 .. Cardinality(Threads)
  /\ state \in [Slots -> {"idle", "armed", "fired"}]
  /\ notified \in [Slots -> {"no", "yes"}] /\ healthy \in {"yes", "no"}
  /\ interest \in [Fds -> Kinds \cup {"absent", "off"}]
  /\ bg \in {"wait", "dispatch", "fire", "notify", "dead"}
  /\ batch \subseteq Keys /\ shot \in Slots \cup {NoSlot}
  /\ pc \in [Threads -> PC] /\ key \in [Threads -> Keys]
  /\ slot \in [Threads -> Slots \cup {NoSlot}]
  /\ outcome \in [Threads -> {"none", "Ready", "TimedOut", "Error"}]
  /\ calls \in 0..MaxCalls
  /\ hit \subseteq Threads /\ alone \subseteq Threads /\ reported \subseteq Keys

Init ==
  /\ waiters = [k \in Keys |-> NoSlot] /\ freed = <<>> /\ arena = 0
  /\ state = [s \in Slots |-> "idle"] /\ notified = [s \in Slots |-> "no"]
  /\ healthy = "yes" /\ interest = [f \in Fds |-> "absent"]
  /\ bg = "wait" /\ batch = {} /\ shot = NoSlot
  /\ pc = [t \in Threads |-> "idle"] /\ key = [t \in Threads |-> NoKey]
  /\ slot = [t \in Threads |-> NoSlot] /\ outcome = [t \in Threads |-> "none"]
  /\ calls = 0
  /\ hit = {} /\ alone = {} /\ reported = {}

Goto(t, l) == pc' = [pc EXCEPT ![t] = l]
Decide(t, o) == outcome' = [outcome EXCEPT ![t] = o]

(* Back to the caller, who has the answer: what the call kept is gone.       *)
Return(t) ==
  /\ Goto(t, "idle")
  /\ key' = [key EXCEPT ![t] = NoKey] /\ slot' = [slot EXCEPT ![t] = NoSlot]
  /\ outcome' = [outcome EXCEPT ![t] = "none"]
  /\ hit' = hit \ {t} /\ alone' = alone \ {t}
  /\ UNCHANGED <<calls, reported>>

-----------------------------------------------------------------------------
(* wait(fd, kind, timeout) with a timeout above zero                         *)
Wait(t) ==
  /\ pc[t] = "idle" /\ calls < MaxCalls
  /\ \E k \in Keys :
       LET others == {u \in Threads \ {t} : Using(u) /\ key[u][1] = k[1]} IN
       /\ key' = [key EXCEPT ![t] = k]
       /\ alone' = (alone \ others) \cup (IF others = {} THEN {t} ELSE {})
  /\ calls' = calls + 1
  /\ Goto(t, "healthy")
  /\ UNCHANGED <<shardVars, slotVars, healthy, interest, bgVars, slot, outcome, hit, reported>>

CheckHealthy(t) ==
  /\ pc[t] = "healthy"
  /\ IF healthy = "yes" THEN Goto(t, "alloc") /\ UNCHANGED <<callVars, outcome, history>>
                        ELSE Return(t)
  /\ UNCHANGED <<shardVars, slotVars, healthy, interest, bgVars>>

(* A slot of the free list, reset to idle, or a new one at the end.          *)
AllocateSlot(t) ==
  /\ pc[t] = "alloc"
  /\ IF freed # <<>>
     THEN /\ slot' = [slot EXCEPT ![t] = Last(freed)]
          /\ freed' = Front(freed) /\ UNCHANGED arena
     ELSE /\ slot' = [slot EXCEPT ![t] = arena + 1]
          /\ arena' = arena + 1 /\ UNCHANGED freed
  /\ state' = [state EXCEPT ![slot'[t]] = "idle"]
  /\ Goto(t, "arm")
  /\ UNCHANGED <<waiters, notified, healthy, interest, bgVars, key, calls, outcome, history>>

Arm(t) ==
  /\ pc[t] = "arm"
  /\ notified' = [notified EXCEPT ![slot[t]] = "no"]
  /\ state' = [state EXCEPT ![slot[t]] = "armed"]
  /\ Goto(t, "install")
  /\ UNCHANGED <<shardVars, healthy, interest, bgVars, callVars, outcome, history>>

InstallWaiter(t) ==
  /\ pc[t] = "install"
  /\ waiters' = [waiters EXCEPT ![key[t]] = slot[t]]
  /\ Goto(t, "mod")
  /\ UNCHANGED <<freed, arena, slotVars, healthy, interest, bgVars, callVars, outcome, history>>

(* register: EPOLL_CTL_MOD first, which fails for a descriptor that is not   *)
(* in the table, then EPOLL_CTL_ADD, which fails for one that is or that     *)
(* cannot be polled.                                                         *)
Interested(t) == interest' = [interest EXCEPT ![key[t][1]] = key[t][2]]

(* Mutant: nothing but EPOLL_CTL_ADD, and "already there" taken for success. *)
RegisterModSkips(t) ==
  /\ pc[t] = "mod"
  /\ Goto(t, IF interest[key[t][1]] # "absent" THEN "park" ELSE "add")
  /\ UNCHANGED <<shardVars, slotVars, healthy, interest, bgVars, callVars, outcome, history>>

RegisterMod(t) ==
  /\ pc[t] = "mod"
  /\ IF interest[key[t][1]] # "absent" THEN Interested(t) /\ Goto(t, "park")
                                       ELSE Goto(t, "add") /\ UNCHANGED interest
  /\ UNCHANGED <<shardVars, slotVars, healthy, bgVars, callVars, outcome, history>>

RegisterAdd(t) ==
  /\ pc[t] = "add"
  /\ \/ interest[key[t][1]] = "absent" /\ Interested(t) /\ Goto(t, "park")
     \/ Goto(t, "undo") /\ UNCHANGED interest
  /\ UNCHANGED <<shardVars, slotVars, healthy, bgVars, callVars, outcome, history>>

Unfiled(t) ==
  IF waiters[key[t]] = slot[t] THEN [waiters EXCEPT ![key[t]] = NoSlot] ELSE waiters

(* Registration failed: uninstall, idle, release.                            *)
UndoInstall(t) ==
  /\ pc[t] = "undo"
  /\ waiters' = Unfiled(t)
  /\ Goto(t, "undo_idle")
  /\ UNCHANGED <<freed, arena, slotVars, healthy, interest, bgVars, callVars, outcome, history>>

(* Mutant: the error path returns without giving the slot back.              *)
UndoIdleLeaks(t) ==
  /\ pc[t] = "undo_idle"
  /\ state' = [state EXCEPT ![slot[t]] = IF @ = "armed" THEN "idle" ELSE @]
  /\ Return(t)
  /\ UNCHANGED <<shardVars, notified, healthy, interest, bgVars>>

UndoIdle(t) ==
  /\ pc[t] = "undo_idle"
  /\ state' = [state EXCEPT ![slot[t]] = IF @ = "armed" THEN "idle" ELSE @]
  /\ Decide(t, "Error") /\ Goto(t, "release")
  /\ UNCHANGED <<shardVars, notified, healthy, interest, bgVars, callVars, history>>

(* park_until: the flag, or the deadline with the flag still down.           *)
Park(t) ==
  /\ pc[t] = "park"
  /\ IF notified[slot[t]] = "yes" THEN Decide(t, "Ready") /\ Goto(t, "release")
                                  ELSE Goto(t, "late") /\ UNCHANGED outcome
  /\ UNCHANGED <<shardVars, slotVars, healthy, interest, bgVars, callVars, history>>

(* Mutant: a timeout is a timeout, whatever the slot says by now.            *)
IdleBlind(t) ==
  /\ pc[t] = "late"
  /\ state' = [state EXCEPT ![slot[t]] = "idle"]
  /\ Decide(t, "TimedOut") /\ Goto(t, "uninstall")
  /\ UNCHANGED <<shardVars, notified, healthy, interest, bgVars, callVars, history>>

(* slot.idle(): armed becomes idle, or the background thread was faster.     *)
Idle(t) ==
  /\ pc[t] = "late"
  /\ IF state[slot[t]] = "armed"
     THEN state' = [state EXCEPT ![slot[t]] = "idle"]
            /\ Decide(t, "TimedOut") /\ Goto(t, "uninstall")
     ELSE Decide(t, "Ready") /\ Goto(t, "release") /\ UNCHANGED state
  /\ UNCHANGED <<shardVars, notified, healthy, interest, bgVars, callVars, history>>

UninstallWaiter(t) ==
  /\ pc[t] = "uninstall"
  /\ waiters' = Unfiled(t)
  /\ Goto(t, "deregister")
  /\ UNCHANGED <<freed, arena, slotVars, healthy, interest, bgVars, callVars, outcome, history>>

(* EPOLL_CTL_DEL knows the descriptor only, not the kind.                    *)
Deregister(t) ==
  /\ pc[t] = "deregister"
  /\ interest' = [interest EXCEPT ![key[t][1]] = "absent"]
  /\ Goto(t, "release")
  /\ UNCHANGED <<shardVars, slotVars, healthy, bgVars, callVars, outcome, history>>

ReleaseSlot(t) ==
  /\ pc[t] = "release"
  /\ freed' = Append(freed, slot[t])
  /\ Return(t)
  /\ UNCHANGED <<waiters, arena, slotVars, healthy, interest, bgVars>>

-----------------------------------------------------------------------------
(* bg_loop.  Any descriptor with an interest may have become ready: epoll    *)
(* reports a batch of them and switches each off (EPOLLONESHOT).             *)
Harvest ==
  /\ bg = "wait"
  /\ \E F \in SUBSET {f \in Fds : interest[f] \in Kinds} \ {{}} :
       /\ batch' = {<<f, interest[f]>> : f \in F}
       /\ interest' = [f \in Fds |-> IF f \in F THEN "off" ELSE interest[f]]
  /\ reported' = reported \cup batch'
  /\ bg' = "dispatch"
  /\ UNCHANGED <<shardVars, slotVars, healthy, shot, pc, callVars, outcome, hit, alone>>

(* epoll_wait fails for good.                                                *)
BgFails ==
  /\ bg = "wait" /\ bg' = "dead" /\ healthy' = "no"
  /\ UNCHANGED <<shardVars, slotVars, interest, batch, shot, pc, callVars, outcome, history>>

TakeWaiter ==
  /\ bg = "dispatch" /\ batch # {}
  /\ \E k \in batch :
       /\ batch' = batch \ {k}
       /\ shot' = waiters[k]
       /\ waiters' = [waiters EXCEPT ![k] = NoSlot]
       /\ bg' = IF waiters[k] = NoSlot THEN "dispatch" ELSE "fire"
  /\ UNCHANGED <<freed, arena, slotVars, healthy, interest, pc, callVars, outcome, history>>

Harvested ==
  /\ bg = "dispatch" /\ batch = {} /\ bg' = "wait"
  /\ UNCHANGED <<shardVars, slotVars, healthy, interest, batch, shot, pc, callVars,
                 outcome, history>>

(* fire(): the exchange, and if it was armed the flag under its mutex.       *)
Fire ==
  /\ bg = "fire"
  /\ IF state[shot] = "armed"
     THEN /\ state' = [state EXCEPT ![shot] = "fired"] /\ bg' = "notify"
          /\ hit' = hit \cup {t \in Threads : Holding(t) /\ slot[t] = shot}
          /\ UNCHANGED shot
     ELSE bg' = "dispatch" /\ shot' = NoSlot /\ UNCHANGED <<state, hit>>
  /\ UNCHANGED <<shardVars, notified, healthy, interest, batch, pc, callVars, outcome,
                 alone, reported>>

Notify ==
  /\ bg = "notify"
  /\ notified' = [notified EXCEPT ![shot] = "yes"]
  /\ bg' = "dispatch" /\ shot' = NoSlot
  /\ UNCHANGED <<shardVars, state, healthy, interest, batch, pc, callVars, outcome, history>>

-----------------------------------------------------------------------------
InCall(t) ==
  \/ CheckHealthy(t) \/ AllocateSlot(t) \/ Arm(t) \/ InstallWaiter(t)
  \/ RegisterMod(t) \/ RegisterAdd(t) \/ UndoInstall(t) \/ UndoIdle(t)
  \/ Park(t) \/ Idle(t) \/ UninstallWaiter(t) \/ Deregister(t) \/ ReleaseSlot(t)

Background == Harvest \/ BgFails \/ TakeWaiter \/ Harvested \/ Fire \/ Notify

Next == (\E t \in Threads : Wait(t) \/ InCall(t)) \/ Background

Spec == Init /\ [][Next]_vars

-----------------------------------------------------------------------------
(* A slot belongs to one call or to the free list, never to both or to       *)
(* neither, on the error path and after a lost race too: two calls on one    *)
(* slot would share an answer, a leaked one grows the arena for good.        *)
SlotsOwned ==
  /\ IsInjective(freed)
  /\ \A t \in Threads : Holding(t) =>
       slot[t] \notin ToSet(freed) /\ \A u \in Threads \ {t} : slot[u] # slot[t]
  /\ ToSet(freed) \cup {slot[t] : t \in {u \in Threads : Holding(u)}} = 1 .. arena

(* An event that fired the slot of a call is not lost when the deadline of   *)
(* the call passes at the same moment: "the caller should treat this as      *)
(* Ready, not TimedOut" (reactor.rs:210).                                    *)
DeliveredIsReady == \A t \in hit : outcome[t] # "TimedOut"

(* A call that has its descriptor to itself does not sleep through an event: *)
(* while it is parked the kernel holds an armed interest for its key and the *)
(* map leads back to its slot, or the event is already on its way to it.     *)
LoneWaiterCovered ==
  \A t \in alone : (pc[t] = "park" /\ bg # "dead") =>
    \/ notified[slot[t]] = "yes"
    \/ bg \in {"fire", "notify"} /\ shot = slot[t]
    \/ /\ waiters[key[t]] = slot[t]
       /\ interest[key[t][1]] = key[t][2] \/ key[t] \in batch

(* "The kernel reported the fd is ready for the requested op"                *)
(* (reactor.rs:105): a call answers Ready only if an event for its           *)
(* descriptor and kind has ever been reported.                               *)
ReadyMeansReported ==
  \A t \in Threads : outcome[t] = "Ready" => key[t] \in reported
=============================================================================
