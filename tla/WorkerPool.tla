----------------------------- MODULE WorkerPool -----------------------------
(***************************************************************************)
(* WorkerPool of crates/verum_vbc/src/interpreter/worker_pool.rs: worker   *)
(* threads with a deque each, popped at the back by their owner and at the *)
(* front by a thief; submit(), submit_to(), wait_idle() and shutdown() are *)
(* called by other threads.  A notification is sent without the mutex of   *)
(* the condition variable, so it reaches a worker that is parked and       *)
(* nobody else; a parked worker also wakes after 50 ms.                    *)
(***************************************************************************)
EXTENDS Integers, Sequences, SequencesExt, FiniteSets

CONSTANTS N,          \* n_workers
          Clients,    \* threads that call the pool: those that submit work and
          Submitters, Managers,   \* those that wait for it or shut the pool down
          MaxCalls,   \* bound: calls per client
          MaxPanics   \* bound: work items that panic

ASSUME WorkerPoolAssumption ==
  /\ N \in Nat \ {0}        \* n.max(1)
  /\ Submitters \subseteq Clients /\ Managers \subseteq Clients
  /\ MaxCalls \in Nat /\ MaxPanics \in Nat

Workers == 0 .. N - 1
Items   == Submitters \X (1 .. MaxCalls)
NoItem  == <<>>

VARIABLES
  local,         \* the deque of each worker
  next_submit,   \* round-robin counter, modulo N
  shutdown,      \* the flag: "off" or "on"
  idle_count,    \* workers that announced themselves idle
  wpc, hand,     \* where each worker is, and the item it runs
  offset,        \* its position in the steal loop
  cpc, calls,    \* where each client is, and the calls it has made
  target,        \* the worker a submit call picked
  seen,          \* wait_idle: the queue to look at next
  answer,        \* what the last call of a client returned
  done,          \* history: items whose closure was called and ended
  early,         \* history: items queued while the flag was off
  atCall         \* history: items in a worker's hands when the call began

poolVars   == <<local, next_submit, shutdown, idle_count>>
workerVars == <<wpc, hand, offset>>
clientVars == <<cpc, calls, target, seen, answer>>
history    == <<done, early, atCall>>
vars == <<poolVars, workerVars, clientVars, history>>

WorkerPC == {"pop", "steal", "run", "check", "drain", "drain_run", "idle_inc",
             "recheck", "flag", "nap", "parked", "idle_dec", "exit", "dead"}
ClientPC == {"free", "pick", "push", "notify", "wi_flag", "wi_idle", "wi_pending",
             "swap", "wake", "join"}
Answers  == {"none", "idle", "timeout", "joined"}

TypeOK ==
  /\ local \in [Workers -> Seq(Items)]
  /\ next_submit \in Workers /\ shutdown \in {"off", "on"} /\ idle_count \in Nat
  /\ wpc \in [Workers -> WorkerPC] /\ hand \in [Workers -> Items \cup {NoItem}]
  /\ offset \in [Workers -> 1..N]
  /\ cpc \in [Clients -> ClientPC] /\ calls \in [Clients -> 0..MaxCalls]
  /\ target \in [Clients -> Workers] /\ seen \in [Clients -> Workers]
  /\ answer \in [Clients -> Answers]
  /\ done \subseteq Items /\ early \subseteq Items
  /\ atCall \in [Clients -> SUBSET Items]

Init ==
  /\ local = [w \in Workers |-> <<>>]
  /\ next_submit = 0 /\ shutdown = "off" /\ idle_count = 0
  /\ wpc = [w \in Workers |-> "pop"] /\ hand = [w \in Workers |-> NoItem]
  /\ offset = [w \in Workers |-> 1]
  /\ cpc = [c \in Clients |-> "free"] /\ calls = [c \in Clients |-> 0]
  /\ target = [c \in Clients |-> 0] /\ seen = [c \in Clients |-> 0]
  /\ answer = [c \in Clients |-> "none"]
  /\ done = {} /\ early = {} /\ atCall = [c \in Clients |-> {}]

WGoto(w, l) == wpc' = [wpc EXCEPT ![w] = l]
CGoto(c, l) == cpc' = [cpc EXCEPT ![c] = l]

InHand == {hand[w] : w \in Workers} \ {NoItem}
Gone   == {w \in Workers : wpc[w] = "dead"}

-----------------------------------------------------------------------------
(* WorkerHandle: notify() wakes the worker that is parked, if it is.         *)
Notified(W) == [w \in Workers |-> IF w \in W /\ wpc[w] = "parked" THEN "idle_dec" ELSE wpc[w]]

-----------------------------------------------------------------------------
(* worker_loop                                                               *)
Take(w, v, i, rest) ==
  /\ hand' = [hand EXCEPT ![w] = i]
  /\ local' = [local EXCEPT ![v] = rest]

PopLocal(w) ==
  /\ wpc[w] = "pop"
  /\ IF local[w] # <<>>
     THEN Take(w, w, Last(local[w]), Front(local[w])) /\ WGoto(w, "run")
     ELSE WGoto(w, "steal") /\ UNCHANGED <<local, hand>>
  /\ UNCHANGED <<next_submit, shutdown, idle_count, offset, clientVars, history>>

(* Mutant: the thief looks at the item and leaves it where it is.            *)
StealPeeks(w) ==
  /\ wpc[w] = "steal" /\ offset[w] < N
  /\ LET v == (w + offset[w]) % N IN
     IF local[v] # <<>>
     THEN Take(w, v, Head(local[v]), local[v]) /\ WGoto(w, "run")
            /\ offset' = [offset EXCEPT ![w] = 1]
     ELSE offset' = [offset EXCEPT ![w] = @ + 1] /\ UNCHANGED <<local, hand, wpc>>
  /\ UNCHANGED <<next_submit, shutdown, idle_count, clientVars, history>>

Steal(w) ==
  /\ wpc[w] = "steal" /\ offset[w] < N
  /\ LET v == (w + offset[w]) % N IN
     IF local[v] # <<>>
     THEN Take(w, v, Head(local[v]), Tail(local[v])) /\ WGoto(w, "run")
            /\ offset' = [offset EXCEPT ![w] = 1]
     ELSE offset' = [offset EXCEPT ![w] = @ + 1] /\ UNCHANGED <<local, hand, wpc>>
  /\ UNCHANGED <<next_submit, shutdown, idle_count, clientVars, history>>

NothingToSteal(w) ==
  /\ wpc[w] = "steal" /\ offset[w] = N
  /\ WGoto(w, "check") /\ offset' = [offset EXCEPT ![w] = 1]
  /\ UNCHANGED <<poolVars, hand, clientVars, history>>

(* work() returns; the loop continues where the item was taken.              *)
Finish(w) ==
  /\ wpc[w] \in {"run", "drain_run"}
  /\ done' = done \cup {hand[w]}
  /\ hand' = [hand EXCEPT ![w] = NoItem]
  /\ WGoto(w, IF wpc[w] = "run" THEN "pop" ELSE "drain")
  /\ UNCHANGED <<poolVars, offset, clientVars, early, atCall>>

(* work() panics: nothing catches it, the thread unwinds.                    *)
Panic(w) ==
  /\ wpc[w] \in {"run", "drain_run"} /\ Cardinality(Gone) < MaxPanics
  /\ done' = done \cup {hand[w]}
  /\ hand' = [hand EXCEPT ![w] = NoItem]
  /\ WGoto(w, "dead")
  /\ UNCHANGED <<poolVars, offset, clientVars, early, atCall>>

(* Mutant: the worker leaves without the last look at its queue.             *)
CheckNoDrain(w) ==
  /\ wpc[w] = "check"
  /\ WGoto(w, IF shutdown = "on" THEN "exit" ELSE "idle_inc")
  /\ UNCHANGED <<poolVars, hand, offset, clientVars, history>>

CheckShutdown(w) ==
  /\ wpc[w] = "check"
  /\ WGoto(w, IF shutdown = "on" THEN "drain" ELSE "idle_inc")
  /\ UNCHANGED <<poolVars, hand, offset, clientVars, history>>

Drain(w) ==
  /\ wpc[w] = "drain"
  /\ IF local[w] # <<>>
     THEN Take(w, w, Last(local[w]), Front(local[w])) /\ WGoto(w, "drain_run")
     ELSE WGoto(w, "exit") /\ UNCHANGED <<local, hand>>
  /\ UNCHANGED <<next_submit, shutdown, idle_count, offset, clientVars, history>>

(* fetch_add; the notify_all that follows is for wait_idle, which comes back *)
(* to look by itself when its wait times out.                                *)
AnnounceIdle(w) ==
  /\ wpc[w] = "idle_inc"
  /\ idle_count' = idle_count + 1
  /\ WGoto(w, "recheck")
  /\ UNCHANGED <<local, next_submit, shutdown, hand, offset, clientVars, history>>

(* me.ready_len() == 0 && !shutdown, then wait_timeout: the two loads and    *)
(* the start of the wait are steps of their own.                             *)
Recheck(w) ==
  /\ \/ wpc[w] = "recheck" /\ WGoto(w, IF local[w] = <<>> THEN "flag" ELSE "idle_dec")
     \/ wpc[w] = "flag" /\ WGoto(w, IF shutdown = "off" THEN "nap" ELSE "idle_dec")
     \/ wpc[w] = "nap" /\ WGoto(w, "parked")
  /\ UNCHANGED <<poolVars, hand, offset, clientVars, history>>

(* Mutant: a wait without a timeout.                                         *)
ParkForever(w) == FALSE /\ UNCHANGED vars

(* The 50 ms of wait_timeout, or a spurious wakeup.                          *)
ParkTimeout(w) ==
  /\ wpc[w] = "parked"
  /\ WGoto(w, "idle_dec")
  /\ UNCHANGED <<poolVars, hand, offset, clientVars, history>>

LeaveIdle(w) ==
  /\ wpc[w] = "idle_dec"
  /\ idle_count' = idle_count - 1
  /\ WGoto(w, "pop")
  /\ UNCHANGED <<local, next_submit, shutdown, hand, offset, clientVars, history>>

-----------------------------------------------------------------------------
(* The client's side.                                                        *)
Call(c, l) ==
  /\ cpc[c] = "free" /\ calls[c] < MaxCalls
  /\ calls' = [calls EXCEPT ![c] = @ + 1]
  /\ answer' = [answer EXCEPT ![c] = "none"]
  /\ CGoto(c, l)
  /\ UNCHANGED <<poolVars, workerVars, target, seen, done, early>>

Return(c, a) == CGoto(c, "free") /\ answer' = [answer EXCEPT ![c] = a]

(* submit() and submit_to(v): the flag is read first.                        *)
Submit(c)   == c \in Submitters /\ Call(c, "pick") /\ UNCHANGED atCall
Shutdown(c) == c \in Managers /\ Call(c, "swap") /\ UNCHANGED atCall
WaitIdle(c) == c \in Managers /\ Call(c, "wi_flag")
               /\ atCall' = [atCall EXCEPT ![c] = InHand]

PickTarget(c) ==
  /\ cpc[c] = "pick"
  /\ IF shutdown = "on"
     THEN Return(c, "none") /\ UNCHANGED <<target, next_submit>>
     ELSE /\ CGoto(c, "push") /\ UNCHANGED answer
          /\ \/ /\ target' = [target EXCEPT ![c] = next_submit]          \* submit
                /\ next_submit' = (next_submit + 1) % N
             \/ /\ \E v \in Workers : target' = [target EXCEPT ![c] = v] \* submit_to
                /\ UNCHANGED next_submit
  /\ UNCHANGED <<local, shutdown, idle_count, workerVars, calls, seen, history>>

PushLocal(c) ==
  /\ cpc[c] = "push"
  /\ local' = [local EXCEPT ![target[c]] = Append(@, <<c, calls[c]>>)]
  /\ early' = IF shutdown = "off" THEN early \cup {<<c, calls[c]>>} ELSE early
  /\ CGoto(c, "notify")
  /\ UNCHANGED <<next_submit, shutdown, idle_count, workerVars, calls, target,
                 seen, answer, done, atCall>>

NotifyTarget(c) ==
  /\ cpc[c] = "notify"
  /\ wpc' = Notified({target[c]})
  /\ target' = [target EXCEPT ![c] = 0]
  /\ Return(c, "none")
  /\ UNCHANGED <<poolVars, hand, offset, calls, seen, history>>

(* wait_idle: the flag, the count, then the queues one after the other.  A   *)
(* wait that ends, notified or not, starts over unless the deadline is past. *)
WaitAgain(c) == /\ Return(c, "timeout") \/ (CGoto(c, "wi_flag") /\ UNCHANGED answer)
                /\ seen' = [seen EXCEPT ![c] = 0]

WaitFlag(c) ==
  /\ cpc[c] = "wi_flag"
  /\ IF shutdown = "on" THEN Return(c, "none")
                        ELSE CGoto(c, "wi_idle") /\ UNCHANGED answer
  /\ UNCHANGED <<poolVars, workerVars, calls, target, seen, history>>

(* Mutant: one idle worker is enough.                                        *)
WaitCountAny(c) ==
  /\ cpc[c] = "wi_idle"
  /\ IF idle_count >= 1 THEN CGoto(c, "wi_pending") /\ UNCHANGED <<seen, answer>>
                        ELSE WaitAgain(c)
  /\ UNCHANGED <<poolVars, workerVars, calls, target, history>>

WaitCount(c) ==
  /\ cpc[c] = "wi_idle"
  /\ IF idle_count >= N THEN CGoto(c, "wi_pending") /\ UNCHANGED <<seen, answer>>
                        ELSE WaitAgain(c)
  /\ UNCHANGED <<poolVars, workerVars, calls, target, history>>

WaitPending(c) ==
  /\ cpc[c] = "wi_pending"
  /\ IF local[seen[c]] # <<>> THEN WaitAgain(c)
     ELSE IF seen[c] < N - 1
     THEN seen' = [seen EXCEPT ![c] = @ + 1] /\ UNCHANGED <<answer, cpc>>
     ELSE Return(c, "idle") /\ seen' = [seen EXCEPT ![c] = 0]
  /\ UNCHANGED <<poolVars, workerVars, calls, target, history>>

(* shutdown: the swap, the notifications, the joins.                         *)
SwapFlag(c) ==
  /\ cpc[c] = "swap"
  /\ IF shutdown = "on" THEN Return(c, "none") /\ UNCHANGED shutdown
     ELSE shutdown' = "on" /\ CGoto(c, "wake") /\ UNCHANGED answer
  /\ UNCHANGED <<local, next_submit, idle_count, workerVars, calls, target, seen, history>>

WakeAll(c) ==
  /\ cpc[c] = "wake"
  /\ wpc' = Notified(Workers)
  /\ CGoto(c, "join")
  /\ UNCHANGED <<poolVars, hand, offset, calls, target, seen, answer, history>>

JoinAll(c) ==
  /\ cpc[c] = "join"
  /\ \A w \in Workers : wpc[w] \in {"exit", "dead"}
  /\ Return(c, "joined")
  /\ UNCHANGED <<poolVars, workerVars, calls, target, seen, history>>

-----------------------------------------------------------------------------
WorkerStep(w) ==
  \/ PopLocal(w) \/ Steal(w) \/ NothingToSteal(w) \/ Finish(w) \/ CheckShutdown(w)
  \/ Drain(w) \/ AnnounceIdle(w) \/ Recheck(w) \/ ParkTimeout(w) \/ LeaveIdle(w)

ClientStep(c) ==
  \/ PickTarget(c) \/ PushLocal(c) \/ NotifyTarget(c) \/ WaitFlag(c) \/ WaitCount(c)
  \/ WaitPending(c) \/ SwapFlag(c) \/ WakeAll(c) \/ JoinAll(c)

Next ==
  \/ \E w \in Workers : WorkerStep(w) \/ Panic(w)
  \/ \E c \in Clients : Submit(c) \/ WaitIdle(c) \/ Shutdown(c) \/ ClientStep(c)

(* Threads are scheduled, closures return or panic.                          *)
Fairness ==
  /\ \A w \in Workers : WF_vars(WorkerStep(w))
  /\ \A c \in Clients : WF_vars(ClientStep(c))

Spec == Init /\ [][Next]_vars
FairSpec == Spec /\ Fairness

-----------------------------------------------------------------------------
Queued == UNION {ToSet(local[w]) : w \in Workers}

(* No item is lost or run twice: whatever a submit call queued is in one     *)
(* deque, once, or in the hands of one worker, or has been run, whichever    *)
(* end of the deque it leaves by.                                            *)
WorkConserved ==
  /\ \A w \in Workers : IsInjective(local[w])
  /\ \A w, v \in Workers : w # v =>
       /\ ToSet(local[w]) \cap ToSet(local[v]) = {}
       /\ hand[w] # NoItem => hand[w] # hand[v]
  /\ Queued \cap InHand = {} /\ (Queued \cup InHand) \cap done = {}
  /\ early \subseteq Queued \cup InHand \cup done

(* "Workers drain their local queue on the way out so previously-submitted   *)
(* work always runs" (worker_pool.rs:266): when the shutdown() that joins    *)
(* the workers returns, every item queued before the flag was set has run,   *)
(* however the last looks at the queues, the steals and the swap of the flag *)
(* interleave, unless it waits behind a worker that panicked.                *)
DrainedAtReturn ==
  (\E c \in Clients : answer[c] = "joined") =>
     early \subseteq done \cup UNION {ToSet(local[w]) : w \in Gone}

(* wait_idle() that reports quiescence has waited for every item some worker *)
(* was running when it was called.                                           *)
RunningSeen ==
  \A c \in Clients : answer[c] = "idle" => atCall[c] \subseteq done

(* "Block the caller until every worker is idle AND every queue is empty"    *)
(* (worker_pool.rs:229): a thread that submits work and then sees wait_idle  *)
(* succeed finds its own work done, as the test at worker_pool.rs:388 does.  *)
OwnWorkDone ==
  \A c \in Clients : answer[c] = "idle" => \A i \in early : i[1] = c => i \in done

(* Every item queued before the shutdown runs, though the notification that  *)
(* announces it may fall into the gap between a worker's last look and its   *)
(* wait, unless a worker panicked.                                           *)
AcceptedWorkRuns ==
  \A i \in Items : i \in early ~> (i \in done \/ Gone # {})

(* shutdown() returns: its notifications may be missed, its joins not.       *)
ShutdownReturns == \A c \in Managers : cpc[c] = "swap" ~> cpc[c] = "free"
=============================================================================
