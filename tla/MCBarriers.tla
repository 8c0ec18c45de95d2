----------------------------- MODULE MCBarriers -----------------------------
(***************************************************************************)
(* CountDownLatch and Barrier for TLC.  They share no state: a behaviour   *)
(* exercises the one that `client` names, the other stays in its initial   *)
(* state.  Fairness is that of CountDownLatch: no property of the Barrier  *)
(* is about progress.                                                      *)
(***************************************************************************)
EXTENDS CountDownLatch

CONSTANTS BarThreads, num_threads, MaxRounds

VARIABLES
  client,
  bar_count, generation, my_generation, bar_pc, arrivals, departures, leaders,
  bar_owner, bar_waiters, bar_seq, bar_parked, bar_cv, bar_my_seq, bar_timed, bar_ret

ownVars == <<bar_count, generation, my_generation, bar_pc, arrivals, departures, leaders>>
barVars == <<ownVars, bar_owner, bar_waiters, bar_seq, bar_parked, bar_cv, bar_my_seq,
             bar_timed, bar_ret>>
allVars == <<client, vars, barVars>>

Bar == INSTANCE Barrier WITH
  Threads <- BarThreads, count <- bar_count, pc <- bar_pc, owner <- bar_owner,
  waiters <- bar_waiters, seq <- bar_seq, parked <- bar_parked, cv <- bar_cv,
  my_seq <- bar_my_seq, timed <- bar_timed, ret <- bar_ret

ASSUME BarriersAssumption ==
  Bar!BarrierAssumption /\ NoOwner \notin BarThreads /\ IsFiniteSet(BarThreads)

BothInit == client \in {"latch", "barrier"} /\ Init /\ Bar!Init

OfLatch(A)   == client = "latch" /\ A /\ UNCHANGED <<client, barVars>>
OfBarrier(A) == client = "barrier" /\ A /\ UNCHANGED <<client, vars>>

BothNext == OfLatch(Next) \/ OfBarrier(Bar!Next)

BothFairness ==
  \A t \in Threads :
    /\ WF_allVars(OfLatch(Running(t)))
    /\ WF_allVars(OfLatch(DeadlinePasses(t)))
    /\ WF_allVars(OfLatch(SleepTimesOut(t)))
    /\ WF_allVars(OfLatch(CvProgress(t) /\ UNCHANGED latchVars))
    /\ SF_allVars(OfLatch(LockLatch(t)))
    /\ SF_allVars(OfLatch(Relock(t) /\ UNCHANGED latchVars))

BothSpec == BothInit /\ [][BothNext]_allVars /\ BothFairness

-----------------------------------------------------------------------------
(* Barrier: nobody returns from its k-th wait() before everybody has arrived *)
(* at theirs.                                                                *)
NobodyLeavesEarly == client = "barrier" => Bar!TypeOK /\ Bar!NobodyLeavesEarly

(* Barrier: no two threads are told they lead one generation, and by the     *)
(* time anybody else leaves it somebody has been.                            *)
OneLeader == client = "barrier" => Bar!OneLeader

(* Barrier: a thread that sleeps on although its generation is over has a    *)
(* notify_all() coming.                                                      *)
SleepersWoken == client = "barrier" => Bar!SleepersWoken
=============================================================================
