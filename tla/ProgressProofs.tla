--------------------------- MODULE ProgressProofs ---------------------------
(***************************************************************************)
(* Once runs f under mutual exclusion and to a successful end at most      *)
(* once, for any set of threads, any use of its three operations and any   *)
(* number of calls, until a claim is overrun: by a call_once_force that    *)
(* exchanges RUNNING for RUNNING, or by a guard that fires late.           *)
(* OnceLock, which never forces, hands out one value whatever fails or     *)
(* panics.  The documented use of Condvar loses no wakeup.                 *)
(***************************************************************************)
EXTENDS MCProgress, FiniteSetTheorems, TLAPS

(* A claim is held by one thread, under a word that is RUNNING; COMPLETE is  *)
(* what a success leaves behind, and nothing else is; only try_call_once     *)
(* surrenders a claim; call_once_force never tries to exchange COMPLETE.     *)
ClaimHeld == \A t \in Threads : pc[t] \in Claimed =>
               /\ state = RUNNING
               /\ \A u \in Threads : pc[u] \in Claimed => u = t
SuccessIsComplete == succ > 0 <=> state = COMPLETE
AfterPublish ==
  \A t \in Threads : pc[t] \in {"disarm", "done"} /\ op[t] # "try_call_once" =>
                       state = COMPLETE
OnlyTryFails == \A t \in Threads : pc[t] = "reset" => op[t] = "try_call_once"
SeenOpen == \A t \in Threads : pc[t] = "force_cas" => seen[t] # COMPLETE

IInv == /\ TypeOK /\ OnlyTryFails /\ SeenOpen
        /\ overruns = 0 => ClaimHeld /\ SuccessIsComplete /\ AfterPublish

LEMMA InitIInv == Init => IInv
BY OnceAssumption
   DEF Init, IInv, OnlyTryFails, TypeOK, SeenOpen, ClaimHeld,
       SuccessIsComplete, AfterPublish, PC, Claimed, Ops, INCOMPLETE, RUNNING, COMPLETE,
       POISONED, OnceAssumption

LEMMA NextIInv ==
  ASSUME IInv, [Next]_onceVars
  PROVE  IInv'
<1> USE OnceAssumption DEF IInv, TypeOK, SeenOpen, OnlyTryFails, ClaimHeld,
        SuccessIsComplete, AfterPublish, PC, Claimed, Ops, Goto, LoopHead,
        INCOMPLETE, RUNNING, COMPLETE, POISONED, OnceAssumption
<1>1. ASSUME NEW t \in Threads, NEW o \in Ops, Call(t, o) PROVE IInv'
  BY <1>1 DEF Call
<1>2. ASSUME NEW t \in Threads, Claim(t) PROVE IInv'
  BY <1>2 DEF Claim, Answer
<1>3. ASSUME NEW t \in Threads, SpinOver(t) PROVE IInv'
  BY <1>3 DEF SpinOver
<1>4. ASSUME NEW t \in Threads, ForceLoad(t) \/ ForceCas(t) PROVE IInv'
  BY <1>4 DEF ForceLoad, ForceCas
<1>5. ASSUME NEW t \in Threads, RunF(t) PROVE IInv'
  BY <1>5 DEF RunF
<1>6. ASSUME NEW t \in Threads, Publish(t) PROVE IInv'
  BY <1>6 DEF Publish
<1>7. ASSUME NEW t \in Threads, Reset(t) PROVE IInv'
  BY <1>7 DEF Reset
<1>8. ASSUME NEW t \in Threads, Disarm(t) PROVE IInv'
  BY <1>8 DEF Disarm
<1>9. ASSUME NEW t \in Threads, GuardDrop(t) PROVE IInv'
  BY <1>9 DEF GuardDrop
<1>10. ASSUME NEW t \in Threads, Finish(t) PROVE IInv'
  BY <1>10 DEF Finish
<1>11. CASE UNCHANGED onceVars
  BY <1>11 DEF onceVars
<1> QED
  BY <1>1, <1>2, <1>3, <1>4, <1>5, <1>6, <1>7, <1>8, <1>9, <1>10, <1>11
  DEF Next, OnceStep

(* f runs in one thread at a time and never again after it has succeeded,    *)
(* whatever fails, panics or unwinds late.                                   *)
THEOREM OnceOneRunner ==
  Spec => []OneRunner
<1>1. IInv => OneRunner
  BY DEF IInv, ClaimHeld, SuccessIsComplete, OneRunner, RUNNING, POISONED, COMPLETE
<1>2. IInv /\ [Next]_onceVars => IInv'
  BY NextIInv
<1> QED
  BY InitIInv, <1>1, <1>2, PTL DEF Spec

(* Nothing takes COMPLETE back, the guard of a late panic included.          *)
THEOREM OnceCompleteIsFinal ==
  Spec => CompleteIsFinal
<1>1. IInv /\ [Next]_onceVars => [state = COMPLETE /\ overruns = 0 => state' = COMPLETE]_onceVars
  <2> SUFFICES ASSUME IInv, Next, state = COMPLETE, overruns = 0 PROVE state' = COMPLETE
    OBVIOUS
  <2>1. \A t \in Threads : pc[t] \notin Claimed
    BY DEF IInv, ClaimHeld, RUNNING, POISONED, COMPLETE
  <2>2. \A t \in Threads : pc[t] = "force_cas" => seen[t] # COMPLETE
    BY DEF IInv, SeenOpen
  <2> QED
    BY <2>1, <2>2 DEF Next, OnceStep, Call, Claim, SpinOver, ForceLoad, ForceCas,
       RunF, Publish, Reset, Disarm, GuardDrop, Finish, Claimed, RUNNING,
       INCOMPLETE, COMPLETE
<1>2. IInv /\ [Next]_onceVars => IInv'
  BY NextIInv
<1> QED
  BY InitIInv, <1>1, <1>2, PTL DEF Spec, CompleteIsFinal

(* Who returns normally from call_once finds f done.                         *)
THEOREM OnceReturnsInitialised ==
  Spec => []ReturnsInitialised
<1>1. IInv => ReturnsInitialised
  BY DEF IInv, AfterPublish, SuccessIsComplete, ReturnsInitialised
<1>2. IInv /\ [Next]_onceVars => IInv'
  BY NextIInv
<1> QED
  BY InitIInv, <1>1, <1>2, PTL DEF Spec

(* While the word is RUNNING a thread is about to take it off that value,    *)
(* also after overruns: a thread gives its claim up only by a step that      *)
(* leaves another word behind, so those that spin are never left alone.      *)
THEOREM OnceRunningHasRunner == Spec => []RunningHasRunner
<1>1. Init => RunningHasRunner
  BY DEF Init, RunningHasRunner, INCOMPLETE, RUNNING
<1>2. IInv /\ RunningHasRunner /\ [Next]_onceVars => RunningHasRunner'
  <2> SUFFICES ASSUME IInv, RunningHasRunner, [Next]_onceVars, state' = RUNNING
               PROVE  \E u \in Threads : pc'[u] \in Claimed
    BY DEF RunningHasRunner
  <2> USE DEF IInv, TypeOK, RunningHasRunner, Goto, Claimed, INCOMPLETE, RUNNING,
              COMPLETE, POISONED
  <2>1. ASSUME NEW t \in Threads, NEW o \in Ops, Call(t, o)
        PROVE  \E u \in Threads : pc'[u] \in Claimed
    BY <2>1 DEF Call
  <2>2. ASSUME NEW t \in Threads, Claim(t)
        PROVE  \E u \in Threads : pc'[u] \in Claimed
    BY <2>2 DEF Claim, Answer
  <2>3. ASSUME NEW t \in Threads, SpinOver(t) \/ ForceLoad(t) \/ ForceCas(t)
        PROVE  \E u \in Threads : pc'[u] \in Claimed
    BY <2>3 DEF SpinOver, ForceLoad, ForceCas
  <2>4. ASSUME NEW t \in Threads, RunF(t)
        PROVE  \E u \in Threads : pc'[u] \in Claimed
    BY <2>4 DEF RunF
  <2>5. ASSUME NEW t \in Threads, Publish(t) \/ Reset(t) \/ GuardDrop(t)
        PROVE  \E u \in Threads : pc'[u] \in Claimed
    BY <2>5 DEF Publish, Reset, GuardDrop
  <2>6. ASSUME NEW t \in Threads, Disarm(t) \/ Finish(t)
        PROVE  \E u \in Threads : pc'[u] \in Claimed
    BY <2>6 DEF Disarm, Finish
  <2>7. CASE UNCHANGED onceVars
    BY <2>7 DEF onceVars
  <2> QED
    BY <2>1, <2>2, <2>3, <2>4, <2>5, <2>6, <2>7 DEF Next, OnceStep
<1>3. IInv /\ [Next]_onceVars => IInv'
  BY NextIInv
<1> QED
  BY InitIInv, <1>1, <1>2, <1>3, PTL DEF Spec

-----------------------------------------------------------------------------
(* OnceLock.  Only a thread inside its call has a claim, the claim is held   *)
(* by one thread under a word that is RUNNING, and COMPLETE is final.        *)
LockPC == OL!PC \cup {"write", "read"}
LockClaimed == OL!Claimed \cup {"write"}

LockTypeOK ==
  /\ lock_state \in {OL!INCOMPLETE, OL!RUNNING, OL!COMPLETE, OL!POISONED}
  /\ lock_pc \in [Threads -> LockPC]
  /\ lock_op \in [Threads -> OL!LockOps \cup {"call_once"}]
  /\ lock_calls \in [Threads -> 0..LockCalls]
  /\ value \in OL!Values \cup {NoValue}
  /\ got \in [Threads -> OL!Values \cup {NoValue, OL!Rejected, OL!Failed, OL!Expect}]

InCall == \A t \in Threads : lock_pc[t] # "idle" => lock_calls[t] > 0 /\ got[t] = NoValue

LockClaimHeld == \A t \in Threads : lock_pc[t] \in LockClaimed =>
                   /\ lock_state = OL!RUNNING
                   /\ \A u \in Threads : lock_pc[u] \in LockClaimed => u = t

LockAfterPublish ==
  \A t \in Threads : lock_pc[t] \in {"disarm", "late", "done", "read"} => lock_state = OL!COMPLETE

(* There is a value before COMPLETE only between the store of a claimant and *)
(* its publication.                                                          *)
Stored ==
  /\ \A t \in Threads : lock_pc[t] = "publish" => value = OL!ValueOf(t)
  /\ lock_state # OL!COMPLETE /\ value # NoValue => \E t \in Threads : lock_pc[t] = "publish"

(* A value is named by a call already made, and not by a call that has not   *)
(* stored one.                                                               *)
Named ==
  \A t \in Threads :
    /\ \A k \in 1..LockCalls : value = <<t, k>> => k <= lock_calls[t]
    /\ lock_pc[t] \in {"cas", "spin", "run", "write", "reset", "unwind"} => value # OL!ValueOf(t)
    /\ lock_pc[t] = "done" /\ lock_op[t] = "set" => value # OL!ValueOf(t)

LockIInv == /\ LockTypeOK /\ InCall /\ LockClaimHeld /\ LockAfterPublish
            /\ Stored /\ Named /\ OL!AnswersAgree

(* Calls are named by pairs of a thread and a positive number, and neither   *)
(* None nor an error is such a pair.                                         *)
LEMMA NamesOfCalls ==
  /\ \A t \in Threads : \A k \in 1..LockCalls : <<t, k>> \in OL!Values
  /\ \A v \in OL!Values : \E t \in Threads : \E k \in 1..LockCalls : v = <<t, k>>
  /\ NoValue \notin OL!Values /\ NoValue # OL!Rejected
  /\ OL!Rejected \notin OL!Values /\ OL!Failed \notin OL!Values /\ OL!Expect \notin OL!Values
  /\ OL!Rejected # OL!Failed /\ OL!Rejected # OL!Expect
<1>1. \A t \in Threads : \A k \in 1..LockCalls : <<t, k>> \in OL!Values
  BY DEF OL!Values
<1>2. \A v \in OL!Values : \E t \in Threads : \E k \in 1..LockCalls : v = <<t, k>>
  BY DEF OL!Values
<1>3. NoValue \notin OL!Values /\ NoValue # OL!Rejected
  BY LockAssumption DEF LockAssumption, OL!OnceLockAssumption
<1>4. \A v \in OL!Values : v[2] # 0
  <2> SUFFICES ASSUME NEW v \in OL!Values PROVE v[2] # 0
    OBVIOUS
  <2>1. PICK t \in Threads, k \in 1..LockCalls : v = <<t, k>>
    BY <1>2
  <2> QED
    BY <2>1, LockAssumption DEF LockAssumption
<1>5. OL!Rejected[2] = 0 /\ OL!Failed[2] = 0 /\ OL!Expect[2] = 0
  BY DEF OL!Rejected, OL!Failed, OL!Expect
<1>6. OL!Rejected # OL!Failed /\ OL!Rejected # OL!Expect
  BY DEF OL!Rejected, OL!Failed, OL!Expect
<1> QED
  BY <1>1, <1>2, <1>3, <1>4, <1>5, <1>6

LEMMA LockInitIInv ==
  ASSUME OL!LockInit
  PROVE  LockIInv
<1> USE LockAssumption, NamesOfCalls
    DEF OL!LockInit, OL!Init, LockPC, LockClaimed, OL!PC, OL!Claimed, OL!LockOps,
    OL!ValueOf,
        OL!INCOMPLETE, OL!RUNNING, OL!COMPLETE, OL!POISONED, LockAssumption
<1>1. LockTypeOK
  BY DEF LockTypeOK
<1>2. InCall /\ LockClaimHeld /\ LockAfterPublish
  BY DEF InCall, LockClaimHeld, LockAfterPublish
<1>3. Stored /\ OL!AnswersAgree
  BY DEF Stored, OL!AnswersAgree
<1>4. Named
  BY DEF Named
<1> QED
  BY <1>1, <1>2, <1>3, <1>4 DEF LockIInv

LEMMA LockNextIInv ==
  ASSUME LockIInv, [OL!LockNext]_(OL!vars)
  PROVE  LockIInv'
<1> USE LockAssumption, NamesOfCalls
    DEF LockIInv, LockTypeOK, InCall, LockClaimHeld, LockAfterPublish, Stored, Named,
        OL!AnswersAgree, LockPC, LockClaimed, OL!PC, OL!Claimed, OL!LockOps, OL!ValueOf,
        OL!Goto,
        OL!INCOMPLETE, OL!RUNNING, OL!COMPLETE, OL!POISONED, LockAssumption
<1>1. ASSUME NEW t \in Threads, NEW o \in OL!LockOps, OL!LockCall(t, o) PROVE LockIInv'
  BY <1>1 DEF OL!LockCall, OL!Call, OL!LoopHead
<1>2. ASSUME NEW t \in Threads, OL!Claim(t), UNCHANGED <<value, got, abandoned>>
      PROVE  LockIInv'
  BY <1>2 DEF OL!Claim, OL!Answer
<1>3. ASSUME NEW t \in Threads, OL!SpinOver(t), UNCHANGED <<value, got, abandoned>>
      PROVE  LockIInv'
  BY <1>3 DEF OL!SpinOver, OL!LoopHead
<1>4. ASSUME NEW t \in Threads, OL!CallF(t) PROVE LockIInv'
  BY <1>4 DEF OL!CallF
<1>5. ASSUME NEW t \in Threads, OL!Write(t) PROVE LockIInv'
  BY <1>5 DEF OL!Write
<1>6. ASSUME NEW t \in Threads, OL!Publish(t), UNCHANGED <<value, got, abandoned>>
      PROVE  LockIInv'
  BY <1>6 DEF OL!Publish
<1>7. ASSUME NEW t \in Threads, lock_op[t] = "get_or_init", OL!Disarm(t),
             UNCHANGED <<value, got, abandoned>>
      PROVE  LockIInv'
  BY <1>7 DEF OL!Disarm
<1>8. ASSUME NEW t \in Threads, OL!GuardDrop(t), UNCHANGED <<value, got, abandoned>>
      PROVE  LockIInv'
  BY <1>8 DEF OL!GuardDrop
<1>9. ASSUME NEW t \in Threads, OL!PublishDirect(t) PROVE LockIInv'
  BY <1>9 DEF OL!PublishDirect
<1>10. ASSUME NEW t \in Threads, OL!Surrender(t) PROVE LockIInv'
  BY <1>10 DEF OL!Surrender
<1>11. ASSUME NEW t \in Threads, OL!Return(t) PROVE LockIInv'
  BY <1>11 DEF OL!Return
<1>12. ASSUME NEW t \in Threads, OL!Panicked(t) PROVE LockIInv'
  BY <1>12 DEF OL!Panicked, OL!Finish
<1>13. CASE OL!Take
  BY <1>13 DEF OL!Take, OL!onceVars
<1>14. CASE UNCHANGED OL!vars
  BY <1>14 DEF OL!vars, OL!onceVars
<1> HIDE DEF LockIInv
<1>15. ASSUME NEW t \in Threads, OL!ReleaseClaim(t) PROVE LockIInv'
  BY <1>6, <1>7, <1>8, <1>9, <1>10, <1>15, Zenon DEF OL!ReleaseClaim
<1>16. ASSUME NEW t \in Threads, OL!LockStep(t) PROVE LockIInv'
  BY <1>2, <1>3, <1>4, <1>5, <1>11, <1>12, <1>15, <1>16, Zenon DEF OL!LockStep
<1> QED
  BY <1>1, <1>13, <1>14, <1>16, Zenon DEF OL!LockNext

(* A step of the composition is one of the OnceLock or leaves it alone.      *)
LEMMA LockAlways ==
  /\ AllInit => LockIInv
  /\ [AllNext]_allVars => [OL!LockNext]_(OL!vars)
  /\ LockIInv /\ [AllNext]_allVars => LockIInv'
<1>1. AllInit => LockIInv
  BY LockInitIInv DEF AllInit
<1>2. [AllNext]_allVars => [OL!LockNext]_(OL!vars)
  BY DEF AllNext, OfOnce, OfLock, OfQueue, allVars, lockVars, wordVars, OL!vars, OL!onceVars
<1> QED BY <1>1, <1>2, LockNextIInv

(* All references an OnceLock has handed out are to the one stored value,    *)
(* and a set() that lost does not find its own value stored: for any         *)
(* threads, any number of calls, any failures and panics of their functions. *)
THEOREM OnceLockAnswersAgree == AllSpec => []AnswersAgree
<1>1. LockIInv => AnswersAgree
  BY DEF LockIInv, AnswersAgree
<1> QED
  BY <1>1, LockAlways, PTL DEF AllSpec

(* COMPLETE is published over a stored value, and nothing but take(), with   *)
(* no call in progress, replaces a value that is published.                  *)
THEOREM OnceLockValueIsFinal == AllSpec => ValueIsFinal
<1>1. LockIInv /\ [OL!LockNext]_(OL!vars) => [OL!PublishesValue /\ OL!KeepsValue]_(OL!vars)
  <2> SUFFICES ASSUME LockIInv, OL!LockNext PROVE OL!PublishesValue /\ OL!KeepsValue
    OBVIOUS
  <2>1. \A t \in Threads : lock_pc[t] \in LockClaimed => lock_state # OL!COMPLETE
    BY DEF LockIInv, LockClaimHeld, OL!RUNNING, OL!COMPLETE
  <2>2. \A t \in Threads : lock_pc[t] = "publish" => value # NoValue
    BY NamesOfCalls, LockAssumption
    DEF LockIInv, LockTypeOK, Stored, InCall, OL!ValueOf, LockAssumption
  <2> QED
    BY <2>1, <2>2
    DEF OL!PublishesValue, OL!KeepsValue, OL!LockNext, OL!LockStep, OL!ReleaseClaim,
        OL!LockCall, OL!Call, OL!Claim, OL!SpinOver, OL!CallF, OL!Write, OL!Publish,
        OL!Disarm, OL!GuardDrop, OL!PublishDirect, OL!Surrender, OL!Return, OL!Panicked,
        OL!Finish, OL!Take, OL!onceVars, LockClaimed, OL!Claimed, OL!INCOMPLETE,
        OL!RUNNING, OL!COMPLETE, OL!POISONED
<1> QED
  BY <1>1, LockAlways, PTL DEF AllSpec, ValueIsFinal, OL!ValueIsFinal

-----------------------------------------------------------------------------
(* The queue over Condvar.  Its module counts with the operators this one    *)
(* counts with.                                                              *)
LEMMA SameCounts == \A S : Queue!Cardinality(S) = Cardinality(S)
BY DEF Cardinality, Queue!Cardinality

Members == Producers \cup Consumers

LEMMA MembersFinite ==
  /\ NoOwner \notin Members /\ Producers \cap Consumers = {}
  /\ \A S \in SUBSET Members : IsFiniteSet(S) /\ Cardinality(S) \in Nat
<1>1. NoOwner \notin Members /\ Producers \cap Consumers = {} /\ IsFiniteSet(Members)
  BY QueueAssumption DEF QueueAssumption, Queue!PCAssumption, Members
<1> QED
  BY <1>1, FS_Subset, FS_CardinalityType

(* The diagnostic count of the Condvar is the number of threads registered.  *)
Registered == {t \in Members : cv[t] \in {"snap", "drop", "wait", "asleep"}}
WaitersCounted == waiters = Cardinality(Registered)

(* Only consumers wait, only producers notify; a push and the step from the  *)
(* test of the queue to the snapshot of the sequence number hold the mutex.  *)
Sides ==
  /\ \A p \in Producers : /\ pc_pc[p] # "check" /\ cv[p] \in {"out", "wake_one"}
                          /\ pc_pc[p] = "push" => owner = p
  /\ \A c \in Consumers :
       /\ pc_pc[c] \in {"idle", "check", "unlock"} /\ cv[c] \notin {"wake_one", "wake_all"}
       /\ pc_pc[c] # "check" => cv[c] = "out"
       /\ cv[c] = "snap" => owner = c /\ items = 0

(* Producers that have pushed and not yet changed the sequence number.  A    *)
(* consumer whose snapshot is still current found the queue empty, so that   *)
(* whatever has been pushed since is theirs: it may go to sleep.             *)
Unannounced == {p \in Producers : pc_pc[p] \in {"notify", "unlock_notify", "notify_out"}}
Fresh ==
  \A c \in Consumers : cv[c] \in {"drop", "wait"} =>
    /\ my_seq[c] <= seq
    /\ my_seq[c] = seq => items <= Cardinality(Unannounced)

Covered ==
  parked # {} => items <= Cardinality(Queue!Awake) + Cardinality(Queue!Announcing)

QueueIInv == Queue!TypeOK /\ WaitersCounted /\ Sides /\ Fresh /\ Covered

LEMMA QueueInitIInv ==
  ASSUME Queue!Init
  PROVE  QueueIInv
<1> USE QueueAssumption DEF Queue!Init, Queue!CvInit, Queue!Lk!Init, QueueAssumption
<1>1. Queue!TypeOK
  BY DEF Queue!TypeOK, Queue!CvTypeOK, Queue!CV, Queue!RET, Queue!PC, Queue!PCAssumption
<1>2. WaitersCounted
  <2>1. Registered = {}
    BY DEF Registered, Members
  <2> QED
    BY <2>1, FS_EmptySet DEF WaitersCounted
<1>3. Sides /\ Fresh /\ Covered
  BY DEF Sides, Fresh, Covered
<1> QED
  BY <1>1, <1>2, <1>3 DEF QueueIInv

-----------------------------------------------------------------------------
(* The types and the count of waiters.                                       *)
LEMMA QueueWaitJoins ==
  ASSUME Queue!CvTypeOK, WaitersCounted, NEW t \in Members, NEW w \in BOOLEAN,
         Queue!Wait(t, w)
  PROVE  Queue!CvTypeOK' /\ WaitersCounted'
<1> USE DEF Members
<1>1. cv[t] = "out" /\ cv' = [cv EXCEPT ![t] = "snap"] /\ waiters' = waiters + 1
  BY DEF Queue!Wait, Queue!CvGoto
<1>2. Queue!CvTypeOK'
  BY <1>1 DEF Queue!Wait, Queue!CvTypeOK, Queue!CV, Queue!RET
<1>3. t \notin Registered /\ Registered' = Registered \cup {t}
  BY <1>1 DEF Registered, Queue!CvTypeOK
<1>4. Cardinality(Registered \cup {t}) = Cardinality(Registered) + 1
  BY <1>3, MembersFinite, FS_AddElement DEF Registered
<1> QED
  BY <1>1, <1>2, <1>3, <1>4 DEF WaitersCounted

LEMMA QueueDeregisterLeaves ==
  ASSUME Queue!CvTypeOK, WaitersCounted, NEW t \in Members, Queue!Deregister(t)
  PROVE  Queue!CvTypeOK' /\ WaitersCounted'
<1> USE DEF Members
<1>1. /\ cv[t] = "asleep" /\ t \notin parked
      /\ cv' = [cv EXCEPT ![t] = "relock"] /\ waiters' = waiters - 1
  BY DEF Queue!Deregister, Queue!CvGoto
<1>2. t \in Registered /\ Registered' = Registered \ {t} /\ Registered \in SUBSET Members
  BY <1>1 DEF Registered, Queue!CvTypeOK
<1>3. /\ Cardinality(Registered \ {t}) = Cardinality(Registered) - 1
      /\ Cardinality(Registered \ {t}) \in Nat
  BY <1>2, MembersFinite, FS_RemoveElement
<1>4. WaitersCounted' /\ waiters' \in Nat
  BY <1>1, <1>2, <1>3 DEF WaitersCounted
<1>5. Queue!CvTypeOK'
  BY <1>1, <1>4 DEF Queue!Deregister, Queue!CvTypeOK, Queue!CV, Queue!RET
<1> QED
  BY <1>4, <1>5

LEMMA QueueOthersStay ==
  ASSUME Queue!CvTypeOK, WaitersCounted, NEW t \in Members,
         \/ Queue!Lock(t) \/ Queue!Unlock(t) \/ Queue!NotifyOne(t) \/ Queue!Snapshot(t)
         \/ Queue!DropGuard(t) \/ Queue!FutexWait(t) \/ Queue!WakeOne(t)
         \/ Queue!WakeAll(t) \/ Queue!Relock(t) \/ Queue!Interrupted(t)
         \/ Queue!TimeExpires(t) \/ UNCHANGED Queue!cvVars
  PROVE  Queue!CvTypeOK' /\ WaitersCounted'
<1> USE MembersFinite DEF Members, Queue!CvTypeOK, Queue!CV, Queue!RET
<1> DEFINE Inside == {"snap", "drop", "wait", "asleep"}
<1>1. /\ Queue!CvTypeOK' /\ waiters' = waiters
      /\ \A u \in Members : cv'[u] \in Inside <=> cv[u] \in Inside
  <2>1. CASE Queue!Lock(t) \/ Queue!Unlock(t)
    BY <2>1 DEF Queue!Lock, Queue!Unlock, Queue!Lk!Acquire, Queue!Lk!Release
  <2>2. CASE Queue!NotifyOne(t)
    BY <2>2 DEF Queue!NotifyOne, Queue!Bump, Queue!CvGoto
  <2>3. CASE Queue!Snapshot(t)
    BY <2>3 DEF Queue!Snapshot, Queue!CvGoto
  <2>4. CASE Queue!DropGuard(t)
    BY <2>4 DEF Queue!DropGuard, Queue!CvGoto, Queue!Lk!Release
  <2>5. CASE Queue!FutexWait(t)
    BY <2>5 DEF Queue!FutexWait, Queue!CvGoto, Queue!Parked
  <2>6. CASE Queue!WakeOne(t)
    BY <2>6 DEF Queue!WakeOne, Queue!CvGoto, Queue!StillParked
  <2>7. CASE Queue!WakeAll(t)
    BY <2>7 DEF Queue!WakeAll, Queue!CvGoto, Queue!NoneParked
  <2>8. CASE Queue!Relock(t)
    BY <2>8 DEF Queue!Relock, Queue!CvGoto, Queue!Lk!Acquire
  <2>9. CASE Queue!Interrupted(t) \/ Queue!TimeExpires(t)
    BY <2>9 DEF Queue!Interrupted, Queue!TimeExpires, Queue!SleepEnds
  <2>10. CASE UNCHANGED Queue!cvVars
    BY <2>10 DEF Queue!cvVars
  <2> QED
    BY <2>1, <2>2, <2>3, <2>4, <2>5, <2>6, <2>7, <2>8, <2>9, <2>10
<1>2. Registered' = Registered
  BY <1>1 DEF Registered
<1> QED
  BY <1>1, <1>2 DEF WaitersCounted

-----------------------------------------------------------------------------
(* The cover, one step at a time.  The sets it counts are finite, and one    *)
(* that grows counts no less.                                                *)
LEMMA Growing ==
  ASSUME NEW S \in SUBSET Members, NEW T \in SUBSET Members, S \subseteq T
  PROVE  Cardinality(S) <= Cardinality(T)
BY MembersFinite, FS_Subset

LEMMA SidesOf ==
  /\ Queue!Awake \in SUBSET Members /\ Queue!Announcing \in SUBSET Members
  /\ Unannounced \in SUBSET Members
  /\ Queue!Awake' \in SUBSET Members /\ Queue!Announcing' \in SUBSET Members
  /\ Unannounced' \in SUBSET Members
BY DEF Members, Queue!Awake, Queue!Announcing, Unannounced

(* A step that neither adds an item, puts anybody to sleep nor takes one of  *)
(* those that cover the items away.                                          *)
LEMMA CoverGrows ==
  ASSUME QueueIInv, items' <= items, items' \in Nat, parked' \subseteq parked,
         Queue!Awake \subseteq Queue!Awake', Queue!Announcing \subseteq Queue!Announcing'
  PROVE  Covered'
<1>1. Cardinality(Queue!Awake) <= Cardinality(Queue!Awake')
  BY Growing, SidesOf, Zenon
<1>2. Cardinality(Queue!Announcing) <= Cardinality(Queue!Announcing')
  BY Growing, SidesOf, Zenon
<1>3. /\ Cardinality(Queue!Awake) \in Nat /\ Cardinality(Queue!Announcing) \in Nat
      /\ Cardinality(Queue!Awake') \in Nat /\ Cardinality(Queue!Announcing') \in Nat
  BY MembersFinite, SidesOf, Zenon
<1>4. items \in Nat
  BY DEF QueueIInv, Queue!TypeOK
<1> QED
  BY <1>1, <1>2, <1>3, <1>4 DEF QueueIInv, Covered

(* The queue is empty: there is nothing to cover.                            *)
LEMMA NothingToCover ==
  ASSUME items' = 0
  PROVE  Covered'
<1>1. Cardinality(Queue!Awake') \in Nat /\ Cardinality(Queue!Announcing') \in Nat
  BY MembersFinite, SidesOf, Zenon
<1> QED
  BY <1>1 DEF Covered

(* The consumer that FutexWait puts to sleep has a current snapshot.         *)
LEMMA SleeperCovered ==
  ASSUME QueueIInv, NEW c \in Consumers, cv[c] = "wait", my_seq[c] = seq,
         items' = items, Queue!Announcing' = Queue!Announcing
  PROVE  Covered'
<1>1. items <= Cardinality(Unannounced)
  BY DEF QueueIInv, Fresh
<1>2. Unannounced \subseteq Queue!Announcing
  BY DEF Unannounced, Queue!Announcing
<1>3. Cardinality(Unannounced) <= Cardinality(Queue!Announcing)
  BY <1>2, Growing, SidesOf, Zenon
<1>4. /\ Cardinality(Queue!Announcing') \in Nat /\ Cardinality(Queue!Awake') \in Nat
      /\ Cardinality(Unannounced) \in Nat
  BY MembersFinite, SidesOf, Zenon
<1>5. items \in Nat
  BY DEF QueueIInv, Queue!TypeOK
<1> QED
  BY <1>1, <1>3, <1>4, <1>5 DEF Covered

(* A completed notification has woken a sleeper, if there was one.           *)
LEMMA WakeCovers ==
  ASSUME QueueIInv, NEW p \in Members, Queue!WakeOne(p), UNCHANGED <<items, pc_pc>>
  PROVE  Covered'
<1> SUFFICES ASSUME parked' # {} PROVE Covered'
  BY DEF Covered
<1> DEFINE W == parked \ parked'
<1>1. parked \in SUBSET Members /\ parked' \in SUBSET parked /\ parked \subseteq Consumers
  BY DEF QueueIInv, Queue!TypeOK, Queue!CvTypeOK, Sides, Members, Queue!WakeOne,
     Queue!StillParked
<1>2. PICK x \in parked : x \notin parked'
  <2>1. IsFiniteSet(parked) /\ IsFiniteSet(parked') /\ Cardinality(parked) \in Nat
    BY <1>1, MembersFinite
  <2>2. Cardinality(parked') # 0
    BY <2>1, FS_EmptySet
  <2>3. Cardinality(parked') # Cardinality(parked)
    BY <2>1, <2>2, SameCounts DEF Queue!WakeOne, Queue!StillParked
  <2> QED
    BY <1>1, <2>3
<1>3. /\ x \in Queue!Awake' /\ x \notin Queue!Awake /\ Queue!Awake \subseteq Queue!Awake'
  BY <1>1, <1>2
     DEF Queue!Awake, QueueIInv, Queue!TypeOK, Queue!CvTypeOK, Sides, Members
<1>4. /\ Cardinality(Queue!Awake \cup {x}) = Cardinality(Queue!Awake) + 1
      /\ Cardinality(Queue!Awake \cup {x}) <= Cardinality(Queue!Awake')
  <2>1. Queue!Awake \cup {x} \in SUBSET Members /\ Queue!Awake \cup {x} \subseteq Queue!Awake'
    BY <1>3, SidesOf
  <2> QED
    BY <2>1, <1>3, SidesOf, Growing, MembersFinite, FS_AddElement
<1>5. Cardinality(Queue!Announcing') >= Cardinality(Queue!Announcing) - 1
  <2>1. Queue!Announcing \ {p} \subseteq Queue!Announcing'
    BY DEF Queue!Announcing, Queue!WakeOne, Queue!CvGoto, QueueIInv, Queue!TypeOK,
       Queue!CvTypeOK, Members
  <2>2. Queue!Announcing \ {p} \in SUBSET Members
    BY SidesOf
  <2>3. Cardinality(Queue!Announcing \ {p}) <= Cardinality(Queue!Announcing')
    BY <2>1, <2>2, SidesOf, Growing, Zenon
  <2>4. /\ Cardinality(Queue!Announcing') \in Nat /\ Cardinality(Queue!Announcing) \in Nat
        /\ Cardinality(Queue!Announcing \ {p}) \in Nat
    BY <2>2, SidesOf, MembersFinite, Zenon
  <2>5. Cardinality(Queue!Announcing \ {p}) >= Cardinality(Queue!Announcing) - 1
    <3>1. CASE p \in Queue!Announcing
      <4>1. IsFiniteSet(Queue!Announcing)
        BY SidesOf, MembersFinite, Zenon
      <4>2. Cardinality(Queue!Announcing \ {p}) = Cardinality(Queue!Announcing) - 1
        BY <3>1, <4>1, FS_RemoveElement, Zenon
      <4> QED
        BY <4>2, <2>4
    <3>2. CASE p \notin Queue!Announcing
      <4>1. Queue!Announcing \ {p} = Queue!Announcing
        BY <3>2
      <4> QED
        BY <4>1, <2>4
    <3> QED
      BY <3>1, <3>2
  <2> QED
    BY <2>3, <2>4, <2>5
<1>6. /\ Cardinality(Queue!Awake) \in Nat /\ Cardinality(Queue!Announcing) \in Nat
      /\ Cardinality(Queue!Awake') \in Nat /\ Cardinality(Queue!Announcing') \in Nat
  BY MembersFinite, SidesOf, Zenon
<1>7. items \in Nat /\ parked # {}
  BY <1>1 DEF QueueIInv, Queue!TypeOK
<1> QED
  BY <1>4, <1>5, <1>6, <1>7 DEF QueueIInv, Covered

-----------------------------------------------------------------------------
(* The steps of the Condvar by itself.                                       *)
LEMMA QueueCvAlone ==
  ASSUME QueueIInv, NEW t \in Members, Queue!CvAlone(t)
  PROVE  QueueIInv'
<1>1. UNCHANGED <<items, pushed, limited, pc_pc>> /\ Queue!CvStep(t)
  BY DEF Queue!CvAlone
<1>2. Queue!CvTypeOK' /\ WaitersCounted'
  BY <1>1, QueueDeregisterLeaves, QueueOthersStay
  DEF QueueIInv, Queue!TypeOK, Queue!CvStep, Queue!CvProgress
<1>3. Queue!TypeOK'
  BY <1>1, <1>2 DEF Queue!TypeOK, QueueIInv
<1>4. Unannounced' = Unannounced
  BY <1>1 DEF Unannounced
<1> USE <1>1, MembersFinite DEF Members, Queue!CvGoto
<1> DEFINE Typed == /\ cv \in [Members -> Queue!CV] /\ my_seq \in [Members -> Nat]
                    /\ seq \in Nat /\ items \in Nat /\ owner \in Members \cup {NoOwner}
                    /\ parked \subseteq {u \in Members : cv[u] = "asleep"}
<1>5. Typed
  BY DEF QueueIInv, Queue!TypeOK, Queue!CvTypeOK
<1>6. t \in Producers => cv[t] \in {"out", "wake_one"} /\ t \notin parked
  BY <1>5 DEF QueueIInv, Sides
<1>7. Sides'
  <2> USE <1>5, <1>6 DEF QueueIInv, Sides, Queue!CV
  <2>1. CASE Queue!Snapshot(t)
    BY <2>1 DEF Queue!Snapshot
  <2>2. CASE Queue!DropGuard(t)
    BY <2>2 DEF Queue!DropGuard, Queue!Lk!Release
  <2>3. CASE Queue!FutexWait(t)
    BY <2>3 DEF Queue!FutexWait
  <2>4. CASE Queue!Deregister(t)
    BY <2>4 DEF Queue!Deregister
  <2>5. CASE Queue!WakeOne(t) \/ Queue!WakeAll(t)
    BY <2>5 DEF Queue!WakeOne, Queue!WakeAll
  <2>6. CASE Queue!Relock(t)
    BY <2>6 DEF Queue!Relock, Queue!Lk!Acquire
  <2>7. CASE Queue!Interrupted(t) \/ Queue!TimeExpires(t)
    BY <2>7 DEF Queue!Interrupted, Queue!TimeExpires, Queue!SleepEnds
  <2> QED
    BY <2>1, <2>2, <2>3, <2>4, <2>5, <2>6, <2>7 DEF Queue!CvStep, Queue!CvProgress
<1>8. Fresh'
  <2> USE <1>4, <1>5, <1>6
  <2>1. CASE Queue!Snapshot(t)
    <3>1. items = 0 /\ Cardinality(Unannounced) \in Nat
      <4>1. items = 0
        BY <2>1 DEF Queue!Snapshot, QueueIInv, Sides
      <4>2. Cardinality(Unannounced) \in Nat
        BY SidesOf, MembersFinite, Zenon
      <4> QED
        BY <4>1, <4>2
    <3> QED
      BY <2>1, <3>1 DEF Queue!Snapshot, QueueIInv, Fresh
  <2>2. CASE Queue!DropGuard(t) \/ Queue!FutexWait(t) \/ Queue!Deregister(t)
    BY <2>2 DEF Queue!DropGuard, Queue!FutexWait, Queue!Deregister, QueueIInv, Fresh
  <2>3. CASE Queue!WakeOne(t) \/ Queue!WakeAll(t) \/ Queue!Relock(t)
    BY <2>3 DEF Queue!WakeOne, Queue!WakeAll, Queue!Relock, QueueIInv, Fresh
  <2>4. CASE Queue!Interrupted(t) \/ Queue!TimeExpires(t)
    BY <2>4 DEF Queue!Interrupted, Queue!TimeExpires, Queue!SleepEnds, QueueIInv, Fresh
  <2> QED
    BY <2>1, <2>2, <2>3, <2>4 DEF Queue!CvStep, Queue!CvProgress
<1>9. Covered'
  <2> USE <1>5
  <2> DEFINE Quiet == /\ parked' \subseteq parked /\ Queue!Awake \subseteq Queue!Awake'
                      /\ Queue!Announcing \subseteq Queue!Announcing'
  <2>1. Quiet => Covered'
    BY CoverGrows
  <2>2. CASE Queue!Snapshot(t) \/ Queue!DropGuard(t) \/ Queue!Deregister(t) \/ Queue!Relock(t)
    <3>1. Quiet
      BY <2>2 DEF Queue!Snapshot, Queue!DropGuard, Queue!Deregister, Queue!Relock,
         Queue!Awake, Queue!Announcing
    <3> QED
      BY <2>1, <3>1
  <2>3. CASE Queue!FutexWait(t)
    <3>1. t \in Consumers /\ cv[t] = "wait" /\ Queue!Announcing' = Queue!Announcing
      BY <2>3, <1>6 DEF Queue!FutexWait, Queue!Announcing
    <3>2. CASE my_seq[t] = seq
      BY <3>1, <3>2, SleeperCovered
    <3>3. CASE my_seq[t] # seq
      <4>1. Quiet
        BY <2>3, <3>1, <3>3 DEF Queue!FutexWait, Queue!Parked, Queue!Awake
      <4> QED
        BY <2>1, <4>1
    <3> QED
      BY <3>2, <3>3
  <2>4. CASE Queue!WakeOne(t)
    BY <2>4, WakeCovers
  <2>5. CASE Queue!WakeAll(t)
    BY <2>5 DEF Queue!WakeAll, Queue!NoneParked, Covered
  <2>6. CASE Queue!Interrupted(t) \/ Queue!TimeExpires(t)
    <3>1. Quiet
      BY <2>6 DEF Queue!Interrupted, Queue!TimeExpires, Queue!SleepEnds, Queue!Awake,
         Queue!Announcing
    <3> QED
      BY <2>1, <3>1
  <2> QED
    BY <2>2, <2>3, <2>4, <2>5, <2>6 DEF Queue!CvStep, Queue!CvProgress
<1> QED
  BY <1>2, <1>3, <1>7, <1>8, <1>9 DEF QueueIInv

-----------------------------------------------------------------------------
(* The steps of producers and consumers.                                     *)
LEMMA PushIInv ==
  ASSUME QueueIInv, NEW p \in Producers, Queue!Push(p)
  PROVE  QueueIInv'
<1> USE MembersFinite DEF Members, Queue!Goto
<1>1. /\ pc_pc[p] = "push" /\ cv[p] = "out" /\ UNCHANGED Queue!cvVars
      /\ limited' = limited /\ p \in Members
  BY DEF Queue!Push
<1>2. UNCHANGED <<owner, waiters, seq, parked, cv, my_seq, timed, ret>>
  BY <1>1 DEF Queue!cvVars
<1>3. Queue!CvTypeOK' /\ WaitersCounted'
  BY <1>1, QueueOthersStay DEF QueueIInv, Queue!TypeOK
<1>4. /\ items \in Nat /\ seq \in Nat /\ pc_pc \in [Members -> Queue!PC]
      /\ parked \subseteq {u \in Members : cv[u] = "asleep"}
  BY DEF QueueIInv, Queue!TypeOK, Queue!CvTypeOK
<1>5. \A c \in Consumers : cv[c] # "snap"
  BY <1>1 DEF QueueIInv, Sides
<1>6. CASE pushed < MaxItems
  <2>1. /\ items' = items + 1 /\ pushed' = pushed + 1
        /\ pc_pc' \in {[pc_pc EXCEPT ![p] = "notify"], [pc_pc EXCEPT ![p] = "unlock_notify"]}
    BY <1>6 DEF Queue!Push
  <2>2. Queue!TypeOK'
    BY <1>1, <1>3, <1>4, <1>6, <2>1, QueueAssumption
    DEF QueueIInv, Queue!TypeOK, Queue!PC, QueueAssumption, Queue!PCAssumption
  <2>3. Sides'
    BY <1>1, <1>2, <1>4, <1>5, <2>1 DEF QueueIInv, Sides
  <2>4. /\ p \notin Unannounced /\ Unannounced' = Unannounced \cup {p}
        /\ p \notin Queue!Announcing /\ Queue!Announcing' = Queue!Announcing \cup {p}
        /\ Queue!Awake' = Queue!Awake
    BY <1>1, <1>2, <1>4, <2>1
    DEF Unannounced, Queue!Announcing, Queue!Awake, QueueIInv, Sides
  <2>5. /\ Cardinality(Unannounced') = Cardinality(Unannounced) + 1
        /\ Cardinality(Queue!Announcing') = Cardinality(Queue!Announcing) + 1
    <3>1. IsFiniteSet(Unannounced) /\ IsFiniteSet(Queue!Announcing)
      BY SidesOf, MembersFinite, Zenon
    <3> QED
      BY <2>4, <3>1, FS_AddElement
  <2>6. /\ Cardinality(Unannounced) \in Nat /\ Cardinality(Queue!Announcing) \in Nat
        /\ Cardinality(Queue!Awake) \in Nat
    BY SidesOf, MembersFinite, Zenon
  <2>7. Fresh'
    BY <1>2, <1>4, <2>1, <2>5, <2>6 DEF QueueIInv, Fresh
  <2>8. Covered'
    BY <1>2, <1>4, <2>1, <2>4, <2>5, <2>6 DEF QueueIInv, Covered
  <2> QED
    BY <1>3, <2>2, <2>3, <2>7, <2>8 DEF QueueIInv
<1>7. CASE ~(pushed < MaxItems)
  <2>1. UNCHANGED <<items, pushed>> /\ pc_pc' = [pc_pc EXCEPT ![p] = "unlock"]
    BY <1>7 DEF Queue!Push
  <2>2. Queue!TypeOK'
    BY <1>1, <1>3, <1>4, <2>1 DEF QueueIInv, Queue!TypeOK, Queue!PC
  <2>3. Sides'
    BY <1>1, <1>2, <1>4, <2>1 DEF QueueIInv, Sides
  <2>4. /\ Unannounced' = Unannounced /\ Queue!Announcing' = Queue!Announcing
        /\ Queue!Awake' = Queue!Awake
    BY <1>1, <1>2, <1>4, <2>1
    DEF Unannounced, Queue!Announcing, Queue!Awake, QueueIInv, Sides
  <2>5. Fresh' /\ Covered'
    BY <1>2, <2>1, <2>4 DEF QueueIInv, Fresh, Covered
  <2> QED
    BY <1>3, <2>2, <2>3, <2>5 DEF QueueIInv
<1> QED
  BY <1>6, <1>7

LEMMA PopIInv ==
  ASSUME QueueIInv, NEW c \in Consumers, Queue!Pop(c)
  PROVE  QueueIInv'
<1> USE MembersFinite DEF Members, Queue!Goto
<1>1. /\ pc_pc[c] = "check" /\ cv[c] = "out" /\ items > 0 /\ items' = items - 1
      /\ owner = c /\ pc_pc' = [pc_pc EXCEPT ![c] = "unlock"] /\ UNCHANGED Queue!cvVars
      /\ UNCHANGED <<pushed, limited>> /\ c \in Members
  BY DEF Queue!Pop
<1>2. UNCHANGED <<owner, waiters, seq, parked, cv, my_seq, timed, ret>>
  BY <1>1 DEF Queue!cvVars
<1>3. Queue!CvTypeOK' /\ WaitersCounted'
  BY <1>1, QueueOthersStay DEF QueueIInv, Queue!TypeOK
<1>4. /\ items \in Nat /\ seq \in Nat /\ pc_pc \in [Members -> Queue!PC]
      /\ parked \subseteq {u \in Members : cv[u] = "asleep"}
  BY DEF QueueIInv, Queue!TypeOK, Queue!CvTypeOK
<1>5. Queue!TypeOK'
  BY <1>1, <1>3, <1>4 DEF QueueIInv, Queue!TypeOK, Queue!PC
<1>6. Sides'
  BY <1>1, <1>2, <1>4 DEF QueueIInv, Sides
<1>7. /\ Unannounced' = Unannounced /\ Queue!Announcing' = Queue!Announcing
      /\ c \in Queue!Awake /\ Queue!Awake' = Queue!Awake \ {c}
  BY <1>1, <1>2, <1>4 DEF Unannounced, Queue!Announcing, Queue!Awake
<1>8. /\ Cardinality(Unannounced) \in Nat /\ Cardinality(Queue!Announcing) \in Nat
      /\ Cardinality(Queue!Awake) \in Nat /\ IsFiniteSet(Queue!Awake)
  BY SidesOf, MembersFinite, Zenon
<1>9. Cardinality(Queue!Awake') = Cardinality(Queue!Awake) - 1
  BY <1>7, <1>8, FS_RemoveElement
<1>10. Fresh'
  BY <1>1, <1>2, <1>4, <1>7, <1>8 DEF QueueIInv, Fresh
<1>11. Covered'
  BY <1>1, <1>2, <1>4, <1>7, <1>8, <1>9 DEF QueueIInv, Covered
<1> QED
  BY <1>3, <1>5, <1>6, <1>10, <1>11 DEF QueueIInv

(* notify_one changes the sequence number: no older snapshot is current.     *)
LEMMA NotifyIInv ==
  ASSUME QueueIInv, NEW p \in Producers, Queue!Notify(p)
  PROVE  QueueIInv'
<1> USE MembersFinite DEF Members, Queue!Goto
<1>1. /\ cv[p] = "out" /\ cv' = [cv EXCEPT ![p] = "wake_one"] /\ seq' = seq + 1
      /\ UNCHANGED <<owner, waiters, parked, my_seq, timed, ret, items, pushed, limited>>
      /\ pc_pc[p] \in {"notify", "notify_out"} /\ p \in Members
      /\ pc_pc' \in {[pc_pc EXCEPT ![p] = "unlock"], [pc_pc EXCEPT ![p] = "idle"]}
  BY DEF Queue!Notify, Queue!NotifyOne, Queue!Bump, Queue!CvGoto
<1>2. Queue!CvTypeOK' /\ WaitersCounted'
  BY <1>1, QueueOthersStay DEF QueueIInv, Queue!TypeOK, Queue!Notify
<1>3. /\ items \in Nat /\ seq \in Nat /\ pc_pc \in [Members -> Queue!PC]
      /\ cv \in [Members -> Queue!CV] /\ my_seq \in [Members -> Nat]
  BY DEF QueueIInv, Queue!TypeOK, Queue!CvTypeOK
<1>4. Queue!TypeOK'
  BY <1>1, <1>2, <1>3 DEF QueueIInv, Queue!TypeOK, Queue!PC
<1>5. Sides'
  BY <1>1, <1>3 DEF QueueIInv, Sides
<1>6. Fresh'
  <2>1. \A c \in Consumers : cv'[c] = cv[c] /\ my_seq'[c] = my_seq[c] /\ my_seq[c] \in Nat
    BY <1>1, <1>3
  <2> QED
    BY <1>1, <1>3, <2>1 DEF QueueIInv, Fresh
<1>7. Queue!Announcing \subseteq Queue!Announcing' /\ Queue!Awake \subseteq Queue!Awake'
  BY <1>1, <1>3 DEF Queue!Announcing, Queue!Awake
<1>8. Covered'
  BY <1>1, <1>3, <1>7, CoverGrows
<1> QED
  BY <1>2, <1>4, <1>5, <1>6, <1>8 DEF QueueIInv

(* The steps that change neither the queue nor who announces an item.        *)
LEMMA QueueLocksIInv ==
  ASSUME QueueIInv, NEW t \in Members,
         \/ t \in Producers /\ Queue!ProducerLock(t)
         \/ t \in Consumers /\ Queue!ConsumerLock(t)
         \/ Queue!Release(t)
  PROVE  QueueIInv'
<1> USE MembersFinite DEF Members, Queue!Goto
<1>1. /\ UNCHANGED <<items, pushed, limited, waiters, seq, parked, cv, my_seq, timed>>
      /\ cv[t] = "out"
      /\ Queue!Lock(t) \/ Queue!Unlock(t)
      /\ \/ owner = NoOwner /\ owner' = t
         \/ owner = t /\ owner' = NoOwner /\ pc_pc[t] \in {"unlock", "unlock_notify"}
  BY DEF Queue!ProducerLock, Queue!ConsumerLock, Queue!Release, Queue!Lock, Queue!Unlock,
     Queue!Lk!Acquire, Queue!Lk!Release
<1>2. \/ /\ t \in Producers /\ pc_pc[t] = "idle" /\ owner' = t
         /\ pc_pc' = [pc_pc EXCEPT ![t] = "push"]
      \/ /\ t \in Consumers /\ pc_pc[t] = "idle" /\ pc_pc' = [pc_pc EXCEPT ![t] = "check"]
      \/ /\ pc_pc[t] = "unlock" /\ pc_pc' = [pc_pc EXCEPT ![t] = "idle"]
      \/ /\ pc_pc[t] = "unlock_notify" /\ pc_pc' = [pc_pc EXCEPT ![t] = "notify_out"]
  BY DEF Queue!ProducerLock, Queue!ConsumerLock, Queue!Release, Queue!Lock, Queue!Lk!Acquire
<1>3. Queue!CvTypeOK' /\ WaitersCounted'
  BY <1>1, QueueOthersStay DEF QueueIInv, Queue!TypeOK
<1>4. items \in Nat /\ pc_pc \in [Members -> Queue!PC]
  BY DEF QueueIInv, Queue!TypeOK
<1>5. Queue!TypeOK'
  BY <1>1, <1>2, <1>3, <1>4 DEF QueueIInv, Queue!TypeOK, Queue!PC
<1>6. Sides'
  BY <1>1, <1>2, <1>4 DEF QueueIInv, Sides
<1>7. /\ Unannounced' = Unannounced
      /\ Queue!Announcing' = Queue!Announcing /\ Queue!Awake \subseteq Queue!Awake'
  BY <1>1, <1>2, <1>4 DEF Unannounced, Queue!Announcing, Queue!Awake, QueueIInv, Sides
<1>8. Fresh'
  BY <1>1, <1>7 DEF QueueIInv, Fresh
<1>9. Covered'
  BY <1>1, <1>4, <1>7, CoverGrows
<1> QED
  BY <1>3, <1>5, <1>6, <1>8, <1>9 DEF QueueIInv

LEMMA WaitWhileIInv ==
  ASSUME QueueIInv, NEW c \in Consumers, Queue!WaitWhile(c) \/ Queue!GiveUp(c)
  PROVE  QueueIInv'
<1> USE MembersFinite DEF Members, Queue!Goto
<1>1. /\ pc_pc[c] = "check" /\ cv[c] = "out" /\ items = 0 /\ c \in Members
      /\ UNCHANGED <<items, pushed>>
      /\ \/ /\ pc_pc' = pc_pc
            /\ \E w \in BOOLEAN : Queue!Wait(c, w)
            /\ limited' = limited \/ (limited < MaxTimeouts /\ limited' = limited + 1)
         \/ /\ pc_pc' = [pc_pc EXCEPT ![c] = "unlock"]
            /\ UNCHANGED <<Queue!cvVars, limited>>
  BY DEF Queue!WaitWhile, Queue!GiveUp
<1>2. Queue!CvTypeOK' /\ WaitersCounted'
  BY <1>1, QueueWaitJoins, QueueOthersStay DEF QueueIInv, Queue!TypeOK
<1>3. /\ pc_pc \in [Members -> Queue!PC] /\ cv \in [Members -> Queue!CV]
  BY DEF QueueIInv, Queue!TypeOK, Queue!CvTypeOK
<1>4. Queue!TypeOK'
  BY <1>1, <1>2, <1>3, QueueAssumption
  DEF QueueIInv, Queue!TypeOK, Queue!PC, QueueAssumption, Queue!PCAssumption
<1>5. /\ UNCHANGED <<owner, seq, my_seq>>
      /\ \/ pc_pc' = pc_pc /\ cv' = [cv EXCEPT ![c] = "snap"] /\ owner = c
         \/ pc_pc' = [pc_pc EXCEPT ![c] = "unlock"] /\ cv' = cv
  BY <1>1 DEF Queue!Wait, Queue!CvGoto, Queue!cvVars
<1>6. Sides'
  BY <1>1, <1>3, <1>5 DEF QueueIInv, Sides
<1>7. Unannounced' = Unannounced
  BY <1>3, <1>5 DEF Unannounced
<1>8. Fresh'
  BY <1>1, <1>3, <1>5, <1>7 DEF QueueIInv, Fresh
<1>9. Covered'
  BY <1>1, NothingToCover
<1> QED
  BY <1>2, <1>4, <1>6, <1>8, <1>9 DEF QueueIInv

LEMMA QueueNextIInv ==
  ASSUME QueueIInv, [Queue!Next]_(Queue!vars)
  PROVE  QueueIInv'
<1>1. CASE UNCHANGED Queue!vars
  <2> USE <1>1 DEF Queue!vars, Queue!cvVars, QueueIInv
  <2>1. Queue!TypeOK' /\ WaitersCounted' /\ Sides'
    BY DEF Queue!TypeOK, Queue!CvTypeOK, WaitersCounted, Registered, Sides
  <2>2. Fresh' /\ Covered'
    BY DEF Fresh, Unannounced, Covered, Queue!Awake, Queue!Announcing
  <2> QED
    BY <2>1, <2>2
<1> QED
  BY <1>1, PushIInv, PopIInv, NotifyIInv, QueueLocksIInv, WaitWhileIInv, QueueCvAlone
  DEF Queue!Next, Members

(* No wakeup of the documented producers and consumers is lost: while a      *)
(* consumer sleeps, every item in the queue has a consumer awake or a        *)
(* notification to come, for any number of producers, consumers and items,   *)
(* spurious returns and timeouts of the wait, and notifications under the    *)
(* mutex or after it.                                                        *)
THEOREM CondvarItemsCovered == AllSpec => []ItemsCovered
<1>1. AllInit => QueueIInv
  BY QueueInitIInv DEF AllInit
<1>2. [AllNext]_allVars => [Queue!Next]_(Queue!vars)
  BY DEF AllNext, OfOnce, OfLock, OfQueue, allVars, itemVars, queueVars, Queue!vars,
     Queue!cvVars
<1>3. QueueIInv /\ [AllNext]_allVars => QueueIInv'
  BY <1>2, QueueNextIInv
<1>4. QueueIInv => ItemsCovered
  BY SameCounts DEF QueueIInv, Covered, ItemsCovered, Queue!ItemsCovered
<1> QED
  BY <1>1, <1>3, <1>4, PTL DEF AllSpec
=============================================================================
