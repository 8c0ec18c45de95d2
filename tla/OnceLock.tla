------------------------------ MODULE OnceLock ------------------------------
(***************************************************************************)
(* OnceLock<T> of core/sync/once.vr: a Once and the value it guards.       *)
(* get_or_init runs its function through Once.call_once, under the guard;  *)
(* get_or_try_init and try_get_or_set (which set wraps) drive the word of  *)
(* the Once by themselves and have no guard.                               *)
(***************************************************************************)
EXTENDS Once

CONSTANT NoValue   \* Maybe.None

VARIABLES
  value,     \* OnceLock.value: NoValue, or the call that stored it
  got,       \* the answer of each thread's last finished call
  abandoned  \* history: has a claim without a guard been left by a panic?

vars == <<onceVars, value, got, abandoned>>

LockOps == {"get_or_init", "get_or_try_init", "set", "get"}

(* A stored value is named by the call that supplied it.                     *)
ValueOf(t) == <<t, calls[t]>>
Values == Threads \X (1..MaxCalls)

(* The answers that are not a reference to the value.                        *)
Rejected == <<"Err(value)", 0>>
Failed   == <<"Err(e)", 0>>
Expect   == <<"panic in expect", 0>>

OnceLockAssumption == NoValue \notin Values \cup {Rejected, Failed, Expect}

LockInit ==
  /\ Init
  /\ value = NoValue
  /\ got = [t \in Threads |-> NoValue]
  /\ abandoned = FALSE

-----------------------------------------------------------------------------
(* get() looks at the word once, and changes nothing if it is not COMPLETE;  *)
(* the other calls enter the loop of Once.                                   *)
LockCall(t, o) ==
  /\ IF o = "get"
     THEN /\ pc[t] = "idle" /\ calls[t] < MaxCalls
          /\ calls' = [calls EXCEPT ![t] = @ + 1]
          /\ op' = [op EXCEPT ![t] = o]
          /\ state = COMPLETE /\ Goto(t, "done")
          /\ UNCHANGED <<state, seen, succ, overruns>>
     ELSE Call(t, o)
  /\ got' = [got EXCEPT ![t] = NoValue]
  /\ UNCHANGED <<value, abandoned>>

(* Mutant: the store through the captured pointer is lost, as the comment in *)
(* get_or_try_init reports of a closure (once.vr:464).                       *)
CallFUnwritten(t) ==
  /\ pc[t] = "run"
  /\ \/ Goto(t, "publish")
     \/ op[t] = "get_or_try_init" /\ Goto(t, "reset")
     \/ op[t] = "get_or_init" /\ Goto(t, "unwind")
     \/ op[t] = "get_or_try_init" /\ Goto(t, "panicked")
  /\ abandoned' = (abandoned \/ pc'[t] = "panicked")
  /\ UNCHANGED <<state, op, seen, calls, succ, overruns, value, got>>

(* The claimant calls its function, set has the value already.  A panic      *)
(* unwinds through the guard of call_once; get_or_try_init has none.         *)
CallF(t) ==
  /\ pc[t] = "run"
  /\ \/ Goto(t, "write")
     \/ op[t] = "get_or_try_init" /\ Goto(t, "reset")
     \/ op[t] = "get_or_init" /\ Goto(t, "unwind")
     \/ op[t] = "get_or_try_init" /\ Goto(t, "panicked")
  /\ abandoned' = (abandoned \/ pc'[t] = "panicked")
  /\ UNCHANGED <<state, op, seen, calls, succ, overruns, value, got>>

(* *ptr = Maybe.Some(v)                                                      *)
Write(t) ==
  /\ pc[t] = "write"
  /\ value' = ValueOf(t)
  /\ Goto(t, "publish")
  /\ UNCHANGED <<state, op, seen, calls, succ, overruns, got, abandoned>>

(* The stores of get_or_try_init and try_get_or_set, after which they return *)
(* a reference to the value or the error.                                    *)
PublishDirect(t) ==
  /\ pc[t] = "publish"
  /\ state' = COMPLETE
  /\ succ' = succ + 1
  /\ Goto(t, "read")
  /\ UNCHANGED <<op, seen, calls, overruns, value, got, abandoned>>

Surrender(t) ==
  /\ pc[t] = "reset"
  /\ state' = INCOMPLETE
  /\ Goto(t, "idle")
  /\ got' = [got EXCEPT ![t] = Failed]
  /\ UNCHANGED <<op, seen, calls, succ, overruns, value, abandoned>>

ReleaseClaim(t) ==
  IF op[t] = "get_or_init"
  THEN (Publish(t) \/ Disarm(t) \/ GuardDrop(t)) /\ UNCHANGED <<value, got, abandoned>>
  ELSE PublishDirect(t) \/ Surrender(t)

(* self.value.as_ref(), with the expect() of all callers but get(); set()    *)
(* that lost gets its value back.                                            *)
Return(t) ==
  /\ pc[t] \in {"done", "read"}
  /\ Goto(t, "idle")
  /\ got' = [got EXCEPT ![t] =
               IF op[t] = "set" /\ pc[t] = "done" THEN Rejected
               ELSE IF value = NoValue /\ op[t] # "get" THEN Expect
               ELSE value]
  /\ UNCHANGED <<state, op, seen, calls, succ, overruns, value, abandoned>>

Panicked(t) ==
  /\ pc[t] = "panicked"
  /\ Finish(t) /\ UNCHANGED <<value, got, abandoned>>

(* take(&mut self): the owner is alone, no call and no reference is alive.   *)
Take ==
  /\ \A t \in Threads : pc[t] = "idle"
  /\ state = COMPLETE /\ value # NoValue
  /\ value' = NoValue
  /\ got' = [t \in Threads |-> NoValue]
  /\ UNCHANGED <<onceVars, abandoned>>

LockStep(t) ==
  \/ (Claim(t) \/ SpinOver(t)) /\ UNCHANGED <<value, got, abandoned>>
  \/ CallF(t) \/ Write(t) \/ ReleaseClaim(t) \/ Return(t) \/ Panicked(t)

LockNext ==
  \/ \E t \in Threads : (\E o \in LockOps : LockCall(t, o)) \/ LockStep(t)
  \/ Take

LockSpec == LockInit /\ [][LockNext]_vars

(* Threads run and their functions end.                                      *)
FairLockSpec == LockSpec /\ \A t \in Threads : WF_vars(LockStep(t))

-----------------------------------------------------------------------------
(* COMPLETE is published only over a stored value, by whichever of the three *)
(* ways the word is driven, and whatever fails or panics before.             *)
PublishesValue ==
  state # COMPLETE /\ state' = COMPLETE => value' # NoValue

(* All references ever handed out are to one value, the one that is stored;  *)
(* the value a losing set() returns is not the stored one.                   *)
AnswersAgree ==
  \A t \in Threads :
    /\ got[t] \in Values => got[t] = value
    /\ got[t] = Rejected => value # ValueOf(t)

(* A stored value is not replaced while it may be referenced: only take(),   *)
(* with no call in progress, removes it.                                     *)
KeepsValue ==
  state = COMPLETE /\ value' # value =>
    value' = NoValue /\ \A t \in Threads : pc[t] = "idle"

(* COMPLETE is published only over a stored value, and from then on the      *)
(* value is final but for take().                                            *)
ValueIsFinal == [][PublishesValue /\ KeepsValue]_vars
=============================================================================
