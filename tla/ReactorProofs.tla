--------------------------- MODULE ReactorProofs ----------------------------
(***************************************************************************)
(* The slots of the reactor have one owner each, a fired slot is never     *)
(* reported as a timeout and a call that has its descriptor to itself does *)
(* not sleep through its event, for any finite set of threads, any         *)
(* descriptors and any number of calls.                                    *)
(***************************************************************************)
EXTENDS Reactor, FiniteSetTheorems, TLAPS

Shape ==
  /\ freed \in Seq(Slots) /\ arena \in 0 .. Cardinality(Threads)
  /\ state \in [Slots -> {"idle", "armed", "fired"}]
  /\ pc \in [Threads -> PC] /\ slot \in [Threads -> Slots \cup {NoSlot}]
  /\ outcome \in [Threads -> {"none", "Ready", "TimedOut", "Error"}]
  /\ hit \subseteq Threads

(* A thread outside its call, or not yet served, has no slot.                *)
EmptyHanded == \A t \in Threads : ~ Holding(t) => slot[t] = NoSlot

(* The state of the slot a thread holds: idle until it is armed, fired if an *)
(* event has hit it, idle again once the call has decided for a timeout.     *)
(* Nobody but the owner and, on an armed slot, the background thread changes *)
(* it, which is where the ownership of slots comes in.                       *)
FreshIdle == \A t \in Threads : pc[t] = "arm" => state[slot[t]] = "idle"
HitFired  == \A t \in hit : Holding(t) /\ state[slot[t]] = "fired"
LateIdle  ==
  \A t \in Threads : outcome[t] = "TimedOut" =>
    pc[t] \in {"uninstall", "deregister", "release"} /\ state[slot[t]] = "idle"

Owned == Shape /\ EmptyHanded /\ SlotsOwned
IInv  == Owned /\ FreshIdle /\ HitFired /\ LateIdle

-----------------------------------------------------------------------------
Held == {t \in Threads : Holding(t)}

(* Slots come from 1 .. Cardinality(Threads).                                *)
LEMMA Cardinal == IsFiniteSet(Threads) /\ Cardinality(Threads) \in Nat
  BY ReactorAssumption, FS_CardinalityType DEF ReactorAssumption

LEMMA NoSlotIsNone == NoSlot \notin Slots
  BY ReactorAssumption, Cardinal DEF ReactorAssumption, Slots

(* What a push does to the free list.                                        *)
LEMMA PushFree ==
  ASSUME NEW S, NEW s \in Seq(S), NEW x \in S, IsInjective(s), x \notin ToSet(s)
  PROVE  /\ Append(s, x) \in Seq(S) /\ IsInjective(Append(s, x))
         /\ ToSet(Append(s, x)) = ToSet(s) \cup {x}
<1> DEFINE a == Append(s, x)
<1>1. /\ a \in Seq(S) /\ DOMAIN s = 1 .. Len(s) /\ DOMAIN a = 1 .. Len(s) + 1
      /\ a[Len(s) + 1] = x /\ \A i \in 1 .. Len(s) : a[i] = s[i]
  OBVIOUS
<1>2. IsInjective(a)
  BY <1>1 DEF IsInjective, ToSet
<1>3. ToSet(a) = ToSet(s) \cup {x}
  BY <1>1 DEF ToSet
<1> QED BY <1>1, <1>2, <1>3

(* What a pop does to it.                                                    *)
LEMMA PopFree ==
  ASSUME NEW S, NEW s \in Seq(S), s # <<>>, IsInjective(s)
  PROVE  /\ Last(s) \in S /\ Last(s) \in ToSet(s)
         /\ Front(s) \in Seq(S) /\ IsInjective(Front(s))
         /\ ToSet(Front(s)) = ToSet(s) \ {Last(s)}
<1>1. /\ Len(s) \in Nat \ {0} /\ DOMAIN s = 1 .. Len(s)
  OBVIOUS
<1>2. /\ Front(s) \in Seq(S) /\ DOMAIN Front(s) = 1 .. Len(s) - 1
      /\ \A i \in 1 .. Len(s) - 1 : Front(s)[i] = s[i]
  BY <1>1 DEF Front
<1>3. Last(s) = s[Len(s)] /\ Last(s) \in S /\ Last(s) \in ToSet(s)
  BY <1>1 DEF Last, ToSet
<1>4. IsInjective(Front(s))
  BY <1>1, <1>2 DEF IsInjective
<1>5. ToSet(Front(s)) = ToSet(s) \ {Last(s)}
  BY <1>1, <1>2, <1>3 DEF ToSet, IsInjective
<1> QED BY <1>2, <1>3, <1>4, <1>5

(* allocate_slot: with an empty free list every existing slot is held by     *)
(* another thread, so the arena has not reached the number of threads.       *)
LEMMA RoomInArena ==
  ASSUME Owned, NEW t \in Threads, ~ Holding(t), freed = <<>>
  PROVE  arena + 1 \in Slots
<1>1. Held \subseteq Threads \ {t} /\ IsFiniteSet(Held)
  BY Cardinal, FS_Subset DEF Held
<1>2. Cardinality(Held) \in Nat /\ Cardinality(Held) < Cardinality(Threads)
  <2>1. Held \in SUBSET Threads /\ Held # Threads
    BY <1>1
  <2> QED BY <2>1, <1>1, Cardinal, FS_Subset, FS_CardinalityType
<1>3. [u \in Held |-> slot[u]] \in Surjection(Held, 1 .. arena)
  <2>1. {slot[u] : u \in Held} = 1 .. arena
    BY DEF Owned, SlotsOwned, ToSet, Held
  <2> QED BY <2>1 DEF Surjection
<1>4. Cardinality(1 .. arena) <= Cardinality(Held)
  BY <1>1, <1>3, FS_Surjection
<1>5. Cardinality(1 .. arena) = arena
  BY Cardinal, FS_Interval DEF Owned, Shape
<1> QED BY <1>2, <1>4, <1>5, Cardinal DEF Owned, Shape, Slots

-----------------------------------------------------------------------------
(* Most steps of a call change neither the slots nor who holds one.          *)
LEMMA OwnersKept ==
  ASSUME Owned, Shape', slot' = slot, freed' = freed, arena' = arena,
         \A t \in Threads : Holding(t)' <=> Holding(t)
  PROVE  Owned'
<1>1. EmptyHanded'
  BY DEF Owned, EmptyHanded
<1>2. SlotsOwned'
  <2>1. {slot'[t] : t \in {u \in Threads : Holding(u)'}}
          = {slot[t] : t \in {u \in Threads : Holding(u)}}
    OBVIOUS
  <2>2. \A t \in Threads : Holding(t)' =>
           slot'[t] \notin ToSet(freed') /\ \A u \in Threads \ {t} : slot'[u] # slot'[t]
    BY DEF Owned, SlotsOwned
  <2> QED BY <2>1, <2>2 DEF Owned, SlotsOwned
<1> QED BY <1>1, <1>2 DEF Owned

(* Every held slot is in the arena and is not free.                          *)
LEMMA HeldSlot ==
  ASSUME Owned, NEW t \in Threads, Holding(t)
  PROVE  /\ slot[t] \in 1 .. arena /\ slot[t] \in Slots /\ slot[t] \notin ToSet(freed)
         /\ \A u \in Threads \ {t} : slot[u] # slot[t]
<1>1. slot[t] \in 1 .. arena
  <2>1. slot[t] \in {slot[u] : u \in {v \in Threads : Holding(v)}}
    OBVIOUS
  <2> QED BY <2>1 DEF Owned, SlotsOwned
<1>2. slot[t] \in Slots
  BY <1>1, Cardinal DEF Owned, Shape, Slots
<1> QED BY <1>1, <1>2 DEF Owned, SlotsOwned

LEMMA InitIInv == Init => IInv
<1> SUFFICES ASSUME Init PROVE IInv
  OBVIOUS
<1> USE DEF Init
<1>1. Shape
  BY Cardinal DEF Shape, PC
<1>2. \A t \in Threads : ~ Holding(t)
  BY DEF Holding
<1>3. SlotsOwned
  <2>1. IsInjective(freed) /\ ToSet(freed) = {}
    BY DEF IsInjective, ToSet
  <2>2. {slot[t] : t \in {u \in Threads : Holding(u)}} = {} /\ 1 .. arena = {}
    BY <1>2
  <2> QED BY <2>1, <2>2, <1>2 DEF SlotsOwned
<1>4. EmptyHanded /\ FreshIdle /\ HitFired /\ LateIdle
  BY DEF EmptyHanded, FreshIdle, HitFired, LateIdle
<1> QED BY <1>1, <1>3, <1>4 DEF IInv, Owned

(* allocate_slot hands out a slot nobody has: the last free one or, when     *)
(* there is none, a new one.                                                 *)
LEMMA AllocateKeeps ==
  ASSUME IInv, NEW t \in Threads, AllocateSlot(t)
  PROVE  IInv'
<1> DEFINE n == IF freed # <<>> THEN Last(freed) ELSE arena + 1
<1>0. pc[t] = "alloc" /\ ~ Holding(t) /\ Owned
  BY DEF AllocateSlot, Holding, IInv
<1>1. /\ n \in Slots /\ slot' = [slot EXCEPT ![t] = n]
      /\ pc' = [pc EXCEPT ![t] = "arm"] /\ state' = [state EXCEPT ![n] = "idle"]
      /\ outcome' = outcome /\ hit' = hit
  <2>1. n \in Slots
    BY <1>0, PopFree, RoomInArena DEF Owned, Shape, SlotsOwned
  <2>2. slot' = [slot EXCEPT ![t] = n]
    BY DEF AllocateSlot
  <2>3. slot'[t] = n
    BY <2>2, <1>0 DEF Owned, Shape
  <2> QED BY <2>1, <2>2, <2>3 DEF AllocateSlot, Goto, history
<1>2. /\ \A u \in Threads : Holding(u) => slot[u] # n
      /\ n # NoSlot
  <2>1. ASSUME NEW u \in Threads, Holding(u) PROVE slot[u] # n
    <3>1. CASE freed # <<>>
      BY <3>1, <2>1, <1>0, HeldSlot, PopFree DEF Owned, Shape, SlotsOwned
    <3>2. CASE freed = <<>>
      <4>1. slot[u] \in 1 .. arena /\ arena \in Nat
        BY <2>1, <1>0, HeldSlot, Cardinal DEF Owned, Shape
      <4> QED BY <4>1, <3>2
    <3> QED BY <3>1, <3>2
  <2> QED BY <2>1, <1>1, NoSlotIsNone
<1>3. \A u \in Threads : /\ slot'[u] = IF u = t THEN n ELSE slot[u]
                         /\ Holding(u)' <=> (u = t \/ Holding(u))
                         /\ u # t => pc'[u] = pc[u]
  BY <1>0, <1>1 DEF Owned, Shape, Holding
<1> DEFINE H == {slot[u] : u \in {v \in Threads : Holding(v)}}
<1>4. /\ freed' \in Seq(Slots) /\ IsInjective(freed')
      /\ arena' \in 0 .. Cardinality(Threads)
      /\ n \notin ToSet(freed') /\ ToSet(freed') \subseteq ToSet(freed)
      /\ ToSet(freed') \cup {n} \cup H = 1 .. arena'
  <2>0. /\ freed \in Seq(Slots) /\ IsInjective(freed)
        /\ ToSet(freed) \cup H = 1 .. arena /\ arena \in 0 .. Cardinality(Threads)
    BY <1>0 DEF Owned, Shape, SlotsOwned
  <2>1. CASE freed # <<>>
    <3>1. n = Last(freed) /\ freed' = Front(freed) /\ arena' = arena
      BY <2>1 DEF AllocateSlot
    <3>2. /\ n \in ToSet(freed) /\ freed' \in Seq(Slots) /\ IsInjective(freed')
          /\ ToSet(freed') = ToSet(freed) \ {n}
      BY <3>1, <2>0, <2>1, PopFree
    <3> QED BY <3>1, <3>2, <2>0
  <2>2. CASE freed = <<>>
    <3>1. n = arena + 1 /\ freed' = freed /\ arena' = arena + 1
      BY <2>2 DEF AllocateSlot
    <3>2. arena' \in 0 .. Cardinality(Threads) /\ 1 .. arena' = 1 .. arena \cup {n}
      BY <3>1, <2>0, <1>1, Cardinal DEF Slots
    <3>3. ToSet(freed) = {}
      BY <2>2 DEF ToSet
    <3> QED BY <3>1, <3>2, <3>3, <2>0
  <2> QED BY <2>1, <2>2
<1>5. Shape'
  BY <1>0, <1>1, <1>4 DEF Owned, Shape, PC
<1>6. EmptyHanded'
  BY <1>0, <1>3 DEF Owned, EmptyHanded
<1>7. SlotsOwned'
  <2>1. {slot'[u] : u \in {v \in Threads : Holding(v)'}} = H \cup {n}
    BY <1>0, <1>3
  <2>2. ASSUME NEW u \in Threads, Holding(u)'
        PROVE  slot'[u] \notin ToSet(freed') /\ \A v \in Threads \ {u} : slot'[v] # slot'[u]
    <3>1. CASE u = t
      <4>1. \A v \in Threads \ {u} : slot[v] # n
        BY <1>0, <1>2 DEF Owned, EmptyHanded
      <4> QED BY <3>1, <4>1, <1>3, <1>4
    <3>2. CASE u # t
      <4>1. Holding(u) /\ slot'[u] = slot[u] /\ slot[u] # n
        BY <3>2, <2>2, <1>2, <1>3
      <4> QED BY <4>1, <1>0, <1>3, <1>4, HeldSlot
    <3> QED BY <3>1, <3>2
  <2> QED BY <2>1, <2>2, <1>4 DEF SlotsOwned
<1>8. FreshIdle' /\ HitFired' /\ LateIdle'
  <2> USE <1>0, <1>1, <1>2, <1>3 DEF Owned, Shape
  <2>1. FreshIdle'
    BY HeldSlot DEF IInv, FreshIdle, Holding
  <2>2. HitFired'
    BY HeldSlot DEF IInv, HitFired
  <2>3. LateIdle'
    BY HeldSlot DEF IInv, LateIdle, Holding
  <2> QED BY <2>1, <2>2, <2>3
<1> QED BY <1>5, <1>6, <1>7, <1>8 DEF IInv, Owned

(* release_slot pushes the slot of the caller, who is its only holder.       *)
LEMMA ReleaseKeeps ==
  ASSUME IInv, NEW t \in Threads, ReleaseSlot(t)
  PROVE  IInv'
<1> DEFINE H == {slot[u] : u \in {v \in Threads : Holding(v)}}
<1>0. pc[t] = "release" /\ Holding(t) /\ Owned
  BY DEF ReleaseSlot, Holding, IInv
<1>1. /\ slot' = [slot EXCEPT ![t] = NoSlot] /\ pc' = [pc EXCEPT ![t] = "idle"]
      /\ freed' = Append(freed, slot[t]) /\ arena' = arena /\ state' = state
      /\ outcome' = [outcome EXCEPT ![t] = "none"] /\ hit' = hit \ {t}
  BY DEF ReleaseSlot, Return, Goto, slotVars
<1>2. \A u \in Threads : /\ slot'[u] = IF u = t THEN NoSlot ELSE slot[u]
                         /\ Holding(u)' <=> (u # t /\ Holding(u))
                         /\ u # t => pc'[u] = pc[u] /\ outcome'[u] = outcome[u]
  BY <1>0, <1>1 DEF Owned, Shape, Holding
<1>3. /\ freed' \in Seq(Slots) /\ IsInjective(freed')
      /\ ToSet(freed') = ToSet(freed) \cup {slot[t]}
  BY <1>0, <1>1, HeldSlot, PushFree DEF Owned, Shape, SlotsOwned
<1>4. Shape'
  BY <1>0, <1>1, <1>3 DEF Owned, Shape, PC
<1>5. EmptyHanded'
  BY <1>0, <1>2 DEF Owned, EmptyHanded
<1>6. SlotsOwned'
  <2>1. {slot'[u] : u \in {v \in Threads : Holding(v)'}} \cup {slot[t]} = H
    BY <1>0, <1>2
  <2>2. ASSUME NEW u \in Threads, Holding(u)'
        PROVE  slot'[u] \notin ToSet(freed') /\ \A v \in Threads \ {u} : slot'[v] # slot'[u]
    <3>1. u # t /\ Holding(u) /\ slot'[u] = slot[u]
      BY <2>2, <1>2
    <3>2. /\ slot[u] \in Slots /\ slot[u] \notin ToSet(freed)
          /\ \A v \in Threads \ {u} : slot[v] # slot[u]
      BY <3>1, <1>0, HeldSlot
    <3> QED BY <3>1, <3>2, <1>2, <1>3, NoSlotIsNone
  <2>3. ToSet(freed) \cup H = 1 .. arena
    BY <1>0 DEF Owned, SlotsOwned
  <2> QED BY <2>1, <2>2, <2>3, <1>1, <1>3 DEF SlotsOwned
<1>7. FreshIdle' /\ HitFired' /\ LateIdle'
  <2> USE <1>0, <1>1, <1>2 DEF Owned, Shape
  <2>1. FreshIdle'
    BY DEF IInv, FreshIdle
  <2>2. HitFired'
    BY DEF IInv, HitFired
  <2>3. LateIdle'
    BY DEF IInv, LateIdle
  <2> QED BY <2>1, <2>2, <2>3
<1> QED BY <1>4, <1>5, <1>6, <1>7 DEF IInv, Owned

-----------------------------------------------------------------------------
(* A step of a thread that keeps its slot, changing at most the state of     *)
(* that slot and its own answer: it must not overwrite a hit, nor leave a    *)
(* timeout with a slot that is not idle.                                     *)
LEMMA HolderMoves ==
  ASSUME IInv, NEW t \in Threads, Holding(t),
         NEW l \in PC \ {"idle", "healthy", "alloc", "arm"},
         NEW s \in {"idle", "armed", "fired"},
         NEW o \in {"none", "Ready", "TimedOut", "Error"},
         pc' = [pc EXCEPT ![t] = l], state' = [state EXCEPT ![slot[t]] = s],
         outcome' = [outcome EXCEPT ![t] = o],
         UNCHANGED <<slot, freed, arena, hit>>,
         t \in hit => s = "fired",
         o = "TimedOut" => l \in {"uninstall", "deregister", "release"} /\ s = "idle"
  PROVE  IInv'
<1>0. Owned /\ Shape /\ slot[t] \in Slots /\ \A u \in Threads \ {t} : slot[u] # slot[t]
  BY HeldSlot DEF IInv, Owned
<1>1. Shape'
  BY <1>0 DEF Shape
<1>2. \A u \in Threads : /\ Holding(u)' <=> Holding(u)
                         /\ u # t => /\ pc'[u] = pc[u] /\ outcome'[u] = outcome[u]
                                     /\ state'[slot[u]] = state[slot[u]]
  BY <1>0 DEF Shape, Holding
<1>3. pc'[t] = l /\ outcome'[t] = o /\ state'[slot[t]] = s
  BY <1>0 DEF Shape
<1>4. Owned'
  BY <1>0, <1>1, <1>2, OwnersKept
<1>5. FreshIdle'
  BY <1>2, <1>3 DEF IInv, FreshIdle
<1>6. HitFired'
  BY <1>0, <1>2, <1>3 DEF IInv, HitFired, Shape
<1>7. LateIdle'
  BY <1>2, <1>3 DEF IInv, LateIdle
<1> QED BY <1>4, <1>5, <1>6, <1>7 DEF IInv

(* Every step of a call but allocate_slot and release_slot: the thread moves *)
(* on within the part of wait that holds a slot, or the part before it.      *)
LEMMA CallKeeps ==
  ASSUME IInv, NEW t \in Threads,
         \/ Wait(t) \/ CheckHealthy(t) \/ Arm(t) \/ InstallWaiter(t) \/ RegisterMod(t)
         \/ RegisterAdd(t) \/ UndoInstall(t) \/ UndoIdle(t) \/ Park(t) \/ Idle(t)
         \/ UninstallWaiter(t) \/ Deregister(t)
  PROVE  IInv'
<1> USE DEF Goto, Decide, shardVars, slotVars, callVars, history
<1>0. Owned /\ Shape /\ FreshIdle /\ HitFired /\ LateIdle
  BY DEF IInv, Owned
<1>1. CASE Wait(t)
  <2>1. /\ pc[t] = "idle" /\ pc' = [pc EXCEPT ![t] = "healthy"] /\ slot' = slot
        /\ freed' = freed /\ arena' = arena /\ state' = state /\ outcome' = outcome
        /\ hit' = hit
    BY <1>1 DEF Wait
  <2>2. Shape'
    BY <2>1, <1>0 DEF Shape, PC
  <2>3. Owned'
    BY <2>1, <2>2, <1>0, OwnersKept DEF Shape, Holding
  <2>4. FreshIdle' /\ HitFired' /\ LateIdle'
    BY <2>1, <1>0 DEF Shape, FreshIdle, HitFired, LateIdle, Holding
  <2> QED BY <2>3, <2>4 DEF IInv
<1>2. CASE CheckHealthy(t)
  <2>1. pc[t] = "healthy" /\ slot[t] = NoSlot /\ outcome[t] # "TimedOut" /\ t \notin hit
    BY <1>2, <1>0 DEF CheckHealthy, Owned, EmptyHanded, Holding, HitFired, LateIdle
  <2>2. /\ \E l \in {"alloc", "idle"} : pc' = [pc EXCEPT ![t] = l]
        /\ slot' = slot /\ freed' = freed /\ arena' = arena /\ state' = state
        /\ hit' = hit /\ outcome' \in {outcome, [outcome EXCEPT ![t] = "none"]}
    <3>1. CASE healthy = "yes"
      BY <3>1, <1>2 DEF CheckHealthy
    <3>2. CASE healthy # "yes"
      <4>1. Return(t) /\ UNCHANGED <<freed, arena, state>>
        BY <3>2, <1>2 DEF CheckHealthy
      <4>2. slot' = slot
        BY <4>1, <2>1, <1>0 DEF Return, Shape
      <4> QED BY <4>1, <4>2, <2>1 DEF Return
    <3> QED BY <3>1, <3>2
  <2>3. Shape'
    BY <2>2, <1>0 DEF Shape, PC
  <2>4. Owned'
    BY <2>1, <2>2, <2>3, <1>0, OwnersKept DEF Shape, Holding
  <2>5. FreshIdle' /\ HitFired' /\ LateIdle'
    BY <2>1, <2>2, <1>0 DEF Shape, FreshIdle, HitFired, LateIdle, Holding
  <2> QED BY <2>4, <2>5 DEF IInv
<1>h. ASSUME pc[t] \notin {"idle", "healthy", "alloc"}
      PROVE  /\ Holding(t) /\ slot[t] \in Slots
             /\ state[slot[t]] \in {"idle", "armed", "fired"}
             /\ state = [state EXCEPT ![slot[t]] = state[slot[t]]]
             /\ outcome[t] \in {"none", "Ready", "TimedOut", "Error"}
             /\ outcome = [outcome EXCEPT ![t] = outcome[t]]
             /\ t \in hit => state[slot[t]] = "fired"
  <2>1. Holding(t)
    BY <1>h DEF Holding
  <2>2. slot[t] \in Slots
    BY <2>1, <1>0, HeldSlot
  <2> QED BY <2>1, <2>2, <1>0 DEF Shape, HitFired
<1>3. CASE Arm(t)
  <2>1. /\ pc[t] = "arm" /\ t \notin hit /\ outcome[t] # "TimedOut"
        /\ pc' = [pc EXCEPT ![t] = "install"]
        /\ state' = [state EXCEPT ![slot[t]] = "armed"]
        /\ UNCHANGED <<slot, freed, arena, hit, outcome>>
    BY <1>3, <1>0 DEF Arm, FreshIdle, HitFired, LateIdle
  <2>2. "install" \in PC \ {"idle", "healthy", "alloc", "arm"}
    BY DEF PC
  <2> QED BY <2>1, <2>2, <1>h, HolderMoves
<1>4. CASE InstallWaiter(t)
  <2>1. pc[t] = "install" /\ outcome[t] # "TimedOut"
    BY <1>4, <1>0 DEF InstallWaiter, LateIdle
  <2>2. PICK l \in {"mod"} : pc' = [pc EXCEPT ![t] = l]
    BY <1>4 DEF InstallWaiter
  <2>3. l \in PC \ {"idle", "healthy", "alloc", "arm"}
    BY <2>2 DEF PC
  <2>4. UNCHANGED <<slot, freed, arena, hit, state, outcome>>
    BY <1>4 DEF InstallWaiter
  <2> QED BY <2>1, <2>2, <2>3, <2>4, <1>h, HolderMoves
<1>5. CASE RegisterMod(t)
  <2>1. pc[t] = "mod" /\ outcome[t] # "TimedOut"
    BY <1>5, <1>0 DEF RegisterMod, LateIdle
  <2>2. PICK l \in {"park", "add"} : pc' = [pc EXCEPT ![t] = l]
    BY <1>5 DEF RegisterMod
  <2>3. l \in PC \ {"idle", "healthy", "alloc", "arm"}
    BY <2>2 DEF PC
  <2>4. UNCHANGED <<slot, freed, arena, hit, state, outcome>>
    BY <1>5 DEF RegisterMod
  <2> QED BY <2>1, <2>2, <2>3, <2>4, <1>h, HolderMoves
<1>6. CASE RegisterAdd(t)
  <2>1. pc[t] = "add" /\ outcome[t] # "TimedOut"
    BY <1>6, <1>0 DEF RegisterAdd, LateIdle
  <2>2. PICK l \in {"park", "undo"} : pc' = [pc EXCEPT ![t] = l]
    BY <1>6 DEF RegisterAdd
  <2>3. l \in PC \ {"idle", "healthy", "alloc", "arm"}
    BY <2>2 DEF PC
  <2>4. UNCHANGED <<slot, freed, arena, hit, state, outcome>>
    BY <1>6 DEF RegisterAdd
  <2> QED BY <2>1, <2>2, <2>3, <2>4, <1>h, HolderMoves
<1>7. CASE UndoInstall(t)
  <2>1. pc[t] = "undo" /\ outcome[t] # "TimedOut"
    BY <1>7, <1>0 DEF UndoInstall, LateIdle
  <2>2. PICK l \in {"undo_idle"} : pc' = [pc EXCEPT ![t] = l]
    BY <1>7 DEF UndoInstall
  <2>3. l \in PC \ {"idle", "healthy", "alloc", "arm"}
    BY <2>2 DEF PC
  <2>4. UNCHANGED <<slot, freed, arena, hit, state, outcome>>
    BY <1>7 DEF UndoInstall
  <2> QED BY <2>1, <2>2, <2>3, <2>4, <1>h, HolderMoves
<1>8. CASE UndoIdle(t)
  <2> DEFINE s == IF state[slot[t]] = "armed" THEN "idle" ELSE state[slot[t]]
  <2>1. /\ pc[t] = "undo_idle" /\ pc' = [pc EXCEPT ![t] = "release"]
        /\ outcome' = [outcome EXCEPT ![t] = "Error"]
        /\ state' = [state EXCEPT ![slot[t]] = s]
        /\ UNCHANGED <<slot, freed, arena, hit>>
    BY <1>8 DEF UndoIdle
  <2>2. s \in {"idle", "armed", "fired"} /\ (t \in hit => s = "fired")
    BY <2>1, <1>h
  <2>3. "release" \in PC \ {"idle", "healthy", "alloc", "arm"}
    BY DEF PC
  <2> QED BY <2>1, <2>2, <2>3, <1>h, HolderMoves
<1>9. CASE Park(t)
  <2>1. /\ pc[t] = "park" /\ outcome[t] # "TimedOut"
        /\ UNCHANGED <<slot, freed, arena, hit, state>>
    BY <1>9, <1>0 DEF Park, LateIdle
  <2>2. {"release", "late"} \subseteq PC \ {"idle", "healthy", "alloc", "arm"}
    BY DEF PC
  <2>3. CASE notified[slot[t]] = "yes"
    <3>1. outcome' = [outcome EXCEPT ![t] = "Ready"] /\ pc' = [pc EXCEPT ![t] = "release"]
      BY <2>3, <1>9 DEF Park
    <3> QED BY <3>1, <2>1, <2>2, <1>h, HolderMoves
  <2>4. CASE notified[slot[t]] # "yes"
    <3>1. outcome' = outcome /\ pc' = [pc EXCEPT ![t] = "late"]
      BY <2>4, <1>9 DEF Park
    <3> QED BY <3>1, <2>1, <2>2, <1>h, HolderMoves
  <2> QED BY <2>3, <2>4
<1>10. CASE Idle(t)
  <2>1. pc[t] = "late" /\ UNCHANGED <<slot, freed, arena, hit>>
    BY <1>10 DEF Idle
  <2>2. {"release", "uninstall"} \subseteq PC \ {"idle", "healthy", "alloc", "arm"}
    BY DEF PC
  <2>3. CASE state[slot[t]] = "armed"
    <3>1. /\ outcome' = [outcome EXCEPT ![t] = "TimedOut"] /\ t \notin hit
          /\ pc' = [pc EXCEPT ![t] = "uninstall"]
          /\ state' = [state EXCEPT ![slot[t]] = "idle"]
      BY <2>1, <2>3, <1>10, <1>h DEF Idle
    <3> QED BY <3>1, <2>1, <2>2, <1>h, HolderMoves
  <2>4. CASE state[slot[t]] # "armed"
    <3>1. /\ outcome' = [outcome EXCEPT ![t] = "Ready"] /\ state' = state
          /\ pc' = [pc EXCEPT ![t] = "release"]
      BY <2>4, <1>10 DEF Idle
    <3> QED BY <3>1, <2>1, <2>2, <1>h, HolderMoves
  <2> QED BY <2>3, <2>4
<1>11. CASE UninstallWaiter(t)
  <2>1. /\ pc[t] = "uninstall" /\ pc' = [pc EXCEPT ![t] = "deregister"]
        /\ UNCHANGED <<slot, freed, arena, hit, state, outcome>>
    BY <1>11 DEF UninstallWaiter
  <2>2. outcome[t] = "TimedOut" => state[slot[t]] = "idle"
    BY <1>0 DEF LateIdle
  <2>3. "deregister" \in PC \ {"idle", "healthy", "alloc", "arm"}
    BY DEF PC
  <2> QED BY <2>1, <2>2, <2>3, <1>h, HolderMoves
<1>12. CASE Deregister(t)
  <2>1. /\ pc[t] = "deregister" /\ pc' = [pc EXCEPT ![t] = "release"]
        /\ UNCHANGED <<slot, freed, arena, hit, state, outcome>>
    BY <1>12 DEF Deregister
  <2>2. outcome[t] = "TimedOut" => state[slot[t]] = "idle"
    BY <1>0 DEF LateIdle
  <2>3. "release" \in PC \ {"idle", "healthy", "alloc", "arm"}
    BY DEF PC
  <2> QED BY <2>1, <2>2, <2>3, <1>h, HolderMoves
<1> QED BY <1>1, <1>2, <1>3, <1>4, <1>5, <1>6, <1>7, <1>8, <1>9, <1>10, <1>11, <1>12

(* The background thread holds no slot.  What it fires was armed, so it is   *)
(* neither fresh nor already given up.                                       *)
LEMMA BackgroundKeeps == IInv /\ Background => IInv'
<1> SUFFICES ASSUME IInv, Background PROVE IInv'
  OBVIOUS
<1> USE DEF shardVars, slotVars, callVars, history
<1>0. Owned /\ Shape /\ FreshIdle /\ HitFired /\ LateIdle
  BY DEF IInv, Owned
<1>1. UNCHANGED <<slot, freed, arena, pc, outcome>>
  BY DEF Background, Harvest, BgFails, TakeWaiter, Harvested, Fire, Notify
<1>2. \A t \in Threads : Holding(t)' <=> Holding(t)
  BY <1>1 DEF Holding
<1>3. CASE UNCHANGED <<state, hit>>
  <2>1. Shape'
    BY <1>0, <1>1, <1>3 DEF Shape
  <2>2. Owned'
    BY <2>1, <1>0, <1>1, <1>2, OwnersKept
  <2>3. FreshIdle' /\ HitFired' /\ LateIdle'
    BY <1>0, <1>1, <1>2, <1>3 DEF FreshIdle, HitFired, LateIdle, Shape
  <2> QED BY <2>2, <2>3 DEF IInv
<1>4. CASE Fire /\ state[shot] = "armed"
  <2>1. /\ state' = [state EXCEPT ![shot] = "fired"]
        /\ hit' = hit \cup {t \in Threads : Holding(t) /\ slot[t] = shot}
    BY <1>4 DEF Fire
  <2>2. Shape'
    BY <2>1, <1>0, <1>1 DEF Shape
  <2>3. Owned'
    BY <2>2, <1>0, <1>1, <1>2, OwnersKept
  <2>4. FreshIdle'
    BY <2>1, <1>0, <1>1, <1>4, HeldSlot DEF FreshIdle, Holding, Shape
  <2>5. HitFired'
    BY <2>1, <1>0, <1>1, <1>2, HeldSlot DEF HitFired, Shape
  <2>6. LateIdle'
    BY <2>1, <1>0, <1>1, <1>4, HeldSlot DEF LateIdle, Holding, Shape
  <2> QED BY <2>3, <2>4, <2>5, <2>6 DEF IInv
<1>5. UNCHANGED <<state, hit>> \/ (Fire /\ state[shot] = "armed")
  BY DEF Background, Harvest, BgFails, TakeWaiter, Harvested, Fire, Notify
<1> QED BY <1>3, <1>4, <1>5

LEMMA NextIInv == IInv /\ [Next]_vars => IInv'
<1> SUFFICES ASSUME IInv, [Next]_vars PROVE IInv'
  OBVIOUS
<1>1. ASSUME NEW t \in Threads, Wait(t) \/ InCall(t) PROVE IInv'
  BY <1>1, CallKeeps, AllocateKeeps, ReleaseKeeps DEF InCall
<1>2. CASE Background
  BY <1>2, BackgroundKeeps
<1>3. CASE UNCHANGED vars
  <2>1. UNCHANGED <<slot, freed, arena, pc, outcome, state, hit>>
    BY <1>3 DEF vars, shardVars, slotVars, callVars, history
  <2> QED BY <2>1 DEF IInv, Owned, Shape, EmptyHanded, SlotsOwned, FreshIdle, HitFired,
                      LateIdle, Holding
<1> QED BY <1>1, <1>2, <1>3 DEF Next

-----------------------------------------------------------------------------
(* Every slot of the arena belongs to exactly one call or to the free list,  *)
(* on every path out of Reactor::wait.                                       *)
THEOREM ReactorSlotsOwned == Spec => []SlotsOwned
<1>1. IInv => SlotsOwned
  BY DEF IInv, Owned
<1> QED BY <1>1, InitIInv, NextIInv, PTL DEF Spec

(* Once Slot::fire has hit the slot of a call, that call does not answer     *)
(* TimedOut, however close its deadline: the exchange in Slot::idle finds    *)
(* the slot fired, and no other call can have reset it.                      *)
THEOREM ReactorDeliveredIsReady == Spec => []DeliveredIsReady
<1>1. IInv => DeliveredIsReady
  <2> SUFFICES ASSUME IInv, NEW t \in hit PROVE outcome[t] # "TimedOut"
    BY DEF DeliveredIsReady
  <2>1. t \in Threads /\ state[slot[t]] = "fired"
    BY DEF IInv, Owned, Shape, HitFired
  <2> QED BY <2>1 DEF IInv, LateIdle
<1> QED BY <1>1, InitIInv, NextIInv, PTL DEF Spec

-----------------------------------------------------------------------------
(* The lone waiter.  Its slot, once armed, is armed or fired, and fired only *)
(* if the flag is up or the background thread is about to raise it.          *)
Live == {"install", "mod", "add", "park"}

LoneShape ==
  /\ waiters \in [Keys -> Slots \cup {NoSlot}]
  /\ notified \in [Slots -> {"no", "yes"}]
  /\ interest \in [Fds -> Kinds \cup {"absent", "off"}]
  /\ key \in [Threads -> Keys]
  /\ alone \subseteq Threads

BatchDone == bg = "wait" => batch = {}

AloneOnFd ==
  \A t \in alone :
    /\ Using(t)
    /\ \A u \in Threads : u # t /\ Using(u) => key[u][1] # key[t][1]

FlagFollows ==
  \A t \in Threads : pc[t] \in Live =>
    \/ state[slot[t]] = "armed"
    \/ state[slot[t]] = "fired" /\ notified[slot[t]] = "yes"
    \/ state[slot[t]] = "fired" /\ bg = "notify" /\ shot = slot[t]

(* From the installation on, the event of a lone waiter has come, is on its  *)
(* way to its slot, or finds the slot under its key; and once it is parked   *)
(* there is an event to come.                                                *)
Reached(t) == \/ notified[slot[t]] = "yes"
              \/ bg \in {"fire", "notify"} /\ shot = slot[t]
Awaited(t) == interest[key[t][1]] = key[t][2] \/ key[t] \in batch
Filed ==
  \A t \in alone : (pc[t] \in {"mod", "add", "park"} /\ bg # "dead") =>
    \/ Reached(t)
    \/ waiters[key[t]] = slot[t] /\ (pc[t] = "park" => Awaited(t))

LInv == IInv /\ LoneShape /\ BatchDone /\ AloneOnFd /\ FlagFollows /\ Filed

LEMMA LInit == Init => LInv
<1> SUFFICES ASSUME Init PROVE LInv
  OBVIOUS
<1>1. IInv
  BY InitIInv
<1>2. NoKey \in Keys
  BY ReactorAssumption DEF ReactorAssumption, NoKey
<1>3. LoneShape
  BY <1>2 DEF Init, LoneShape
<1>4. BatchDone /\ AloneOnFd /\ FlagFollows /\ Filed
  BY DEF Init, BatchDone, AloneOnFd, FlagFollows, Filed, Live
<1> QED BY <1>1, <1>3, <1>4 DEF LInv

(* A step of one thread leaves the call of another, and the slot it holds,   *)
(* as they are; what it does to the map and to the kernel's table it does    *)
(* under its own key.                                                        *)
LEMMA OthersUntouched ==
  ASSUME IInv, LoneShape, NEW t \in Threads, Wait(t) \/ InCall(t),
         NEW u \in Threads \ {t}
  PROVE  /\ pc'[u] = pc[u] /\ key'[u] = key[u] /\ slot'[u] = slot[u]
         /\ Holding(u) => /\ state'[slot[u]] = state[slot[u]]
                          /\ notified'[slot[u]] = notified[slot[u]]
<1> USE DEF Goto, Decide, Return, shardVars, slotVars, callVars, history, LoneShape
<1>0. Shape
  BY DEF IInv, Owned
<1>1. pc'[u] = pc[u] /\ key'[u] = key[u]
  BY <1>0 DEF Shape, Wait, InCall, CheckHealthy, AllocateSlot, Arm, InstallWaiter,
     RegisterMod, RegisterAdd, UndoInstall, UndoIdle, Park, Idle, UninstallWaiter,
     Deregister, ReleaseSlot
<1>2. slot'[u] = slot[u]
  BY <1>0 DEF Shape, Wait, InCall, CheckHealthy, AllocateSlot, Arm, InstallWaiter,
     RegisterMod, RegisterAdd, UndoInstall, UndoIdle, Park, Idle, UninstallWaiter,
     Deregister, ReleaseSlot
<1>3. ASSUME Holding(u)
      PROVE  /\ state'[slot[u]] = state[slot[u]]
             /\ notified'[slot[u]] = notified[slot[u]]
  <2>1. slot[u] \in Slots /\ slot[t] # slot[u]
    BY <1>3, HeldSlot DEF IInv
  <2>2. CASE AllocateSlot(t)
    <3>1. IInv' /\ Holding(u)'
      BY <2>2, <1>1, <1>3, AllocateKeeps DEF Holding
    <3>2. slot'[t] # slot'[u]
      BY <3>1 DEF IInv, Owned, SlotsOwned
    <3>3. state' = [state EXCEPT ![slot'[t]] = "idle"] /\ notified' = notified
      BY <2>2 DEF AllocateSlot
    <3> QED BY <3>2, <3>3, <2>1, <1>0, <1>2 DEF Shape
  <2>3. CASE ~ AllocateSlot(t)
    BY <2>1, <2>3, <1>0 DEF Shape, Wait, InCall, CheckHealthy, Arm, InstallWaiter,
     RegisterMod, RegisterAdd, UndoInstall, UndoIdle, Park, Idle, UninstallWaiter,
     Deregister, ReleaseSlot
  <2> QED BY <2>2, <2>3
<1> QED BY <1>1, <1>2, <1>3

LEMMA ThreadKeepsShape ==
  ASSUME LInv, NEW t \in Threads, Wait(t) \/ InCall(t)
  PROVE  LoneShape' /\ BatchDone' /\ AloneOnFd'
<1> USE DEF Goto, Decide, shardVars, slotVars, bgVars, callVars, history
<1>0. IInv /\ LoneShape /\ BatchDone /\ AloneOnFd /\ Shape
  BY DEF LInv, IInv, Owned
<1>1. UNCHANGED bgVars
  BY DEF Wait, InCall, CheckHealthy, AllocateSlot, Arm, InstallWaiter,
     RegisterMod, RegisterAdd, UndoInstall, UndoIdle, Park, Idle, UninstallWaiter,
     Deregister, ReleaseSlot
<1>2. BatchDone'
  BY <1>0, <1>1 DEF BatchDone
<1>3. \A u \in Threads \ {t} : (Using(u)' <=> Using(u)) /\ key'[u] = key[u]
  BY <1>0, OthersUntouched DEF Using
<1>4. CASE Wait(t)
  <2>1. PICK k \in Keys :
          LET others == {u \in Threads \ {t} : Using(u) /\ key[u][1] = k[1]} IN
          /\ key' = [key EXCEPT ![t] = k]
          /\ alone' = (alone \ others) \cup (IF others = {} THEN {t} ELSE {})
    BY <1>4 DEF Wait
  <2>2. t \notin alone /\ Using(t)'
    BY <1>0, <1>4 DEF Wait, AloneOnFd, Using, Shape
  <2>3. LoneShape'
    BY <1>0, <1>4, <2>1 DEF Wait, LoneShape
  <2>4. AloneOnFd'
    <3> SUFFICES ASSUME NEW v \in alone'
                 PROVE  /\ Using(v)'
                        /\ \A u \in Threads : u # v /\ Using(u)' => key'[u][1] # key'[v][1]
      BY DEF AloneOnFd
    <3>1. v \in Threads
      BY <2>3 DEF LoneShape
    <3>2. key'[t] = k
      BY <2>1, <1>0 DEF LoneShape
    <3>3. CASE v = t
      <4>1. \A u \in Threads \ {t} : ~(Using(u) /\ key[u][1] = k[1])
        BY <3>3, <2>1, <2>2
      <4> QED BY <4>1, <3>2, <3>3, <2>2, <1>3
    <3>4. CASE v # t
      <4>1. v \in alone /\ Using(v) /\ key[v][1] # k[1]
        BY <3>1, <3>4, <2>1, <1>0 DEF AloneOnFd
      <4> QED BY <4>1, <3>1, <3>2, <3>4, <1>0, <1>3 DEF AloneOnFd
    <3> QED BY <3>3, <3>4
  <2> QED BY <2>3, <2>4, <1>2
<1>5. CASE (CheckHealthy(t) \/ ReleaseSlot(t)) /\ Return(t)
  <2>1. /\ pc' = [pc EXCEPT ![t] = "idle"] /\ key' = [key EXCEPT ![t] = NoKey]
        /\ alone' = alone \ {t} /\ UNCHANGED <<waiters, notified, interest>>
    BY <1>5 DEF CheckHealthy, ReleaseSlot, Return
  <2>2. NoKey \in Keys
    BY ReactorAssumption DEF ReactorAssumption, NoKey
  <2>3. LoneShape'
    BY <2>1, <2>2, <1>0 DEF LoneShape
  <2>4. ~ Using(t)'
    BY <2>1, <1>0 DEF Shape, Using
  <2>5. AloneOnFd'
    BY <2>1, <2>4, <1>0, <1>3 DEF AloneOnFd, LoneShape
  <2> QED BY <2>3, <2>5, <1>2
<1>6. CASE InCall(t) /\ ~((CheckHealthy(t) \/ ReleaseSlot(t)) /\ Return(t))
  <2>1. key' = key /\ alone' = alone /\ (Using(t) <=> Using(t)')
    BY <1>0, <1>6 DEF Shape, Using, InCall, CheckHealthy, AllocateSlot, Arm, InstallWaiter,
     RegisterMod, RegisterAdd, UndoInstall, UndoIdle, Park, Idle, UninstallWaiter,
     Deregister, ReleaseSlot
  <2>2. AloneOnFd'
    BY <2>1, <1>0, <1>3 DEF AloneOnFd, LoneShape
  <2>3. key[t] \in Keys /\ slot[t] \in Slots \cup {NoSlot}
    BY <1>0 DEF LoneShape, Shape
  <2>4. waiters' \in [Keys -> Slots \cup {NoSlot}]
    BY <2>3, <1>0, <1>6 DEF LoneShape, InCall, CheckHealthy, AllocateSlot, Arm,
     InstallWaiter, RegisterMod, RegisterAdd, UndoInstall, UndoIdle, Park, Idle,
     UninstallWaiter, Deregister, ReleaseSlot, Unfiled
  <2>5. notified' \in [Slots -> {"no", "yes"}]
    BY <1>0, <1>6 DEF LoneShape, InCall, CheckHealthy, AllocateSlot, Arm,
     InstallWaiter, RegisterMod, RegisterAdd, UndoInstall, UndoIdle, Park, Idle,
     UninstallWaiter, Deregister, ReleaseSlot
  <2>6. interest' \in [Fds -> Kinds \cup {"absent", "off"}]
    <3>1. key[t][2] \in Kinds
      BY <2>3 DEF Kinds
    <3> QED
      BY <3>1, <1>0, <1>6 DEF LoneShape, InCall, CheckHealthy, AllocateSlot, Arm,
       InstallWaiter, RegisterMod, RegisterAdd, UndoInstall, UndoIdle, Park, Idle,
       UninstallWaiter, Deregister, ReleaseSlot, Interested
  <2> QED BY <2>1, <2>2, <2>4, <2>5, <2>6, <1>0, <1>2 DEF LoneShape
<1> QED BY <1>4, <1>5, <1>6

(* A thread arms the slot it holds before it can be found, and only the      *)
(* owner could disarm it.                                                    *)
LEMMA ThreadKeepsFlag ==
  ASSUME LInv, NEW t \in Threads, Wait(t) \/ InCall(t)
  PROVE  FlagFollows'
<1> USE DEF Goto, Decide, shardVars, slotVars, bgVars, callVars, history
<1>0. IInv /\ LoneShape /\ FlagFollows /\ Owned /\ Shape
  BY DEF LInv, IInv, Owned
<1>1. bg' = bg /\ shot' = shot
  BY DEF Wait, InCall, CheckHealthy, AllocateSlot, Arm, InstallWaiter,
     RegisterMod, RegisterAdd, UndoInstall, UndoIdle, Park, Idle, UninstallWaiter,
     Deregister, ReleaseSlot
<1> SUFFICES ASSUME NEW v \in Threads, pc'[v] \in Live
             PROVE  \/ state'[slot'[v]] = "armed"
                    \/ state'[slot'[v]] = "fired" /\ notified'[slot'[v]] = "yes"
                    \/ state'[slot'[v]] = "fired" /\ bg' = "notify" /\ shot' = slot'[v]
  BY DEF FlagFollows
<1>2. CASE v # t
  <2>1. pc[v] \in Live /\ Holding(v)
    BY <1>0, <1>2, OthersUntouched DEF Live, Holding
  <2>2. /\ slot'[v] = slot[v] /\ state'[slot[v]] = state[slot[v]]
        /\ notified'[slot[v]] = notified[slot[v]]
    BY <2>1, <1>0, <1>2, OthersUntouched
  <2> QED BY <2>1, <2>2, <1>0, <1>1 DEF FlagFollows
<1>3. CASE v = t
  <2>1. \/ Arm(t)
        \/ pc[t] \in Live /\ UNCHANGED <<slotVars, slot>>
    BY <1>0, <1>3 DEF Live, Shape, Wait, InCall, CheckHealthy, AllocateSlot, Arm,
       InstallWaiter, RegisterMod, RegisterAdd, UndoInstall, UndoIdle, Park, Idle,
       UninstallWaiter, Deregister, ReleaseSlot, Return
  <2>2. CASE Arm(t)
    <3>1. Holding(t)
      BY <2>2 DEF Arm, Holding
    <3>2. slot[t] \in Slots
      BY <3>1, <1>0, HeldSlot
    <3> QED BY <3>2, <2>2, <1>0, <1>3 DEF Arm, Shape
  <2>3. CASE pc[t] \in Live /\ UNCHANGED <<slotVars, slot>>
    BY <2>3, <1>0, <1>1, <1>3 DEF FlagFollows
  <2> QED BY <2>1, <2>2, <2>3
<1> QED BY <1>2, <1>3

(* A lone waiter shares neither its key nor its descriptor with the thread   *)
(* that steps; its own steps file the slot first and register afterwards.    *)
LEMMA ThreadKeepsFiled ==
  ASSUME LInv, NEW t \in Threads, Wait(t) \/ InCall(t)
  PROVE  Filed'
<1> USE DEF Goto, Decide, shardVars, slotVars, bgVars, callVars, history
<1>0. IInv /\ LoneShape /\ AloneOnFd /\ Filed /\ Owned /\ Shape
  BY DEF LInv, IInv, Owned
<1>1. bg' = bg /\ shot' = shot /\ batch' = batch
  BY DEF Wait, InCall, CheckHealthy, AllocateSlot, Arm, InstallWaiter,
     RegisterMod, RegisterAdd, UndoInstall, UndoIdle, Park, Idle, UninstallWaiter,
     Deregister, ReleaseSlot
<1> SUFFICES ASSUME NEW v \in alone', pc'[v] \in {"mod", "add", "park"}, bg # "dead"
             PROVE  \/ Reached(v)'
                    \/ waiters'[key'[v]] = slot'[v] /\ (pc'[v] = "park" => Awaited(v)')
  BY <1>1 DEF Filed
<1>2. v \in Threads
  BY ThreadKeepsShape DEF LoneShape
<1>3. CASE v # t
  <2>1. v \in alone
    BY <1>3 DEF Wait, InCall, CheckHealthy, AllocateSlot, Arm, InstallWaiter,
     RegisterMod, RegisterAdd, UndoInstall, UndoIdle, Park, Idle, UninstallWaiter,
     Deregister, ReleaseSlot, Return
  <2>2. pc'[v] = pc[v] /\ key'[v] = key[v] /\ slot'[v] = slot[v] /\ Holding(v)
    BY <1>0, <1>2, <1>3, OthersUntouched DEF Holding
  <2>3. notified'[slot[v]] = notified[slot[v]]
    BY <2>2, <1>0, <1>2, <1>3, OthersUntouched
  <2>4. key[t] \in Keys /\ key[v] \in Keys
    BY <1>0, <1>2 DEF LoneShape
  <2>5. waiters'[key[v]] = waiters[key[v]] /\ interest'[key[v][1]] = interest[key[v][1]]
    <3>1. CASE Wait(t)
      BY <3>1 DEF Wait
    <3>2. CASE InCall(t)
      <4>1. key[t][1] # key[v][1]
        <5>1. Using(t)
          BY <3>2 DEF Using, InCall, CheckHealthy, AllocateSlot, Arm, InstallWaiter,
             RegisterMod, RegisterAdd, UndoInstall, UndoIdle, Park, Idle,
             UninstallWaiter, Deregister, ReleaseSlot
        <5> QED BY <5>1, <2>1, <1>0, <1>3 DEF AloneOnFd
      <4>2. key[t] # key[v] /\ key[t][1] \in Fds /\ key[v][1] \in Fds
        BY <4>1, <2>4 DEF Fds
      <4>3. \E w : waiters' = waiters \/ waiters' = [waiters EXCEPT ![key[t]] = w]
        BY <3>2 DEF InCall, CheckHealthy, AllocateSlot, Arm, InstallWaiter, RegisterMod,
           RegisterAdd, UndoInstall, UndoIdle, Park, Idle, UninstallWaiter, Deregister,
           ReleaseSlot, Unfiled
      <4>4. \E i : interest' = interest \/ interest' = [interest EXCEPT ![key[t][1]] = i]
        BY <3>2 DEF InCall, CheckHealthy, AllocateSlot, Arm, InstallWaiter, RegisterMod,
           RegisterAdd, UndoInstall, UndoIdle, Park, Idle, UninstallWaiter, Deregister,
           ReleaseSlot, Interested
      <4> QED BY <4>1, <4>2, <4>3, <4>4, <2>4, <1>0 DEF LoneShape
    <3> QED BY <3>1, <3>2
  <2>6. (Reached(v)' <=> Reached(v)) /\ (Awaited(v)' <=> Awaited(v))
    BY <2>2, <2>3, <2>5, <1>1 DEF Reached, Awaited
  <2> QED BY <2>1, <2>2, <2>5, <2>6, <1>0 DEF Filed
<1>4. CASE v = t
  <2>1. InstallWaiter(t) \/ RegisterMod(t) \/ RegisterAdd(t)
    BY <1>0, <1>4 DEF Shape, Wait, InCall, CheckHealthy, AllocateSlot, Arm,
       UndoInstall, UndoIdle, Park, Idle, UninstallWaiter, Deregister, ReleaseSlot, Return
  <2>2. v \in alone /\ key' = key /\ slot' = slot /\ notified' = notified
    BY <2>1 DEF InstallWaiter, RegisterMod, RegisterAdd
  <2>3. key[t] \in Keys /\ key[t][1] \in Fds
    BY <1>0 DEF LoneShape, Fds
  <2>4. CASE InstallWaiter(t)
    <3>1. waiters'[key[t]] = slot[t] /\ pc'[t] = "mod"
      BY <2>3, <2>4, <1>0 DEF InstallWaiter, LoneShape, Shape
    <3> QED BY <3>1, <2>2, <1>4
  <2>5. CASE RegisterMod(t) \/ RegisterAdd(t)
    <3>1. waiters' = waiters /\ pc[t] \in {"mod", "add"}
      BY <2>5 DEF RegisterMod, RegisterAdd
    <3>2. Reached(t) \/ waiters[key[t]] = slot[t]
      BY <3>1, <2>2, <1>0, <1>4 DEF Filed
    <3>3. Reached(t)' <=> Reached(t)
      BY <2>2, <1>1 DEF Reached
    <3>4. pc'[t] = "park" => interest'[key[t][1]] = key[t][2]
      BY <2>3, <2>5, <1>0 DEF RegisterMod, RegisterAdd, Interested, LoneShape, Shape
    <3> QED BY <3>1, <3>2, <3>3, <3>4, <2>2, <1>4 DEF Awaited
  <2> QED BY <2>1, <2>4, <2>5
<1> QED BY <1>3, <1>4

(* The background thread: an event it harvests is in the batch, the slot it  *)
(* takes for it is the one it fires, and a slot that is not armed any more   *)
(* has been fired before, with the flag up.                                  *)
LEMMA BackgroundKeepsFlag ==
  ASSUME LInv, Background
  PROVE  LoneShape' /\ BatchDone' /\ AloneOnFd' /\ FlagFollows'
<1> USE DEF shardVars, slotVars, callVars, history
<1>0. LoneShape /\ BatchDone /\ AloneOnFd /\ FlagFollows /\ Owned /\ Shape
  BY DEF LInv, IInv, Owned
<1>1. UNCHANGED <<pc, key, slot, alone>>
  BY DEF Background, Harvest, BgFails, TakeWaiter, Harvested, Fire, Notify
<1>2. LoneShape'
  <2>1. waiters' \in [Keys -> Slots \cup {NoSlot}]
    BY <1>0 DEF LoneShape, Background, Harvest, BgFails, TakeWaiter, Harvested, Fire, Notify
  <2>2. notified' \in [Slots -> {"no", "yes"}]
    BY <1>0 DEF LoneShape, Background, Harvest, BgFails, TakeWaiter, Harvested, Fire, Notify
  <2>3. interest' \in [Fds -> Kinds \cup {"absent", "off"}]
    BY <1>0 DEF LoneShape, Background, Harvest, BgFails, TakeWaiter, Harvested, Fire, Notify
  <2> QED BY <2>1, <2>2, <2>3, <1>0, <1>1 DEF LoneShape
<1>3. BatchDone'
  BY <1>0 DEF BatchDone, Background, Harvest, BgFails, TakeWaiter, Harvested, Fire, Notify
<1>4. AloneOnFd'
  BY <1>0, <1>1 DEF AloneOnFd, Using
<1>5. FlagFollows'
  <2> SUFFICES ASSUME NEW v \in Threads, pc[v] \in Live
               PROVE  \/ state'[slot[v]] = "armed"
                      \/ state'[slot[v]] = "fired" /\ notified'[slot[v]] = "yes"
                      \/ state'[slot[v]] = "fired" /\ bg' = "notify" /\ shot' = slot[v]
    BY <1>1 DEF FlagFollows
  <2>1. \/ state[slot[v]] = "armed"
        \/ state[slot[v]] = "fired" /\ notified[slot[v]] = "yes"
        \/ state[slot[v]] = "fired" /\ bg = "notify" /\ shot = slot[v]
    BY <1>0 DEF FlagFollows
  <2>2. slot[v] \in Slots
    BY <1>0, HeldSlot DEF Live, Holding
  <2>3. CASE Fire
    BY <2>1, <2>2, <2>3, <1>0 DEF Fire, Shape
  <2>4. CASE Notify
    BY <2>1, <2>2, <2>4, <1>0 DEF Notify, LoneShape
  <2>5. CASE Harvest \/ BgFails \/ TakeWaiter \/ Harvested
    BY <2>1, <2>5 DEF Harvest, BgFails, TakeWaiter, Harvested
  <2> QED BY <2>3, <2>4, <2>5 DEF Background
<1> QED BY <1>2, <1>3, <1>4, <1>5

LEMMA BackgroundKeepsFiled ==
  ASSUME LInv, Background
  PROVE  Filed'
<1> USE DEF shardVars, slotVars, callVars, history
<1>0. LoneShape /\ BatchDone /\ FlagFollows /\ Filed /\ Owned /\ Shape
  BY DEF LInv, IInv, Owned
<1>1. UNCHANGED <<pc, key, slot, alone>>
  BY DEF Background, Harvest, BgFails, TakeWaiter, Harvested, Fire, Notify
<1> SUFFICES ASSUME NEW v \in alone, pc[v] \in {"mod", "add", "park"}, bg' # "dead"
             PROVE  \/ Reached(v)'
                    \/ waiters'[key[v]] = slot[v] /\ (pc[v] = "park" => Awaited(v)')
  BY <1>1 DEF Filed
<1>2. /\ v \in Threads /\ key[v] \in Keys /\ key[v][1] \in Fds /\ key[v][2] \in Kinds
      /\ key[v] = <<key[v][1], key[v][2]>>
  BY <1>0, ReactorAssumption DEF LoneShape, ReactorAssumption, Fds, Kinds
<1>3. slot[v] \in Slots /\ slot[v] # NoSlot
  BY <1>0, <1>2, HeldSlot, NoSlotIsNone DEF Holding
<1>4. bg # "dead"
  BY DEF Background, Harvest, BgFails, TakeWaiter, Harvested, Fire, Notify
<1>5. \/ Reached(v)
      \/ waiters[key[v]] = slot[v] /\ (pc[v] = "park" => Awaited(v))
  BY <1>0, <1>4 DEF Filed
<1>6. CASE Harvest
  <2>1. PICK F \in SUBSET {f \in Fds : interest[f] \in Kinds} \ {{}} :
          /\ batch' = {<<f, interest[f]>> : f \in F}
          /\ interest' = [f \in Fds |-> IF f \in F THEN "off" ELSE interest[f]]
    BY <1>6 DEF Harvest
  <2>2. batch = {} /\ bg = "wait" /\ UNCHANGED <<waiters, notified>>
    BY <1>0, <1>6 DEF Harvest, BatchDone
  <2>3. CASE notified[slot[v]] = "yes"
    BY <2>2, <2>3, <1>1 DEF Reached
  <2>4. CASE notified[slot[v]] # "yes"
    <3>1. waiters[key[v]] = slot[v]
      BY <2>2, <2>4, <1>5 DEF Reached
    <3>2. pc[v] = "park" => interest[key[v][1]] = key[v][2]
      BY <2>2, <2>4, <1>5 DEF Reached, Awaited
    <3>3. pc[v] = "park" => Awaited(v)'
      <4> SUFFICES ASSUME pc[v] = "park"
                   PROVE  interest'[key[v][1]] = key[v][2] \/ key[v] \in batch'
        BY <1>1 DEF Awaited
      <4>1. CASE key[v][1] \in F
        <5>1. <<key[v][1], interest[key[v][1]]>> \in batch'
          BY <4>1, <2>1
        <5> QED BY <5>1, <3>2, <1>2
      <4>2. CASE key[v][1] \notin F
        BY <4>2, <2>1, <3>2, <1>2
      <4> QED BY <4>1, <4>2
    <3> QED BY <3>1, <3>3, <2>2
  <2> QED BY <2>3, <2>4
<1>7. CASE TakeWaiter
  <2>1. PICK k \in batch :
          /\ batch' = batch \ {k} /\ shot' = waiters[k]
          /\ waiters' = [waiters EXCEPT ![k] = NoSlot]
          /\ bg' = IF waiters[k] = NoSlot THEN "dispatch" ELSE "fire"
    BY <1>7 DEF TakeWaiter
  <2>2. bg = "dispatch" /\ UNCHANGED <<notified, interest>>
    BY <1>7 DEF TakeWaiter
  <2>3. CASE notified[slot[v]] = "yes"
    BY <2>2, <2>3, <1>1 DEF Reached
  <2>4. CASE notified[slot[v]] # "yes" /\ k = key[v]
    <3>1. shot' = slot[v] /\ bg' = "fire"
      BY <2>1, <2>2, <2>4, <1>3, <1>5 DEF Reached
    <3> QED BY <3>1, <1>1 DEF Reached
  <2>5. CASE notified[slot[v]] # "yes" /\ k # key[v]
    <3>1. waiters[key[v]] = slot[v] /\ (pc[v] = "park" => Awaited(v))
      BY <2>2, <2>5, <1>5 DEF Reached
    <3>2. waiters'[key[v]] = waiters[key[v]]
      BY <2>1, <2>5, <1>0, <1>2 DEF LoneShape
    <3>3. Awaited(v) => Awaited(v)'
      BY <2>1, <2>2, <2>5, <1>1 DEF Awaited
    <3> QED BY <3>1, <3>2, <3>3
  <2> QED BY <2>3, <2>4, <2>5
<1>8. CASE Fire
  <2>1. bg = "fire" /\ UNCHANGED <<waiters, notified, interest, batch>>
    BY <1>8 DEF Fire
  <2>2. Awaited(v) => Awaited(v)'
    BY <2>1, <1>1 DEF Awaited
  <2>3. Reached(v) => Reached(v)'
    <3>1. CASE state[shot] = "armed"
      <4>1. bg' = "notify" /\ shot' = shot
        BY <3>1, <1>8 DEF Fire
      <4> QED BY <4>1, <2>1, <1>1 DEF Reached
    <3>2. CASE state[shot] # "armed" /\ shot = slot[v]
      <4>1. notified[slot[v]] = "yes"
        BY <3>2, <2>1, <1>0, <1>2 DEF FlagFollows, Live
      <4> QED BY <4>1, <2>1, <1>1 DEF Reached
    <3>3. CASE shot # slot[v]
      BY <3>3, <2>1, <1>1 DEF Reached
    <3> QED BY <3>1, <3>2, <3>3
  <2> QED BY <2>1, <2>2, <2>3, <1>5
<1>9. CASE Notify
  <2>1. /\ notified' = [notified EXCEPT ![shot] = "yes"]
        /\ UNCHANGED <<waiters, interest, batch>>
    BY <1>9 DEF Notify
  <2>2. Awaited(v) => Awaited(v)'
    BY <2>1, <1>1 DEF Awaited
  <2>3. Reached(v) => Reached(v)'
    BY <2>1, <1>0, <1>1, <1>3 DEF Reached, LoneShape
  <2> QED BY <2>1, <2>2, <2>3, <1>5
<1>10. CASE Harvested
  <2>1. bg = "dispatch" /\ UNCHANGED <<waiters, notified, interest, batch>>
    BY <1>10 DEF Harvested
  <2>2. (Awaited(v) => Awaited(v)') /\ (Reached(v) => Reached(v)')
    BY <2>1, <1>1 DEF Awaited, Reached
  <2> QED BY <2>1, <2>2, <1>5
<1>11. CASE BgFails
  BY <1>11 DEF BgFails
<1> QED BY <1>6, <1>7, <1>8, <1>9, <1>10, <1>11 DEF Background

LEMMA LNext == LInv /\ [Next]_vars => LInv'
<1> SUFFICES ASSUME LInv, [Next]_vars PROVE LInv'
  OBVIOUS
<1>1. IInv'
  BY NextIInv DEF LInv
<1>2. ASSUME NEW t \in Threads, Wait(t) \/ InCall(t) PROVE LInv'
  BY <1>1, <1>2, ThreadKeepsShape, ThreadKeepsFlag, ThreadKeepsFiled DEF LInv
<1>3. CASE Background
  BY <1>1, <1>3, BackgroundKeepsFlag, BackgroundKeepsFiled DEF LInv
<1>4. CASE UNCHANGED vars
  <2>1. UNCHANGED <<waiters, notified, interest, key, alone, bg, batch, shot, pc, state, slot>>
    BY <1>4 DEF vars, shardVars, slotVars, bgVars, callVars, history
  <2> QED BY <1>1, <2>1 DEF LInv, LoneShape, BatchDone, AloneOnFd, FlagFollows, Filed,
                            Reached, Awaited, Using
<1> QED BY <1>2, <1>3, <1>4 DEF Next

(* A call of Reactor::wait that has its descriptor to itself is never parked *)
(* without an event to come: from registration to notification every event   *)
(* for its key finds its slot, and the slot armed, whatever the calls on     *)
(* other descriptors and the background thread do in between.                *)
THEOREM ReactorLoneWaiterCovered == Spec => []LoneWaiterCovered
<1>1. LInv => LoneWaiterCovered
  BY DEF LInv, Filed, LoneWaiterCovered, Reached, Awaited
<1> QED BY <1>1, LInit, LNext, PTL DEF Spec
=============================================================================
