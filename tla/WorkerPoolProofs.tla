-------------------------- MODULE WorkerPoolProofs --------------------------
(***************************************************************************)
(* No item of the worker pool is lost or run twice, shutdown() returns     *)
(* with the work done and wait_idle() waits for what was running, for any  *)
(* number of workers, clients, calls and panics.                           *)
(***************************************************************************)
EXTENDS WorkerPool, FiniteSetTheorems, TLAPS

Idle == {"recheck", "flag", "nap", "parked", "idle_dec"}
Idlers == {w \in Workers : wpc[w] \in Idle}

(* A worker has an item in its hands while it runs one, and only then.       *)
HandsRun == \A w \in Workers : hand[w] # NoItem <=> wpc[w] \in {"run", "drain_run"}

(* A client that has begun a submit call and not yet pushed its item: the    *)
(* item, named by the number of the call, is nowhere yet.                    *)
Pending(c) == cpc[c] \in {"pick", "push"}
Submitted == \A c \in Clients : Pending(c) => c \in Submitters /\ calls[c] >= 1
Issued == {i \in Items : i[2] <= calls[i[1]] /\ (Pending(i[1]) => i[2] < calls[i[1]])}
OnlyIssued == Queued \cup InHand \cup done \subseteq Issued

(* A worker drains its queue because the flag is on, and the queue it leaves *)
(* holds nothing that was pushed before.                                     *)
DrainsWhenOn == \A w \in Workers : wpc[w] \in {"drain", "drain_run", "exit"} => shutdown = "on"
LeavesNothing == \A w \in Workers : wpc[w] = "exit" => ToSet(local[w]) \cap early = {}
JoinedAll == \A c \in Clients : answer[c] = "joined" =>
               \A w \in Workers : wpc[w] \in {"exit", "dead"}

(* What wait_idle has to wait for is in the hands of a worker or done; once  *)
(* all the workers have been idle, it is done.                               *)
IdleExact == idle_count = Cardinality(Idlers)
WaitsFor == \A c \in Clients :
  /\ atCall[c] \subseteq InHand \cup done
  /\ cpc[c] = "wi_pending" \/ answer[c] = "idle" => atCall[c] \subseteq done

Conserved == WorkConserved /\ HandsRun /\ Submitted /\ OnlyIssued
Drained   == DrainsWhenOn /\ LeavesNothing /\ JoinedAll
Waited    == IdleExact /\ WaitsFor
IInv      == TypeOK /\ Conserved /\ Drained /\ Waited

-----------------------------------------------------------------------------
(* What a push at the back, a pop at the back and a pop at the front do to   *)
(* a deque.                                                                  *)
LEMMA PushBack ==
  ASSUME NEW S, NEW s \in Seq(S), NEW x \in S, IsInjective(s), x \notin ToSet(s)
  PROVE  /\ Append(s, x) \in Seq(S) /\ IsInjective(Append(s, x))
         /\ ToSet(Append(s, x)) = ToSet(s) \cup {x}
<1> DEFINE a == Append(s, x)
<1>1. /\ a \in Seq(S) /\ DOMAIN s = 1 .. Len(s) /\ DOMAIN a = 1 .. Len(s) + 1
      /\ a[Len(s) + 1] = x /\ \A i \in 1 .. Len(s) : a[i] = s[i]
  OBVIOUS
<1>2. IsInjective(a)
  BY <1>1 DEF IsInjective, ToSet
<1>3. ToSet(a) = ToSet(s) \cup {x}
  BY <1>1 DEF ToSet
<1> QED BY <1>1, <1>2, <1>3

LEMMA PopBack ==
  ASSUME NEW S, NEW s \in Seq(S), s # <<>>, IsInjective(s)
  PROVE  /\ Last(s) \in ToSet(s) /\ Front(s) \in Seq(S) /\ IsInjective(Front(s))
         /\ ToSet(Front(s)) = ToSet(s) \ {Last(s)}
<1>1. /\ Len(s) \in Nat \ {0} /\ DOMAIN s = 1 .. Len(s)
  OBVIOUS
<1>2. /\ Front(s) \in Seq(S) /\ DOMAIN Front(s) = 1 .. Len(s) - 1
      /\ \A i \in 1 .. Len(s) - 1 : Front(s)[i] = s[i]
  BY <1>1 DEF Front
<1>3. Last(s) = s[Len(s)] /\ Last(s) \in ToSet(s)
  BY <1>1 DEF Last, ToSet
<1>4. IsInjective(Front(s))
  BY <1>1, <1>2 DEF IsInjective
<1>5. ToSet(Front(s)) = ToSet(s) \ {Last(s)}
  BY <1>1, <1>2, <1>3 DEF ToSet, IsInjective
<1> QED BY <1>2, <1>3, <1>4, <1>5

LEMMA PopFront ==
  ASSUME NEW S, NEW s \in Seq(S), s # <<>>, IsInjective(s)
  PROVE  /\ Head(s) \in ToSet(s) /\ Tail(s) \in Seq(S) /\ IsInjective(Tail(s))
         /\ ToSet(Tail(s)) = ToSet(s) \ {Head(s)}
<1>1. /\ Len(s) \in Nat \ {0} /\ DOMAIN s = 1 .. Len(s)
  OBVIOUS
<1>2. /\ Tail(s) \in Seq(S) /\ DOMAIN Tail(s) = 1 .. Len(s) - 1
      /\ \A i \in 1 .. Len(s) - 1 : Tail(s)[i] = s[i + 1]
  BY <1>1
<1>3. Head(s) = s[1] /\ Head(s) \in ToSet(s)
  BY <1>1 DEF ToSet
<1>4. IsInjective(Tail(s))
  BY <1>1, <1>2 DEF IsInjective
<1>5. ToSet(Tail(s)) = ToSet(s) \ {Head(s)}
  <2>1. ASSUME NEW x \in ToSet(s), x # Head(s) PROVE x \in ToSet(Tail(s))
    <3>1. PICK i \in 1 .. Len(s) : s[i] = x
      BY <2>1, <1>1 DEF ToSet
    <3>2. i - 1 \in 1 .. Len(s) - 1 /\ Tail(s)[i - 1] = x
      BY <3>1, <2>1, <1>1, <1>2, <1>3
    <3> QED BY <3>2, <1>2 DEF ToSet
  <2>2. ASSUME NEW x \in ToSet(Tail(s)) PROVE x \in ToSet(s) /\ x # Head(s)
    <3>1. PICK i \in 1 .. Len(s) - 1 : Tail(s)[i] = x
      BY <1>2 DEF ToSet
    <3>2. i + 1 \in DOMAIN s /\ s[i + 1] = x /\ i + 1 # 1
      BY <3>1, <1>1, <1>2
    <3> QED BY <3>2, <1>1, <1>3 DEF ToSet, IsInjective
  <2> QED BY <2>1, <2>2
<1> QED BY <1>2, <1>3, <1>4, <1>5

LEMMA NoItemIsNone == NoItem \notin Items
  BY WorkerPoolAssumption DEF WorkerPoolAssumption, NoItem, Items

LEMMA InQueue ==
  \A i : /\ i \in Queued <=> \E w \in Workers : i \in ToSet(local[w])
         /\ i \in Queued' <=> \E w \in Workers : i \in ToSet(local'[w])
  BY DEF Queued

-----------------------------------------------------------------------------
(* The three effects that steps have on the items.  First: a worker with     *)
(* empty hands takes an item out of a deque.                                 *)
LEMMA TakeKeeps ==
  ASSUME TypeOK, WorkConserved, NEW w \in Workers, NEW v \in Workers, hand[w] = NoItem,
         NEW i \in ToSet(local[v]), NEW rest \in Seq(Items), IsInjective(rest),
         ToSet(rest) = ToSet(local[v]) \ {i},
         Take(w, v, i, rest), UNCHANGED <<done, early>>
  PROVE  /\ WorkConserved' /\ i \in Items
         /\ local' \in [Workers -> Seq(Items)] /\ hand' \in [Workers -> Items \cup {NoItem}]
         /\ Queued' = Queued \ {i} /\ InHand' = InHand \cup {i} /\ i \in Queued
         /\ \A u \in Workers : ToSet(local'[u]) \subseteq ToSet(local[u])
<1>1. i \in Items
  BY DEF TypeOK, ToSet
<1>2. /\ \A u \in Workers : local'[u] = IF u = v THEN rest ELSE local[u]
      /\ \A u \in Workers : hand'[u] = IF u = w THEN i ELSE hand[u]
      /\ local' \in [Workers -> Seq(Items)] /\ hand' \in [Workers -> Items \cup {NoItem}]
  BY <1>1 DEF Take, TypeOK
<1>3. i \in Queued /\ i \notin InHand /\ i # NoItem /\ i \notin done
  BY <1>1, NoItemIsNone DEF WorkConserved, Queued
<1>4. \A u \in Workers : ToSet(local'[u]) = ToSet(local[u]) \ {i}
  <2>1. \A u \in Workers : u # v => i \notin ToSet(local[u])
    BY DEF WorkConserved
  <2> QED BY <2>1, <1>2
<1>5. Queued' = Queued \ {i}
  <2>1. ASSUME NEW x PROVE x \in Queued' <=> (x \in Queued /\ x # i)
    <3>1. \A u \in Workers : x \in ToSet(local'[u]) <=> (x \in ToSet(local[u]) /\ x # i)
      BY <1>4
    <3> QED BY <3>1, InQueue
  <2> QED BY <2>1
<1>6. InHand' = InHand \cup {i}
  BY <1>2, <1>3 DEF InHand
<1>7. \A u \in Workers : IsInjective(local'[u])
  BY <1>2 DEF WorkConserved
<1>8. \A x, y \in Workers : x # y =>
        /\ ToSet(local'[x]) \cap ToSet(local'[y]) = {}
        /\ hand'[x] # NoItem => hand'[x] # hand'[y]
  <2>1. \A x \in Workers : hand[x] # i
    BY <1>3 DEF InHand
  <2>2. \A x, y \in Workers : x # y /\ hand'[x] # NoItem => hand'[x] # hand'[y]
    BY <2>1, <1>2, <1>3 DEF WorkConserved
  <2>3. \A x, y \in Workers : x # y => ToSet(local'[x]) \cap ToSet(local'[y]) = {}
    BY <1>4 DEF WorkConserved
  <2> QED BY <2>2, <2>3
<1>9. WorkConserved'
  BY <1>3, <1>5, <1>6, <1>7, <1>8 DEF WorkConserved
<1> QED BY <1>1, <1>2, <1>3, <1>4, <1>5, <1>6, <1>9

(* Second: the item in the hands of a worker has been run.                   *)
LEMMA RunKeeps ==
  ASSUME TypeOK, WorkConserved, NEW w \in Workers, hand[w] # NoItem,
         hand' = [hand EXCEPT ![w] = NoItem], done' = done \cup {hand[w]},
         UNCHANGED <<local, early>>
  PROVE  /\ WorkConserved' /\ hand[w] \in Items /\ hand[w] \in InHand
         /\ hand' \in [Workers -> Items \cup {NoItem}]
         /\ Queued' = Queued /\ InHand' = InHand \ {hand[w]}
<1>1. /\ \A u \in Workers : hand'[u] = IF u = w THEN NoItem ELSE hand[u]
      /\ hand[w] \in Items /\ hand' \in [Workers -> Items \cup {NoItem}]
  BY DEF TypeOK
<1>2. Queued' = Queued
  BY DEF Queued
<1>3. \A u \in Workers : u # w => hand[u] # hand[w]
  BY DEF WorkConserved
<1>4. InHand' = InHand \ {hand[w]} /\ hand[w] \in InHand
  BY <1>1, <1>3 DEF InHand
<1>5. \A x, y \in Workers : x # y /\ hand'[x] # NoItem => hand'[x] # hand'[y]
  BY <1>1 DEF WorkConserved
<1>6. WorkConserved'
  BY <1>2, <1>4, <1>5 DEF WorkConserved
<1> QED BY <1>1, <1>2, <1>4, <1>6

(* Third: a new item enters a deque.                                         *)
LEMMA PushKeeps ==
  ASSUME TypeOK, WorkConserved, NEW v \in Workers, NEW i \in Items,
         i \notin Queued \cup InHand \cup done,
         local' = [local EXCEPT ![v] = Append(@, i)],
         early' \in {early, early \cup {i}}, UNCHANGED <<hand, done>>
  PROVE  /\ WorkConserved' /\ local' \in [Workers -> Seq(Items)]
         /\ Queued' = Queued \cup {i} /\ InHand' = InHand
         /\ \A u \in Workers : ToSet(local'[u]) = ToSet(local[u]) \cup (IF u = v THEN {i} ELSE {})
<1>1. local[v] \in Seq(Items) /\ IsInjective(local[v]) /\ i \notin ToSet(local[v])
  BY DEF TypeOK, WorkConserved, Queued
<1>2. /\ local' \in [Workers -> Seq(Items)]
      /\ \A u \in Workers : local'[u] = IF u = v THEN Append(local[v], i) ELSE local[u]
      /\ IsInjective(Append(local[v], i)) /\ ToSet(Append(local[v], i)) = ToSet(local[v]) \cup {i}
  BY <1>1, PushBack DEF TypeOK
<1>3. \A u \in Workers : ToSet(local'[u]) = ToSet(local[u]) \cup (IF u = v THEN {i} ELSE {})
  BY <1>2
<1>4. Queued' = Queued \cup {i} /\ InHand' = InHand
  BY <1>3, InQueue DEF InHand
<1>5. \A x, y \in Workers : x # y => ToSet(local'[x]) \cap ToSet(local'[y]) = {}
  <2>1. \A u \in Workers : i \notin ToSet(local[u])
    BY InQueue
  <2>2. SUFFICES ASSUME NEW x \in Workers, NEW y \in Workers, x # y,
                        NEW j, j \in ToSet(local'[x]), j \in ToSet(local'[y])
                 PROVE  FALSE
    OBVIOUS
  <2>3. ToSet(local[x]) \cap ToSet(local[y]) = {}
    BY <2>2 DEF WorkConserved
  <2> QED BY <2>1, <2>2, <2>3, <1>3
<1>6. WorkConserved'
  <2>1. \A u \in Workers : IsInjective(local'[u])
    BY <1>2 DEF WorkConserved
  <2>2. early' \subseteq Queued' \cup InHand' \cup done'
    BY <1>4 DEF WorkConserved
  <2> QED BY <2>1, <2>2, <1>4, <1>5 DEF WorkConserved
<1> QED BY <1>2, <1>3, <1>4, <1>6

-----------------------------------------------------------------------------
(* The number of idle workers is what the counter says.                      *)
LEMMA Cardinal == IsFiniteSet(Workers) /\ Cardinality(Workers) = N /\ N \in Nat \ {0}
  BY WorkerPoolAssumption, FS_Interval DEF WorkerPoolAssumption, Workers

(* A step of one worker changes the count by the worker that joins or leaves *)
(* the idle ones.                                                            *)
LEMMA IdleCounted ==
  ASSUME TypeOK, IdleExact, NEW w \in Workers, NEW l \in WorkerPC,
         wpc' = [wpc EXCEPT ![w] = l],
         \/ wpc[w] \notin Idle /\ l \in Idle /\ idle_count' = idle_count + 1
         \/ wpc[w] \in Idle /\ l \notin Idle /\ idle_count' = idle_count - 1
         \/ (wpc[w] \in Idle <=> l \in Idle) /\ idle_count' = idle_count
  PROVE  IdleExact'
<1>1. IsFiniteSet(Idlers) /\ Cardinality(Idlers) \in Nat
  BY Cardinal, FS_Subset, FS_CardinalityType DEF Idlers
<1>2. Idlers' = IF l \in Idle THEN Idlers \cup {w} ELSE Idlers \ {w}
  BY DEF Idlers, TypeOK
<1>3. w \in Idlers <=> wpc[w] \in Idle
  BY DEF Idlers
<1>4. /\ Cardinality(Idlers \cup {w}) = IF w \in Idlers THEN Cardinality(Idlers)
                                                       ELSE Cardinality(Idlers) + 1
      /\ Cardinality(Idlers \ {w}) = IF w \in Idlers THEN Cardinality(Idlers) - 1
                                                     ELSE Cardinality(Idlers)
  BY <1>1, FS_AddElement, FS_RemoveElement
<1> QED BY <1>1, <1>2, <1>3, <1>4 DEF IdleExact

LEMMA NotifyCounted ==
  ASSUME TypeOK, IdleExact, NEW W, wpc' = Notified(W), idle_count' = idle_count
  PROVE  IdleExact'
<1>1. Idlers' = Idlers
  BY DEF Idlers, Notified, Idle, TypeOK
<1> QED BY <1>1 DEF IdleExact

LEMMA IdleExactNext == TypeOK /\ IdleExact /\ Next => IdleExact'
<1> SUFFICES ASSUME TypeOK, IdleExact, Next PROVE IdleExact'
  OBVIOUS
<1> USE DEF poolVars, workerVars, WGoto
<1>1. ASSUME NEW w \in Workers, WorkerStep(w) \/ Panic(w) PROVE IdleExact'
  <2>1. ASSUME NEW l \in WorkerPC \ Idle, wpc' = [wpc EXCEPT ![w] = l],
               wpc[w] \notin Idle, idle_count' = idle_count
        PROVE  IdleExact'
    <3>1. l \in WorkerPC /\ (wpc[w] \in Idle <=> l \in Idle)
      BY <2>1
    <3> QED BY <2>1, <3>1, IdleCounted
  <2>2. ASSUME UNCHANGED <<wpc, idle_count>> PROVE IdleExact'
    BY <2>2 DEF IdleExact, Idlers
  <2>3. CASE PopLocal(w)
    BY <2>1, <2>3 DEF PopLocal, WorkerPC, Idle
  <2>4. CASE Steal(w)
    BY <2>1, <2>2, <2>4 DEF Steal, WorkerPC, Idle
  <2>5. CASE NothingToSteal(w)
    BY <2>1, <2>5 DEF NothingToSteal, WorkerPC, Idle
  <2>6. CASE Finish(w)
    BY <2>1, <2>6 DEF Finish, WorkerPC, Idle
  <2>7. CASE CheckShutdown(w)
    BY <2>1, <2>7 DEF CheckShutdown, WorkerPC, Idle
  <2>8. CASE Drain(w)
    BY <2>1, <2>8 DEF Drain, WorkerPC, Idle
  <2>9. CASE Panic(w)
    BY <2>1, <2>9 DEF Panic, WorkerPC, Idle
  <2> HIDE DEF WGoto
  <2>10. CASE AnnounceIdle(w)
    <3>1. /\ "recheck" \in WorkerPC /\ "recheck" \in Idle /\ wpc[w] \notin Idle
          /\ wpc' = [wpc EXCEPT ![w] = "recheck"] /\ idle_count' = idle_count + 1
      BY <2>10 DEF AnnounceIdle, WorkerPC, Idle, WGoto
    <3> QED BY <3>1, IdleCounted
  <2>11. CASE Recheck(w) \/ ParkTimeout(w)
    <3>1. PICK l \in Idle : wpc' = [wpc EXCEPT ![w] = l]
      BY <2>11 DEF Recheck, ParkTimeout, Idle, WGoto
    <3>2. l \in WorkerPC /\ wpc[w] \in Idle /\ idle_count' = idle_count
      BY <2>11, <3>1 DEF Recheck, ParkTimeout, WorkerPC, Idle
    <3> QED BY <3>1, <3>2, IdleCounted
  <2>12. CASE LeaveIdle(w)
    <3>1. /\ "pop" \in WorkerPC /\ "pop" \notin Idle /\ wpc[w] \in Idle
          /\ wpc' = [wpc EXCEPT ![w] = "pop"] /\ idle_count' = idle_count - 1
      BY <2>12 DEF LeaveIdle, WorkerPC, Idle, WGoto
    <3> QED BY <3>1, IdleCounted
  <2> QED BY <1>1, <2>3, <2>4, <2>5, <2>6, <2>7, <2>8, <2>9, <2>10, <2>11, <2>12
             DEF WorkerStep
<1>2. ASSUME NEW c \in Clients, Submit(c) \/ WaitIdle(c) \/ Shutdown(c) \/ ClientStep(c)
      PROVE  IdleExact'
  <2>1. CASE NotifyTarget(c) \/ WakeAll(c)
    BY <2>1, NotifyCounted DEF NotifyTarget, WakeAll
  <2>2. CASE UNCHANGED <<wpc, idle_count>>
    BY <2>2 DEF IdleExact, Idlers
  <2> QED BY <1>2, <2>1, <2>2 DEF Submit, WaitIdle, Shutdown, Call, ClientStep, PickTarget,
            PushLocal, WaitFlag, WaitCount, WaitPending, SwapFlag, JoinAll
<1> QED BY <1>1, <1>2 DEF Next

-----------------------------------------------------------------------------
(* A worker takes an item: its own last one, or the first of another.        *)
LEMMA TakeStep ==
  ASSUME IInv, IdleExact', NEW w \in Workers, NEW v \in Workers,
         wpc[w] \in {"pop", "steal", "drain"},
         NEW i \in ToSet(local[v]), NEW rest \in Seq(Items), IsInjective(rest),
         ToSet(rest) = ToSet(local[v]) \ {i}, Take(w, v, i, rest),
         wpc' = [wpc EXCEPT ![w] = IF wpc[w] = "drain" THEN "drain_run" ELSE "run"],
         offset' \in [Workers -> 1..N],
         UNCHANGED <<next_submit, shutdown, idle_count, clientVars, history>>
  PROVE  IInv'
<1> USE DEF IInv, Conserved, Drained, Waited, clientVars, history
<1>1. hand[w] = NoItem
  BY DEF HandsRun
<1>2. /\ WorkConserved' /\ i \in Items
      /\ local' \in [Workers -> Seq(Items)] /\ hand' \in [Workers -> Items \cup {NoItem}]
      /\ Queued' = Queued \ {i} /\ InHand' = InHand \cup {i} /\ i \in Queued
      /\ \A u \in Workers : ToSet(local'[u]) \subseteq ToSet(local[u])
  BY <1>1, TakeKeeps
<1>3. /\ wpc' \in [Workers -> WorkerPC]
      /\ \A u \in Workers : u # w => wpc'[u] = wpc[u] /\ hand'[u] = hand[u]
      /\ wpc'[w] = IF wpc[w] = "drain" THEN "drain_run" ELSE "run"
      /\ hand'[w] = i
  BY DEF TypeOK, WorkerPC, Take
<1>4. TypeOK'
  BY <1>2, <1>3 DEF TypeOK
<1>5. HandsRun' /\ Submitted' /\ OnlyIssued'
  <2>1. HandsRun'
    BY <1>2, <1>3, NoItemIsNone DEF HandsRun
  <2>2. Issued' = Issued /\ Submitted'
    BY DEF Issued, Pending, Submitted
  <2> QED BY <1>2, <2>1, <2>2 DEF OnlyIssued
<1>6. DrainsWhenOn' /\ LeavesNothing' /\ JoinedAll'
  <2>1. DrainsWhenOn'
    BY <1>3 DEF DrainsWhenOn
  <2>2. LeavesNothing'
    BY <1>2, <1>3 DEF LeavesNothing
  <2>3. JoinedAll'
    BY <1>3 DEF JoinedAll
  <2> QED BY <2>1, <2>2, <2>3
<1>7. WaitsFor'
  BY <1>2 DEF WaitsFor
<1> QED BY <1>2, <1>4, <1>5, <1>6, <1>7

(* work() returns or panics.                                                 *)
LEMMA RunStep ==
  ASSUME IInv, IdleExact', NEW w \in Workers, Finish(w) \/ Panic(w)
  PROVE  IInv'
<1> USE DEF IInv, Conserved, Drained, Waited, poolVars, clientVars
<1>1. PICK l \in {"pop", "drain", "dead"} :
        /\ wpc[w] \in {"run", "drain_run"} /\ wpc' = [wpc EXCEPT ![w] = l]
        /\ l = "drain" => wpc[w] = "drain_run"
        /\ hand' = [hand EXCEPT ![w] = NoItem] /\ done' = done \cup {hand[w]}
        /\ UNCHANGED <<local, next_submit, shutdown, idle_count, offset, cpc, calls, target,
                       seen, answer, early, atCall>>
  BY DEF Finish, Panic, WGoto
<1>2. hand[w] # NoItem
  BY <1>1 DEF HandsRun
<1>3. /\ WorkConserved' /\ hand[w] \in Items /\ hand[w] \in InHand
      /\ hand' \in [Workers -> Items \cup {NoItem}]
      /\ Queued' = Queued /\ InHand' = InHand \ {hand[w]}
  BY <1>1, <1>2, RunKeeps
<1>4. /\ wpc' \in [Workers -> WorkerPC] /\ wpc'[w] = l /\ hand'[w] = NoItem
      /\ \A u \in Workers : u # w => wpc'[u] = wpc[u] /\ hand'[u] = hand[u]
  BY <1>1 DEF TypeOK, WorkerPC
<1>5. TypeOK'
  BY <1>1, <1>3, <1>4 DEF TypeOK
<1>6. HandsRun' /\ Submitted' /\ OnlyIssued'
  <2>1. HandsRun'
    BY <1>1, <1>4 DEF HandsRun
  <2>2. Issued' = Issued /\ Submitted'
    BY <1>1 DEF Issued, Pending, Submitted
  <2> QED BY <1>1, <1>3, <2>1, <2>2 DEF OnlyIssued
<1>7. DrainsWhenOn' /\ LeavesNothing' /\ JoinedAll'
  <2>1. DrainsWhenOn'
    BY <1>1, <1>4 DEF DrainsWhenOn
  <2>2. LeavesNothing'
    BY <1>1, <1>4 DEF LeavesNothing
  <2>3. JoinedAll'
    BY <1>1, <1>4 DEF JoinedAll
  <2> QED BY <2>1, <2>2, <2>3
<1>8. WaitsFor'
  BY <1>1, <1>3 DEF WaitsFor
<1> QED BY <1>3, <1>5, <1>6, <1>7, <1>8

(* submit pushes its item, which is new.  An item pushed while the flag is   *)
(* off meets no worker that has left.                                        *)
LEMMA PushStep ==
  ASSUME IInv, IdleExact', NEW c \in Clients, PushLocal(c)
  PROVE  IInv'
<1> USE DEF IInv, Conserved, Drained, Waited, workerVars
<1> DEFINE i == <<c, calls[c]>>
<1>0. /\ cpc[c] = "push" /\ local' = [local EXCEPT ![target[c]] = Append(@, i)]
      /\ early' = IF shutdown = "off" THEN early \cup {i} ELSE early
      /\ cpc' = [cpc EXCEPT ![c] = "notify"]
      /\ UNCHANGED <<next_submit, shutdown, idle_count, wpc, hand, offset, calls, target,
                     seen, answer, done, atCall>>
  BY DEF PushLocal, CGoto
<1>1. /\ i \in Items /\ i \notin Queued \cup InHand \cup done /\ target[c] \in Workers
      /\ c \in Submitters /\ calls[c] \in 1..MaxCalls
  <2>1. c \in Submitters /\ calls[c] \in 1..MaxCalls /\ target[c] \in Workers
    BY <1>0, WorkerPoolAssumption DEF Submitted, Pending, TypeOK, WorkerPoolAssumption
  <2>2. i \in Items /\ i[1] = c /\ i[2] = calls[c]
    BY <2>1 DEF Items
  <2>3. i \notin Issued
    BY <1>0, <2>1, <2>2 DEF Issued, Pending
  <2> QED BY <2>1, <2>2, <2>3 DEF OnlyIssued
<1>2. i \notin early
  BY <1>1 DEF WorkConserved
<1>3. /\ WorkConserved' /\ local' \in [Workers -> Seq(Items)]
      /\ Queued' = Queued \cup {i} /\ InHand' = InHand
      /\ \A u \in Workers :
           ToSet(local'[u]) = ToSet(local[u]) \cup (IF u = target[c] THEN {i} ELSE {})
  <2>1. early' \in {early, early \cup {i}}
    BY <1>0
  <2> QED BY <1>0, <1>1, <2>1, PushKeeps
<1>4. /\ cpc' \in [Clients -> ClientPC] /\ cpc'[c] = "notify"
      /\ \A d \in Clients : d # c => cpc'[d] = cpc[d]
  BY <1>0 DEF TypeOK, ClientPC
<1>5. TypeOK'
  BY <1>0, <1>1, <1>3, <1>4 DEF TypeOK
<1>6. HandsRun' /\ Submitted' /\ OnlyIssued'
  <2>1. HandsRun'
    BY <1>0 DEF HandsRun
  <2>2. Submitted'
    BY <1>0, <1>4 DEF Submitted, Pending
  <2>3. Issued \subseteq Issued' /\ i \in Issued'
    <3>1. i \in Issued'
      BY <1>0, <1>1, <1>4 DEF Issued, Pending
    <3>2. ASSUME NEW j \in Issued PROVE j \in Issued'
      <4>1. j \in Items /\ j[1] \in Clients
        BY WorkerPoolAssumption DEF Issued, Items, WorkerPoolAssumption
      <4> QED BY <1>0, <1>4, <4>1 DEF Issued, Pending
    <3> QED BY <3>1, <3>2
  <2> QED BY <1>0, <1>3, <2>1, <2>2, <2>3 DEF OnlyIssued
<1>7. DrainsWhenOn' /\ LeavesNothing' /\ JoinedAll'
  <2>1. DrainsWhenOn' /\ JoinedAll'
    BY <1>0 DEF DrainsWhenOn, JoinedAll
  <2>2. ASSUME NEW u \in Workers, wpc[u] = "exit" PROVE ToSet(local'[u]) \cap early' = {}
    <3>1. shutdown = "on"
      BY <2>2 DEF DrainsWhenOn
    <3>2. early' = early /\ ToSet(local[u]) \cap early = {}
      BY <3>1, <2>2, <1>0 DEF LeavesNothing
    <3> QED BY <3>2, <1>2, <1>3
  <2> QED BY <2>1, <2>2, <1>0 DEF LeavesNothing
<1>8. WaitsFor'
  BY <1>0, <1>3, <1>4 DEF WaitsFor
<1> QED BY <1>3, <1>5, <1>6, <1>7, <1>8

(* A worker that touches no item moves on.  It leaves only with an empty     *)
(* queue, and starts to leave only when the flag is on.                      *)
LEMMA MoveStep ==
  ASSUME IInv, IdleExact', NEW w \in Workers,
         NEW l \in WorkerPC \ {"run", "drain_run", "dead"},
         wpc[w] \notin {"run", "drain_run", "exit", "dead"},
         wpc' = [wpc EXCEPT ![w] = l],
         l = "drain" => shutdown = "on",
         l = "exit" => wpc[w] = "drain" /\ local[w] = <<>>,
         offset' \in [Workers -> 1..N],
         UNCHANGED <<local, next_submit, shutdown, hand, clientVars, history>>
  PROVE  IInv'
<1> USE DEF IInv, Conserved, Drained, Waited, clientVars, history
<1>1. /\ wpc' \in [Workers -> WorkerPC] /\ wpc'[w] = l
      /\ \A u \in Workers : u # w => wpc'[u] = wpc[u]
  BY DEF TypeOK
<1>2. idle_count' \in Nat
  <2>1. IsFiniteSet(Idlers')
    BY Cardinal, FS_Subset DEF Idlers
  <2> QED BY <2>1, FS_CardinalityType DEF IdleExact
<1>3. TypeOK'
  BY <1>1, <1>2 DEF TypeOK
<1>4. Queued' = Queued /\ InHand' = InHand
  BY DEF Queued, InHand
<1>5. Conserved'
  <2>1. WorkConserved' /\ OnlyIssued'
    BY <1>4 DEF WorkConserved, OnlyIssued, Issued, Pending
  <2>2. HandsRun'
    BY <1>1 DEF HandsRun
  <2> QED BY <2>1, <2>2 DEF Submitted, Pending
<1>6. Drained'
  <2>1. DrainsWhenOn'
    BY <1>1 DEF DrainsWhenOn
  <2>2. LeavesNothing'
    <3>1. local[w] = <<>> => ToSet(local[w]) = {}
      BY DEF ToSet
    <3> QED BY <1>1, <3>1 DEF LeavesNothing
  <2>3. JoinedAll'
    BY <1>1 DEF JoinedAll
  <2> QED BY <2>1, <2>2, <2>3
<1>7. Waited'
  BY <1>4 DEF WaitsFor
<1> QED BY <1>3, <1>5, <1>6, <1>7

(* A client that pushes nothing moves on, and may wake parked workers.       *)
LEMMA ClientMoves ==
  ASSUME IInv, IdleExact', NEW c \in Clients, NEW W, NEW l \in ClientPC, NEW a \in Answers,
         wpc' \in {wpc, Notified(W)},
         cpc' = [cpc EXCEPT ![c] = l], answer' = [answer EXCEPT ![c] = a],
         calls' \in [Clients -> 0..MaxCalls],
         \A d \in Clients \ {c} : calls'[d] = calls[d] /\ atCall'[d] = atCall[d],
         \/ calls'[c] = calls[c] + 1 /\ ~ Pending(c)
            /\ (l \in {"pick", "push"} => c \in Submitters)
         \/ calls'[c] = calls[c] /\ (l \in {"pick", "push"} => Pending(c)),
         shutdown' \in {shutdown, "on"},
         a = "joined" => \/ \A w \in Workers : wpc[w] \in {"exit", "dead"}
                         \/ answer[c] = "joined",
         atCall' \in [Clients -> SUBSET Items], atCall'[c] \subseteq InHand \cup done,
         l = "wi_pending" \/ a = "idle" => atCall'[c] \subseteq done,
         next_submit' \in Workers, target' \in [Clients -> Workers],
         seen' \in [Clients -> Workers],
         UNCHANGED <<local, idle_count, hand, offset, done, early>>
  PROVE  IInv'
<1> USE DEF IInv, Conserved, Drained, Waited
<1>1. /\ wpc' \in [Workers -> WorkerPC]
      /\ \A u \in Workers : wpc'[u] = wpc[u] \/ (wpc[u] = "parked" /\ wpc'[u] = "idle_dec")
  BY DEF TypeOK, Notified, WorkerPC
<1>2. /\ cpc' \in [Clients -> ClientPC] /\ answer' \in [Clients -> Answers]
      /\ cpc'[c] = l /\ answer'[c] = a
      /\ \A d \in Clients \ {c} : cpc'[d] = cpc[d] /\ answer'[d] = answer[d]
  BY DEF TypeOK
<1>3. TypeOK'
  BY <1>1, <1>2 DEF TypeOK
<1>4. Queued' = Queued /\ InHand' = InHand
  BY DEF Queued, InHand
<1>5. Conserved'
  <2>1. WorkConserved'
    BY <1>4 DEF WorkConserved
  <2>2. HandsRun'
    BY <1>1 DEF HandsRun
  <2>3. Submitted'
    <3>1. calls[c] \in Nat
      BY DEF TypeOK
    <3> QED BY <1>2, <3>1 DEF Submitted, Pending
  <2>4. ASSUME NEW j \in Issued PROVE j \in Issued'
    <3>1. j \in Items /\ j[1] \in Clients /\ j[2] \in Nat /\ calls[j[1]] \in Nat
      BY WorkerPoolAssumption DEF Issued, Items, WorkerPoolAssumption, TypeOK
    <3> QED BY <1>2, <3>1 DEF Issued, Pending
  <2> QED BY <1>4, <2>1, <2>2, <2>3, <2>4 DEF OnlyIssued
<1>6. Drained'
  <2>1. DrainsWhenOn'
    BY <1>1 DEF DrainsWhenOn
  <2>2. LeavesNothing'
    BY <1>1 DEF LeavesNothing
  <2>3. JoinedAll'
    BY <1>1, <1>2 DEF JoinedAll
  <2> QED BY <2>1, <2>2, <2>3
<1>7. Waited'
  <2>1. WaitsFor'
    BY <1>2, <1>4 DEF WaitsFor
  <2> QED BY <2>1
<1> QED BY <1>3, <1>5, <1>6, <1>7

-----------------------------------------------------------------------------
LEMMA WorkerKeeps ==
  ASSUME IInv, IdleExact', NEW w \in Workers, WorkerStep(w) \/ Panic(w)
  PROVE  IInv'
<1> USE DEF poolVars, clientVars, history, WGoto
<1>0. /\ local \in [Workers -> Seq(Items)] /\ offset \in [Workers -> 1..N]
      /\ \A v \in Workers : IsInjective(local[v])
  BY DEF IInv, TypeOK, Conserved, WorkConserved
<1>1. CASE Finish(w) \/ Panic(w)
  BY <1>1, RunStep
<1>2. CASE (PopLocal(w) \/ Drain(w)) /\ local[w] # <<>>
  <2>1. /\ Last(local[w]) \in ToSet(local[w]) /\ Front(local[w]) \in Seq(Items)
        /\ IsInjective(Front(local[w]))
        /\ ToSet(Front(local[w])) = ToSet(local[w]) \ {Last(local[w])}
    BY <1>0, <1>2, PopBack
  <2>2. /\ wpc[w] \in {"pop", "steal", "drain"}
        /\ Take(w, w, Last(local[w]), Front(local[w])) /\ offset' = offset
        /\ wpc' = [wpc EXCEPT ![w] = IF wpc[w] = "drain" THEN "drain_run" ELSE "run"]
        /\ UNCHANGED <<next_submit, shutdown, idle_count, clientVars, history>>
    BY <1>2 DEF PopLocal, Drain
  <2> QED BY <2>1, <2>2, <1>0, TakeStep
<1>3. CASE Steal(w) /\ local[(w + offset[w]) % N] # <<>>
  <2> DEFINE v == (w + offset[w]) % N
  <2>1. v \in Workers
    BY <1>0, Cardinal DEF Workers
  <2>2. /\ Head(local[v]) \in ToSet(local[v]) /\ Tail(local[v]) \in Seq(Items)
        /\ IsInjective(Tail(local[v]))
        /\ ToSet(Tail(local[v])) = ToSet(local[v]) \ {Head(local[v])}
    BY <2>1, <1>0, <1>3, PopFront
  <2>3. /\ wpc[w] = "steal" /\ Take(w, v, Head(local[v]), Tail(local[v]))
        /\ offset' = [offset EXCEPT ![w] = 1] /\ wpc' = [wpc EXCEPT ![w] = "run"]
        /\ UNCHANGED <<next_submit, shutdown, idle_count, clientVars, history>>
    BY <1>3 DEF Steal
  <2>4. offset' \in [Workers -> 1..N]
    BY <2>3, <1>0, Cardinal
  <2> HIDE DEF v
  <2> QED BY <2>1, <2>2, <2>3, <2>4, TakeStep
<1>4. CASE Steal(w) /\ local[(w + offset[w]) % N] = <<>>
  <2>1. /\ wpc[w] = "steal" /\ offset' = [offset EXCEPT ![w] = @ + 1] /\ offset[w] < N
        /\ UNCHANGED <<local, hand, wpc, next_submit, shutdown, idle_count, clientVars, history>>
    BY <1>4 DEF Steal
  <2>2. offset' \in [Workers -> 1..N]
    BY <2>1, <1>0, Cardinal
  <2>3. wpc' = [wpc EXCEPT ![w] = "steal"] /\ "steal" \in WorkerPC \ {"run", "drain_run", "dead"}
    BY <2>1 DEF IInv, TypeOK, WorkerPC
  <2> QED BY <2>1, <2>2, <2>3, MoveStep
<1>5. ASSUME NEW l \in WorkerPC \ {"run", "drain_run", "dead"},
             wpc[w] \notin {"run", "drain_run", "exit", "dead"},
             wpc' = [wpc EXCEPT ![w] = l],
             l = "drain" => shutdown = "on",
             l = "exit" => wpc[w] = "drain" /\ local[w] = <<>>,
             offset' \in {offset, [offset EXCEPT ![w] = 1]},
             UNCHANGED <<local, next_submit, shutdown, hand, clientVars, history>>
      PROVE  IInv'
  <2>1. offset' \in [Workers -> 1..N]
    BY <1>0, <1>5, Cardinal
  <2> QED BY <1>5, <2>1, MoveStep
<1>6. CASE (PopLocal(w) \/ Drain(w)) /\ local[w] = <<>>
  BY <1>5, <1>6 DEF PopLocal, Drain, WorkerPC
<1>7. CASE NothingToSteal(w)
  BY <1>5, <1>7 DEF NothingToSteal, WorkerPC
<1>8. CASE CheckShutdown(w)
  BY <1>5, <1>8 DEF CheckShutdown, WorkerPC
<1>9. CASE AnnounceIdle(w)
  BY <1>5, <1>9 DEF AnnounceIdle, WorkerPC
<1>10. CASE Recheck(w)
  BY <1>5, <1>10 DEF Recheck, WorkerPC
<1>11. CASE ParkTimeout(w)
  BY <1>5, <1>11 DEF ParkTimeout, WorkerPC
<1>12. CASE LeaveIdle(w)
  BY <1>5, <1>12 DEF LeaveIdle, WorkerPC
<1> QED BY <1>1, <1>2, <1>3, <1>4, <1>6, <1>7, <1>8, <1>9, <1>10, <1>11, <1>12 DEF WorkerStep

(* When the counter has reached N every worker is idle, so none has an item  *)
(* in its hands.                                                             *)
LEMMA AllIdle ==
  ASSUME IInv, idle_count >= N
  PROVE  InHand = {}
<1>1. Idlers \subseteq Workers /\ Cardinality(Idlers) = idle_count /\ idle_count \in Nat
  BY DEF Idlers, IInv, Waited, IdleExact, TypeOK
<1>2. Idlers = Workers
  BY <1>1, Cardinal, FS_Subset
<1>3. \A w \in Workers : hand[w] = NoItem
  BY <1>2 DEF Idlers, Idle, IInv, Conserved, HandsRun
<1> QED BY <1>3 DEF InHand

(* The steps of a call that has begun: no new call, the same item to wait    *)
(* for.                                                                      *)
LEMMA CallMoves ==
  ASSUME IInv, IdleExact', NEW c \in Clients, NEW W,
         NEW l \in ClientPC, l = "pick" => FALSE, l = "push" => Pending(c),
         NEW a \in Answers,
         wpc' \in {wpc, Notified(W)},
         cpc' = [cpc EXCEPT ![c] = l], answer' = [answer EXCEPT ![c] = a],
         shutdown' \in {shutdown, "on"},
         a = "joined" => \/ \A w \in Workers : wpc[w] \in {"exit", "dead"}
                         \/ answer[c] = "joined",
         l = "wi_pending" \/ a = "idle" =>
           InHand = {} \/ cpc[c] = "wi_pending" \/ answer[c] = "idle",
         next_submit' \in Workers, target' \in [Clients -> Workers],
         seen' \in [Clients -> Workers],
         UNCHANGED <<local, idle_count, hand, offset, calls, history>>
  PROVE  IInv'
<1>1. /\ calls \in [Clients -> 0..MaxCalls] /\ atCall \in [Clients -> SUBSET Items]
      /\ atCall[c] \subseteq InHand \cup done
      /\ (cpc[c] = "wi_pending" \/ answer[c] = "idle") => atCall[c] \subseteq done
  BY DEF IInv, TypeOK, Waited, WaitsFor
<1>2. l = "wi_pending" \/ a = "idle" => atCall[c] \subseteq done
  BY <1>1
<1>3. UNCHANGED <<calls, atCall, done, early, local, idle_count, hand, offset>>
  BY DEF history
<1> QED BY <1>1, <1>2, <1>3, ClientMoves

LEMMA ClientKeeps ==
  ASSUME IInv, IdleExact', NEW c \in Clients,
         Submit(c) \/ WaitIdle(c) \/ Shutdown(c) \/ ClientStep(c)
  PROVE  IInv'
<1> USE DEF poolVars, workerVars, CGoto
<1>0. /\ next_submit \in Workers /\ target \in [Clients -> Workers]
      /\ seen \in [Clients -> Workers] /\ calls \in [Clients -> 0..MaxCalls]
      /\ cpc \in [Clients -> ClientPC] /\ answer \in [Clients -> Answers]
      /\ atCall \in [Clients -> SUBSET Items] /\ 0 \in Workers
      /\ InHand \subseteq Items /\ atCall[c] \subseteq InHand \cup done
      /\ shutdown \in {"off", "on"}
  BY Cardinal DEF IInv, TypeOK, Workers, InHand, Waited, WaitsFor
<1>1. ASSUME NEW l \in {"pick", "swap", "wi_flag"}, Call(c, l),
             atCall' \in {atCall, [atCall EXCEPT ![c] = InHand]},
             l = "pick" => c \in Submitters
      PROVE  IInv'
  <2>1. /\ cpc[c] = "free" /\ calls[c] < MaxCalls /\ calls' = [calls EXCEPT ![c] = @ + 1]
        /\ answer' = [answer EXCEPT ![c] = "none"] /\ cpc' = [cpc EXCEPT ![c] = l]
        /\ UNCHANGED <<local, next_submit, shutdown, idle_count, wpc, hand, offset, target,
                       seen, done, early>>
    BY <1>1 DEF Call
  <2>2. /\ calls' \in [Clients -> 0..MaxCalls] /\ calls'[c] = calls[c] + 1 /\ ~ Pending(c)
        /\ atCall' \in [Clients -> SUBSET Items] /\ atCall'[c] \subseteq InHand \cup done
        /\ \A d \in Clients \ {c} : calls'[d] = calls[d] /\ atCall'[d] = atCall[d]
    BY <2>1, <1>0, <1>1, WorkerPoolAssumption DEF Pending, WorkerPoolAssumption
  <2>3. l \in ClientPC /\ "none" \in Answers /\ l # "push" /\ l # "wi_pending"
    BY DEF ClientPC, Answers
  <2> QED BY <2>1, <2>2, <2>3, <1>0, <1>1, ClientMoves
<1>2. CASE Submit(c) \/ WaitIdle(c) \/ Shutdown(c)
  BY <1>1, <1>2 DEF Submit, WaitIdle, Shutdown
<1>3. CASE PickTarget(c)
  <2>1. CASE shutdown = "on"
    <3>1. /\ cpc' = [cpc EXCEPT ![c] = "free"] /\ answer' = [answer EXCEPT ![c] = "none"]
          /\ UNCHANGED <<local, next_submit, shutdown, idle_count, wpc, hand, offset, calls,
                         target, seen, history>>
      BY <2>1, <1>3 DEF PickTarget, Return
    <3>2. "free" \in ClientPC /\ "none" \in Answers
      BY DEF ClientPC, Answers
    <3> QED BY <3>1, <3>2, <1>0, CallMoves
  <2>2. CASE shutdown # "on"
    <3>1. /\ cpc[c] = "pick" /\ cpc' = [cpc EXCEPT ![c] = "push"] /\ answer' = answer
          /\ UNCHANGED <<local, shutdown, idle_count, wpc, hand, offset, calls, seen, history>>
      BY <2>2, <1>3 DEF PickTarget
    <3>2. next_submit' \in Workers /\ target' \in [Clients -> Workers]
      <4>1. (next_submit + 1) % N \in Workers
        BY <1>0, Cardinal DEF Workers
      <4> QED BY <4>1, <2>2, <1>0, <1>3 DEF PickTarget
    <3>3. /\ "push" \in ClientPC /\ Pending(c) /\ answer[c] \in Answers
          /\ answer' = [answer EXCEPT ![c] = answer[c]]
      BY <3>1, <1>0 DEF ClientPC, Pending
    <3> QED BY <3>1, <3>2, <3>3, <1>0, CallMoves
  <2> QED BY <2>1, <2>2
<1>4. CASE PushLocal(c)
  BY <1>4, PushStep
<1>5. ASSUME NEW l \in ClientPC \ {"pick", "push"}, NEW a \in Answers,
             wpc' \in {wpc, Notified({target[c]}), Notified(Workers)}, cpc' = [cpc EXCEPT ![c] = l],
             answer' = [answer EXCEPT ![c] = a], shutdown' \in {shutdown, "on"},
             a = "joined" => \/ \A w \in Workers : wpc[w] \in {"exit", "dead"}
                             \/ answer[c] = "joined",
             l = "wi_pending" \/ a = "idle" =>
               InHand = {} \/ cpc[c] = "wi_pending" \/ answer[c] = "idle",
             target' \in [Clients -> Workers], seen' \in [Clients -> Workers],
             UNCHANGED <<local, next_submit, idle_count, hand, offset, calls, history>>
      PROVE  IInv'
  <2>1. CASE wpc' \in {wpc, Notified({target[c]})}
    BY <2>1, <1>0, <1>5, CallMoves
  <2>2. CASE wpc' \in {wpc, Notified(Workers)}
    BY <2>2, <1>0, <1>5, CallMoves
  <2> QED BY <1>5, <2>1, <2>2
<1>6. /\ {"free", "wi_flag", "wi_idle", "wi_pending", "wake", "join"}
           \subseteq ClientPC \ {"pick", "push"}
      /\ {"none", "idle", "timeout", "joined"} \subseteq Answers /\ answer[c] \in Answers
      /\ answer = [answer EXCEPT ![c] = answer[c]]
      /\ cpc = [cpc EXCEPT ![c] = cpc[c]]
      /\ [target EXCEPT ![c] = 0] \in [Clients -> Workers]
      /\ [seen EXCEPT ![c] = 0] \in [Clients -> Workers]
  BY <1>0 DEF ClientPC, Answers
<1>7. CASE NotifyTarget(c)
  <2>1. /\ wpc' = Notified({target[c]}) /\ cpc' = [cpc EXCEPT ![c] = "free"]
        /\ answer' = [answer EXCEPT ![c] = "none"] /\ target' = [target EXCEPT ![c] = 0]
        /\ UNCHANGED <<local, next_submit, shutdown, idle_count, hand, offset, calls, seen,
                       history>>
    BY <1>7 DEF NotifyTarget, Return
  <2> QED BY <2>1, <1>0, <1>5, <1>6
<1>8. CASE WaitFlag(c)
  <2>1. UNCHANGED <<local, next_submit, shutdown, idle_count, wpc, hand, offset, calls,
                    target, seen, history>>
    BY <1>8 DEF WaitFlag
  <2>2. CASE shutdown = "on"
    <3>1. cpc' = [cpc EXCEPT ![c] = "free"] /\ answer' = [answer EXCEPT ![c] = "none"]
      BY <2>2, <1>8 DEF WaitFlag, Return
    <3> QED BY <2>1, <3>1, <1>0, <1>5, <1>6
  <2>3. CASE shutdown # "on"
    <3>1. cpc' = [cpc EXCEPT ![c] = "wi_idle"] /\ answer' = answer
      BY <2>3, <1>8 DEF WaitFlag
    <3> QED BY <2>1, <3>1, <1>0, <1>5, <1>6
  <2> QED BY <2>2, <2>3
<1>9. ASSUME WaitAgain(c), UNCHANGED <<poolVars, workerVars, calls, target, history>>
      PROVE  IInv'
  <2>1. /\ \/ cpc' = [cpc EXCEPT ![c] = "free"] /\ answer' = [answer EXCEPT ![c] = "timeout"]
           \/ cpc' = [cpc EXCEPT ![c] = "wi_flag"] /\ answer' = answer
        /\ seen' = [seen EXCEPT ![c] = 0]
    BY <1>9 DEF WaitAgain, Return
  <2> QED BY <2>1, <1>0, <1>5, <1>6, <1>9
<1>10. CASE WaitCount(c)
  <2>1. CASE idle_count >= N
    <3>1. /\ cpc' = [cpc EXCEPT ![c] = "wi_pending"]
          /\ UNCHANGED <<local, next_submit, shutdown, idle_count, wpc, hand, offset, calls,
                         target, seen, answer, history>>
      BY <2>1, <1>10 DEF WaitCount
    <3> QED BY <2>1, <3>1, <1>0, <1>5, <1>6, AllIdle
  <2>2. CASE ~ (idle_count >= N)
    BY <2>2, <1>9, <1>10 DEF WaitCount
  <2> QED BY <2>1, <2>2
<1>11. CASE WaitPending(c)
  <2>1. /\ cpc[c] = "wi_pending"
        /\ UNCHANGED <<local, next_submit, shutdown, idle_count, wpc, hand, offset, calls,
                       target, history>>
    BY <1>11 DEF WaitPending
  <2>2. CASE WaitAgain(c)
    BY <2>1, <2>2, <1>9
  <2>3. CASE /\ seen[c] < N - 1 /\ seen' = [seen EXCEPT ![c] = @ + 1]
             /\ UNCHANGED <<answer, cpc>>
    <3>1. seen' \in [Clients -> Workers]
      BY <2>3, <1>0, Cardinal DEF Workers
    <3>2. cpc' = [cpc EXCEPT ![c] = "wi_pending"]
      BY <2>1, <2>3, <1>6
    <3> QED BY <2>1, <2>3, <3>1, <3>2, <1>0, <1>5, <1>6
  <2>4. CASE Return(c, "idle") /\ seen' = [seen EXCEPT ![c] = 0]
    BY <2>1, <2>4, <1>0, <1>5, <1>6 DEF Return
  <2> QED BY <1>11, <2>2, <2>3, <2>4 DEF WaitPending
<1>12. CASE SwapFlag(c)
  <2>1. UNCHANGED <<local, next_submit, idle_count, wpc, hand, offset, calls, target, seen,
                    history>>
    BY <1>12 DEF SwapFlag
  <2>2. CASE shutdown = "on"
    <3>1. /\ cpc' = [cpc EXCEPT ![c] = "free"] /\ answer' = [answer EXCEPT ![c] = "none"]
          /\ shutdown' = shutdown
      BY <2>2, <1>12 DEF SwapFlag, Return
    <3> QED BY <2>1, <3>1, <1>0, <1>5, <1>6
  <2>3. CASE shutdown # "on"
    <3>1. cpc' = [cpc EXCEPT ![c] = "wake"] /\ answer' = answer /\ shutdown' = "on"
      BY <2>3, <1>12 DEF SwapFlag
    <3> QED BY <2>1, <3>1, <1>0, <1>5, <1>6
  <2> QED BY <2>2, <2>3
<1>13. CASE WakeAll(c)
  <2>1. /\ wpc' = Notified(Workers) /\ cpc' = [cpc EXCEPT ![c] = "join"]
        /\ UNCHANGED <<local, next_submit, shutdown, idle_count, hand, offset, calls, target,
                       seen, answer, history>>
    BY <1>13 DEF WakeAll
  <2> QED BY <2>1, <1>0, <1>5, <1>6
<1>14. CASE JoinAll(c)
  <2>1. /\ \A w \in Workers : wpc[w] \in {"exit", "dead"}
        /\ cpc' = [cpc EXCEPT ![c] = "free"] /\ answer' = [answer EXCEPT ![c] = "joined"]
        /\ UNCHANGED <<local, next_submit, shutdown, idle_count, wpc, hand, offset, calls,
                       target, seen, history>>
    BY <1>14 DEF JoinAll, Return
  <2> QED BY <2>1, <1>0, <1>5, <1>6
<1> QED BY <1>2, <1>3, <1>4, <1>7, <1>8, <1>10, <1>11, <1>12, <1>13, <1>14 DEF ClientStep

LEMMA InitIInv == Init => IInv
<1> SUFFICES ASSUME Init PROVE IInv
  OBVIOUS
<1> USE DEF Init
<1>1. TypeOK
  BY Cardinal, WorkerPoolAssumption
     DEF TypeOK, Workers, WorkerPC, ClientPC, Answers, WorkerPoolAssumption
<1>2. (\A w \in Workers : ToSet(local[w]) = {} /\ IsInjective(local[w])) /\ InHand = {}
  BY DEF ToSet, IsInjective, InHand
<1>3. Queued = {}
  BY <1>2 DEF Queued
<1>4. WorkConserved
  BY <1>2, <1>3 DEF WorkConserved
<1>5. HandsRun /\ Submitted /\ OnlyIssued
  BY <1>2, <1>3 DEF HandsRun, Submitted, OnlyIssued, Pending
<1>6. DrainsWhenOn /\ LeavesNothing /\ JoinedAll
  BY DEF DrainsWhenOn, LeavesNothing, JoinedAll
<1>7. IdleExact
  <2>1. Idlers = {}
    BY DEF Idlers, Idle
  <2> QED BY <2>1, FS_EmptySet DEF IdleExact
<1>8. WaitsFor
  BY <1>2 DEF WaitsFor
<1> QED BY <1>1, <1>4, <1>5, <1>6, <1>7, <1>8 DEF IInv, Conserved, Drained, Waited

LEMMA NextIInv == IInv /\ [Next]_vars => IInv'
<1> SUFFICES ASSUME IInv, [Next]_vars PROVE IInv'
  OBVIOUS
<1>1. CASE Next
  <2>1. IdleExact'
    BY <1>1, IdleExactNext DEF IInv, Waited
  <2> QED BY <1>1, <2>1, WorkerKeeps, ClientKeeps DEF Next
<1>2. CASE UNCHANGED vars
  <2>1. UNCHANGED <<local, next_submit, shutdown, idle_count, wpc, hand, offset, cpc, calls,
                    target, seen, answer, done, early, atCall>>
    BY <1>2 DEF vars, poolVars, workerVars, clientVars, history
  <2>2. TypeOK'
    BY <2>1 DEF IInv, TypeOK
  <2>3. /\ Queued' = Queued /\ InHand' = InHand /\ Idlers' = Idlers
        /\ \A c \in Clients : Pending(c)' = Pending(c)
    BY <2>1 DEF Queued, InHand, Idlers, Idle, Pending
  <2>4. WorkConserved'
    BY <2>1, <2>3 DEF IInv, Conserved, WorkConserved
  <2>8. Issued' = Issued
    BY <2>1 DEF Issued, Pending
  <2>5. HandsRun' /\ Submitted' /\ OnlyIssued'
    BY <2>1, <2>3, <2>8 DEF IInv, Conserved, HandsRun, Submitted, OnlyIssued
  <2>6. DrainsWhenOn' /\ LeavesNothing' /\ JoinedAll'
    BY <2>1 DEF IInv, Drained, DrainsWhenOn, LeavesNothing, JoinedAll
  <2>7. IdleExact' /\ WaitsFor'
    BY <2>1, <2>3 DEF IInv, Waited, IdleExact, WaitsFor
  <2> QED BY <2>2, <2>4, <2>5, <2>6, <2>7 DEF IInv, Conserved, Drained, Waited
<1> QED BY <1>1, <1>2

-----------------------------------------------------------------------------
(* Whatever was submitted is in one deque, once, or in the hands of one      *)
(* worker, or has been run.                                                  *)
THEOREM PoolWorkConserved == Spec => []WorkConserved
<1>1. IInv => WorkConserved
  BY DEF IInv, Conserved
<1> QED BY <1>1, InitIInv, NextIInv, PTL DEF Spec

(* When shutdown() has joined the workers, what was queued before the flag   *)
(* was set has been run or lies behind a worker that panicked.               *)
THEOREM PoolDrainedAtReturn == Spec => []DrainedAtReturn
<1>1. IInv => DrainedAtReturn
  <2> SUFFICES ASSUME IInv, NEW c \in Clients, answer[c] = "joined", NEW i \in early,
                      i \notin done
               PROVE  i \in UNION {ToSet(local[w]) : w \in Gone}
    BY DEF DrainedAtReturn
  <2>1. \A w \in Workers : wpc[w] \in {"exit", "dead"}
    BY DEF IInv, Drained, JoinedAll
  <2>2. InHand = {}
    BY <2>1 DEF IInv, Conserved, HandsRun, InHand
  <2>3. PICK w \in Workers : i \in ToSet(local[w])
    BY <2>2, InQueue DEF IInv, Conserved, WorkConserved
  <2>4. w \in Gone
    BY <2>1, <2>3 DEF Gone, IInv, Drained, LeavesNothing
  <2> QED BY <2>3, <2>4
<1> QED BY <1>1, InitIInv, NextIInv, PTL DEF Spec

(* At any time, before the join as well, an item queued before the flag was  *)
(* set has been run, is being run, or lies where a worker will look again or *)
(* has panicked: a worker that leaves its loop strands none of them.         *)
THEOREM PoolStrandsNothing ==
  Spec => [](early \subseteq done \cup InHand \cup
                 UNION {ToSet(local[w]) : w \in {v \in Workers : wpc[v] # "exit"}})
<1>1. IInv => early \subseteq done \cup InHand \cup
                 UNION {ToSet(local[w]) : w \in {v \in Workers : wpc[v] # "exit"}}
  <2> SUFFICES ASSUME IInv, NEW i \in early, i \notin done, i \notin InHand
               PROVE  \E w \in Workers : wpc[w] # "exit" /\ i \in ToSet(local[w])
    OBVIOUS
  <2>1. PICK w \in Workers : i \in ToSet(local[w])
    BY InQueue DEF IInv, Conserved, WorkConserved
  <2> QED
    BY <2>1 DEF IInv, Drained, LeavesNothing
<1> QED BY <1>1, InitIInv, NextIInv, PTL DEF Spec

(* A wait_idle() that reports quiescence has waited for every item that was  *)
(* being run when it was called.                                             *)
THEOREM PoolRunningSeen == Spec => []RunningSeen
<1>1. IInv => RunningSeen
  BY DEF IInv, Waited, WaitsFor, RunningSeen
<1> QED BY <1>1, InitIInv, NextIInv, PTL DEF Spec
=============================================================================
