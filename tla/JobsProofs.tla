----------------------------- MODULE JobsProofs -----------------------------
(***************************************************************************)
(* The receipts of the Workbench are honest and durable, their versions    *)
(* tell the client about every change of status but two that restore()     *)
(* makes, and no more than two children run, for any number of jobs, stops *)
(* of the host, failed writes and pieces of output and any length of the   *)
(* list.                                                                   *)
(***************************************************************************)
EXTENDS Jobs, FiniteSetTheorems, SequenceTheorems, TLAPS

(* The list holds jobs that have been started, once each; what has not been  *)
(* started has left no trace.                                                *)
Listing == /\ IsInjective(jobs) /\ ToSet(jobs) \subseteq 1 .. started
           /\ host = "down" => jobs = <<>>
Fresh == \A i \in Ids : i > started =>
           receipt[i] = Nothing /\ disk[i] = Nothing /\ task[i] = "none"

(* A job with a task is in the list, where it counts as running, and it is   *)
(* the tasks that make jobs running; no result of it is on disk yet.         *)
TaskListed == \A i \in Ids : task[i] # "none" =>
  /\ i \in ToSet(jobs) /\ receipt[i].status = "running"
  /\ disk[i].status \in {"none", "running"}
ListedStatus == \A i \in ToSet(jobs) :
  receipt[i].status # "none" /\ (receipt[i].status = "running" => task[i] # "none")
FewRun == Cardinality(Running) <= 2

(* What the select has chosen agrees with the process, and the process of a  *)
(* job that has been decided no longer changes.                              *)
ChoiceHonest == \A i \in Ids :
  /\ verdict[i] # "none" <=> task[i] = "finish"
  /\ task[i] # "none" => child[i] # "none"
  /\ verdict[i] = "succeeded" => child[i] \notin {"none", "alive", "bad"}
  /\ verdict[i] = "failed" => child[i] = "bad" /\ i \notin Proofs
DiskHonest == \A i \in Ids :
  /\ disk[i].status = "succeeded" => child[i] = IF i \in Proofs THEN "Verified" ELSE "ok"
  /\ disk[i].status = "failed" => child[i] = IF i \in Proofs THEN "Rejected" ELSE "bad"

(* What restore() may make of the receipt on disk: a result s.               *)
Restored(i, s) ==
  \/ disk[i].status = s
  \/ s = "inconclusive" /\ disk[i].status = "running"
  \/ s = "inconclusive" /\ i \in Proofs /\ disk[i].status = "succeeded"

(* A result that is listed, or that the client knows, is one that restore()  *)
(* may find on disk.                                                         *)
DiskTells == \A i \in ToSet(jobs) \ unsaved :
  receipt[i].status \in Terminal => Restored(i, receipt[i].status)
KnownTells ==
  /\ known.status # "none" => watch <= started
  /\ known.status \in Terminal => task[watch] = "none"
  /\ known.status \in Terminal /\ watch \notin unsaved => Restored(watch, known.status)

(* Within one life of the host the versions of a receipt grow.               *)
KnownVersion ==
  /\ known.life <= stops /\ (host = "down" => known.life < stops)
  /\ known.status # "none" /\ known.life = stops =>
       /\ known.version <= receipt[watch].version
       /\ known.version = receipt[watch].version => known.status = receipt[watch].status

(* A version on disk stands for one status and what restore() makes of it,   *)
(* in memory and with the client: the receipt written first is older than    *)
(* the result, and a job that the client read in an earlier life of the host *)
(* is what restore() made of the receipt on disk.                            *)
DiskVersion == \A i \in ToSet(jobs) :
  /\ task[i] # "none" /\ disk[i].status = "running" =>
       disk[i].version <= receipt[i].version
  /\ disk[i].status # "none" /\ receipt[i].version = disk[i].version =>
       Restored(i, receipt[i].status)
KnownDisk == known.status # "none" =>
  /\ disk[watch].status # "none" /\ known.version = disk[watch].version =>
       Restored(watch, known.status)
  /\ known.life < stops =>
       /\ task[watch] = "none"
       /\ watch \in ToSet(jobs) =>
            /\ receipt[watch].status # "running" /\ disk[watch].status # "none"
            /\ receipt[watch].version = disk[watch].version

Listed == Listing /\ Fresh /\ TaskListed /\ ListedStatus /\ FewRun
Honest == ChoiceHonest /\ DiskHonest /\ VerdictHonest
Told   == DiskTells /\ KnownTells /\ KnownVersion /\ DiskVersion /\ KnownDisk
IInv   == TypeOK /\ Listed /\ Honest /\ Told

-----------------------------------------------------------------------------
(* What a push at the end and the removal of an entry do to the list.        *)
LEMMA PushEnd ==
  ASSUME NEW S, NEW s \in Seq(S), NEW x \in S, IsInjective(s), x \notin ToSet(s)
  PROVE  /\ Append(s, x) \in Seq(S) /\ IsInjective(Append(s, x))
         /\ Len(Append(s, x)) = Len(s) + 1
         /\ ToSet(Append(s, x)) = ToSet(s) \cup {x}
<1> DEFINE a == Append(s, x)
<1>1. /\ a \in Seq(S) /\ Len(a) = Len(s) + 1
      /\ DOMAIN s = 1 .. Len(s) /\ DOMAIN a = 1 .. Len(s) + 1
      /\ a[Len(s) + 1] = x /\ \A i \in 1 .. Len(s) : a[i] = s[i]
  OBVIOUS
<1>2. IsInjective(a)
  BY <1>1 DEF IsInjective, ToSet
<1>3. ToSet(a) = ToSet(s) \cup {x}
  BY <1>1 DEF ToSet
<1> QED BY <1>1, <1>2, <1>3

LEMMA Removal ==
  ASSUME NEW S, NEW s \in Seq(S), IsInjective(s), NEW k \in 1 .. Len(s)
  PROVE  /\ RemoveAt(s, k) \in Seq(S) /\ Len(RemoveAt(s, k)) = Len(s) - 1
         /\ IsInjective(RemoveAt(s, k)) /\ ToSet(RemoveAt(s, k)) = ToSet(s) \ {s[k]}
<1> DEFINE a == SubSeq(s, 1, k - 1)
           b == SubSeq(s, k + 1, Len(s))
           r == a \o b
<1>1. /\ a \in Seq(S) /\ Len(a) = k - 1 /\ \A i \in 1 .. k - 1 : a[i] = s[i]
      /\ b \in Seq(S) /\ Len(b) = Len(s) - k
      /\ \A i \in 1 .. Len(s) - k : b[i] = s[i + k]
  OBVIOUS
<1>2. /\ r \in Seq(S) /\ Len(r) = Len(s) - 1 /\ DOMAIN r = 1 .. Len(s) - 1
      /\ DOMAIN s = 1 .. Len(s)
      /\ \A i \in 1 .. Len(s) - 1 : r[i] = IF i < k THEN s[i] ELSE s[i + 1]
  <2> HIDE DEF a, b
  <2>1. r \in Seq(S) /\ Len(r) = Len(s) - 1
    <3>1. r \in Seq(S) /\ Len(r) = Len(a) + Len(b)
      BY <1>1, ConcatProperties
    <3>2. Len(s) \in Nat /\ (k - 1) + (Len(s) - k) = Len(s) - 1
      OBVIOUS
    <3> QED BY <3>1, <3>2, <1>1
  <2>2. \A i \in 1 .. Len(s) - 1 : r[i] = IF i < k THEN s[i] ELSE s[i + 1]
    <3> TAKE i \in 1 .. Len(s) - 1
    <3>1. r[i] = IF i <= Len(a) THEN a[i] ELSE b[i - Len(a)]
      BY <1>1
    <3>2. CASE i < k
      BY <3>1, <3>2, <1>1
    <3>3. CASE ~ (i < k)
      <4>1. i - Len(a) \in 1 .. Len(s) - k /\ (i - Len(a)) + k = i + 1 /\ ~ (i <= Len(a))
        BY <3>3, <1>1
      <4>2. r[i] = s[(i - Len(a)) + k]
        BY <3>1, <4>1, <1>1
      <4> QED BY <4>1, <4>2, <3>3
    <3> QED BY <3>2, <3>3
  <2> QED BY <2>1, <2>2
<1> HIDE DEF r
<1>3. IsInjective(r)
  <2> SUFFICES ASSUME NEW i \in 1 .. Len(s) - 1, NEW j \in 1 .. Len(s) - 1, r[i] = r[j]
               PROVE  i = j
    BY <1>2 DEF IsInjective
  <2>1. \A x, y \in 1 .. Len(s) : s[x] = s[y] => x = y
    BY <1>2 DEF IsInjective
  <2> QED BY <1>2, <2>1
<1>4. ToSet(r) = ToSet(s) \ {s[k]}
  <2>1. ASSUME NEW x \in ToSet(s), x # s[k] PROVE x \in ToSet(r)
    <3>1. PICK i \in 1 .. Len(s) : s[i] = x
      BY <2>1, <1>2 DEF ToSet
    <3>2. CASE i < k
      BY <3>1, <3>2, <1>2 DEF ToSet
    <3>3. CASE i > k
      <4>1. i - 1 \in DOMAIN r /\ r[i - 1] = x
        BY <3>1, <3>3, <1>2
      <4> QED BY <4>1 DEF ToSet
    <3> QED BY <2>1, <3>1, <3>2, <3>3
  <2>2. ASSUME NEW x \in ToSet(r) PROVE x \in ToSet(s) /\ x # s[k]
    <3>1. PICK i \in 1 .. Len(s) - 1 : r[i] = x
      BY <1>2 DEF ToSet
    <3>2. PICK j \in 1 .. Len(s) : s[j] = x /\ j # k
      BY <3>1, <1>2
    <3> QED BY <3>2, <1>2 DEF ToSet, IsInjective
  <2> QED BY <2>1, <2>2
<1> QED BY <1>2, <1>3, <1>4 DEF r, RemoveAt

(* restore() lists distinct jobs that are on disk, no more than Keep.        *)
LEMMA NewestListed ==
  ASSUME NEW recorded \in SUBSET Ids, NEW s \in Newest(recorded)
  PROVE  s \in Seq(Ids) /\ Len(s) <= Keep /\ IsInjective(s) /\ ToSet(s) \subseteq recorded
<1>1. PICK kept \in SUBSET recorded :
        /\ Cardinality(kept) <= Keep
        /\ s \in [1 .. Cardinality(kept) -> kept]
        /\ \A k, m \in DOMAIN s : k < m => s[k] < s[m]
  BY DEF Newest
<1>2. MaxStarts \in Nat /\ IsFiniteSet(Ids)
  BY JobsAssumption, FS_Interval DEF JobsAssumption, Ids
<1>3. Cardinality(kept) \in Nat
  BY <1>1, <1>2, FS_Subset, FS_CardinalityType
<1>4. s \in Seq(kept) /\ Len(s) = Cardinality(kept) /\ DOMAIN s = 1 .. Cardinality(kept)
  BY <1>1, <1>3
<1>5. s \in Seq(Ids)
  BY <1>1, <1>3
<1>6. \A k \in DOMAIN s : s[k] \in kept /\ s[k] \in Int
  <2>1. \A k \in DOMAIN s : s[k] \in kept
    BY <1>1
  <2>2. kept \subseteq Int
    BY <1>1, <1>2 DEF Ids
  <2> QED BY <2>1, <2>2
<1>7. IsInjective(s)
  BY <1>1, <1>3, <1>4, <1>6 DEF IsInjective
<1> QED BY <1>1, <1>4, <1>5, <1>6, <1>7 DEF ToSet

(* A full list has an entry to give up: two of its jobs are not both         *)
(* running, since fewer than two are.                                        *)
LEMMA RoomMade ==
  ASSUME TypeOK, Listing, Cardinality(Running) < 2
  PROVE  /\ Room \in Seq(Ids) /\ Len(Room) < Limit /\ IsInjective(Room)
         /\ ToSet(Room) \subseteq ToSet(jobs) /\ Running \subseteq ToSet(Room)
<1>1. /\ jobs \in Seq(Ids) /\ Len(jobs) <= Limit /\ IsInjective(jobs) /\ Limit \in Nat
      /\ Limit >= 2 /\ MaxStarts \in Nat
  BY JobsAssumption DEF TypeOK, Listing, JobsAssumption
<1>2. CASE Len(jobs) # Limit
  BY <1>1, <1>2 DEF Room, Running
<1>3. CASE Len(jobs) = Limit
  <2> DEFINE Free(k) == jobs[k] \notin Running /\ \A m \in 1 .. k - 1 : jobs[m] \in Running
             c == CHOOSE k \in 1 .. Limit : Free(k)
  <2>1. ~ (jobs[1] \in Running /\ jobs[2] \in Running)
    <3> SUFFICES ASSUME jobs[1] \in Running, jobs[2] \in Running PROVE FALSE
      OBVIOUS
    <3>1. jobs[1] # jobs[2]
      BY <1>1, <1>3 DEF IsInjective
    <3>2. {jobs[1], jobs[2]} \subseteq Running /\ Running \subseteq Ids
      BY <1>1 DEF Running, ToSet
    <3>3. IsFiniteSet(Running) /\ Cardinality(Running) \in Nat
      <4>1. IsFiniteSet(Ids)
        BY <1>1, FS_Interval DEF Ids
      <4>2. IsFiniteSet(Running)
        BY <4>1, <3>2, FS_Subset
      <4> QED BY <4>2, FS_CardinalityType
    <3>4. Cardinality({jobs[1]}) = 1 /\ IsFiniteSet({jobs[1]})
      BY FS_Singleton
    <3>5. Cardinality({jobs[1]} \cup {jobs[2]}) = 2
      BY <3>1, <3>4, FS_AddElement
    <3>6. {jobs[1]} \cup {jobs[2]} \subseteq Running
      BY <3>2
    <3> QED BY <3>3, <3>5, <3>6, FS_Subset
  <2>2. \E k \in 1 .. Limit : Free(k)
    <3>1. CASE jobs[1] \notin Running
      <4>1. 1 \in 1 .. Limit /\ Free(1)
        BY <3>1, <1>1
      <4> QED BY <4>1
    <3>2. CASE jobs[1] \in Running
      <4>1. jobs[2] \notin Running /\ 2 \in 1 .. Limit /\ 1 .. 2 - 1 = {1}
        BY <3>2, <2>1, <1>1
      <4>2. Free(2)
        BY <3>2, <4>1
      <4> QED BY <4>1, <4>2
    <3> QED BY <3>1, <3>2
  <2>3. c \in 1 .. Len(jobs) /\ jobs[c] \notin Running
    BY <2>2, <1>3
  <2>4. Room = RemoveAt(jobs, c)
    BY <1>3 DEF Room
  <2> HIDE DEF c
  <2>5. /\ Room \in Seq(Ids) /\ Len(Room) = Len(jobs) - 1 /\ IsInjective(Room)
        /\ ToSet(Room) = ToSet(jobs) \ {jobs[c]}
    BY <1>1, <2>3, <2>4, Removal
  <2>6. Running \subseteq ToSet(Room)
    BY <2>3, <2>5 DEF Running
  <2> QED BY <1>1, <1>3, <2>5, <2>6
<1> QED BY <1>2, <1>3
-----------------------------------------------------------------------------
(* Running jobs are few: the set only shrinks, or a job joins fewer than two.*)
LEMMA RunningFinite ==
  ASSUME TypeOK
  PROVE  /\ Running \subseteq Ids /\ IsFiniteSet(Running) /\ Cardinality(Running) \in Nat
         /\ ToSet(jobs) \subseteq Ids
<1>1. ToSet(jobs) \subseteq Ids
  BY DEF TypeOK, ToSet
<1>2. Running \subseteq Ids
  BY <1>1 DEF Running
<1>3. IsFiniteSet(Ids)
  BY JobsAssumption, FS_Interval DEF JobsAssumption, Ids
<1> QED BY <1>1, <1>2, <1>3, FS_Subset, FS_CardinalityType

LEMMA FewerRun ==
  ASSUME TypeOK, FewRun, Running' \subseteq Running
  PROVE  FewRun'
<1>1. IsFiniteSet(Running) /\ Cardinality(Running) \in Nat
  BY RunningFinite
<1>2. Cardinality(Running') <= Cardinality(Running) /\ Cardinality(Running') \in Nat
  BY <1>1, FS_Subset, FS_CardinalityType
<1> QED BY <1>1, <1>2 DEF FewRun

(* What a step does to job i alone.                                          *)
Only(i) == \A j \in Ids \ {i} :
  /\ receipt'[j] = receipt[j] /\ disk'[j] = disk[j] /\ task'[j] = task[j]
  /\ verdict'[j] = verdict[j] /\ child'[j] = child[j]

(* The steps of a task before the last, those of its process, and a request  *)
(* to cancel it: the job stays listed and running.                           *)
LEMMA TaskMoves ==
  ASSUME IInv, TypeOK', NEW i \in Ids, Only(i), task[i] # "none", task'[i] # "none",
         receipt'[i].status = "running", receipt'[i].version >= receipt[i].version,
         disk'[i] \in {disk[i], receipt[i]},
         verdict'[i] # "none" <=> task'[i] = "finish", child'[i] # "none",
         verdict'[i] = "succeeded" => child'[i] \notin {"none", "alive", "bad"},
         verdict'[i] = "failed" => child'[i] = "bad" /\ i \notin Proofs,
         verdict'[i] = "cancelled" => i \in cancel \/ (i \in Owned /\ scope = "ended"),
         cancel \subseteq cancel',
         UNCHANGED <<host, stops, started, jobs, scope, watch, known, unsaved>>
  PROVE  IInv'
<1>0. /\ receipt \in [Ids -> [status : Statuses, version : Nat]]
      /\ receipt' \in [Ids -> [status : Statuses, version : Nat]]
      /\ watch \in Ids /\ ToSet(jobs) \subseteq Ids /\ TypeOK
  BY RunningFinite DEF IInv, TypeOK
<1>1. /\ i \in ToSet(jobs) /\ receipt[i].status = "running"
      /\ disk[i].status \in {"none", "running"} /\ i \in 1 .. started
  BY DEF IInv, Listed, TaskListed, Listing
<1>2. /\ \A j \in Ids : receipt'[j].status = receipt[j].status
      /\ disk'[i].status \in {"none", "running"}
      /\ \A j \in Ids \ {i} :
           /\ receipt'[j] = receipt[j] /\ disk'[j] = disk[j] /\ task'[j] = task[j]
           /\ verdict'[j] = verdict[j] /\ child'[j] = child[j]
  BY <1>0, <1>1 DEF Only
<1>4. Listed'
  <2>1. Listing'
    BY DEF IInv, Listed, Listing
  <2>2. ~ (i > started)
    BY <1>1, <1>0 DEF TypeOK
  <2>3. Fresh'
    BY <2>2, <1>2 DEF IInv, Listed, Fresh
  <2>4. TaskListed'
    BY <1>1, <1>2 DEF IInv, Listed, TaskListed
  <2>5. ListedStatus'
    BY <1>0, <1>2 DEF IInv, Listed, ListedStatus
  <2>6. Running' = Running
    BY <1>0, <1>2 DEF Running
  <2> QED BY <2>1, <2>3, <2>4, <2>5, <2>6, <1>0, FewerRun DEF IInv, Listed
<1>5. Honest'
  <2>1. ChoiceHonest'
    BY <1>2 DEF IInv, Honest, ChoiceHonest
  <2>3. DiskHonest'
    BY <1>2 DEF IInv, Honest, DiskHonest
  <2>2. VerdictHonest'
    <3> SUFFICES ASSUME NEW j \in Ids
                 PROVE  /\ receipt'[j].status = "succeeded" =>
                             child'[j] = IF j \in Proofs THEN "Verified" ELSE "ok"
                        /\ receipt'[j].status = "failed" =>
                             child'[j] = IF j \in Proofs THEN "Rejected" ELSE "bad"
                        /\ verdict'[j] = "cancelled" =>
                             j \in cancel' \/ (j \in Owned /\ scope' = "ended")
      BY DEF VerdictHonest
    <3>1. CASE j = i
      BY <3>1
    <3>2. CASE j # i
      BY <3>2, <1>2 DEF IInv, Honest, VerdictHonest
    <3> QED BY <3>1, <3>2
  <2> QED BY <2>1, <2>2, <2>3 DEF Honest
<1>6. Told'
  <2>1. DiskTells'
    <3> SUFFICES ASSUME NEW j \in ToSet(jobs) \ unsaved, receipt'[j].status \in Terminal
                 PROVE  Restored(j, receipt[j].status)'
      BY DEF DiskTells, Restored
    <3>1. j \in Ids \ {i}
      BY <1>0 DEF Terminal
    <3>2. receipt'[j] = receipt[j] /\ disk'[j] = disk[j]
      BY <3>1, <1>2
    <3>3. Restored(j, receipt[j].status)
      BY <3>2 DEF IInv, Told, DiskTells
    <3> QED BY <3>2, <3>3 DEF Restored
  <2>2. KnownTells'
    <3>1. known.status \in Terminal => watch # i
      BY DEF IInv, Told, KnownTells
    <3> QED BY <3>1, <1>0, <1>2 DEF IInv, Told, KnownTells, Restored
  <2>3. KnownVersion'
    <3>1. /\ known.version \in Nat /\ receipt[watch].version \in Nat
          /\ receipt'[watch].version \in Nat
          /\ receipt'[watch].version >= receipt[watch].version
          /\ receipt'[watch].status = receipt[watch].status
      <4>1. known.version \in Nat
        BY DEF IInv, TypeOK
      <4>2. CASE watch = i
        BY <4>1, <4>2, <1>0, <1>2
      <4>3. CASE watch # i
        BY <4>1, <4>3, <1>0, <1>2
      <4> QED BY <4>2, <4>3
    <3> QED BY <3>1 DEF IInv, Told, KnownVersion
  <2>4. /\ disk \in [Ids -> [status : Statuses, version : Nat]]
        /\ disk'[i].status # "none" => disk'[i].status = "running"
    BY <1>2 DEF IInv, TypeOK
  <2>5. DiskVersion'
    <3> SUFFICES ASSUME NEW j \in ToSet(jobs)
                 PROVE  /\ task'[j] # "none" /\ disk'[j].status = "running" =>
                             disk'[j].version <= receipt'[j].version
                        /\ disk'[j].status # "none" /\ receipt'[j].version = disk'[j].version =>
                             Restored(j, receipt[j].status)'
      BY DEF DiskVersion
    <3>1. CASE j = i
      <4>1. disk'[i].status = "running" => disk'[i].version <= receipt'[i].version
        <5>1. disk[i].status = "running" => disk[i].version <= receipt[i].version
          BY <1>1 DEF IInv, Told, DiskVersion
        <5>2. /\ disk[i].version \in Nat /\ receipt[i].version \in Nat
              /\ receipt'[i].version \in Nat
          BY <1>0, <2>4
        <5> QED BY <5>1, <5>2
      <4> QED BY <3>1, <4>1, <2>4 DEF Restored
    <3>2. CASE j # i
      <4>1. receipt'[j] = receipt[j] /\ disk'[j] = disk[j] /\ task'[j] = task[j]
        BY <3>2, <1>0, <1>2
      <4> QED BY <4>1 DEF IInv, Told, DiskVersion, Restored
    <3> QED BY <3>1, <3>2
  <2>6. KnownDisk'
    <3>1. CASE watch = i
      <4>1. known.status # "none" => known.life = stops
        <5>1. known.life \in Int /\ stops \in Int
          BY DEF IInv, TypeOK
        <5> QED BY <3>1, <5>1 DEF IInv, Told, KnownDisk, KnownVersion
      <4>2. CASE disk'[i] = disk[i]
        BY <3>1, <4>1, <4>2 DEF IInv, Told, KnownDisk, Restored, TypeOK
      <4>3. CASE disk'[i] = receipt[i]
        BY <3>1, <4>1, <4>3 DEF IInv, Told, KnownVersion, KnownDisk, Restored, TypeOK
      <4> QED BY <4>2, <4>3
    <3>2. CASE watch # i
      <4>1. receipt'[watch] = receipt[watch] /\ disk'[watch] = disk[watch]
            /\ task'[watch] = task[watch]
        BY <3>2, <1>0, <1>2
      <4> QED BY <4>1 DEF IInv, Told, KnownDisk, Restored
    <3> QED BY <3>1, <3>2
  <2> QED BY <2>1, <2>2, <2>3, <2>5, <2>6 DEF Told
<1> QED BY <1>4, <1>5, <1>6 DEF IInv

LEMMA TaskSteps ==
  ASSUME IInv, NEW i \in Ids,
         PersistStart(i) \/ Capture(i) \/ ChildEnds(i) \/ Cancel(i) \/ Select(i)
  PROVE  IInv'
<1>0. /\ receipt \in [Ids -> [status : Statuses, version : Nat]]
      /\ task \in [Ids -> {"none", "persist", "select", "finish"}]
      /\ verdict \in [Ids -> Terminal \cup {"none"}]
      /\ child \in [Ids -> {"none", "alive", "bad", "ok"} \cup Reports]
      /\ child[i] \in {"none", "alive"} \cup Ends(i)
      /\ task[i] # "none" => child[i] # "none"
      /\ cancel \subseteq Ids /\ failures \in 0 .. MaxFailures /\ MaxFailures \in Nat
      /\ disk \in [Ids -> [status : Statuses, version : Nat]]
  BY JobsAssumption DEF IInv, TypeOK, JobsAssumption, Honest, ChoiceHonest
<1>1. /\ task[i] # "none"
      /\ i \in ToSet(jobs) /\ receipt[i].status = "running"
  <2>1. task[i] # "none"
    BY DEF PersistStart, Capture, ChildEnds, Cancel, Select
  <2> QED BY <2>1 DEF IInv, Listed, TaskListed
<1>2. /\ receipt[i] = [status |-> "running", version |-> receipt[i].version]
      /\ receipt[i].version \in Nat
      /\ receipt = [receipt EXCEPT ![i] = receipt[i]] /\ child = [child EXCEPT ![i] = child[i]]
      /\ task = [task EXCEPT ![i] = task[i]] /\ verdict = [verdict EXCEPT ![i] = verdict[i]]
  BY <1>0, <1>1
<1>3. /\ verdict[i] # "none" <=> task[i] = "finish"
      /\ verdict[i] = "succeeded" => child[i] \notin {"none", "alive", "bad"}
      /\ verdict[i] = "failed" => child[i] = "bad" /\ i \notin Proofs
      /\ verdict[i] = "cancelled" => i \in cancel \/ (i \in Owned /\ scope = "ended")
      /\ task[i] \in {"persist", "select", "finish"} /\ verdict[i] \in Terminal \cup {"none"}
  BY <1>0, <1>1 DEF IInv, Honest, ChoiceHonest, VerdictHonest
<1>4. CASE PersistStart(i)
  <2>1. /\ task[i] = "persist" /\ task' = [task EXCEPT ![i] = "select"]
        /\ disk' \in {disk, [disk EXCEPT ![i] = receipt[i]]}
        /\ failures' \in 0 .. MaxFailures
        /\ UNCHANGED <<host, stops, started, jobs, receipt, cancel, scope, verdict, child,
                       watch, known, unsaved>>
    BY <1>4, <1>0 DEF PersistStart
  <2>2. verdict[i] = "none"
    BY <2>1, <1>3
  <2>3. /\ Only(i) /\ disk'[i] \in {disk[i], receipt[i]} /\ task'[i] = "select"
        /\ verdict'[i] = "none" /\ child'[i] = child[i] /\ receipt'[i] = receipt[i]
    BY <2>1, <2>2, <1>0 DEF Only
  <2>4. TypeOK'
    <3>1. /\ disk' \in [Ids -> [status : Statuses, version : Nat]]
          /\ task' \in [Ids -> {"none", "persist", "select", "finish"}]
      BY <2>1, <1>0
    <3> QED BY <2>1, <3>1 DEF IInv, TypeOK
  <2> QED BY <2>1, <2>3, <2>4, <1>0, <1>1, <1>2, TaskMoves
<1>5. CASE Capture(i)
  <2>1. /\ task[i] = "select"
        /\ receipt' = [receipt EXCEPT ![i].version = @ + 1]
        /\ UNCHANGED <<host, stops, started, jobs, cancel, scope, task, verdict, child, disk,
                       watch, known, failures, unsaved>>
    BY <1>5 DEF Capture
  <2>2. /\ Only(i) /\ receipt'[i].status = "running"
        /\ receipt'[i].version = receipt[i].version + 1
    BY <2>1, <1>0, <1>1 DEF Only
  <2>3. TypeOK'
    <3>1. receipt' \in [Ids -> [status : Statuses, version : Nat]]
      BY <2>1, <1>0
    <3> QED BY <2>1, <3>1 DEF IInv, TypeOK
  <2> QED BY <2>1, <2>2, <2>3, <1>0, <1>1, <1>2, <1>3, TaskMoves
<1>6. CASE ChildEnds(i)
  <2>1. PICK c \in Ends(i) :
        /\ task[i] = "select" /\ child' = [child EXCEPT ![i] = c]
        /\ receipt' = [receipt EXCEPT ![i].version = IF i \in Proofs THEN @ + 1 ELSE @]
        /\ UNCHANGED <<host, stops, started, jobs, cancel, scope, task, verdict, disk,
                       watch, known, failures, unsaved>>
    BY <1>6 DEF ChildEnds
  <2>2. /\ Only(i) /\ receipt'[i].status = "running" /\ child'[i] = c
        /\ receipt'[i].version >= receipt[i].version
    BY <2>1, <1>0, <1>1 DEF Only
  <2>3. c # "none" /\ c \in {"bad", "ok"} \cup Reports
    BY DEF Ends, Reports
  <2>4. verdict[i] = "none" /\ task[i] # "finish"
    BY <2>1, <1>3
  <2>5. TypeOK'
    <3>1. receipt' \in [Ids -> [status : Statuses, version : Nat]]
      BY <2>1, <1>0
    <3>2. /\ child' \in [Ids -> {"none", "alive", "bad", "ok"} \cup Reports]
          /\ \A j \in Ids : child'[j] \in {"none", "alive"} \cup Ends(j)
      BY <2>1, <2>3, <1>0 DEF IInv, TypeOK
    <3> QED BY <2>1, <3>1, <3>2 DEF IInv, TypeOK
  <2> QED BY <2>1, <2>2, <2>3, <2>4, <2>5, <1>0, <1>1, TaskMoves
<1>7. CASE Cancel(i)
  <2>1. /\ cancel' = cancel \cup {i}
        /\ UNCHANGED <<host, stops, started, jobs, receipt, scope, task, verdict, child, disk,
                       watch, known, failures, unsaved>>
    BY <1>7 DEF Cancel
  <2>2. Only(i) /\ TypeOK'
    BY <2>1, <1>0 DEF Only, IInv, TypeOK
  <2> QED BY <2>1, <2>2, <1>0, <1>1, <1>2, <1>3, TaskMoves
<1>8. CASE Select(i)
  <2>1. /\ task[i] = "select" /\ verdict' = [verdict EXCEPT ![i] = Chosen(i)]
        /\ task' = [task EXCEPT ![i] = "finish"]
        /\ UNCHANGED <<host, stops, started, jobs, receipt, cancel, scope, child, disk,
                       watch, known, failures, unsaved>>
    BY <1>8 DEF Select
  <2>2. /\ Chosen(i) \in Terminal
        /\ Chosen(i) = "succeeded" => child[i] \notin {"alive", "bad"}
        /\ Chosen(i) = "failed" => child[i] = "bad" /\ i \notin Proofs
        /\ Chosen(i) = "cancelled" => i \in cancel \/ (i \in Owned /\ scope = "ended")
    BY <1>1 DEF Chosen, ProcessStatus, Terminal
  <2>3. Chosen(i) # "none"
    BY <2>2 DEF Terminal
  <2>4. Only(i) /\ verdict'[i] = Chosen(i) /\ task'[i] = "finish"
    BY <2>1, <1>0 DEF Only
  <2>5. TypeOK'
    <3>1. /\ verdict' \in [Ids -> Terminal \cup {"none"}]
          /\ task' \in [Ids -> {"none", "persist", "select", "finish"}]
      BY <2>1, <2>2, <1>0
    <3> QED BY <2>1, <3>1 DEF IInv, TypeOK
  <2> QED BY <2>1, <2>2, <2>3, <2>4, <2>5, <1>0, <1>1, <1>2, TaskMoves
<1> QED BY <1>4, <1>5, <1>6, <1>7, <1>8

(* The end of a job: its result is the one its process or its report gives,  *)
(* under a new version, on disk unless the write fails.                      *)
LEMMA FinishStep ==
  ASSUME IInv, NEW i \in Ids, Finish(i)
  PROVE  IInv'
<1>0. /\ receipt \in [Ids -> [status : Statuses, version : Nat]]
      /\ disk \in [Ids -> [status : Statuses, version : Nat]]
      /\ task \in [Ids -> {"none", "persist", "select", "finish"}]
      /\ verdict \in [Ids -> Terminal \cup {"none"}]
      /\ child \in [Ids -> {"none", "alive", "bad", "ok"} \cup Reports]
      /\ child[i] \in {"none", "alive"} \cup Ends(i)
      /\ failures \in 0 .. MaxFailures /\ MaxFailures \in Nat
      /\ watch \in Ids /\ ToSet(jobs) \subseteq Ids /\ TypeOK
  BY JobsAssumption, RunningFinite DEF IInv, TypeOK, JobsAssumption
<1>1. /\ task[i] = "finish" /\ task' = [task EXCEPT ![i] = "none"]
      /\ receipt' = [receipt EXCEPT ![i] = Ended(i, receipt[i].version + 1)]
      /\ verdict' = [verdict EXCEPT ![i] = "none"] /\ cancel' = cancel \ {i}
      /\ child' = [child EXCEPT ![i] = IF verdict[i] \in {"succeeded", "failed"}
                                       THEN child[i] ELSE "none"]
      /\ \/ disk' = [disk EXCEPT ![i] = receipt'[i]] /\ UNCHANGED <<failures, unsaved>>
         \/ /\ failures < MaxFailures /\ failures' = failures + 1
            /\ unsaved' = unsaved \cup {i} /\ UNCHANGED disk
      /\ UNCHANGED <<host, stops, started, jobs, scope, watch, known>>
  BY DEF Finish
<1>2. /\ i \in ToSet(jobs) /\ receipt[i].status = "running"
      /\ disk[i].status \in {"none", "running"} /\ i \in 1 .. started
      /\ verdict[i] \in Terminal
      /\ verdict[i] = "succeeded" => child[i] \notin {"none", "alive", "bad"}
      /\ verdict[i] = "failed" => child[i] = "bad" /\ i \notin Proofs
  BY <1>0, <1>1 DEF IInv, Listed, TaskListed, Listing, Honest, ChoiceHonest
<1>3. /\ Validated(i) \in Terminal
      /\ Validated(i) = "succeeded" => verdict[i] = "succeeded" /\ (i \in Proofs => child[i] = "Verified")
      /\ Validated(i) = "failed" =>
           \/ i \in Proofs /\ child[i] = "Rejected" /\ verdict[i] = "succeeded"
           \/ i \notin Proofs /\ child[i] = "bad" /\ verdict[i] = "failed"
  BY <1>2 DEF Validated, Terminal
<1>4. /\ receipt'[i].status = Validated(i) /\ receipt'[i].version = receipt[i].version + 1
      /\ task'[i] = "none" /\ verdict'[i] = "none"
      /\ child'[i] = IF verdict[i] \in {"succeeded", "failed"} THEN child[i] ELSE "none"
      /\ i \notin unsaved' => disk'[i].status = Validated(i)
      /\ disk'[i].status = Validated(i) \/ disk'[i] = disk[i]
      /\ unsaved \subseteq unsaved' /\ unsaved' \subseteq unsaved \cup {i}
      /\ Only(i)
  BY <1>0, <1>1 DEF Only, Ended
<1>5. TypeOK'
  <2>1. Ended(i, receipt[i].version + 1) \in [status : Statuses, version : Nat]
    BY <1>0, <1>3 DEF Ended, Statuses
  <2>2. /\ receipt' \in [Ids -> [status : Statuses, version : Nat]]
        /\ task' \in [Ids -> {"none", "persist", "select", "finish"}]
        /\ verdict' \in [Ids -> Terminal \cup {"none"}]
    BY <1>0, <1>1, <2>1
  <2>3. disk' \in [Ids -> [status : Statuses, version : Nat]]
    BY <1>0, <1>1, <2>2
  <2>4. /\ child' \in [Ids -> {"none", "alive", "bad", "ok"} \cup Reports]
        /\ \A j \in Ids : child'[j] \in {"none", "alive"} \cup Ends(j)
    BY <1>0, <1>1 DEF IInv, TypeOK
  <2>5. cancel' \subseteq Ids /\ unsaved' \subseteq Ids /\ failures' \in 0 .. MaxFailures
    BY <1>0, <1>1 DEF TypeOK
  <2> QED BY <2>2, <2>3, <2>4, <2>5, <1>0, <1>1 DEF TypeOK
<1>6. Listed'
  <2>1. Listing' /\ Fresh'
    BY <1>0, <1>1, <1>2, <1>4 DEF IInv, Listed, Listing, Fresh, TypeOK, Ids, Only
  <2>2. TaskListed'
    BY <1>1, <1>4 DEF IInv, Listed, TaskListed, Only
  <2>4. ListedStatus'
    BY <1>0, <1>1, <1>3, <1>4 DEF IInv, Listed, ListedStatus, Only, Terminal
  <2>3. Running' \subseteq Running
    BY <1>0, <1>1, <1>3, <1>4 DEF Running, Only, Terminal
  <2> QED BY <2>1, <2>2, <2>3, <2>4, <1>0, FewerRun DEF IInv, Listed
<1>7. Honest'
  <2>1. child[i] \in Ends(i) \/ child[i] \in {"none", "alive"}
    BY <1>0
  <2>2. /\ Validated(i) = "succeeded" => child'[i] = IF i \in Proofs THEN "Verified" ELSE "ok"
        /\ Validated(i) = "failed" => child'[i] = IF i \in Proofs THEN "Rejected" ELSE "bad"
    BY <2>1, <1>2, <1>3, <1>4 DEF Ends
  <2>3. ChoiceHonest'
    BY <1>4 DEF IInv, Honest, ChoiceHonest, Only
  <2>4. DiskHonest'
    BY <2>2, <1>2, <1>4 DEF IInv, Honest, DiskHonest, Only
  <2>5. VerdictHonest'
    BY <2>2, <1>1, <1>4 DEF IInv, Honest, VerdictHonest, Only
  <2> QED BY <2>3, <2>4, <2>5 DEF Honest
<1>8. Told'
  <2>1. DiskTells'
    BY <1>0, <1>1, <1>4 DEF IInv, Told, DiskTells, Restored, Only
  <2>2. KnownTells'
    <3>1. known.status \in Terminal => watch # i
      BY <1>1 DEF IInv, Told, KnownTells
    <3> QED BY <3>1, <1>0, <1>1, <1>4 DEF IInv, Told, KnownTells, Restored, Only
  <2>3. KnownVersion'
    BY <1>0, <1>1, <1>4 DEF IInv, Told, KnownVersion, TypeOK, Only
  <2>4. DiskVersion'
    <3> SUFFICES ASSUME NEW j \in ToSet(jobs)
                 PROVE  /\ task'[j] # "none" /\ disk'[j].status = "running" =>
                             disk'[j].version <= receipt'[j].version
                        /\ disk'[j].status # "none" /\ receipt'[j].version = disk'[j].version =>
                             Restored(j, receipt[j].status)'
      BY <1>1 DEF DiskVersion
    <3>1. CASE j = i /\ disk' = disk
      <4>1. disk[i].status = "running" => disk[i].version <= receipt[i].version
        BY <1>1, <1>2 DEF IInv, Told, DiskVersion
      <4>2. disk[i].version \in Nat /\ receipt[i].version \in Nat
        BY <1>0
      <4> QED BY <3>1, <4>1, <4>2, <1>2, <1>4
    <3>2. CASE j = i /\ disk' # disk
      BY <3>2, <1>0, <1>1, <1>4 DEF Restored
    <3>3. CASE j # i
      <4>1. receipt'[j] = receipt[j] /\ disk'[j] = disk[j] /\ task'[j] = task[j]
        BY <3>3, <1>0, <1>4 DEF Only
      <4> QED BY <4>1 DEF IInv, Told, DiskVersion, Restored
    <3> QED BY <3>1, <3>2, <3>3
  <2>5. KnownDisk'
    <3>1. CASE watch = i
      <4>1. /\ known.status # "none" => known.life = stops /\ known.version <= receipt[i].version
            /\ known.version \in Nat /\ receipt[i].version \in Nat
            /\ known.life \in Int /\ stops \in Int
        <5>1. /\ known.life \in Int /\ stops \in Int
              /\ known.version \in Nat /\ receipt[i].version \in Nat
          BY <1>0 DEF TypeOK
        <5> QED BY <3>1, <5>1, <1>1 DEF IInv, Told, KnownDisk, KnownVersion
      <4>2. CASE disk' = disk
        BY <3>1, <4>1, <4>2, <1>1 DEF IInv, Told, KnownDisk, Restored
      <4>3. CASE disk' # disk
        <5>1. disk'[i].version = receipt[i].version + 1
          BY <4>3, <1>0, <1>1, <1>4
        <5> QED BY <3>1, <4>1, <5>1, <1>1 DEF KnownDisk
      <4> QED BY <4>2, <4>3
    <3>2. CASE watch # i
      <4>1. receipt'[watch] = receipt[watch] /\ disk'[watch] = disk[watch]
            /\ task'[watch] = task[watch]
        BY <3>2, <1>0, <1>4 DEF Only
      <4> QED BY <4>1, <1>1 DEF IInv, Told, KnownDisk, Restored
    <3> QED BY <3>1, <3>2
  <2> QED BY <2>1, <2>2, <2>3, <2>4, <2>5 DEF Told
<1> QED BY <1>5, <1>6, <1>7, <1>8 DEF IInv

(* A new job: the list makes room without losing a running one.              *)
LEMMA StartStep ==
  ASSUME IInv, Start
  PROVE  IInv'
<1> DEFINE i == started + 1
<1>0. /\ receipt \in [Ids -> [status : Statuses, version : Nat]]
      /\ disk \in [Ids -> [status : Statuses, version : Nat]]
      /\ task \in [Ids -> {"none", "persist", "select", "finish"}]
      /\ verdict \in [Ids -> Terminal \cup {"none"}]
      /\ child \in [Ids -> {"none", "alive", "bad", "ok"} \cup Reports]
      /\ watch \in Ids /\ ToSet(jobs) \subseteq Ids /\ TypeOK /\ started \in Nat
      /\ Limit \in Nat
  BY JobsAssumption, RunningFinite DEF IInv, TypeOK, JobsAssumption
<1>1. /\ i \in Ids /\ Cardinality(Running) < 2 /\ host = "up"
      /\ started' = i /\ jobs' = Append(Room, i)
      /\ receipt' = [receipt EXCEPT ![i] = [status |-> "running", version |-> 0]]
      /\ task' = [task EXCEPT ![i] = "persist"] /\ child' = [child EXCEPT ![i] = "alive"]
      /\ UNCHANGED <<host, stops, cancel, scope, verdict, disk, watch, known, failures, unsaved>>
  BY DEF Start
<1>2. /\ Room \in Seq(Ids) /\ Len(Room) < Limit /\ IsInjective(Room)
      /\ ToSet(Room) \subseteq ToSet(jobs) /\ Running \subseteq ToSet(Room)
  BY <1>0, <1>1, RoomMade DEF IInv, Listed
<1>3. i \notin ToSet(jobs) /\ i \notin ToSet(Room) /\ \A j \in ToSet(jobs) : j \in 1 .. started
  <2>1. \A j \in ToSet(jobs) : j \in 1 .. started
    BY DEF IInv, Listed, Listing
  <2>2. i \notin 1 .. started
    BY <1>0
  <2> QED BY <2>1, <2>2, <1>2
<1>4. /\ receipt[i] = Nothing /\ disk[i] = Nothing /\ task[i] = "none" /\ verdict[i] = "none"
      /\ i > started
  <2>1. i > started
    BY <1>0
  <2> QED BY <2>1, <1>1 DEF IInv, Listed, Fresh, Honest, ChoiceHonest
<1>5. /\ jobs' \in Seq(Ids) /\ IsInjective(jobs') /\ Len(jobs') = Len(Room) + 1
      /\ ToSet(jobs') = ToSet(Room) \cup {i}
  BY <1>1, <1>2, <1>3, PushEnd
<1>6. /\ receipt'[i].status = "running" /\ receipt'[i].version = 0 /\ task'[i] = "persist"
      /\ child'[i] = "alive" /\ Only(i)
  BY <1>0, <1>1 DEF Only
<1> HIDE DEF i
<1>7. TypeOK'
  <2>1. /\ receipt' \in [Ids -> [status : Statuses, version : Nat]]
        /\ task' \in [Ids -> {"none", "persist", "select", "finish"}]
    BY <1>0, <1>1 DEF Statuses
  <2>2. /\ child' \in [Ids -> {"none", "alive", "bad", "ok"} \cup Reports]
        /\ \A j \in Ids : child'[j] \in {"none", "alive"} \cup Ends(j)
    BY <1>0, <1>1 DEF IInv, TypeOK
  <2>3. Len(jobs') <= Limit
    BY <1>0, <1>2, <1>5
  <2>4. started' \in 0 .. MaxStarts
    BY <1>1, JobsAssumption DEF Ids, JobsAssumption
  <2> QED BY <2>1, <2>2, <2>3, <2>4, <1>1, <1>5 DEF IInv, TypeOK
<1>8. Listed'
  <2>1. ToSet(jobs') \subseteq 1 .. started'
    <3>1. \A j \in 1 .. started : j \in 1 .. started'
      BY <1>0, <1>1, <1>4 DEF i
    <3>2. i \in 1 .. started'
      BY <1>0, <1>1 DEF i
    <3> QED BY <3>1, <3>2, <1>2, <1>3, <1>5
  <2>2. Listing'
    BY <2>1, <1>1, <1>5 DEF IInv, Listed, Listing
  <2>3. Fresh'
    BY <1>0, <1>1, <1>6 DEF IInv, Listed, Fresh, Only, i, Ids
  <2>4. TaskListed'
    <3>1. \A j \in Ids : task[j] # "none" => j \in Running /\ j # i
      BY <1>4 DEF IInv, Listed, TaskListed, Running
    <3> QED BY <3>1, <1>1, <1>2, <1>4, <1>5, <1>6 DEF IInv, Listed, TaskListed, Only, Nothing
  <2>5. ListedStatus'
    BY <1>0, <1>2, <1>3, <1>5, <1>6 DEF IInv, Listed, ListedStatus, Only
  <2>6. FewRun'
    <3>1. Running' \subseteq Running \cup {i} /\ i \notin Running
      BY <1>0, <1>2, <1>3, <1>5, <1>6 DEF Running, Only
    <3>2. /\ IsFiniteSet(Running) /\ Cardinality(Running) \in Nat
      BY <1>0, RunningFinite
    <3>3. /\ IsFiniteSet(Running \cup {i})
          /\ Cardinality(Running \cup {i}) = Cardinality(Running) + 1
      BY <3>1, <3>2, FS_AddElement
    <3>4. Cardinality(Running') <= Cardinality(Running \cup {i}) /\ Cardinality(Running') \in Nat
      BY <3>1, <3>3, FS_Subset, FS_CardinalityType
    <3> QED BY <3>2, <3>3, <3>4, <1>1 DEF FewRun
  <2> QED BY <2>2, <2>3, <2>4, <2>5, <2>6 DEF Listed
<1>9. Honest'
  <2>1. ChoiceHonest' /\ DiskHonest'
    BY <1>1, <1>4, <1>6 DEF IInv, Honest, ChoiceHonest, DiskHonest, Only, Nothing
  <2>2. VerdictHonest'
    BY <1>1, <1>4, <1>6 DEF IInv, Honest, VerdictHonest, Only
  <2> QED BY <2>1, <2>2 DEF Honest
<1>10. Told'
  <2>1. DiskTells'
    BY <1>0, <1>1, <1>2, <1>3, <1>5, <1>6 DEF IInv, Told, DiskTells, Restored, Only, Terminal
  <2>2. known.status # "none" => watch # i /\ watch <= started /\ watch <= started'
    BY <1>0, <1>1, <1>4 DEF IInv, Told, KnownTells, i, Ids
  <2>3. KnownTells'
    BY <2>2, <1>0, <1>1, <1>6 DEF IInv, Told, KnownTells, Restored, Only, Terminal
  <2>4. KnownVersion'
    BY <2>2, <1>0, <1>1, <1>6 DEF IInv, Told, KnownVersion, Only
  <2>5. DiskVersion'
    <3> SUFFICES ASSUME NEW j \in ToSet(jobs')
                 PROVE  /\ task'[j] # "none" /\ disk'[j].status = "running" =>
                             disk'[j].version <= receipt'[j].version
                        /\ disk'[j].status # "none" /\ receipt'[j].version = disk'[j].version =>
                             Restored(j, receipt[j].status)'
      BY DEF DiskVersion
    <3>1. CASE j = i
      BY <3>1, <1>1, <1>4 DEF Nothing
    <3>2. CASE j # i
      <4>1. /\ receipt'[j] = receipt[j] /\ disk'[j] = disk[j] /\ task'[j] = task[j]
            /\ j \in ToSet(jobs)
        BY <3>2, <1>0, <1>2, <1>5, <1>6 DEF Only
      <4> QED BY <4>1 DEF IInv, Told, DiskVersion, Restored
    <3> QED BY <3>1, <3>2
  <2>6. KnownDisk'
    <3> SUFFICES ASSUME known.status # "none" PROVE KnownDisk'
      BY <1>1 DEF KnownDisk
    <3>1. /\ receipt'[watch] = receipt[watch] /\ task'[watch] = task[watch]
          /\ watch \in ToSet(jobs') => watch \in ToSet(jobs)
      BY <2>2, <1>0, <1>2, <1>5, <1>6 DEF Only
    <3> QED BY <3>1, <1>1 DEF IInv, Told, KnownDisk, Restored
  <2> QED BY <2>1, <2>3, <2>4, <2>5, <2>6 DEF Told
<1> QED BY <1>7, <1>8, <1>9, <1>10 DEF IInv

(* A start that fails may have taken an entry off the list, none that runs.  *)
LEMMA StartFailsStep ==
  ASSUME IInv, StartFails
  PROVE  IInv'
<1>1. /\ Cardinality(Running) < 2 /\ host = "up" /\ jobs' = Room
      /\ UNCHANGED <<host, stops, started, receipt, cancel, scope, task, verdict, child,
                     disk, watch, known, failures, unsaved>>
  BY DEF StartFails
<1>2. /\ jobs' \in Seq(Ids) /\ Len(jobs') < Limit /\ IsInjective(jobs')
      /\ ToSet(jobs') \subseteq ToSet(jobs) /\ Running \subseteq ToSet(jobs')
  BY <1>1, RoomMade DEF IInv, Listed
<1>3. TypeOK'
  <2>1. Len(jobs') <= Limit
    BY <1>2, JobsAssumption DEF JobsAssumption
  <2> QED BY <2>1, <1>1, <1>2 DEF IInv, TypeOK
<1>4. Listed'
  <2>1. Listing' /\ Fresh' /\ ListedStatus'
    BY <1>1, <1>2 DEF IInv, Listed, Listing, Fresh, ListedStatus
  <2>2. TaskListed'
    BY <1>1, <1>2 DEF IInv, Listed, TaskListed, Running
  <2>3. Running' \subseteq Running
    BY <1>1, <1>2 DEF Running
  <2> QED BY <2>1, <2>2, <2>3, FewerRun DEF IInv, Listed
<1>5. Honest'
  BY <1>1 DEF IInv, Honest, ChoiceHonest, DiskHonest, VerdictHonest
<1>6. Told'
  BY <1>1, <1>2
     DEF IInv, Told, DiskTells, KnownTells, KnownVersion, DiskVersion, KnownDisk, Restored
<1> QED BY <1>3, <1>4, <1>5, <1>6 DEF IInv

(* The host stops and starts again.                                          *)
LEMMA StopStep ==
  ASSUME IInv, Stop
  PROVE  IInv'
<1>0. /\ TypeOK /\ child \in [Ids -> {"none", "alive", "bad", "ok"} \cup Reports]
      /\ watch \in Ids /\ MaxStops \in Nat /\ stops \in 0 .. MaxStops /\ MaxStarts \in Nat
      /\ known.life \in 0 .. MaxStops
  BY JobsAssumption DEF IInv, TypeOK, JobsAssumption
<1>1. /\ host' = "down" /\ stops' = stops + 1 /\ stops < MaxStops
      /\ jobs' = <<>> /\ receipt' = [j \in Ids |-> Nothing]
      /\ cancel' = {} /\ scope' = "live"
      /\ task' = [j \in Ids |-> "none"] /\ verdict' = [j \in Ids |-> "none"]
      /\ child' = [j \in Ids |-> IF child[j] = "alive" THEN "none" ELSE child[j]]
      /\ UNCHANGED <<started, disk, watch, known, failures, unsaved>>
  BY DEF Stop
<1>2. /\ Len(jobs') = 0 /\ jobs' \in Seq(Ids) /\ ToSet(jobs') = {} /\ IsInjective(jobs')
  BY <1>1 DEF ToSet, IsInjective
<1>3. TypeOK'
  <2>1. receipt' \in [Ids -> [status : Statuses, version : Nat]]
    BY <1>1 DEF Nothing, Statuses
  <2>2. /\ task' \in [Ids -> {"none", "persist", "select", "finish"}]
        /\ verdict' \in [Ids -> Terminal \cup {"none"}]
    BY <1>1
  <2>3. /\ child' \in [Ids -> {"none", "alive", "bad", "ok"} \cup Reports]
        /\ \A j \in Ids : child'[j] \in {"none", "alive"} \cup Ends(j)
    BY <1>0, <1>1 DEF TypeOK
  <2>4. stops' \in 0 .. MaxStops /\ Len(jobs') <= Limit
    BY <1>0, <1>1, <1>2, JobsAssumption DEF JobsAssumption
  <2> QED BY <2>1, <2>2, <2>3, <2>4, <1>0, <1>1, <1>2 DEF TypeOK
<1>4. Listed'
  <2>1. Running' = {}
    BY <1>2 DEF Running
  <2>2. Cardinality(Running') = 0
    BY <2>1, FS_EmptySet
  <2>3. FewRun'
    BY <2>2 DEF FewRun
  <2> QED BY <2>3, <1>1, <1>2
          DEF IInv, Listed, Listing, Fresh, TaskListed, ListedStatus, Nothing
<1>5. Honest'
  <2>1. ChoiceHonest' /\ DiskHonest'
    BY <1>1 DEF IInv, Honest, ChoiceHonest, DiskHonest
  <2>2. VerdictHonest'
    BY <1>1 DEF VerdictHonest, Nothing
  <2> QED BY <2>1, <2>2 DEF Honest
<1>6. Told'
  <2>1. DiskTells'
    BY <1>2 DEF DiskTells
  <2>2. KnownTells'
    BY <1>0, <1>1 DEF IInv, Told, KnownTells, Restored
  <2>3. known.life < stops'
    BY <1>0, <1>1 DEF IInv, Told, KnownVersion
  <2>4. KnownVersion'
    BY <2>3, <1>0, <1>1 DEF KnownVersion
  <2>5. DiskVersion' /\ KnownDisk'
    BY <1>0, <1>1, <1>2 DEF IInv, Told, DiskVersion, KnownDisk, Restored
  <2> QED BY <2>1, <2>2, <2>4, <2>5 DEF Told
<1> QED BY <1>3, <1>4, <1>5, <1>6 DEF IInv

LEMMA RestoreStep ==
  ASSUME IInv, Restore
  PROVE  IInv'
<1> DEFINE recorded == {i \in Ids : disk[i].status # "none"}
<1>0. /\ TypeOK /\ disk \in [Ids -> [status : Statuses, version : Nat]]
      /\ watch \in Ids /\ MaxStarts \in Nat /\ started \in Nat
      /\ stops \in Nat /\ known.life \in Int
  BY JobsAssumption DEF IInv, TypeOK, JobsAssumption
<1>1. PICK rejected \in SUBSET {i \in Proofs : disk[i].status = "succeeded"} :
      /\ host = "down" /\ host' = "up" /\ jobs' \in Newest(recorded)
      /\ receipt' = [i \in Ids |->
           IF i \notin ToSet(jobs') THEN Nothing
           ELSE IF disk[i].status = "running" \/ i \in rejected
           THEN [disk[i] EXCEPT !.status = "inconclusive"] ELSE disk[i]]
      /\ UNCHANGED <<stops, started, cancel, scope, task, verdict, child, disk,
                     watch, known, failures, unsaved>>
  BY DEF Restore
<1>2. /\ jobs' \in Seq(Ids) /\ Len(jobs') <= Keep /\ IsInjective(jobs')
      /\ ToSet(jobs') \subseteq recorded
  BY <1>1, NewestListed
<1>3. \A i \in Ids :
        /\ i \notin ToSet(jobs') => receipt'[i] = Nothing
        /\ i \in ToSet(jobs') =>
             /\ receipt'[i].status \in Terminal /\ Restored(i, receipt'[i].status)
             /\ receipt'[i].status # "inconclusive" => receipt'[i].status = disk[i].status
             /\ receipt'[i].version = disk[i].version
  <2> TAKE i \in Ids
  <2>1. CASE i \notin ToSet(jobs')
    BY <2>1, <1>1
  <2>2. CASE i \in ToSet(jobs')
    <3>1. disk[i].status \in Terminal \cup {"running"}
      BY <2>2, <1>0, <1>2 DEF Statuses
    <3>2. CASE disk[i].status = "running" \/ i \in rejected
      <4>1. receipt'[i] = [disk[i] EXCEPT !.status = "inconclusive"]
        BY <2>2, <3>2, <1>1
      <4>2. receipt'[i].status = "inconclusive" /\ receipt'[i].version = disk[i].version
        BY <4>1, <1>0
      <4> QED BY <2>2, <3>2, <4>2, <1>1 DEF Restored, Terminal
    <3>3. CASE ~ (disk[i].status = "running" \/ i \in rejected)
      <4>1. receipt'[i] = disk[i]
        BY <2>2, <3>3, <1>1
      <4> QED BY <2>2, <3>1, <3>3, <4>1 DEF Restored
    <3> QED BY <3>2, <3>3
  <2> QED BY <2>1, <2>2
<1>4. \A i \in Ids : task[i] = "none" /\ verdict[i] = "none"
  <2>1. jobs = <<>>
    BY <1>1 DEF IInv, Listed, Listing
  <2>2. ToSet(jobs) = {}
    BY <2>1 DEF ToSet
  <2> QED BY <2>2 DEF IInv, Listed, TaskListed, Honest, ChoiceHonest
<1>5. TypeOK'
  <2>1. receipt' \in [Ids -> [status : Statuses, version : Nat]]
    BY <1>0, <1>1 DEF Nothing, Statuses, Terminal
  <2>2. Len(jobs') <= Limit
    BY <1>2, JobsAssumption DEF JobsAssumption
  <2> QED BY <2>1, <2>2, <1>1, <1>2 DEF IInv, TypeOK
<1>6. ToSet(jobs') \subseteq Ids /\ ToSet(jobs') \subseteq 1 .. started
  BY <1>0, <1>2 DEF IInv, Listed, Fresh, Nothing, Ids
<1>7. Listed'
  <2>1. Running' = {}
    BY <1>3, <1>6 DEF Running, Terminal
  <2>2. Cardinality(Running') = 0
    BY <2>1, FS_EmptySet
  <2>3. FewRun'
    BY <2>2 DEF FewRun
  <2>4. Listing'
    BY <1>1, <1>2, <1>6 DEF Listing
  <2>5. Fresh'
    <3>1. \A i \in Ids : i > started => i \notin ToSet(jobs')
      BY <1>0, <1>6 DEF Ids
    <3> QED BY <3>1, <1>1, <1>3 DEF IInv, Listed, Fresh
  <2>6. TaskListed' /\ ListedStatus'
    BY <1>1, <1>3, <1>4, <1>6 DEF TaskListed, ListedStatus, Terminal
  <2> QED BY <2>3, <2>4, <2>5, <2>6 DEF Listed
<1>8. Honest'
  <2>1. ChoiceHonest' /\ DiskHonest'
    BY <1>1 DEF IInv, Honest, ChoiceHonest, DiskHonest
  <2>2. \A i \in Ids :
          /\ receipt'[i].status = "succeeded" => disk[i].status = "succeeded"
          /\ receipt'[i].status = "failed" => disk[i].status = "failed"
    BY <1>3 DEF Nothing
  <2>3. VerdictHonest'
    BY <2>2, <1>1, <1>4 DEF VerdictHonest, IInv, Honest, DiskHonest
  <2> QED BY <2>1, <2>3 DEF Honest
<1>9. Told'
  <2>1. DiskTells'
    BY <1>1, <1>3, <1>6 DEF DiskTells, Restored
  <2>2. KnownTells'
    BY <1>0, <1>1 DEF IInv, Told, KnownTells, Restored
  <2>3. KnownVersion'
    BY <1>0, <1>1 DEF IInv, Told, KnownVersion
  <2>4. DiskVersion'
    BY <1>1, <1>3, <1>4, <1>6 DEF DiskVersion, Restored
  <2>5. KnownDisk'
    <3>1. watch \in ToSet(jobs') =>
            /\ receipt'[watch].status # "running" /\ disk[watch].status # "none"
            /\ receipt'[watch].version = disk[watch].version
      BY <1>0, <1>2, <1>3 DEF Terminal
    <3> QED BY <3>1, <1>0, <1>1, <1>4 DEF IInv, Told, KnownDisk, Restored
  <2> QED BY <2>1, <2>2, <2>3, <2>4, <2>5 DEF Told
<1> QED BY <1>5, <1>7, <1>8, <1>9 DEF IInv

(* The client reads, and the agent scope ends.                               *)
LEMMA ChangesStep ==
  ASSUME IInv, Changes
  PROVE  IInv'
<1>0. /\ TypeOK /\ receipt \in [Ids -> [status : Statuses, version : Nat]]
      /\ watch \in Ids /\ stops \in 0 .. MaxStops /\ MaxStops \in Nat
  BY JobsAssumption DEF IInv, TypeOK, JobsAssumption
<1>1. /\ host = "up" /\ watch \in ToSet(jobs)
      /\ known' = [status |-> receipt[watch].status, version |-> receipt[watch].version,
                   life |-> stops]
      /\ UNCHANGED <<host, stops, started, jobs, receipt, cancel, scope, task, verdict,
                     child, disk, watch, failures, unsaved>>
  BY DEF Changes
<1>2. /\ known'.status = receipt[watch].status /\ known'.version = receipt[watch].version
      /\ known'.life = stops
  BY <1>1
<1>3. TypeOK'
  <2>1. known' \in [status : Statuses, version : Nat, life : 0 .. MaxStops]
    BY <1>0, <1>1
  <2> QED BY <2>1, <1>0, <1>1 DEF TypeOK
<1>4. Listed'
  <2>1. Running' = Running
    BY <1>1 DEF Running
  <2> QED BY <2>1, <1>1
          DEF IInv, Listed, Listing, Fresh, TaskListed, ListedStatus, FewRun
<1>5. Honest'
  BY <1>1 DEF IInv, Honest, ChoiceHonest, DiskHonest, VerdictHonest
<1>6. Told'
  <2>1. DiskTells'
    BY <1>1 DEF IInv, Told, DiskTells, Restored
  <2>2. KnownTells'
    <3>1. watch <= started
      BY <1>1 DEF IInv, Listed, Listing
    <3>2. receipt[watch].status \in Terminal => task[watch] = "none"
      BY <1>0 DEF IInv, Listed, TaskListed, Terminal
    <3>3. receipt[watch].status \in Terminal /\ watch \notin unsaved =>
            Restored(watch, receipt[watch].status)
      BY <1>1 DEF IInv, Told, DiskTells
    <3> QED BY <3>1, <3>2, <3>3, <1>1, <1>2 DEF KnownTells, Restored
  <2>3. KnownVersion'
    BY <1>0, <1>1, <1>2 DEF KnownVersion
  <2>4. DiskVersion'
    BY <1>1 DEF IInv, Told, DiskVersion, Restored
  <2>5. KnownDisk'
    BY <1>0, <1>1, <1>2 DEF IInv, Told, DiskVersion, KnownDisk, Restored
  <2> QED BY <2>1, <2>2, <2>3, <2>4, <2>5 DEF Told
<1> QED BY <1>3, <1>4, <1>5, <1>6 DEF IInv

LEMMA ScopeStep ==
  ASSUME IInv, scope' \in {scope, "ended"},
         UNCHANGED <<host, stops, started, jobs, receipt, cancel, task, verdict, child,
                     disk, watch, known, failures, unsaved>>
  PROVE  IInv'
<1>1. TypeOK'
  BY DEF IInv, TypeOK
<1>2. Listed'
  <2>1. Running' = Running
    BY DEF Running
  <2> QED BY <2>1 DEF IInv, Listed, Listing, Fresh, TaskListed, ListedStatus, FewRun
<1>3. Honest'
  BY DEF IInv, Honest, ChoiceHonest, DiskHonest, VerdictHonest
<1>4. Told'
  BY DEF IInv, Told, DiskTells, KnownTells, KnownVersion, DiskVersion, KnownDisk, Restored
<1> QED BY <1>1, <1>2, <1>3, <1>4 DEF IInv

LEMMA InitIInv == Init => IInv
<1> SUFFICES ASSUME Init PROVE IInv
  OBVIOUS
<1> USE DEF Init
<1>1. /\ Len(jobs) = 0 /\ jobs \in Seq(Ids) /\ ToSet(jobs) = {} /\ IsInjective(jobs)
  BY DEF ToSet, IsInjective
<1>2. TypeOK
  BY <1>1, JobsAssumption DEF TypeOK, JobsAssumption, Statuses, Nothing
<1>3. Listed
  <2>1. Running = {}
    BY <1>1 DEF Running
  <2>2. Cardinality(Running) = 0
    BY <2>1, FS_EmptySet
  <2> QED BY <2>2, <1>1
          DEF Listed, Listing, Fresh, TaskListed, ListedStatus, FewRun, Nothing
<1>4. Honest
  BY DEF Honest, ChoiceHonest, DiskHonest, VerdictHonest, Nothing
<1>5. Told
  BY <1>1 DEF Told, DiskTells, KnownTells, KnownVersion, DiskVersion, KnownDisk, Terminal
<1> QED BY <1>2, <1>3, <1>4, <1>5 DEF IInv

LEMMA NextIInv == IInv /\ [Next]_vars => IInv'
<1> SUFFICES ASSUME IInv, [Next]_vars PROVE IInv'
  OBVIOUS
<1>1. CASE Start
  BY <1>1, StartStep
<1>2. CASE Changes
  BY <1>2, ChangesStep
<1>3. CASE ScopeEnds
  BY <1>3, ScopeStep DEF ScopeEnds
<1>4. CASE Stop
  BY <1>4, StopStep
<1>5. CASE Restore
  BY <1>5, RestoreStep
<1>6. ASSUME NEW i \in Ids, Finish(i) PROVE IInv'
  BY <1>6, FinishStep
<1>7. ASSUME NEW i \in Ids,
             PersistStart(i) \/ Capture(i) \/ ChildEnds(i) \/ Cancel(i) \/ Select(i)
      PROVE  IInv'
  BY <1>7, TaskSteps
<1>8. CASE UNCHANGED vars
  BY <1>8, ScopeStep DEF vars
<1>9. CASE StartFails
  BY <1>9, StartFailsStep
<1> QED BY <1>1, <1>2, <1>3, <1>4, <1>5, <1>6, <1>7, <1>8, <1>9 DEF Next

-----------------------------------------------------------------------------
(* A result the client has read is the one the job has whenever it is listed *)
(* again, however often the host has stopped since, unless its last write    *)
(* failed; a retained proof may be accepted by one build and not by another. *)
THEOREM JobsResultSurvives == Spec => []ResultSurvives
<1>1. IInv => ResultSurvives
  <2> SUFFICES ASSUME IInv, watch \in ToSet(jobs), known.status \in Terminal,
                      watch \notin unsaved
               PROVE  \/ receipt[watch].status = known.status
                      \/ /\ watch \in Proofs /\ disk[watch].status = "succeeded"
                         /\ {receipt[watch].status, known.status}
                              = {"succeeded", "inconclusive"}
    BY DEF ResultSurvives
  <2>1. watch \in Ids /\ receipt \in [Ids -> [status : Statuses, version : Nat]]
    BY DEF IInv, TypeOK
  <2>2. receipt[watch].status \in Terminal
    BY <2>1 DEF IInv, Told, KnownTells, Listed, ListedStatus, Statuses
  <2>3. Restored(watch, receipt[watch].status) /\ Restored(watch, known.status)
    BY <2>2 DEF IInv, Told, KnownTells, DiskTells
  <2> QED BY <2>2, <2>3 DEF Restored, Terminal
<1> QED BY <1>1, InitIInv, NextIInv, PTL DEF Spec

(* Success, failure and cancellation in a receipt are what happened to the   *)
(* process, the report or the request.                                       *)
THEOREM JobsVerdictHonest == Spec => []VerdictHonest
<1>1. IInv => VerdictHonest
  BY DEF IInv, Honest
<1> QED BY <1>1, InitIInv, NextIInv, PTL DEF Spec

(* At most two jobs have a task, and so a child, at any time.                *)
THEOREM JobsTwoChildren == Spec => []TwoChildren
<1>1. IInv => TwoChildren
  <2> SUFFICES ASSUME IInv PROVE TwoChildren
    OBVIOUS
  <2>1. {i \in Ids : task[i] # "none"} \subseteq Running
    BY DEF IInv, Listed, TaskListed, Running
  <2>2. IsFiniteSet(Running) /\ Cardinality(Running) \in Nat
    BY RunningFinite DEF IInv
  <2>3. /\ Cardinality({i \in Ids : task[i] # "none"}) <= Cardinality(Running)
        /\ Cardinality({i \in Ids : task[i] # "none"}) \in Nat
    BY <2>1, <2>2, FS_Subset, FS_CardinalityType
  <2> QED BY <2>2, <2>3 DEF IInv, Listed, FewRun, TwoChildren
<1> QED BY <1>1, InitIInv, NextIInv, PTL DEF Spec

(* A client that asks with the version it knows is told of every change of   *)
(* the status, also across stops of the host, but for the two that restore() *)
(* makes: a job that was running, and a proof that another build reads.      *)
THEOREM JobsChangesTold == Spec => []ChangesTold
<1>1. IInv => ChangesTold
  <2> SUFFICES ASSUME IInv, watch \in ToSet(jobs), known.status # "none",
                      known.version = receipt[watch].version,
                      receipt[watch].status # known.status
               PROVE  /\ known.life < stops
                      /\ \/ known.status = "running" /\ receipt[watch].status = "inconclusive"
                         \/ /\ watch \in Proofs /\ disk[watch].status = "succeeded"
                            /\ {receipt[watch].status, known.status}
                                 = {"succeeded", "inconclusive"}
    BY DEF ChangesTold
  <2>1. known.life < stops
    <3>1. known.life \in Int /\ stops \in Int
      BY DEF IInv, TypeOK
    <3> QED BY <3>1 DEF IInv, Told, KnownVersion
  <2>2. /\ receipt[watch].status # "running" /\ disk[watch].status # "none"
        /\ receipt[watch].version = disk[watch].version
    BY <2>1 DEF IInv, Told, KnownDisk
  <2>3. Restored(watch, receipt[watch].status) /\ Restored(watch, known.status)
    BY <2>2 DEF IInv, Told, DiskVersion, KnownDisk
  <2> QED BY <2>1, <2>2, <2>3 DEF Restored
<1> QED BY <1>1, InitIInv, NextIInv, PTL DEF Spec
=============================================================================
