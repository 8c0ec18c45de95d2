------------------------- MODULE PackedWordsProofs -------------------------
(***************************************************************************)
(* Two components that keep several fields in one word.                    *)
(* The Phaser counts its parties exactly, for any width of the fields, any *)
(* number of threads below it and any number of calls, and never forgets   *)
(* that it was terminated; as long as there are fewer calls than phases,   *)
(* an undisturbed phase ends only with all its parties.                    *)
(* The halves of the word of AtomicU16 are two independent registers, for  *)
(* any width, any threads and any number of calls.                         *)
(***************************************************************************)
EXTENDS PackedWords, FiniteSetTheorems, TLAPS

(* Arithmetic of the packed fields.                                         *)
LEMMA RemainderOf ==
  ASSUME NEW F \in Nat \ {0}, NEW k \in Nat, NEW r \in 0 .. F - 1
  PROVE  (k * F + r) % F = r
OBVIOUS

LEMMA Division ==
  ASSUME NEW F \in Nat \ {0}, NEW s \in Nat
  PROVE  \E q \in Nat, r \in 0 .. F - 1 : s = q * F + r /\ s % F = r
<1>1. s % F = s - F * (s \div F)
  OBVIOUS
<1>2. s \div F \in Nat
  OBVIOUS
<1>3. s % F \in 0 .. F - 1
  OBVIOUS
<1> DEFINE q == s \div F
           r == s % F
<1>4. r = s - F * q /\ q \in Nat /\ r \in 0 .. F - 1
  BY <1>1, <1>2, <1>3
<1>5. s % F = r
  OBVIOUS
<1> HIDE DEF q, r
<1>6. s = q * F + r
  BY <1>4
<1> QED
  BY <1>4, <1>5, <1>6, Zenon

LEMMA PartiesStay ==
  ASSUME NEW F \in Nat \ {0}, NEW s \in Nat, NEW k \in Nat
  PROVE  (s + k * F) % F = s % F
<1>1. PICK q \in Nat, r \in 0 .. F - 1 : s = q * F + r /\ s % F = r
  BY Division
<1>2. s + k * F = (q + k) * F + r
  BY <1>1
<1>3. ((q + k) * F + r) % F = r
  BY RemainderOf
<1> QED
  BY <1>1, <1>2, <1>3

LEMMA OnePartyMore ==
  ASSUME NEW F \in Nat \ {0}, NEW s \in Nat, (s % F) + 1 < F
  PROVE  (s + 1) % F = (s % F) + 1
<1>1. PICK q \in Nat, r \in 0 .. F - 1 : s = q * F + r /\ s % F = r
  BY Division
<1>2. r + 1 \in 0 .. F - 1
  BY <1>1
<1>3. s + 1 = q * F + (r + 1)
  BY <1>1
<1>4. (q * F + (r + 1)) % F = r + 1
  BY <1>2, RemainderOf, Zenon
<1> QED
  BY <1>1, <1>3, <1>4

LEMMA OnePartyLess ==
  ASSUME NEW F \in Nat \ {0}, NEW s \in Nat, s % F > 0
  PROVE  (s + (F - 1)) % F = (s % F) - 1
<1>1. PICK q \in Nat, r \in 0 .. F - 1 : s = q * F + r /\ s % F = r
  BY Division
<1>2. q + 1 \in Nat /\ r - 1 \in 0 .. F - 1
  BY <1>1
<1>3. s + (F - 1) = (q + 1) * F + (r - 1)
  BY <1>1
<1>4. ((q + 1) * F + (r - 1)) % F = r - 1
  BY <1>2, RemainderOf, Zenon
<1> QED
  BY <1>1, <1>3, <1>4

LEMMA FieldsAbove ==
  ASSUME NEW F \in Nat \ {0}, NEW m \in Nat, NEW P \in Nat, NEW r \in 0 .. F - 1
  PROVE  (m * (F * F) + r) % F = r /\ (m * (F * F) + r + F * F * P) % F = r
<1>1. m * F \in Nat /\ m * F + F * P \in Nat
  OBVIOUS
<1>2. m * (F * F) + r = (m * F) * F + r
  OBVIOUS
<1>3. m * (F * F) + r + F * F * P = (m * F + F * P) * F + r
  OBVIOUS
<1>4. ((m * F) * F + r) % F = r
  BY <1>1, RemainderOf, Zenon
<1>5. ((m * F + F * P) * F + r) % F = r
  BY <1>1, RemainderOf, Zenon
<1> QED
  BY <1>2, <1>3, <1>4, <1>5

-----------------------------------------------------------------------------
(* The packed count of parties is exact, and a thread in register() or       *)
(* arrive_and_deregister() is on the side its call supposes.                 *)
PhaserIInv ==
  /\ state \in Nat /\ cur \in [Threads -> Nat]
  /\ phase \in [Threads -> Nat]
  /\ pc \in [Threads -> PC]
  /\ members \subseteq Threads
  /\ PartiesExact
  /\ \A t \in Threads :
       /\ pc[t] \in {"reg_lock", "reg_add"} => t \notin members
       /\ pc[t] \in {"dereg_lock", "dereg_add"} => t \in members

LEMMA MembersCounted ==
  ASSUME PhaserIInv
  PROVE  /\ FieldSize \in Nat \ {0} /\ IsFiniteSet(members)
         /\ \A t \in Threads \ members :
              /\ Cardinality(members \cup {t}) = Cardinality(members) + 1
              /\ Cardinality(members \cup {t}) < FieldSize
         /\ \A t \in members :
              /\ Cardinality(members \ {t}) = Cardinality(members) - 1
              /\ Cardinality(members) > 0
<1> USE CondvarAssumption DEF CondvarAssumption, PhaserIInv
<1>1. Cardinality(Threads) \in Nat /\ Cardinality(Threads) < FieldSize /\ FieldSize \in Nat
  <2>1. Cardinality(Threads) \in Nat
    BY FS_CardinalityType
  <2> QED
    BY <2>1, PhaserAssumption DEF PhaserAssumption
<1>2. IsFiniteSet(members)
  BY FS_Subset
<1>3. ASSUME NEW t \in Threads \ members
      PROVE  /\ Cardinality(members \cup {t}) = Cardinality(members) + 1
             /\ Cardinality(members \cup {t}) < FieldSize
  <2>1. Cardinality(members \cup {t}) = Cardinality(members) + 1
    BY <1>2, FS_AddElement
  <2>2. Cardinality(members \cup {t}) <= Cardinality(Threads)
    <3>1. members \cup {t} \subseteq Threads
      OBVIOUS
    <3> QED
      BY <3>1, FS_Subset
  <2>3. Cardinality(members) \in Nat
    BY <1>2, FS_CardinalityType
  <2> QED
    BY <1>1, <2>1, <2>2, <2>3
<1>4. ASSUME NEW t \in members
      PROVE  /\ Cardinality(members \ {t}) = Cardinality(members) - 1
             /\ Cardinality(members) > 0
  <2>1. Cardinality(members \ {t}) = Cardinality(members) - 1
    BY <1>2, FS_RemoveElement
  <2>2. Cardinality(members \ {t}) \in Nat /\ Cardinality(members) \in Nat
    BY <1>2, FS_RemoveElement, FS_CardinalityType
  <2> QED
    BY <2>1, <2>2
<1> QED
  BY <1>1, <1>2, <1>3, <1>4

LEMMA PhaserInitIInv ==
  ASSUME Init
  PROVE  PhaserIInv
<1>1. Cardinality(Members0) \in Nat /\ Cardinality(Members0) < FieldSize /\ FieldSize \in Nat
  <2>1. IsFiniteSet(Members0) /\ Cardinality(Members0) <= Cardinality(Threads)
    BY PhaserAssumption, CondvarAssumption, FS_Subset DEF CondvarAssumption, PhaserAssumption
  <2>2. Cardinality(Members0) \in Nat /\ Cardinality(Threads) \in Nat
    BY <2>1, CondvarAssumption, FS_CardinalityType DEF CondvarAssumption
  <2>3. Cardinality(Threads) < FieldSize /\ FieldSize \in Nat
    BY PhaserAssumption DEF PhaserAssumption
  <2> QED
    BY <2>1, <2>2, <2>3
<1>2. state = Cardinality(Members0) /\ members = Members0
  BY DEF Init
<1>3. state % FieldSize = state
  BY <1>1, <1>2
<1>4. PartiesExact
  BY <1>2, <1>3 DEF PartiesExact, Parties
<1>5. state \in Nat /\ members \subseteq Threads
  BY PhaserAssumption, <1>1, <1>2 DEF PhaserAssumption
<1> QED
  BY <1>4, <1>5 DEF Init, PhaserIInv, PC

(* The three steps that change who is counted, or what the word holds.       *)
LEMMA RegisterAddCounts ==
  ASSUME PhaserIInv, NEW t \in Threads, RegisterAdd(t)
  PROVE  state' \in Nat /\ PartiesExact'
<1>1. state' = state + 1 /\ members' = members \cup {t} /\ t \in Threads \ members
  BY DEF RegisterAdd, PhaserIInv
<1>2. state \in Nat /\ state % FieldSize = Cardinality(members)
  BY DEF PhaserIInv, PartiesExact, Parties
<1>3. (state % FieldSize) + 1 < FieldSize /\ FieldSize \in Nat \ {0}
  BY <1>1, <1>2, MembersCounted
<1>4. (state + 1) % FieldSize = (state % FieldSize) + 1
  BY <1>2, <1>3, OnePartyMore
<1>5. Cardinality(members') = (state % FieldSize) + 1
  BY <1>1, <1>2, MembersCounted
<1> QED
  BY <1>1, <1>2, <1>4, <1>5 DEF PartiesExact, Parties

LEMMA DeregisterAddCounts ==
  ASSUME PhaserIInv, NEW t \in Threads, DeregisterAdd(t)
  PROVE  state' \in Nat /\ PartiesExact'
<1>1. state' = state + (FieldSize - 1) /\ members' = members \ {t} /\ t \in members
  BY DEF DeregisterAdd, ARRIVED_ONE, PhaserIInv
<1>2. state \in Nat /\ state % FieldSize = Cardinality(members)
  BY DEF PhaserIInv, PartiesExact, Parties
<1>3. state % FieldSize > 0 /\ FieldSize \in Nat \ {0}
  BY <1>1, <1>2, MembersCounted
<1>4. (state + (FieldSize - 1)) % FieldSize = (state % FieldSize) - 1
  BY <1>2, <1>3, OnePartyLess
<1>5. Cardinality(members') = (state % FieldSize) - 1
  BY <1>1, <1>2, MembersCounted
<1>6. state' \in Nat
  BY <1>1, <1>2, <1>3
<1> QED
  BY <1>1, <1>4, <1>5, <1>6 DEF PartiesExact, Parties

LEMMA ArriveCounts ==
  ASSUME PhaserIInv, NEW t \in Threads, ArriveAndAwait(t)
  PROVE  state' \in Nat /\ PartiesExact'
<1>1. state' = state + FieldSize /\ members' = members
  BY DEF ArriveAndAwait, ARRIVED_ONE
<1>2. state \in Nat /\ FieldSize \in Nat \ {0}
  BY MembersCounted DEF PhaserIInv
<1>3. state + FieldSize = state + 1 * FieldSize
  BY <1>2
<1>4. (state + 1 * FieldSize) % FieldSize = state % FieldSize
  BY <1>2, PartiesStay
<1>5. state' \in Nat
  BY <1>1, <1>2
<1> QED
  BY <1>1, <1>3, <1>4, <1>5 DEF PartiesExact, Parties, PhaserIInv

(* The exchange stores a word with the parties it read, and only over the    *)
(* word it read them from.                                                   *)
LEMMA AdvanceCounts ==
  ASSUME PhaserIInv, NEW t \in Threads, AdvanceCas(t)
  PROVE  state' \in Nat /\ PartiesExact'
<1>1. CASE state # cur[t]
  BY <1>1 DEF AdvanceCas, PhaserIInv, PartiesExact, Parties
<1>2. CASE state = cur[t]
  <2> DEFINE m == (phase[t] + 1) % PhaseSize
             r == state % FieldSize
  <2>1. /\ state \in Nat /\ FieldSize \in Nat \ {0} /\ PhaseSize \in Nat \ {0}
        /\ phase[t] \in Nat
    BY PhaserAssumption, MembersCounted DEF PhaserIInv, PhaserAssumption
  <2>2. m \in Nat /\ r \in 0 .. FieldSize - 1
    BY <2>1
  <2>3. /\ members' = members
        /\ \/ state' = m * (FieldSize * FieldSize) + r
           \/ state' = m * (FieldSize * FieldSize) + r + FieldSize * FieldSize * PhaseSize
    <3>1. members' = members /\ state' = Advanced(state, phase[t])
      BY <1>2 DEF AdvanceCas
    <3>2. Advanced(state, phase[t]) =
            m * (FieldSize * FieldSize) + r
              + (IF IsTerminated(state) THEN FieldSize * FieldSize * PhaseSize ELSE 0)
      BY DEF Advanced, Parties, PHASE_ONE, TERMINATED_BIT
    <3> HIDE DEF m, r
    <3>3. m * (FieldSize * FieldSize) + r + 0 = m * (FieldSize * FieldSize) + r
      BY <2>1, <2>2
    <3> QED
      BY <3>1, <3>2, <3>3
  <2>4. r = Cardinality(members)
    BY DEF PhaserIInv, PartiesExact, Parties
  <2> HIDE DEF m, r
  <2>5. state' % FieldSize = r
    <3>1. PhaseSize \in Nat
      BY <2>1
    <3>2. /\ (m * (FieldSize * FieldSize) + r) % FieldSize = r
          /\ (m * (FieldSize * FieldSize) + r + FieldSize * FieldSize * PhaseSize)
               % FieldSize = r
      BY <2>1, <2>2, <3>1, FieldsAbove, Zenon
    <3> QED
      BY <2>3, <3>2, Zenon
  <2>6. state' \in Nat
    BY <2>1, <2>2, <2>3
  <2> QED
    BY <2>3, <2>4, <2>5, <2>6 DEF PartiesExact, Parties
<1> QED
  BY <1>1, <1>2

(* terminate() adds a multiple of the field.                                 *)
LEMMA TerminateCounts ==
  ASSUME PhaserIInv, NEW t \in Threads, Terminate(t)
  PROVE  state' \in Nat /\ PartiesExact'
<1>1. members' = members
  BY DEF Terminate
<1>2. CASE state' = state
  BY <1>1, <1>2 DEF PhaserIInv, PartiesExact, Parties
<1>3. CASE state' = state + FieldSize * FieldSize * PhaseSize
  <2>1. state \in Nat /\ FieldSize \in Nat \ {0} /\ PhaseSize \in Nat
    BY PhaserAssumption, MembersCounted DEF PhaserIInv, PhaserAssumption
  <2>2. /\ FieldSize * PhaseSize \in Nat
        /\ state + FieldSize * FieldSize * PhaseSize = state + (FieldSize * PhaseSize) * FieldSize
    BY <2>1
  <2>3. (state + (FieldSize * PhaseSize) * FieldSize) % FieldSize = state % FieldSize
    BY <2>1, <2>2, PartiesStay, Zenon
  <2>4. state' % FieldSize = Cardinality(members)
    BY <1>3, <2>2, <2>3 DEF PhaserIInv, PartiesExact, Parties
  <2>5. state' \in Nat
    BY <1>3, <2>1, <2>2
  <2> QED
    BY <1>1, <2>4, <2>5 DEF PartiesExact, Parties
<1> QED
  BY <1>2, <1>3 DEF Terminate, TERMINATED_BIT, PHASE_ONE

LEMMA PhaseInRange ==
  ASSUME PhaserIInv
  PROVE  PhaseOf(state) \in Nat
<1>1. FieldSize \in Nat \ {0} /\ PhaseSize \in Nat \ {0} /\ state \in Nat
  BY PhaserAssumption, MembersCounted DEF PhaserIInv, PhaserAssumption
<1> DEFINE P1 == FieldSize * FieldSize
           q == state \div P1
<1>2. P1 \in Nat \ {0}
  BY <1>1
<1> HIDE DEF P1
<1>3. q \in Int
  BY <1>1, <1>2
<1> HIDE DEF q
<1>4. q % PhaseSize \in Nat
  BY <1>1, <1>3
<1> QED
  BY <1>4 DEF PhaseOf, PHASE_ONE, P1, q

LEMMA PhaserNextIInv ==
  ASSUME PhaserIInv, [Next]_vars
  PROVE  PhaserIInv'
<1> DEFINE Sides == \A t \in Threads :
             /\ pc[t] \in {"reg_lock", "reg_add"} => t \notin members
             /\ pc[t] \in {"dereg_lock", "dereg_add"} => t \in members
           Typed == /\ cur \in [Threads -> Nat] /\ phase \in [Threads -> Nat]
                    /\ pc \in [Threads -> PC] /\ members \subseteq Threads
           Counts == state \in Nat /\ PartiesExact
<1>1. PhaserIInv <=> Counts /\ Typed /\ Sides
  BY DEF PhaserIInv
<1>2. (PhaserIInv <=> Counts /\ Typed /\ Sides)'
  BY DEF PhaserIInv
<1>3. (UNCHANGED <<state, members>>) => Counts'
  BY <1>1 DEF PartiesExact, Parties
<1>4. CASE UNCHANGED vars
  <2>1. UNCHANGED <<state, pc, phase, cur, members>>
    BY <1>4 DEF vars, phaserVars
  <2> QED
    BY <2>1, <1>1, <1>2, <1>3
<1>5. ASSUME NEW t \in Threads, CvAlone(t) PROVE PhaserIInv'
  <2>1. UNCHANGED <<state, pc, phase, cur, members>>
    BY <1>5 DEF CvAlone, phaserVars
  <2> QED
    BY <2>1, <1>1, <1>2, <1>3
<1> USE PhaseInRange DEF PC, Goto, Call
<1>6. ASSUME NEW t \in Threads,
             \/ Register(t) \/ TakeMutex(t) \/ DropMutex(t)
             \/ ArriveAndDeregister(t) \/ NotifyAdvance(t) \/ WaitPhase(t)
      PROVE  PhaserIInv'
  <2>1. UNCHANGED <<state, members>> /\ Typed'
    BY <1>1, <1>6 DEF Register, TakeMutex, DropMutex, ArriveAndDeregister,
       NotifyAdvance, WaitPhase
  <2>2. Sides'
    BY <1>1, <1>6 DEF Register, TakeMutex, DropMutex, ArriveAndDeregister,
       NotifyAdvance, WaitPhase
  <2> QED
    BY <2>1, <2>2, <1>2, <1>3
<1>7. ASSUME NEW t \in Threads, AdvanceLoad(t) PROVE PhaserIInv'
  <2>1. UNCHANGED <<state, members>> /\ Typed' /\ Sides'
    BY <1>1, <1>7 DEF AdvanceLoad
  <2> QED
    BY <2>1, <1>2, <1>3
<1>8. ASSUME NEW t \in Threads, RegisterAdd(t) PROVE PhaserIInv'
  <2>1. Typed' /\ Sides'
    BY <1>1, <1>8 DEF RegisterAdd
  <2> QED
    BY <2>1, <1>2, <1>8, RegisterAddCounts
<1>9. ASSUME NEW t \in Threads, DeregisterAdd(t) PROVE PhaserIInv'
  <2>1. Typed' /\ Sides'
    BY <1>1, <1>9 DEF DeregisterAdd
  <2> QED
    BY <2>1, <1>2, <1>9, DeregisterAddCounts
<1>10. ASSUME NEW t \in Threads, ArriveAndAwait(t) PROVE PhaserIInv'
  <2>1. Typed' /\ Sides'
    BY <1>1, <1>10 DEF ArriveAndAwait
  <2> QED
    BY <2>1, <1>2, <1>10, ArriveCounts
<1>11. ASSUME NEW t \in Threads, AdvanceCas(t) PROVE PhaserIInv'
  <2>1. Typed' /\ Sides'
    BY <1>1, <1>11 DEF AdvanceCas
  <2> QED
    BY <2>1, <1>2, <1>11, AdvanceCounts
<1>12. ASSUME NEW t \in Threads, Terminate(t) PROVE PhaserIInv'
  <2>1. Typed' /\ Sides'
    BY <1>1, <1>12 DEF Terminate
  <2> QED
    BY <2>1, <1>2, <1>12, TerminateCounts
<1> QED
  BY <1>4, <1>5, <1>6, <1>7, <1>8, <1>9, <1>10, <1>11, <1>12, Zenon DEF Next

(* The packed count of a Phaser is the number of registered threads,         *)
(* whatever register() and arrive_and_deregister() do between the arrival of *)
(* the last thread and its exchange: for any number of threads below the     *)
(* width of the field and any number of calls, arrivals that overflow their  *)
(* field included.                                                           *)
THEOREM PhaserPartiesExact ==
  Spec => []PartiesExact
<1>1. Init => PhaserIInv
  BY PhaserInitIInv
<1>2. PhaserIInv /\ [Next]_vars => PhaserIInv'
  BY PhaserNextIInv
<1>3. PhaserIInv => PartiesExact
  BY DEF PhaserIInv
<1> QED
  BY <1>1, <1>2, <1>3, PTL DEF Spec

(* A terminated Phaser stays terminated, whichever steps its arrivals,       *)
(* registrations and exchanges take.                                         *)
THEOREM PhaserStaysTerminated ==
  Spec => [][StaysTerminated]_vars
<1>1. Init => PhaserIInv
  BY PhaserInitIInv
<1>2. PhaserIInv /\ [Next]_vars => PhaserIInv'
  BY PhaserNextIInv
<1>3. PhaserIInv /\ [Next]_vars => [StaysTerminated]_vars
  <2> SUFFICES ASSUME PhaserIInv, Next, state >= TERMINATED_BIT
               PROVE  state' >= TERMINATED_BIT
    BY DEF StaysTerminated, IsTerminated
  <2>1. /\ state \in Nat /\ FieldSize \in Nat \ {0} /\ PhaseSize \in Nat \ {0}
        /\ phase \in [Threads -> Nat]
    BY PhaserAssumption, MembersCounted DEF PhaserIInv, PhaserAssumption
  <2>2. PHASE_ONE \in Nat /\ TERMINATED_BIT \in Nat
    BY <2>1 DEF PHASE_ONE, TERMINATED_BIT
  <2>3. \A p \in Nat : Advanced(state, p) >= TERMINATED_BIT
    <3> SUFFICES ASSUME NEW p \in Nat PROVE Advanced(state, p) >= TERMINATED_BIT
      OBVIOUS
    <3> DEFINE m == (p + 1) % PhaseSize
               r == state % FieldSize
    <3>1. m \in Nat /\ r \in Nat
      BY <2>1
    <3>2. Advanced(state, p) = m * PHASE_ONE + r + TERMINATED_BIT
      BY DEF Advanced, IsTerminated, Parties
    <3> HIDE DEF m, r
    <3>3. m * PHASE_ONE \in Nat
      BY <2>2, <3>1
    <3> QED
      BY <2>2, <3>1, <3>2, <3>3
  <2>4. \/ state' = state \/ state' = state + 1
        \/ state' = state + FieldSize \/ state' = state + (FieldSize - 1)
        \/ \E t \in Threads : state' = Advanced(state, phase[t])
    BY DEF Next, Register, TakeMutex, RegisterAdd, DropMutex,
       ArriveAndAwait, ArriveAndDeregister, DeregisterAdd, AdvanceLoad,
       AdvanceCas, NotifyAdvance, WaitPhase, Terminate, IsTerminated,
       CvAlone, phaserVars, ARRIVED_ONE
  <2> QED
    BY <2>1, <2>2, <2>3, <2>4
<1> QED
  BY <1>1, <1>2, <1>3, PTL DEF Spec

-----------------------------------------------------------------------------
(* AtomicU16.  A word of two halves: reading a half, and replacing one,      *)
(* leaves the other alone.                                                   *)
LEMMA HalvesOf ==
  ASSUME NEW F \in Nat \ {0}, NEW a \in 0 .. F - 1, NEW b \in 0 .. F - 1
  PROVE  /\ ((a + b * F) \div 1) % F = a
         /\ ((a + b * F) \div F) % F = b
<1>1. a + b * F = b * F + a /\ a + b * F \in Nat
  OBVIOUS
<1>2. (b * F + a) % F = a
  BY RemainderOf
<1>3. (a + b * F) \div 1 = a + b * F
  BY <1>1
<1>4. (a + b * F) \div F = b
  OBVIOUS
<1>5. b % F = b
  OBVIOUS
<1> QED
  BY <1>1, <1>2, <1>3, <1>4, <1>5

(* The word is the two registers side by side, every answer so far was       *)
(* theirs, and a thread inside a loop has a request.                         *)
AtomIInv ==
  /\ ideal \in [{0, 1} -> Atom!HalfValues]
  /\ Atom!HalvesIndependent
  /\ atom_pc \in [AtomThreads -> {"idle", "load", "cas"}]
  /\ DOMAIN req = AtomThreads /\ DOMAIN word = AtomThreads
  /\ \A t \in AtomThreads : atom_pc[t] # "idle" => req[t] \in Atom!Requests

LEMMA HalfValuesNat ==
  /\ HalfSize \in Nat \ {0} /\ Args \subseteq 0 .. HalfSize - 1
  /\ Atom!HalfValues = 0 .. HalfSize - 1
BY AtomAssumption DEF Atom!AtomicU16Assumption, Atom!HalfValues

LEMMA HalfReads ==
  ASSUME AtomIInv, NEW h \in {0, 1}
  PROVE  Atom!Half(mem, h) = ideal[h]
<1>1. /\ ideal[0] \in 0 .. HalfSize - 1 /\ ideal[1] \in 0 .. HalfSize - 1
      /\ mem = ideal[0] + ideal[1] * HalfSize
  BY HalfValuesNat DEF AtomIInv, Atom!HalvesIndependent
<1>2. /\ ((ideal[0] + ideal[1] * HalfSize) \div 1) % HalfSize = ideal[0]
      /\ ((ideal[0] + ideal[1] * HalfSize) \div HalfSize) % HalfSize = ideal[1]
  BY <1>1, HalvesOf, HalfValuesNat, Zenon
<1> QED
  BY <1>1, <1>2 DEF Atom!Half, Atom!Shifted

LEMMA HalfWritten ==
  ASSUME AtomIInv, NEW h \in {0, 1}, NEW v \in Atom!HalfValues
  PROVE  LET next == [ideal EXCEPT ![h] = v]
         IN  /\ next \in [{0, 1} -> Atom!HalfValues]
             /\ Atom!WithHalf(mem, h, v) = next[0] + next[1] * HalfSize
<1>1. /\ ideal[0] \in Nat /\ ideal[1] \in Nat /\ v \in Nat /\ HalfSize \in Nat
      /\ mem = ideal[0] + ideal[1] * HalfSize
      /\ ideal \in [{0, 1} -> Atom!HalfValues]
  BY HalfValuesNat DEF AtomIInv, Atom!HalvesIndependent
<1>2. Atom!WithHalf(mem, h, v) = mem + (v - ideal[h]) * Atom!Shifted(h)
  BY HalfReads DEF Atom!WithHalf
<1>3. CASE h = 0
  BY <1>1, <1>2, <1>3 DEF Atom!Shifted
<1>4. CASE h = 1
  <2>1. Atom!WithHalf(mem, h, v) = ideal[0] + ideal[1] * HalfSize + (v - ideal[1]) * HalfSize
    BY <1>1, <1>2, <1>4 DEF Atom!Shifted
  <2> DEFINE i0 == ideal[0]
             i1 == ideal[1]
  <2> HIDE DEF i0, i1
  <2>2. i0 \in Nat /\ i1 \in Nat
    BY <1>1 DEF i0, i1
  <2>3. i0 + i1 * HalfSize + (v - i1) * HalfSize = i0 + v * HalfSize
    BY <1>1, <2>2
  <2> QED
    BY <1>1, <1>4, <2>1, <2>3 DEF i0, i1
<1> QED
  BY <1>3, <1>4

(* Every operation computes a value of a half, the wrapping ones too.        *)
LEMMA NewHalfInHalf ==
  ASSUME NEW r \in Atom!Requests, NEW old \in Atom!HalfValues
  PROVE  Atom!NewHalf(r, old) \in Atom!HalfValues
<1>1. /\ HalfSize \in Nat \ {0} /\ r.val \in Atom!HalfValues
      /\ r.op \in {"swap", "fetch_add", "fetch_sub", "fetch_or", "fetch_and", "compare_exchange"}
  BY HalfValuesNat DEF Atom!Requests, Atom!Ops
<1>2. /\ BitOr(old, r.val) \in Atom!HalfValues
      /\ BitAnd(old, r.val) \in Atom!HalfValues
  BY <1>1, AtomAssumption DEF Atom!AtomicU16Assumption
<1>3. /\ (old + r.val) % HalfSize \in Atom!HalfValues
      /\ (old - r.val) % HalfSize \in Atom!HalfValues
  BY <1>1 DEF Atom!HalfValues
<1> QED
  BY <1>1, <1>2, <1>3 DEF Atom!NewHalf

LEMMA AtomInitIInv ==
  ASSUME Atom!Init
  PROVE  AtomIInv
BY HalfValuesNat DEF Atom!Init, AtomIInv, Atom!HalvesIndependent, Atom!Halves

LEMMA StartIInv ==
  ASSUME AtomIInv, NEW t \in AtomThreads, NEW r \in Atom!Requests, Atom!Start(t, r)
  PROVE  AtomIInv'
BY DEF AtomIInv, Atom!Start, Atom!Goto, Atom!HalvesIndependent

LEMMA StoreIInv ==
  ASSUME AtomIInv, NEW t \in AtomThreads, NEW h \in {0, 1}, NEW v \in Args,
         Atom!Store(t, h, v)
  PROVE  AtomIInv'
<1>1. v \in Atom!HalfValues
  BY HalfValuesNat
<1>2. /\ ideal' \in [{0, 1} -> Atom!HalfValues]
      /\ mem' = ideal'[0] + ideal'[1] * HalfSize
  BY <1>1, HalfWritten DEF Atom!Store
<1> QED
  BY <1>2 DEF AtomIInv, Atom!Store, Atom!HalvesIndependent

LEMMA LoadWordIInv ==
  ASSUME AtomIInv, NEW t \in AtomThreads, Atom!LoadWord(t)
  PROVE  AtomIInv'
<1>1. req[t] \in Atom!Requests
  BY DEF AtomIInv, Atom!LoadWord
<1>2. req[t].half \in {0, 1}
  BY <1>1 DEF Atom!Requests, Atom!Halves
<1>3. Atom!Half(mem, req[t].half) = ideal[req[t].half]
  BY <1>2, HalfReads
<1>4. agreed'
  BY <1>3, Zenon DEF AtomIInv, Atom!LoadWord, Atom!HalvesIndependent
<1>5. UNCHANGED <<mem, ideal, req>> /\ DOMAIN word' = AtomThreads
  BY DEF Atom!LoadWord, AtomIInv
<1>6. /\ atom_pc' \in [AtomThreads -> {"idle", "load", "cas"}]
      /\ \A u \in AtomThreads : atom_pc'[u] # "idle" => req[u] \in Atom!Requests
  BY <1>1 DEF Atom!LoadWord, AtomIInv, Atom!Goto
<1> QED
  BY <1>4, <1>5, <1>6 DEF AtomIInv, Atom!HalvesIndependent

(* The exchange takes effect only on the word that was loaded, so both       *)
(* halves of it are the registers' at that moment.                           *)
LEMMA CasWordIInv ==
  ASSUME AtomIInv, NEW t \in AtomThreads, Atom!CasWord(t)
  PROVE  AtomIInv'
<1>1. CASE mem # word[t]
  BY <1>1 DEF AtomIInv, Atom!CasWord, Atom!Goto, Atom!HalvesIndependent
<1>2. CASE mem = word[t]
  <2> DEFINE r == req[t]
             v == Atom!NewHalf(r, ideal[r.half])
  <2>1. Atom!Swapped(t)
    BY <1>2 DEF Atom!CasWord
  <2>2. r \in Atom!Requests
    BY DEF AtomIInv, Atom!CasWord
  <2>3. r.half \in {0, 1}
    BY <2>2 DEF Atom!Requests, Atom!Halves
  <2>4. Atom!Half(mem, r.half) = ideal[r.half]
    BY <2>3, HalfReads
  <2>5. ideal[r.half] \in Atom!HalfValues
    BY <2>3 DEF AtomIInv
  <2>6. v \in Atom!HalfValues
    BY <2>2, <2>5, NewHalfInHalf
  <2>7. v % HalfSize = v
    <3> HIDE DEF v
    <3> QED
      BY <2>6, HalfValuesNat
  <2>8. mem' = Atom!WithHalf(mem, r.half, v)
    BY <1>2, <2>1, <2>4 DEF Atom!Swapped
  <2>9. ideal' = [ideal EXCEPT ![r.half] = v]
    <3>1. ideal' = [ideal EXCEPT ![r.half] = Atom!NewHalf(r, ideal[r.half]) % HalfSize]
      BY <2>1 DEF Atom!Swapped
    <3> QED
      BY <3>1, <2>7
  <2>10. agreed'
    BY <1>2, <2>1, <2>4, Zenon DEF Atom!Swapped, AtomIInv, Atom!HalvesIndependent
  <2> HIDE DEF v
  <2>11. /\ ideal' \in [{0, 1} -> Atom!HalfValues]
         /\ mem' = ideal'[0] + ideal'[1] * HalfSize
    BY <2>3, <2>6, <2>8, <2>9, HalfWritten
  <2> QED
    BY <2>1, <2>10, <2>11 DEF AtomIInv, Atom!Swapped, Atom!Goto, Atom!HalvesIndependent
<1> QED
  BY <1>1, <1>2

LEMMA AtomNextIInv ==
  ASSUME AtomIInv, Atom!Next
  PROVE  AtomIInv'
BY StartIInv, StoreIInv, LoadWordIInv, CasWordIInv DEF Atom!Next, Atom!Halves

(* The two halves of a word behave as two independent atomic registers for   *)
(* any width, any threads and any number of calls of swap, compare_exchange, *)
(* the fetch operations and plain stores: nothing is lost, invented or       *)
(* carried over, and every answer is the register's at that moment.          *)
THEOREM AtomicHalvesIndependent ==
  WordsSpec => []HalvesIndependent
<1>1. WordsInit => AtomIInv
  BY AtomInitIInv DEF WordsInit
<1>2. AtomIInv /\ [WordsNext]_<<client, atomVars, vars>> => AtomIInv'
  <2> SUFFICES ASSUME AtomIInv, [WordsNext]_<<client, atomVars, vars>>
               PROVE  AtomIInv'
    OBVIOUS
  <2>1. Atom!Next \/ UNCHANGED atomVars
    BY DEF WordsNext
  <2>2. ASSUME UNCHANGED atomVars PROVE AtomIInv'
    BY <2>2 DEF AtomIInv, atomVars, Atom!HalvesIndependent
  <2> QED
    BY <2>1, <2>2, AtomNextIInv
<1>3. AtomIInv => HalvesIndependent
  BY DEF AtomIInv, HalvesIndependent
<1> QED
  BY <1>1, <1>2, <1>3, PTL DEF WordsSpec

-----------------------------------------------------------------------------
(* Phases.  The word as its four fields, of which the highest is the         *)
(* terminated bit.                                                           *)
Packed(z, ph, a, p) == ((z * PhaseSize + ph) * FieldSize + a) * FieldSize + p

Fields(z, ph, a, p) ==
  /\ z \in {0, 1} /\ ph \in 0 .. PhaseSize - 1
  /\ a \in 0 .. FieldSize - 1 /\ p \in 0 .. FieldSize - 1

Word == 0 .. 2 * TERMINATED_BIT - 1

LEMMA QuotientOf ==
  ASSUME NEW F \in Nat \ {0}, NEW k \in Nat, NEW r \in 0 .. F - 1
  PROVE  (k * F + r) \div F = k
OBVIOUS

LEMMA BelowProduct ==
  ASSUME NEW F \in Nat \ {0}, NEW m \in Nat, NEW k \in 0 .. m - 1, NEW r \in 0 .. F - 1
  PROVE  k * F + r \in 0 .. m * F - 1
<1> DEFINE d == m - 1 - k
<1>1. d \in Nat /\ m = k + 1 + d
  OBVIOUS
<1> HIDE DEF d
<1>2. m * F = k * F + F + d * F
  BY <1>1
<1>3. d * F \in Nat /\ k * F \in Nat
  BY <1>1
<1> QED
  BY <1>2, <1>3

LEMMA Widths ==
  /\ FieldSize \in Nat \ {0} /\ PhaseSize \in Nat \ {0, 1}
  /\ PHASE_ONE \in Nat \ {0} /\ TERMINATED_BIT \in Nat \ {0}
<1>1. FieldSize \in Nat \ {0} /\ PhaseSize \in Nat \ {0, 1}
  <2>1. Cardinality(Threads) \in Nat
    BY CondvarAssumption, FS_CardinalityType DEF CondvarAssumption
  <2> QED
    BY <2>1, PhaserAssumption DEF PhaserAssumption
<1>2. PHASE_ONE \in Nat \ {0}
  BY <1>1 DEF PHASE_ONE
<1>3. PHASE_ONE * PhaseSize \in Nat \ {0}
  BY <1>1, <1>2
<1> QED
  BY <1>1, <1>2, <1>3 DEF TERMINATED_BIT

(* Reading the fields back.                                                  *)
LEMMA FieldsRead ==
  ASSUME NEW z, NEW ph, NEW a, NEW p, Fields(z, ph, a, p)
  PROVE  /\ Packed(z, ph, a, p) \in Word
         /\ Parties(Packed(z, ph, a, p)) = p
         /\ Arrived(Packed(z, ph, a, p)) = a
         /\ PhaseOf(Packed(z, ph, a, p)) = ph
         /\ IsTerminated(Packed(z, ph, a, p)) <=> z = 1
<1> DEFINE q == z * PhaseSize + ph
           b == q * FieldSize + a
           s == b * FieldSize + p
           low == a * FieldSize + p
<1>1. /\ z \in {0, 1} /\ ph \in 0 .. PhaseSize - 1
      /\ a \in 0 .. FieldSize - 1 /\ p \in 0 .. FieldSize - 1
      /\ FieldSize \in Nat \ {0} /\ PhaseSize \in Nat \ {0}
      /\ PHASE_ONE \in Nat \ {0} /\ TERMINATED_BIT \in Nat \ {0}
  BY Widths DEF Fields
<1>2. /\ q \in 0 .. 2 * PhaseSize - 1 /\ q % PhaseSize = ph
      /\ q >= PhaseSize <=> z = 1
  <2>1. CASE z = 0
    BY <1>1, <2>1
  <2>2. CASE z = 1
    <3>1. q = 1 * PhaseSize + ph
      BY <2>2
    <3>2. (1 * PhaseSize + ph) % PhaseSize = ph
      BY <1>1, RemainderOf
    <3> QED
      BY <1>1, <2>2, <3>1, <3>2
  <2> QED
    BY <1>1, <2>1, <2>2
<1> HIDE DEF q
<1>3. b \in Nat /\ b % FieldSize = a
  <2>1. (q * FieldSize + a) % FieldSize = a
    BY <1>1, <1>2, RemainderOf
  <2> QED
    BY <1>1, <1>2, <2>1
<1>4. low \in 0 .. PHASE_ONE - 1
  BY <1>1, BelowProduct DEF PHASE_ONE
<1>5. s = q * PHASE_ONE + low
  <2>1. (q * FieldSize + a) * FieldSize + p = q * (FieldSize * FieldSize) + (a * FieldSize + p)
    BY <1>1, <1>2
  <2> QED
    BY <2>1 DEF PHASE_ONE
<1> HIDE DEF low
<1>6. s \div PHASE_ONE = q
  <2>1. (q * PHASE_ONE + low) \div PHASE_ONE = q
    BY <1>1, <1>2, <1>4, QuotientOf
  <2> QED
    BY <1>5, <2>1
<1>7. s \in 0 .. (2 * PhaseSize) * PHASE_ONE - 1
  <2>1. 2 * PhaseSize \in Nat
    BY <1>1
  <2>2. q * PHASE_ONE + low \in 0 .. (2 * PhaseSize) * PHASE_ONE - 1
    BY <1>1, <1>2, <1>4, <2>1, BelowProduct
  <2> QED
    BY <1>5, <2>2
<1>8. s \in Word
  <2>1. (2 * PhaseSize) * PHASE_ONE = 2 * TERMINATED_BIT
    BY <1>1 DEF TERMINATED_BIT
  <2> QED
    BY <1>7, <2>1 DEF Word
<1>9. s >= TERMINATED_BIT <=> z = 1
  <2>1. TERMINATED_BIT = PhaseSize * PHASE_ONE
    BY <1>1 DEF TERMINATED_BIT
  <2>2. CASE z = 1
    <3> DEFINE d == q - PhaseSize
    <3>1. d \in Nat /\ q = PhaseSize + d
      BY <1>1, <1>2, <2>2
    <3> HIDE DEF d
    <3>2. q * PHASE_ONE = PhaseSize * PHASE_ONE + d * PHASE_ONE /\ d * PHASE_ONE \in Nat
      BY <1>1, <3>1
    <3> QED
      BY <1>1, <1>4, <1>5, <2>1, <2>2, <3>2
  <2>3. CASE z = 0
    <3>1. q \in 0 .. PhaseSize - 1 /\ PhaseSize \in Nat
      BY <1>1, <1>2, <2>3
    <3>2. q * PHASE_ONE + low \in 0 .. PhaseSize * PHASE_ONE - 1
      BY <1>1, <1>4, <3>1, BelowProduct
    <3>3. s \in Nat /\ s < TERMINATED_BIT
      BY <1>1, <1>5, <2>1, <3>2
    <3> QED
      BY <1>1, <2>3, <3>3
  <2> QED
    BY <1>1, <2>2, <2>3
<1> HIDE DEF b
<1>10. s % FieldSize = p /\ s \div FieldSize = b
  BY <1>1, <1>3, RemainderOf, QuotientOf
<1>11. Packed(z, ph, a, p) = s
  BY DEF Packed, b, q
<1> HIDE DEF s
<1> QED
  BY <1>2, <1>3, <1>6, <1>8, <1>9, <1>10, <1>11
  DEF Parties, Arrived, PhaseOf, IsTerminated, ARRIVED_ONE

(* Every word has its fields.                                                *)
LEMMA WordHasFields ==
  ASSUME NEW s \in Word
  PROVE  \E z, ph, a, p : Fields(z, ph, a, p) /\ s = Packed(z, ph, a, p)
<1>1. /\ FieldSize \in Nat \ {0} /\ PhaseSize \in Nat \ {0} /\ s \in Nat
      /\ TERMINATED_BIT \in Nat
  BY Widths DEF Word
<1>2. PICK b \in Nat, p \in 0 .. FieldSize - 1 : s = b * FieldSize + p
  BY <1>1, Division
<1>3. PICK q \in Nat, a \in 0 .. FieldSize - 1 : b = q * FieldSize + a
  BY <1>1, Division
<1>4. PICK z \in Nat, ph \in 0 .. PhaseSize - 1 : q = z * PhaseSize + ph
  BY <1>1, Division
<1>5. s = Packed(z, ph, a, p)
  BY <1>2, <1>3, <1>4 DEF Packed
<1>6. z < 2
  <2> SUFFICES ASSUME z >= 2 PROVE FALSE
    BY <1>4
  <2> DEFINE d == z - 2
  <2>1. d \in Nat /\ z = 2 + d
    OBVIOUS
  <2> HIDE DEF d
  <2>2. q = 2 * PhaseSize + (d * PhaseSize + ph) /\ d * PhaseSize + ph \in Nat
    BY <1>1, <1>4, <2>1
  <2> DEFINE e == d * PhaseSize + ph
             f == e * FieldSize + a
  <2>3. e \in Nat /\ q = 2 * PhaseSize + e
    BY <2>2
  <2> HIDE DEF e
  <2>4. f \in Nat /\ b = 2 * PhaseSize * FieldSize + f
    BY <1>1, <1>3, <2>3
  <2> HIDE DEF f
  <2>5. f * FieldSize + p \in Nat /\ s = 2 * PhaseSize * FieldSize * FieldSize + (f * FieldSize + p)
    BY <1>1, <1>2, <2>4
  <2>6. 2 * PhaseSize * FieldSize * FieldSize = 2 * TERMINATED_BIT
    BY <1>1 DEF TERMINATED_BIT, PHASE_ONE
  <2>7. s < 2 * TERMINATED_BIT
    BY <1>1 DEF Word
  <2> DEFINE g == f * FieldSize + p
  <2>8. g \in Nat /\ s = 2 * TERMINATED_BIT + g
    BY <2>5, <2>6
  <2> HIDE DEF g
  <2> QED
    BY <1>1, <2>7, <2>8
<1>7. z \in {0, 1}
  BY <1>4, <1>6
<1> QED
  BY <1>5, <1>7 DEF Fields

-----------------------------------------------------------------------------
(* The phases do not wrap within the life of the phaser: there are 2^30 of   *)
(* them in the code, and a call ends one phase at most.                      *)
NoWrap == Cardinality(Threads) * MaxCalls < PhaseSize

(* The calls that can end a phase no more, as pairs of a thread and the      *)
(* number of its call: each phase that is over has one of its own.           *)
Advancing == {"adv_load", "adv_cas", "dadv_load", "dadv_cas"}
MayAdvance == Advancing \cup {"dereg_lock", "dereg_add"}
CallNames == Threads \X (1 .. MaxCalls)
Ended == {c \in CallNames :
            /\ c[2] <= calls[c[1]]
            /\ c[2] = calls[c[1]] => pc[c[1]] \notin MayAdvance}

(* The phase is paid for with calls, a thread that has arrived knows a phase *)
(* that has been, and the word its exchange expects is of that phase.        *)
PhasesPaid ==
  /\ state \in Word /\ calls \in [Threads -> 0 .. MaxCalls]
  /\ PhaseOf(state) <= Cardinality(Ended)
  /\ \A t \in Threads :
       /\ pc[t] \in MayAdvance => calls[t] >= 1
       /\ phase[t] <= PhaseOf(state)
       /\ pc[t] \in {"adv_cas", "dadv_cas"} => PhaseOf(cur[t]) = phase[t]

(* While no party comes or goes, the packed count of arrivals is the number  *)
(* of threads that are here; they stay, and one of them advances the phase   *)
(* only when all are here.                                                   *)
Undisturbed ==
  /\ here \subseteq members /\ changed \in BOOLEAN
  /\ ~changed =>
       /\ Arrived(state) = Cardinality(here)
       /\ \A t \in here : /\ phase[t] = PhaseOf(state)
                          /\ pc[t] \in {"adv_load", "adv_cas", "lock", "loop"}
       /\ \A t \in Threads : pc[t] \in Advancing /\ phase[t] = PhaseOf(state)
            => members \subseteq here

(* The diagnostic count of the Condvar is the number of threads registered.  *)
Registered == {t \in Threads : cv[t] \in {"snap", "drop", "wait", "asleep"}}
Waiting == CvTypeOK /\ waiters = Cardinality(Registered)

PhaseIInv == PhaserIInv /\ PhasesPaid /\ Undisturbed /\ Waiting

-----------------------------------------------------------------------------
(* What each update of the word does to its fields.                          *)
LEMMA PartyJoins ==
  ASSUME NEW s \in Word, Parties(s) + 1 < FieldSize
  PROVE  /\ s + 1 \in Word /\ PhaseOf(s + 1) = PhaseOf(s)
         /\ Arrived(s + 1) = Arrived(s)
<1>1. PICK z, ph, a, p : Fields(z, ph, a, p) /\ s = Packed(z, ph, a, p)
  BY WordHasFields
<1>2. Parties(s) = p /\ Arrived(s) = a /\ PhaseOf(s) = ph
  BY <1>1, FieldsRead
<1>3. Fields(z, ph, a, p + 1)
  BY <1>1, <1>2, Widths DEF Fields
<1>4. s + 1 = Packed(z, ph, a, p + 1)
  <2> DEFINE high == ((z * PhaseSize + ph) * FieldSize + a) * FieldSize
  <2>1. high \in Int /\ p \in Int
    BY <1>1, Widths DEF Fields
  <2>2. s = high + p /\ Packed(z, ph, a, p + 1) = high + (p + 1)
    BY <1>1 DEF Packed
  <2> HIDE DEF high
  <2> QED
    BY <2>1, <2>2
<1> QED
  BY <1>2, <1>3, <1>4, FieldsRead

(* An arrival is counted, or carries into the phase; it may take a party     *)
(* away at the same time.                                                    *)
LEMMA OneArrives ==
  ASSUME NEW s \in Word, NEW k \in {0, 1}, k <= Parties(s)
  PROVE  LET n == s + (ARRIVED_ONE - k) IN
         /\ Arrived(s) + 1 < FieldSize =>
              n \in Word /\ PhaseOf(n) = PhaseOf(s) /\ Arrived(n) = Arrived(s) + 1
         /\ Arrived(s) + 1 >= FieldSize /\ PhaseOf(s) + 1 < PhaseSize =>
              /\ n \in Word /\ PhaseOf(n) = PhaseOf(s) + 1
              /\ Arrived(s) + 1 = FieldSize
<1> DEFINE n == s + (ARRIVED_ONE - k)
<1>1. PICK z, ph, a, p : Fields(z, ph, a, p) /\ s = Packed(z, ph, a, p)
  BY WordHasFields
<1>2. Parties(s) = p /\ Arrived(s) = a /\ PhaseOf(s) = ph
  BY <1>1, FieldsRead
<1>3. /\ z \in {0, 1} /\ ph \in 0 .. PhaseSize - 1
      /\ a \in 0 .. FieldSize - 1 /\ p \in 0 .. FieldSize - 1
      /\ FieldSize \in Nat \ {0} /\ PhaseSize \in Nat \ {0, 1}
      /\ p - k \in 0 .. FieldSize - 1
  BY <1>1, <1>2, Widths DEF Fields
<1> DEFINE q == z * PhaseSize + ph
<1>4. q \in Int /\ q + 1 = z * PhaseSize + (ph + 1)
  BY <1>3
<1>5. n = (q * FieldSize + a) * FieldSize + p + FieldSize - k
  BY <1>1, <1>3 DEF Packed, ARRIVED_ONE
<1> HIDE DEF q
<1>6. ASSUME a + 1 < FieldSize
      PROVE  n \in Word /\ PhaseOf(n) = ph /\ Arrived(n) = a + 1
  <2>1. Fields(z, ph, a + 1, p - k)
    BY <1>3, <1>6 DEF Fields
  <2>2. Packed(z, ph, a + 1, p - k) = (q * FieldSize + (a + 1)) * FieldSize + (p - k)
    BY DEF Packed, q
  <2>3. n = Packed(z, ph, a + 1, p - k)
    <3> DEFINE b == q * FieldSize + a
    <3>1. b \in Int /\ q * FieldSize + (a + 1) = b + 1
      BY <1>3, <1>4
    <3>2. n = b * FieldSize + p + FieldSize - k
      BY <1>5
    <3> HIDE DEF b, n
    <3>3. (b + 1) * FieldSize = b * FieldSize + FieldSize /\ b * FieldSize \in Int
      BY <1>3, <3>1
    <3> QED
      BY <1>3, <2>2, <3>1, <3>2, <3>3
  <2> QED
    BY <2>1, <2>3, FieldsRead
<1>7. ASSUME a + 1 >= FieldSize, ph + 1 < PhaseSize
      PROVE  n \in Word /\ PhaseOf(n) = ph + 1 /\ a + 1 = FieldSize
  <2>1. a + 1 = FieldSize /\ Fields(z, ph + 1, 0, p - k)
    BY <1>3, <1>7 DEF Fields
  <2>2. Packed(z, ph + 1, 0, p - k) = ((q + 1) * FieldSize + 0) * FieldSize + (p - k)
    BY <1>4 DEF Packed
  <2>3. n = Packed(z, ph + 1, 0, p - k)
    <3> DEFINE b == q * FieldSize + a
    <3>1. b \in Int /\ (q + 1) * FieldSize + 0 = b + 1
      BY <1>3, <1>4, <2>1
    <3>2. n = b * FieldSize + p + FieldSize - k
      BY <1>5
    <3> HIDE DEF b, n
    <3>3. (b + 1) * FieldSize = b * FieldSize + FieldSize /\ b * FieldSize \in Int
      BY <1>3, <3>1
    <3> QED
      BY <1>3, <2>2, <3>1, <3>2, <3>3
  <2> QED
    BY <2>1, <2>3, FieldsRead
<1> HIDE DEF n
<1>8. /\ Arrived(s) + 1 < FieldSize =>
           n \in Word /\ PhaseOf(n) = PhaseOf(s) /\ Arrived(n) = Arrived(s) + 1
      /\ Arrived(s) + 1 >= FieldSize /\ PhaseOf(s) + 1 < PhaseSize =>
           n \in Word /\ PhaseOf(n) = PhaseOf(s) + 1 /\ Arrived(s) + 1 = FieldSize
  BY <1>2, <1>6, <1>7
<1> QED
  BY <1>8 DEF n

(* The exchange of the last arrival starts the next phase with nobody in it. *)
LEMMA PhaseAdvances ==
  ASSUME NEW s \in Word, PhaseOf(s) + 1 < PhaseSize
  PROVE  LET n == Advanced(s, PhaseOf(s))
         IN  n \in Word /\ PhaseOf(n) = PhaseOf(s) + 1 /\ Arrived(n) = 0
<1> DEFINE n == Advanced(s, PhaseOf(s))
<1>1. PICK z, ph, a, p : Fields(z, ph, a, p) /\ s = Packed(z, ph, a, p)
  BY WordHasFields
<1>2. Parties(s) = p /\ PhaseOf(s) = ph /\ (IsTerminated(s) <=> z = 1)
  BY <1>1, FieldsRead
<1>3. /\ z \in {0, 1} /\ ph \in 0 .. PhaseSize - 1 /\ p \in Nat
      /\ FieldSize \in Nat \ {0} /\ PhaseSize \in Nat \ {0, 1}
  BY <1>1, Widths DEF Fields
<1>4. (ph + 1) % PhaseSize = ph + 1
  BY <1>2, <1>3
<1>5. Fields(z, ph + 1, 0, p)
  BY <1>1, <1>2, <1>3 DEF Fields
<1>6. n = (ph + 1) * PHASE_ONE + p + (IF z = 1 THEN TERMINATED_BIT ELSE 0)
  BY <1>2, <1>4 DEF Advanced
<1>7. n = Packed(z, ph + 1, 0, p)
  <2> HIDE DEF n
  <2>1. CASE z = 0
    BY <1>3, <1>6, <2>1 DEF Packed, PHASE_ONE
  <2>2. CASE z = 1
    BY <1>3, <1>6, <2>2 DEF Packed, PHASE_ONE, TERMINATED_BIT
  <2> QED
    BY <1>3, <2>1, <2>2
<1> QED
  BY <1>2, <1>5, <1>7, FieldsRead

(* terminate() sets the bit and nothing else.                                *)
LEMMA BitIsSet ==
  ASSUME NEW s \in Word, ~IsTerminated(s)
  PROVE  LET n == s + TERMINATED_BIT
         IN  n \in Word /\ PhaseOf(n) = PhaseOf(s) /\ Arrived(n) = Arrived(s)
<1>1. PICK z, ph, a, p : Fields(z, ph, a, p) /\ s = Packed(z, ph, a, p)
  BY WordHasFields
<1>2. Arrived(s) = a /\ PhaseOf(s) = ph /\ z = 0
  <2>1. Arrived(s) = a /\ PhaseOf(s) = ph /\ (IsTerminated(s) <=> z = 1)
    BY <1>1, FieldsRead
  <2> QED
    BY <1>1, <2>1 DEF Fields
<1>3. /\ ph \in Nat /\ a \in Nat /\ p \in Nat
      /\ FieldSize \in Nat \ {0} /\ PhaseSize \in Nat \ {0, 1}
  BY <1>1, Widths DEF Fields
<1>4. Fields(1, ph, a, p)
  BY <1>1 DEF Fields
<1>5. s + TERMINATED_BIT = Packed(1, ph, a, p)
  BY <1>1, <1>2, <1>3 DEF Packed, PHASE_ONE, TERMINATED_BIT
<1> QED
  BY <1>2, <1>4, <1>5, FieldsRead

LEMMA FieldsTyped ==
  ASSUME NEW s \in Word
  PROVE  /\ s \in Nat /\ PhaseOf(s) \in 0 .. PhaseSize - 1
         /\ Arrived(s) \in 0 .. FieldSize - 1 /\ Parties(s) \in 0 .. FieldSize - 1
<1>1. PICK z, ph, a, p : Fields(z, ph, a, p) /\ s = Packed(z, ph, a, p)
  BY WordHasFields
<1>2. Parties(s) = p /\ Arrived(s) = a /\ PhaseOf(s) = ph
  BY <1>1, FieldsRead
<1>3. s \in Nat
  BY Widths DEF Word
<1> QED
  BY <1>1, <1>2, <1>3 DEF Fields

-----------------------------------------------------------------------------
(* The Condvar under the phaser: a thread joins the registered ones in Wait  *)
(* and leaves them in Deregister; nothing else changes the set.              *)
LEMMA WaitersFinite == IsFiniteSet(Registered)
BY CondvarAssumption, FS_Subset DEF CondvarAssumption, Registered

LEMMA CvUnchanged ==
  ASSUME Waiting, UNCHANGED cvVars
  PROVE  Waiting'
BY DEF Waiting, CvTypeOK, cvVars, Registered

LEMMA WaitRegisters ==
  ASSUME Waiting, NEW t \in Threads, Wait(t, FALSE)
  PROVE  Waiting'
<1>1. cv[t] = "out" /\ cv' = [cv EXCEPT ![t] = "snap"] /\ waiters' = waiters + 1
  BY DEF Wait, CvGoto
<1>2. CvTypeOK'
  BY <1>1 DEF Waiting, Wait, CvTypeOK, CV, RET
<1>3. t \notin Registered /\ Registered' = Registered \cup {t}
  BY <1>1 DEF Waiting, Registered, CvTypeOK
<1>4. Cardinality(Registered \cup {t}) = Cardinality(Registered) + 1
  BY <1>3, WaitersFinite, FS_AddElement
<1> QED
  BY <1>1, <1>2, <1>3, <1>4 DEF Waiting

LEMMA WakeDeregisters ==
  ASSUME Waiting, NEW t \in Threads, Deregister(t)
  PROVE  Waiting'
<1>1. /\ cv[t] = "asleep" /\ t \notin parked
      /\ cv' = [cv EXCEPT ![t] = "relock"] /\ waiters' = waiters - 1
  BY DEF Deregister, CvGoto
<1>2. t \in Registered /\ Registered' = Registered \ {t}
  BY <1>1 DEF Waiting, Registered, CvTypeOK
<1>3. Cardinality(Registered \ {t}) = Cardinality(Registered) - 1
  BY <1>2, WaitersFinite, FS_RemoveElement
<1>4. waiters' = Cardinality(Registered')
  BY <1>1, <1>2, <1>3 DEF Waiting
<1>5. waiters' \in Nat
  <2>1. IsFiniteSet(Registered')
    BY <1>2, WaitersFinite, FS_Subset
  <2> QED
    BY <2>1, <1>4, FS_CardinalityType
<1>6. CvTypeOK'
  BY <1>1, <1>5 DEF Waiting, Deregister, CvTypeOK, CV, RET
<1> QED
  BY <1>4, <1>6 DEF Waiting

LEMMA OtherCvSteps ==
  ASSUME Waiting, NEW t \in Threads,
         \/ Lock(t) \/ Unlock(t) \/ NotifyAll(t) \/ Snapshot(t) \/ DropGuard(t)
         \/ FutexWait(t) \/ WakeOne(t) \/ WakeAll(t) \/ Relock(t)
         \/ Interrupted(t) \/ TimeExpires(t)
  PROVE  Waiting'
<1> USE CondvarAssumption DEF CvTypeOK, CV, RET, CondvarAssumption, Waiting
<1> DEFINE Inside == {"snap", "drop", "wait", "asleep"}
<1>1. /\ CvTypeOK' /\ waiters' = waiters
      /\ \A u \in Threads : cv'[u] \in Inside <=> cv[u] \in Inside
  <2>1. CASE Lock(t) \/ Unlock(t)
    BY <2>1 DEF Lock, Unlock, Lk!Acquire, Lk!Release
  <2>2. CASE NotifyAll(t)
    BY <2>2 DEF NotifyAll, Bump, CvGoto
  <2>3. CASE Snapshot(t)
    BY <2>3 DEF Snapshot, CvGoto
  <2>4. CASE DropGuard(t)
    BY <2>4 DEF DropGuard, CvGoto, Lk!Release
  <2>5. CASE FutexWait(t)
    BY <2>5 DEF FutexWait, CvGoto, Parked
  <2>6. CASE WakeOne(t)
    BY <2>6 DEF WakeOne, CvGoto, StillParked
  <2>7. CASE WakeAll(t)
    BY <2>7 DEF WakeAll, CvGoto, NoneParked
  <2>8. CASE Relock(t)
    BY <2>8 DEF Relock, CvGoto, Lk!Acquire
  <2>9. CASE Interrupted(t) \/ TimeExpires(t)
    BY <2>9 DEF Interrupted, TimeExpires, SleepEnds
  <2> QED
    BY <2>1, <2>2, <2>3, <2>4, <2>5, <2>6, <2>7, <2>8, <2>9
<1>2. Registered' = Registered
  BY <1>1 DEF Registered
<1> QED
  BY <1>1, <1>2

LEMMA WaitingStays ==
  ASSUME Waiting, [Next]_vars
  PROVE  Waiting'
<1>1. CASE UNCHANGED vars
  BY <1>1, CvUnchanged DEF vars
<1>2. ASSUME NEW t \in Threads, CvAlone(t) PROVE Waiting'
  BY <1>2, WakeDeregisters, OtherCvSteps DEF CvAlone, CvStep, CvProgress
<1>3. ASSUME NEW t \in Threads, TakeMutex(t) \/ DropMutex(t) \/ NotifyAdvance(t)
      PROVE  Waiting'
  BY <1>3, OtherCvSteps DEF TakeMutex, DropMutex, NotifyAdvance
<1>4. ASSUME NEW t \in Threads, WaitPhase(t) PROVE Waiting'
  BY <1>4, WaitRegisters, CvUnchanged DEF WaitPhase
<1>5. ASSUME NEW t \in Threads,
             \/ Register(t) \/ RegisterAdd(t) \/ ArriveAndAwait(t)
             \/ ArriveAndDeregister(t) \/ DeregisterAdd(t)
             \/ AdvanceLoad(t) \/ AdvanceCas(t) \/ Terminate(t)
      PROVE  Waiting'
  <2>1. UNCHANGED cvVars
    BY <1>5 DEF Register, RegisterAdd, ArriveAndAwait, ArriveAndDeregister,
       DeregisterAdd, AdvanceLoad, AdvanceCas, Terminate
  <2> QED
    BY <2>1, CvUnchanged
<1> QED
  BY <1>1, <1>2, <1>3, <1>4, <1>5, Zenon DEF Next

-----------------------------------------------------------------------------
(* Ended calls are never taken back, and there are no more than all.         *)
LEMMA EndedBounded ==
  ASSUME MaxCalls \in Nat
  PROVE  /\ IsFiniteSet(Ended) /\ IsFiniteSet(Ended')
         /\ Cardinality(Ended) \in Nat /\ Cardinality(Ended') \in Nat
         /\ Cardinality(Ended') <= Cardinality(Threads) * MaxCalls
<1>1. IsFiniteSet(1 .. MaxCalls) /\ Cardinality(1 .. MaxCalls) = MaxCalls
  BY FS_Interval
<1>2. /\ IsFiniteSet(CallNames)
      /\ Cardinality(CallNames) = Cardinality(Threads) * MaxCalls
  BY <1>1, FS_Product, CondvarAssumption DEF CallNames, CondvarAssumption
<1>3. Ended \subseteq CallNames /\ Ended' \subseteq CallNames
  BY DEF Ended
<1>4. /\ IsFiniteSet(Ended) /\ IsFiniteSet(Ended')
      /\ Cardinality(Ended') <= Cardinality(CallNames)
  BY <1>2, <1>3, FS_Subset
<1> QED
  BY <1>2, <1>4, FS_CardinalityType

LEMMA EndedStay ==
  ASSUME calls \in [Threads -> Nat], calls' \in [Threads -> Nat],
         \A u \in Threads :
           \/ calls'[u] > calls[u]
           \/ calls'[u] = calls[u] /\ (pc'[u] \in MayAdvance => pc[u] \in MayAdvance)
  PROVE  Ended \subseteq Ended'
<1> SUFFICES ASSUME NEW c \in Ended PROVE c \in Ended'
  OBVIOUS
<1>1. c \in CallNames /\ c[1] \in Threads /\ c[2] \in Nat
  BY DEF Ended, CallNames
<1>2. c[2] <= calls[c[1]] /\ (c[2] = calls[c[1]] => pc[c[1]] \notin MayAdvance)
  BY DEF Ended
<1>3. c[2] <= calls'[c[1]] /\ (c[2] = calls'[c[1]] => pc'[c[1]] \notin MayAdvance)
  BY <1>1, <1>2
<1> QED
  BY <1>1, <1>3 DEF Ended

(* The call of thread t can end a phase no more after the step.              *)
LEMMA EndedGrow ==
  ASSUME MaxCalls \in Nat, Ended \subseteq Ended',
         NEW c \in Ended', c \notin Ended
  PROVE  Cardinality(Ended) + 1 <= Cardinality(Ended')
<1>1. IsFiniteSet(Ended) /\ IsFiniteSet(Ended')
  BY EndedBounded
<1>2. Ended \cup {c} \subseteq Ended'
  OBVIOUS
<1>3. Cardinality(Ended \cup {c}) = Cardinality(Ended) + 1
  BY <1>1, FS_AddElement
<1>4. Cardinality(Ended \cup {c}) <= Cardinality(Ended')
  BY <1>1, <1>2, FS_Subset
<1> QED
  BY <1>3, <1>4

LEMMA EndedStep ==
  ASSUME PhaserIInv, PhasesPaid, [Next]_vars
  PROVE  /\ MaxCalls \in Nat /\ Ended \subseteq Ended'
         /\ calls' \in [Threads -> 0 .. MaxCalls]
         /\ \A t \in Threads : pc'[t] \in MayAdvance => calls'[t] >= 1
<1> USE PhaserAssumption DEF PhaserAssumption, PhaserIInv, PhasesPaid, PC,
        MayAdvance, Advancing
<1> DEFINE Kept == \A u \in Threads :
             \/ calls'[u] > calls[u]
             \/ calls'[u] = calls[u] /\ (pc'[u] \in MayAdvance => pc[u] \in MayAdvance)
           Goal == /\ Kept /\ calls' \in [Threads -> 0 .. MaxCalls]
                   /\ \A u \in Threads : pc'[u] \in MayAdvance => calls'[u] >= 1
<1>1. ASSUME UNCHANGED vars PROVE Goal
  BY <1>1 DEF vars, phaserVars
<1>2. ASSUME NEW t \in Threads, CvAlone(t) PROVE Goal
  BY <1>2 DEF CvAlone, phaserVars
<1>3. ASSUME NEW t \in Threads,
             \/ Register(t) \/ ArriveAndAwait(t) \/ ArriveAndDeregister(t) \/ Terminate(t)
      PROVE  Goal
  <2>1. /\ calls' = [calls EXCEPT ![t] = @ + 1] /\ calls[t] < MaxCalls
        /\ \E l \in PC : pc' = [pc EXCEPT ![t] = l]
    BY <1>3 DEF Register, ArriveAndAwait, ArriveAndDeregister, Terminate, Call, Goto
  <2> QED
    BY <2>1
<1>4. ASSUME NEW t \in Threads,
             \/ TakeMutex(t) \/ RegisterAdd(t) \/ DropMutex(t) \/ DeregisterAdd(t)
             \/ AdvanceLoad(t) \/ AdvanceCas(t) \/ NotifyAdvance(t) \/ WaitPhase(t)
      PROVE  Goal
  <2>1. /\ calls' = calls
        /\ \/ pc' = pc
           \/ \E l \in PC : /\ pc' = [pc EXCEPT ![t] = l]
                            /\ l \in MayAdvance => pc[t] \in MayAdvance
    BY <1>4 DEF TakeMutex, RegisterAdd, DropMutex, DeregisterAdd, AdvanceLoad,
       AdvanceCas, NotifyAdvance, WaitPhase, Goto
  <2> QED
    BY <2>1
<1>5. Goal
  <2> HIDE DEF Goal
  <2> QED
    BY <1>1, <1>2, <1>3, <1>4, Zenon DEF Next
<1>6. Ended \subseteq Ended'
  <2>1. calls \in [Threads -> Nat] /\ calls' \in [Threads -> Nat]
    BY <1>5
  <2> QED
    BY <1>5, <2>1, EndedStay
<1> QED
  BY <1>5, <1>6

(* A step whose call can end no phase afterwards leaves room for one more.   *)
LEMMA RoomForPhase ==
  ASSUME NoWrap, PhaserIInv, PhasesPaid, [Next]_vars, NEW c \in Ended', c \notin Ended
  PROVE  PhaseOf(state) + 1 < PhaseSize /\ PhaseOf(state) + 1 <= Cardinality(Ended')
<1>1. MaxCalls \in Nat /\ Ended \subseteq Ended'
  BY EndedStep
<1>2. Cardinality(Ended) + 1 <= Cardinality(Ended')
  BY <1>1, EndedGrow
<1>3. /\ Cardinality(Ended) \in Nat /\ Cardinality(Ended') \in Nat
      /\ Cardinality(Ended') <= Cardinality(Threads) * MaxCalls
  BY <1>1, EndedBounded
<1>4. PhaseOf(state) \in Nat /\ PhaseOf(state) <= Cardinality(Ended)
  BY FieldsTyped, Widths DEF PhasesPaid
<1>5. Cardinality(Threads) * MaxCalls \in Nat /\ PhaseSize \in Nat
  <2>1. Cardinality(Threads) \in Nat
    BY CondvarAssumption, FS_CardinalityType DEF CondvarAssumption
  <2> QED
    BY <1>1, <2>1, Widths
<1> DEFINE all == Cardinality(Threads) * MaxCalls
<1>6. all \in Nat /\ all < PhaseSize /\ Cardinality(Ended') <= all
  BY <1>3, <1>5 DEF NoWrap
<1> HIDE DEF all
<1> QED
  BY <1>2, <1>3, <1>4, <1>5, <1>6

LEMMA PhaseKept ==
  ASSUME PhaserIInv, PhasesPaid, [Next]_vars, PhaseOf(state') = PhaseOf(state)
  PROVE  PhaseOf(state') <= Cardinality(Ended')
<1>1. MaxCalls \in Nat /\ Ended \subseteq Ended'
  BY EndedStep
<1>2. /\ Cardinality(Ended) \in Nat /\ Cardinality(Ended') \in Nat
      /\ Cardinality(Ended) <= Cardinality(Ended')
  BY <1>1, EndedBounded, FS_Subset
<1>3. PhaseOf(state) \in Nat /\ PhaseOf(state) <= Cardinality(Ended)
  BY FieldsTyped, Widths DEF PhasesPaid
<1> QED
  BY <1>2, <1>3

(* Reading the members off the word.                                         *)
LEMMA MembersFit ==
  ASSUME PhaserIInv, Undisturbed, state \in Word
  PROVE  /\ Parties(state) = Cardinality(members)
         /\ Cardinality(members) \in 0 .. FieldSize - 1
         /\ IsFiniteSet(members) /\ IsFiniteSet(here)
         /\ Cardinality(here) \in Nat /\ Cardinality(here) <= Cardinality(members)
         /\ Cardinality(here) = Cardinality(members) => members = here
<1>1. Parties(state) = Cardinality(members) /\ Parties(state) \in 0 .. FieldSize - 1
  BY FieldsTyped DEF PhaserIInv, PartiesExact
<1>2. IsFiniteSet(members) /\ here \subseteq members
  BY MembersCounted DEF Undisturbed
<1>3. /\ IsFiniteSet(here) /\ Cardinality(here) <= Cardinality(members)
      /\ Cardinality(members) = Cardinality(here) => members = here
  BY <1>2, FS_Subset
<1> QED
  BY <1>1, <1>2, <1>3, FS_CardinalityType

-----------------------------------------------------------------------------
(* One lemma per kind of step: the invariant is kept, and the phase moves    *)
(* only as it may.                                                           *)
Kept == PhasesPaid' /\ Undisturbed' /\ AdvancesWithAll

LEMMA PaidStep ==
  ASSUME PhaserIInv, PhasesPaid, [Next]_vars,
         state' \in Word, PhaseOf(state') <= Cardinality(Ended'),
         PhaseOf(state) <= PhaseOf(state'),
         \A u \in Threads : phase'[u] \in {phase[u], PhaseOf(state)},
         \A u \in Threads : pc'[u] \in {"adv_cas", "dadv_cas"} => PhaseOf(cur'[u]) = phase'[u]
  PROVE  PhasesPaid'
<1>1. PhaseOf(state) \in Nat /\ PhaseOf(state') \in Nat
  BY FieldsTyped, Widths DEF PhasesPaid
<1>2. \A u \in Threads : phase'[u] <= PhaseOf(state')
  BY <1>1 DEF PhasesPaid, PhaserIInv
<1>3. /\ calls' \in [Threads -> 0 .. MaxCalls]
      /\ \A u \in Threads : pc'[u] \in MayAdvance => calls'[u] >= 1
  BY EndedStep
<1> QED
  BY <1>2, <1>3 DEF PhasesPaid

(* The word and the history stay, and nobody enters the advance loop.        *)
LEMMA QuietStep ==
  ASSUME PhaserIInv, PhasesPaid, Undisturbed, [Next]_vars,
         UNCHANGED <<state, phase, members, here, changed>>,
         \A u \in Threads :
           /\ pc'[u] \in Advancing => pc[u] \in Advancing
           /\ pc'[u] \in {"adv_cas", "dadv_cas"} => PhaseOf(cur'[u]) = phase[u]
           /\ pc[u] \in {"adv_load", "adv_cas", "lock", "loop"} =>
                \/ PhaseOf(state) # phase[u]
                \/ pc'[u] \in {"adv_load", "adv_cas", "lock", "loop"}
  PROVE  Kept
<1>1. PhasesPaid'
  <2>1. state' \in Word /\ PhaseOf(state') = PhaseOf(state) /\ PhaseOf(state) \in Nat
    BY FieldsTyped, Widths DEF PhasesPaid
  <2>2. PhaseOf(state') <= Cardinality(Ended')
    BY <2>1, PhaseKept
  <2> QED
    BY <2>1, <2>2, PaidStep
<1>2. Undisturbed'
  <2>1. Arrived(state') = Arrived(state) /\ PhaseOf(state') = PhaseOf(state)
    OBVIOUS
  <2>2. here \subseteq Threads
    BY DEF PhaserIInv, Undisturbed
  <2> QED
    BY <2>1, <2>2 DEF Undisturbed
<1>3. AdvancesWithAll
  BY DEF AdvancesWithAll
<1> QED
  BY <1>1, <1>2, <1>3 DEF Kept

LEMMA QuietActions ==
  ASSUME PhaserIInv, PhasesPaid, Undisturbed, [Next]_vars, NEW t \in Threads,
         \/ Register(t) \/ TakeMutex(t) \/ DropMutex(t) \/ ArriveAndDeregister(t)
         \/ NotifyAdvance(t) \/ WaitPhase(t) \/ AdvanceLoad(t) \/ CvAlone(t)
  PROVE  Kept
<1> DEFINE Stay == {"adv_load", "adv_cas", "lock", "loop"}
           Still == \A u \in Threads :
             /\ pc'[u] \in Advancing => pc[u] \in Advancing
             /\ pc'[u] \in {"adv_cas", "dadv_cas"} => PhaseOf(cur'[u]) = phase[u]
             /\ pc[u] \in Stay => PhaseOf(state) # phase[u] \/ pc'[u] \in Stay
<1> USE DEF PhaserIInv, PhasesPaid, Advancing, PC, Goto
<1>1. UNCHANGED <<state, phase, members, here, changed>>
  BY DEF Register, TakeMutex, DropMutex, ArriveAndDeregister, NotifyAdvance,
     WaitPhase, AdvanceLoad, CvAlone, phaserVars
<1>2. CASE Register(t) \/ ArriveAndDeregister(t)
  <2>1. cur' = cur /\ Still
    BY <1>2 DEF Register, ArriveAndDeregister, Call
  <2> QED
    BY <1>1, <2>1, QuietStep
<1>3. CASE TakeMutex(t) \/ DropMutex(t) \/ NotifyAdvance(t)
  <2>1. cur' = cur /\ Still
    BY <1>3 DEF TakeMutex, DropMutex, NotifyAdvance
  <2> QED
    BY <1>1, <2>1, QuietStep
<1>4. CASE WaitPhase(t)
  <2>1. cur' = cur /\ Still
    BY <1>4 DEF WaitPhase
  <2> QED
    BY <1>1, <2>1, QuietStep
<1>5. CASE AdvanceLoad(t)
  <2>1. Still
    BY <1>5 DEF AdvanceLoad
  <2> QED
    BY <1>1, <2>1, QuietStep
<1>6. CASE CvAlone(t)
  <2>1. Still
    BY <1>6 DEF CvAlone, phaserVars
  <2> QED
    BY <1>1, <2>1, QuietStep
<1> QED
  BY <1>2, <1>3, <1>4, <1>5, <1>6

LEMMA StutterKept ==
  ASSUME PhaserIInv, PhasesPaid, Undisturbed, UNCHANGED vars
  PROVE  Kept
<1>1. UNCHANGED <<state, pc, phase, cur, calls, members, here, changed>>
  BY DEF vars, phaserVars
<1>2. Ended' = Ended
  BY <1>1 DEF Ended
<1> QED
  BY <1>1, <1>2 DEF Kept, PhasesPaid, Undisturbed, AdvancesWithAll

LEMMA RegisterAddKept ==
  ASSUME PhaserIInv, PhasesPaid, Undisturbed, [Next]_vars, NEW t \in Threads, RegisterAdd(t)
  PROVE  Kept
<1>1. /\ state' = state + 1 /\ members' = members \cup {t} /\ changed' = TRUE
      /\ UNCHANGED <<phase, cur, here>>
      /\ t \in Threads \ members /\ pc' = [pc EXCEPT ![t] = "unlock"]
  BY DEF RegisterAdd, Goto, PhaserIInv
<1>2. state \in Word /\ Parties(state) + 1 < FieldSize
  BY <1>1, MembersCounted DEF PhasesPaid, PhaserIInv, PartiesExact
<1>3. state' \in Word /\ PhaseOf(state') = PhaseOf(state)
  BY <1>1, <1>2, PartyJoins
<1>4. PhasesPaid'
  <2>1. PhaseOf(state) \in Nat
    BY <1>2, FieldsTyped, Widths
  <2>2. \A u \in Threads :
          pc'[u] \in {"adv_cas", "dadv_cas"} => PhaseOf(cur'[u]) = phase'[u]
    BY <1>1 DEF PhasesPaid, PhaserIInv
  <2>3. PhaseOf(state) <= PhaseOf(state')
    BY <1>3, <2>1
  <2> QED
    BY <1>1, <1>3, <2>2, <2>3, PhaseKept, PaidStep
<1>5. Undisturbed'
  BY <1>1 DEF Undisturbed
<1> QED
  BY <1>3, <1>4, <1>5 DEF Kept, AdvancesWithAll

LEMMA TerminateKept ==
  ASSUME PhaserIInv, PhasesPaid, Undisturbed, [Next]_vars, NEW t \in Threads, Terminate(t)
  PROVE  Kept
<1>1. /\ state' = IF IsTerminated(state) THEN state ELSE state + TERMINATED_BIT
      /\ UNCHANGED <<phase, cur, here, members, changed>>
      /\ pc[t] = "idle" /\ pc' = [pc EXCEPT ![t] = "notify"]
  BY DEF Terminate, Goto, Call
<1>2. state \in Word
  BY DEF PhasesPaid
<1>3. state' \in Word /\ PhaseOf(state') = PhaseOf(state) /\ Arrived(state') = Arrived(state)
  BY <1>1, <1>2, BitIsSet
<1>4. PhasesPaid'
  <2>1. PhaseOf(state) \in Nat
    BY <1>2, FieldsTyped, Widths
  <2>2. \A u \in Threads :
          pc'[u] \in {"adv_cas", "dadv_cas"} => PhaseOf(cur'[u]) = phase'[u]
    BY <1>1 DEF PhasesPaid, PhaserIInv
  <2>3. PhaseOf(state) <= PhaseOf(state')
    BY <1>3, <2>1
  <2> QED
    BY <1>1, <1>3, <2>2, <2>3, PhaseKept, PaidStep
<1>5. Undisturbed'
  <2>1. here \subseteq Threads
    BY DEF PhaserIInv, Undisturbed
  <2> QED
    BY <1>1, <1>3, <2>1 DEF Undisturbed, Advancing, PhaserIInv
<1> QED
  BY <1>3, <1>4, <1>5 DEF Kept, AdvancesWithAll

(* The next phase is the one after, modulo a size that is not reached.       *)
LEMMA NextPhase ==
  ASSUME state \in Word, PhaseOf(state) + 1 < PhaseSize
  PROVE  /\ PhaseOf(state) \in Nat /\ PhaseOf(state) < PhaseOf(state) + 1
         /\ (PhaseOf(state) + 1) % PhaseSize = PhaseOf(state) + 1
<1>1. PhaseOf(state) \in 0 .. PhaseSize - 1 /\ PhaseSize \in Nat \ {0}
  BY FieldsTyped, Widths
<1> QED
  BY <1>1

(* arrive_and_await(): in an undisturbed phase the arrival is counted, the   *)
(* last one finds everybody here; in a disturbed one it may carry into the   *)
(* phase, and its own call then ends none.                                   *)
LEMMA ArriveKept ==
  ASSUME NoWrap, PhaserIInv, PhasesPaid, Undisturbed, [Next]_vars,
         NEW t \in Threads, ArriveAndAwait(t)
  PROVE  Kept
<1> DEFINE last == Arrived(state) + 1 = Parties(state)
<1>1. /\ state' = state + (ARRIVED_ONE - 0) /\ t \in members
      /\ UNCHANGED <<cur, members, changed>>
      /\ phase' = [phase EXCEPT ![t] = PhaseOf(state)]
      /\ here' = here \cup {t} /\ pc[t] = "idle"
      /\ pc' = [pc EXCEPT ![t] = IF last THEN "adv_load" ELSE "lock"]
      /\ calls[t] < MaxCalls /\ calls' = [calls EXCEPT ![t] = @ + 1]
  <2>1. state + ARRIVED_ONE = state + (ARRIVED_ONE - 0)
    BY Widths DEF ARRIVED_ONE, PhaserIInv
  <2> QED
    BY <2>1 DEF ArriveAndAwait, Call, Goto
<1> HIDE DEF last
<1>2. /\ state \in Word /\ Arrived(state) \in 0 .. FieldSize - 1
      /\ Parties(state) \in 0 .. FieldSize - 1 /\ PhaseOf(state) \in Nat
      /\ FieldSize \in Nat
  BY FieldsTyped, Widths DEF PhasesPaid
<1>3. \A u \in Threads :
        /\ phase'[u] \in {phase[u], PhaseOf(state)}
        /\ pc'[u] \in {"adv_cas", "dadv_cas"} => PhaseOf(cur'[u]) = phase'[u]
  BY <1>1 DEF PhasesPaid, PhaserIInv
<1>4. CASE Arrived(state) + 1 < FieldSize
  <2>1. /\ state' \in Word /\ PhaseOf(state') = PhaseOf(state)
        /\ Arrived(state') = Arrived(state) + 1
    BY <1>1, <1>2, <1>4, OneArrives
  <2>2. PhaseOf(state) <= PhaseOf(state')
    BY <1>2, <2>1
  <2>3. PhasesPaid'
    BY <1>3, <2>1, <2>2, PhaseKept, PaidStep
  <2>4. Undisturbed'
    <3>1. here' \subseteq members' /\ changed' \in BOOLEAN
      BY <1>1 DEF Undisturbed
    <3> SUFFICES ASSUME ~changed
                 PROVE  /\ Arrived(state') = Cardinality(here')
                        /\ \A u \in here' :
                             /\ phase'[u] = PhaseOf(state')
                             /\ pc'[u] \in {"adv_load", "adv_cas", "lock", "loop"}
                        /\ \A u \in Threads :
                             pc'[u] \in Advancing /\ phase'[u] = PhaseOf(state')
                               => members' \subseteq here'
      BY <1>1, <3>1 DEF Undisturbed
    <3>2. t \notin here /\ here \subseteq Threads
      BY <1>1 DEF Undisturbed, PhaserIInv
    <3>3. /\ Cardinality(here') = Cardinality(here) + 1
          /\ Arrived(state) = Cardinality(here) /\ IsFiniteSet(here')
      BY <1>1, <1>2, <3>2, MembersFit, FS_AddElement DEF Undisturbed
    <3>4. \A u \in here' : /\ phase'[u] = PhaseOf(state')
                           /\ pc'[u] \in {"adv_load", "adv_cas", "lock", "loop"}
      BY <1>1, <2>1, <3>2 DEF Undisturbed, PhaserIInv
    <3>5. ASSUME last PROVE members \subseteq here'
      <4>1. Cardinality(here') = Cardinality(members)
        BY <1>2, <3>3, <3>5, MembersFit DEF last
      <4>2. here' \subseteq members /\ IsFiniteSet(members)
        BY <1>1, <1>2, <3>1, MembersFit
      <4> QED
        BY <4>1, <4>2, FS_Subset
    <3>6. \A u \in Threads : pc'[u] \in Advancing /\ phase'[u] = PhaseOf(state')
                               => members' \subseteq here'
      BY <1>1, <2>1, <3>5 DEF Undisturbed, PhaserIInv, Advancing
    <3> QED
      BY <2>1, <3>3, <3>4, <3>6
  <2> QED
    BY <2>1, <2>3, <2>4 DEF Kept, AdvancesWithAll
<1>5. CASE Arrived(state) + 1 >= FieldSize
  <2>1. ~last
    BY <1>2, <1>5 DEF last
  <2>2. changed
    <3> SUFFICES ASSUME ~changed PROVE FALSE
      OBVIOUS
    <3>1. t \notin here /\ Arrived(state) = Cardinality(here)
      BY <1>1 DEF Undisturbed
    <3>2. Cardinality(here) # Cardinality(members)
      BY <1>1, <1>2, <3>1, MembersFit
    <3> QED
      BY <1>2, <1>5, <3>1, <3>2, MembersFit
  <2> DEFINE c == <<t, calls[t] + 1>>
  <2>3. c \in Ended' /\ c \notin Ended
    <3>1. calls[t] \in 0 .. MaxCalls /\ MaxCalls \in Nat
      BY PhaserAssumption DEF PhasesPaid, PhaserAssumption
    <3>2. c \in CallNames /\ c[1] = t /\ c[2] = calls[t] + 1
      BY <1>1, <3>1 DEF CallNames
    <3>3. calls'[t] = calls[t] + 1 /\ pc'[t] = "lock"
      BY <1>1, <2>1 DEF PhasesPaid, PhaserIInv
    <3> HIDE DEF c
    <3>4. c \in Ended'
      BY <3>1, <3>2, <3>3 DEF Ended, MayAdvance, Advancing
    <3>5. c \notin Ended
      BY <3>1, <3>2 DEF Ended
    <3> QED
      BY <3>4, <3>5
  <2> HIDE DEF c
  <2>4. PhaseOf(state) + 1 < PhaseSize /\ PhaseOf(state) + 1 <= Cardinality(Ended')
    BY <2>3, RoomForPhase
  <2>5. state' \in Word /\ PhaseOf(state') = PhaseOf(state) + 1
    BY <1>1, <1>2, <1>5, <2>4, OneArrives
  <2>6. /\ PhaseOf(state) <= PhaseOf(state')
        /\ PhaseOf(state') <= Cardinality(Ended')
        /\ PhaseOf(state') = (PhaseOf(state) + 1) % PhaseSize
    BY <1>2, <2>4, <2>5, NextPhase
  <2>7. PhasesPaid'
    BY <1>3, <2>5, <2>6, PaidStep
  <2>8. Undisturbed'
    BY <1>1, <2>2 DEF Undisturbed
  <2> QED
    BY <2>2, <2>6, <2>7, <2>8 DEF Kept, AdvancesWithAll
<1> QED
  BY <1>2, <1>4, <1>5

(* The call of a thread that leaves the advance loop, or deregisters without *)
(* entering it, can end a phase no more.                                     *)
LEMMA CallEnds ==
  ASSUME PhasesPaid, PhaserIInv, NEW t \in Threads,
         pc[t] \in MayAdvance, calls' = calls, pc'[t] \notin MayAdvance
  PROVE  <<t, calls[t]>> \in Ended' /\ <<t, calls[t]>> \notin Ended
<1> DEFINE c == <<t, calls[t]>>
<1>1. calls[t] \in 1 .. MaxCalls
  BY PhaserAssumption DEF PhasesPaid, PhaserAssumption
<1>2. c \in CallNames /\ c[1] = t /\ c[2] = calls[t]
  BY <1>1 DEF CallNames
<1> HIDE DEF c
<1>3. c \in Ended' /\ c \notin Ended
  BY <1>1, <1>2 DEF Ended
<1> QED
  BY <1>3 DEF c

LEMMA DeregisterKept ==
  ASSUME NoWrap, PhaserIInv, PhasesPaid, Undisturbed, [Next]_vars,
         NEW t \in Threads, DeregisterAdd(t)
  PROVE  Kept
<1> DEFINE last == Arrived(state) + 1 = Parties(state)
<1>1. /\ state' = state + (ARRIVED_ONE - 1) /\ t \in members
      /\ UNCHANGED <<cur, calls>> /\ changed' = TRUE
      /\ phase' = [phase EXCEPT ![t] = PhaseOf(state)]
      /\ members' = members \ {t} /\ here' = here \ {t} /\ pc[t] = "dereg_add"
      /\ pc' = [pc EXCEPT ![t] = IF last THEN "dadv_load" ELSE "unlock"]
  BY DEF DeregisterAdd, Goto, PhaserIInv
<1> HIDE DEF last
<1>2. /\ state \in Word /\ Arrived(state) \in 0 .. FieldSize - 1
      /\ Parties(state) \in 0 .. FieldSize - 1 /\ PhaseOf(state) \in Nat
      /\ FieldSize \in Nat /\ Parties(state) >= 1
  <2>1. Parties(state) = Cardinality(members) /\ Cardinality(members) > 0
    BY <1>1, MembersCounted DEF PhaserIInv, PartiesExact
  <2>2. /\ state \in Word /\ Arrived(state) \in 0 .. FieldSize - 1
        /\ Parties(state) \in 0 .. FieldSize - 1 /\ PhaseOf(state) \in Nat
        /\ FieldSize \in Nat
    BY FieldsTyped, Widths DEF PhasesPaid
  <2> QED
    BY <2>1, <2>2
<1>3. \A u \in Threads :
        /\ phase'[u] \in {phase[u], PhaseOf(state)}
        /\ pc'[u] \in {"adv_cas", "dadv_cas"} => PhaseOf(cur'[u]) = phase'[u]
  BY <1>1 DEF PhasesPaid, PhaserIInv
<1>4. Undisturbed'
  BY <1>1 DEF Undisturbed
<1>5. CASE Arrived(state) + 1 < FieldSize
  <2>1. state' \in Word /\ PhaseOf(state') = PhaseOf(state)
    BY <1>1, <1>2, <1>5, OneArrives
  <2>2. PhaseOf(state) <= PhaseOf(state')
    BY <1>2, <2>1
  <2>3. PhasesPaid'
    BY <1>3, <2>1, <2>2, PhaseKept, PaidStep
  <2> QED
    BY <1>4, <2>1, <2>3 DEF Kept, AdvancesWithAll
<1>6. CASE Arrived(state) + 1 >= FieldSize
  <2>1. pc'[t] = "unlock"
    BY <1>1, <1>2, <1>6 DEF last, PhaserIInv
  <2>2. <<t, calls[t]>> \in Ended' /\ <<t, calls[t]>> \notin Ended
    BY <1>1, <2>1, CallEnds DEF MayAdvance, Advancing
  <2>3. PhaseOf(state) + 1 < PhaseSize /\ PhaseOf(state) + 1 <= Cardinality(Ended')
    BY <2>2, RoomForPhase
  <2>4. state' \in Word /\ PhaseOf(state') = PhaseOf(state) + 1
    BY <1>1, <1>2, <1>6, <2>3, OneArrives
  <2>5. /\ PhaseOf(state) <= PhaseOf(state')
        /\ PhaseOf(state') <= Cardinality(Ended')
        /\ PhaseOf(state') = (PhaseOf(state) + 1) % PhaseSize
    BY <1>2, <2>3, <2>4, NextPhase
  <2>6. PhasesPaid'
    BY <1>3, <2>4, <2>5, PaidStep
  <2>7. ~changed => members \subseteq here
    <3> SUFFICES ASSUME ~changed PROVE members \subseteq here
      OBVIOUS
    <3>1. Arrived(state) = Cardinality(here)
      BY DEF Undisturbed
    <3> QED
      BY <1>2, <1>6, <3>1, MembersFit
  <2> QED
    BY <1>4, <2>5, <2>6, <2>7 DEF Kept, AdvancesWithAll
<1> QED
  BY <1>2, <1>5, <1>6

(* The exchange.  It succeeds on a word of the phase the thread arrived in,  *)
(* and nobody can have arrived in the phase it starts.                       *)
LEMMA AdvanceKept ==
  ASSUME NoWrap, PhaserIInv, PhasesPaid, Undisturbed, [Next]_vars,
         NEW t \in Threads, AdvanceCas(t)
  PROVE  Kept
<1>1. CASE state # cur[t]
  <2>1. UNCHANGED <<state, phase, members, here, changed, cur>>
    BY <1>1 DEF AdvanceCas
  <2>2. \/ pc[t] = "adv_cas" /\ pc' = [pc EXCEPT ![t] = "adv_load"]
        \/ pc[t] = "dadv_cas" /\ pc' = [pc EXCEPT ![t] = "dadv_load"]
    BY <1>1 DEF AdvanceCas, Goto
  <2>3. \A u \in Threads :
          /\ pc'[u] \in Advancing => pc[u] \in Advancing
          /\ pc'[u] \in {"adv_cas", "dadv_cas"} => PhaseOf(cur'[u]) = phase[u]
          /\ pc[u] \in {"adv_load", "adv_cas", "lock", "loop"} =>
               \/ PhaseOf(state) # phase[u]
               \/ pc'[u] \in {"adv_load", "adv_cas", "lock", "loop"}
    BY <2>1, <2>2 DEF Advancing, PhaserIInv, PhasesPaid
  <2> QED
    BY <2>1, <2>3, QuietStep
<1>2. CASE state = cur[t]
  <2>1. /\ state' = Advanced(state, phase[t])
        /\ here' = {} /\ changed' = FALSE /\ UNCHANGED <<phase, cur, calls, members>>
    BY <1>2 DEF AdvanceCas
  <2>2. \/ pc[t] = "adv_cas" /\ pc' = [pc EXCEPT ![t] = "notify"]
        \/ pc[t] = "dadv_cas" /\ pc' = [pc EXCEPT ![t] = "dnotify"]
    BY <1>2 DEF AdvanceCas, Goto
  <2>3. PhaseOf(state) = phase[t] /\ state \in Word
    BY <1>2, <2>2 DEF PhasesPaid
  <2>4. <<t, calls[t]>> \in Ended' /\ <<t, calls[t]>> \notin Ended
    <3>1. pc[t] \in MayAdvance /\ pc'[t] \notin MayAdvance
      BY <2>2 DEF MayAdvance, Advancing, PhaserIInv
    <3> QED
      BY <2>1, <3>1, CallEnds
  <2>5. PhaseOf(state) + 1 < PhaseSize /\ PhaseOf(state) + 1 <= Cardinality(Ended')
    BY <2>4, RoomForPhase
  <2>6. state' \in Word /\ PhaseOf(state') = PhaseOf(state) + 1 /\ Arrived(state') = 0
    BY <2>1, <2>3, <2>5, PhaseAdvances
  <2>7. /\ PhaseOf(state) \in Nat /\ PhaseOf(state) < PhaseOf(state')
        /\ PhaseOf(state) <= PhaseOf(state')
        /\ PhaseOf(state') <= Cardinality(Ended')
        /\ PhaseOf(state') = (PhaseOf(state) + 1) % PhaseSize
    BY <2>3, <2>5, <2>6, NextPhase
  <2>8. PhasesPaid'
    <3>1. \A u \in Threads :
            /\ phase'[u] \in {phase[u], PhaseOf(state)}
            /\ pc'[u] \in {"adv_cas", "dadv_cas"} => PhaseOf(cur'[u]) = phase'[u]
      BY <2>1, <2>2 DEF PhasesPaid, PhaserIInv
    <3> QED
      BY <2>6, <2>7, <3>1, PaidStep
  <2>9. Undisturbed'
    <3>1. \A u \in Threads : phase'[u] # PhaseOf(state')
      BY <2>1, <2>7 DEF PhasesPaid, PhaserIInv
    <3>2. Arrived(state') = Cardinality(here')
      BY <2>1, <2>6, FS_EmptySet
    <3> QED
      BY <2>1, <3>1, <3>2 DEF Undisturbed
  <2>10. ~changed => members \subseteq here
    BY <2>2, <2>3 DEF Undisturbed, Advancing
  <2> QED
    BY <2>7, <2>8, <2>9, <2>10 DEF Kept, AdvancesWithAll
<1> QED
  BY <1>1, <1>2

LEMMA PhaseNextIInv ==
  ASSUME NoWrap, PhaseIInv, [Next]_vars
  PROVE  PhaseIInv' /\ [AdvancesWithAll]_vars
<1>1. PhaserIInv /\ PhasesPaid /\ Undisturbed /\ Waiting
  BY DEF PhaseIInv
<1>2. Kept
  BY <1>1, StutterKept, QuietActions, RegisterAddKept, TerminateKept, ArriveKept,
     DeregisterKept, AdvanceKept, Zenon DEF Next
<1>3. PhaserIInv' /\ Waiting'
  BY <1>1, PhaserNextIInv, WaitingStays
<1> QED
  BY <1>2, <1>3 DEF PhaseIInv, Kept

LEMMA PhaseInitIInv ==
  ASSUME Init
  PROVE  PhaseIInv
<1>1. PhaserIInv
  BY PhaserInitIInv
<1>2. /\ state = Cardinality(Members0) /\ members = Members0 /\ here = {}
      /\ pc = [u \in Threads |-> "idle"] /\ phase = [u \in Threads |-> 0]
      /\ calls = [u \in Threads |-> 0] /\ changed = FALSE
  BY DEF Init
<1>3. state \in 0 .. FieldSize - 1
  <2>1. state \in Nat /\ FieldSize \in Nat \ {0} /\ members \subseteq Threads
    BY <1>1, Widths DEF PhaserIInv
  <2>2. Cardinality(members) <= Cardinality(Threads) /\ Cardinality(Threads) \in Nat
    BY <2>1, CondvarAssumption, FS_Subset, FS_CardinalityType DEF CondvarAssumption
  <2> QED
    BY <1>2, <2>1, <2>2, PhaserAssumption DEF PhaserAssumption
<1>4. state \in Word /\ PhaseOf(state) = 0 /\ Arrived(state) = 0
  <2>1. Fields(0, 0, 0, state)
    BY <1>3, Widths DEF Fields
  <2>2. Packed(0, 0, 0, state) = state
    BY <1>3, Widths DEF Packed
  <2> QED
    BY <2>1, <2>2, FieldsRead
<1>5. PhasesPaid
  <2>1. MaxCalls \in Nat
    BY PhaserAssumption DEF PhaserAssumption
  <2>2. Cardinality(Ended) \in Nat
    BY <2>1, EndedBounded
  <2> QED
    BY <1>2, <1>4, <2>1, <2>2 DEF PhasesPaid, MayAdvance, Advancing
<1>6. Undisturbed
  BY <1>2, <1>4, FS_EmptySet DEF Undisturbed, Advancing
<1>7. Waiting
  <2>1. Registered = {}
    BY DEF Init, CvInit, Registered
  <2>2. CvTypeOK
    BY DEF Init, CvInit, CvTypeOK, CV, RET, Lk!Init
  <2> QED
    BY <2>1, <2>2, FS_EmptySet DEF Waiting, Init, CvInit
<1> QED
  BY <1>1, <1>5, <1>6, <1>7 DEF PhaseIInv

LEMMA PhaseTypeOK ==
  ASSUME PhaseIInv
  PROVE  TypeOK
<1>1. phase \in [Threads -> 0 .. PhaseSize - 1]
  <2>1. PhaseOf(state) \in 0 .. PhaseSize - 1 /\ PhaseSize \in Nat
    BY FieldsTyped, Widths DEF PhaseIInv, PhasesPaid
  <2>2. phase \in [Threads -> Nat] /\ \A t \in Threads : phase[t] <= PhaseOf(state)
    BY DEF PhaseIInv, PhasesPaid, PhaserIInv
  <2> QED
    BY <2>1, <2>2
<1>2. state \in 0 .. 2 * TERMINATED_BIT - 1
  BY DEF PhaseIInv, PhasesPaid, Word
<1> QED
  BY <1>1, <1>2 DEF TypeOK, PhaseIInv, PhaserIInv, PhasesPaid, Undisturbed, Waiting

(* The steps of the two components: the phaser takes its own or none.        *)
LEMMA WordsRefinePhaser ==
  WordsSpec => Spec
<1>1. WordsInit => Init
  BY DEF WordsInit
<1>2. [WordsNext]_<<client, atomVars, vars>> => [Next]_vars
  BY DEF WordsNext
<1> QED
  BY <1>1, <1>2, PTL DEF WordsSpec, Spec

(* A phase in which no party comes or goes ends only when every registered   *)
(* thread has arrived in it, and then by one; the fields of the word stay    *)
(* within their bits and a terminated phaser stays so.  For any threads,     *)
(* widths and calls, provided the calls are fewer than the phases, 2^30 in   *)
(* the code: an arrival that stalls for all of them could exchange a word    *)
(* that looks like the one it loaded.                                        *)
THEOREM PhaserAdvanceNeedsAll ==
  ASSUME NoWrap
  PROVE  WordsSpec => AdvanceNeedsAll
<1>1. Init => PhaseIInv
  BY PhaseInitIInv
<1>2. PhaseIInv /\ [Next]_vars => PhaseIInv' /\ [AdvancesWithAll]_vars
  BY NoWrap, PhaseNextIInv
<1>3. PhaseIInv => TypeOK
  BY PhaseTypeOK
<1>4. [StaysTerminated]_vars /\ [AdvancesWithAll]_vars
        => [StaysTerminated /\ AdvancesWithAll]_vars
  OBVIOUS
<1> QED
  BY <1>1, <1>2, <1>3, <1>4, PhaserStaysTerminated, WordsRefinePhaser, PTL
  DEF Spec, AdvanceNeedsAll
=============================================================================
