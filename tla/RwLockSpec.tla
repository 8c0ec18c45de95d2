----------------------------- MODULE RwLockSpec -----------------------------
(***************************************************************************)
(* What a reader-writer lock promises its callers: readers come in while   *)
(* nobody writes, a writer comes in when nobody is inside, and everybody   *)
(* leaves by a step of its own.  RwLock is shown to implement it.          *)
(***************************************************************************)
CONSTANT Threads

VARIABLES readers, writers   \* the threads with a guard of each kind

Init == readers = {} /\ writers = {}

AcquireRead(t) ==
  /\ writers = {} /\ t \notin readers
  /\ readers' = readers \cup {t} /\ writers' = writers

AcquireWrite(t) ==
  /\ readers = {} /\ writers = {}
  /\ writers' = {t} /\ readers' = readers

ReleaseRead(t) ==
  /\ t \in readers
  /\ readers' = readers \ {t} /\ writers' = writers

ReleaseWrite(t) ==
  /\ writers = {t}
  /\ writers' = {} /\ readers' = readers

Next == \E t \in Threads : \/ AcquireRead(t) \/ AcquireWrite(t)
                           \/ ReleaseRead(t) \/ ReleaseWrite(t)

Spec == Init /\ [][Next]_<<readers, writers>>
=============================================================================
