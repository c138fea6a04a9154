----------------------- MODULE ConferenceLoaderProofs -----------------------
(***************************************************************************)
(* For any number of instances, conferences, routines and failures: the    *)
(* lock a routine finds is never one from before it began, and no lock is  *)
(* left behind while nothing fails.                                        *)
(***************************************************************************)
EXTENDS ConferenceLoader, TLAPS

LoaderInv == TypeOK /\ LockFoundIsAnothers /\ NoLockIsLeft

\* A step that counts a failure counts at least one.
LEMMA FaultCounts ==
  ASSUME TypeOK, NEW kind, Fault(kind)
  PROVE  faults' \in Nat /\ faults' > 0 /\ disturbed' \subseteq Instances
<1>1. faults \in Nat /\ faults' = faults + 1 /\ disturbed' = Instances
  BY DEF TypeOK, Fault
<1>2. faults' \in Nat /\ faults' > 0
  BY <1>1
<1>3. disturbed' \subseteq Instances
  BY <1>1
<1>4. QED
  BY <1>2, <1>3

\* Nothing is held when no routine has begun.
THEOREM LoaderInit == Init => LoaderInv
<1> SUFFICES ASSUME Init PROVE LoaderInv
  OBVIOUS
<1>1. TypeOK
  BY DEF Init, TypeOK, Steps
<1>2. LockFoundIsAnothers /\ NoLockIsLeft
  BY DEF Init, LockFoundIsAnothers, NoLockIsLeft
<1>3. QED
  BY <1>1, <1>2 DEF LoaderInv

\* A routine that begins is not yet looking for the lock.
LEMMA BeginStep ==
  ASSUME LoaderInv, NEW i \in Instances, Begin(i)
  PROVE  LoaderInv'
BY DEF LoaderInv, TypeOK, LockFoundIsAnothers, NoLockIsLeft, Loading, Begin, GoTo, Steps

\* Each step of the routine keeps the invariant: taking the lock is noted for
\* all who are about to read it, and removing it leaves none.
LEMMA RoutineStep ==
  ASSUME LoaderInv, NEW i \in Instances, Routine(i)
  PROVE  LoaderInv'
<1> USE FaultCounts DEF LoaderInv, NoFault
<1>1. CASE ReleaseLock(i)
  <2>1. TypeOK'
    BY <1>1 DEF TypeOK, ReleaseLock, GoTo, Steps
  <2>2. LockFoundIsAnothers'
    BY <1>1 DEF TypeOK, LockFoundIsAnothers, ReleaseLock, GoTo
  <2>3. NoLockIsLeft'
    BY <1>1 DEF TypeOK, NoLockIsLeft, Loading, ReleaseLock, GoTo
  <2>4. QED
    BY <2>1, <2>2, <2>3
<1>2. CASE ReadLock(i)
  <2>1. TypeOK'
    BY <1>2 DEF TypeOK, ReadLock, GoTo, Steps
  <2>2. LockFoundIsAnothers'
    BY <1>2 DEF TypeOK, LockFoundIsAnothers, ReadLock, GoTo
  <2>3. NoLockIsLeft'
    BY <1>2 DEF TypeOK, NoLockIsLeft, Loading, ReadLock, GoTo
  <2>4. QED
    BY <2>1, <2>2, <2>3
<1>3. CASE WriteLock(i)
  <2>1. TypeOK'
    BY <1>3 DEF TypeOK, WriteLock, GoTo, Steps
  <2>2. LockFoundIsAnothers'
    BY <1>3 DEF TypeOK, LockFoundIsAnothers, WriteLock, GoTo
  <2>3. NoLockIsLeft'
    BY <1>3 DEF TypeOK, NoLockIsLeft, Loading, WriteLock, GoTo
  <2>4. QED
    BY <2>1, <2>2, <2>3
<1>4. CASE QueryToday(i)
  <2>1. TypeOK'
    BY <1>4 DEF TypeOK, QueryToday, GoTo, Steps, historyVars
  <2>2. LockFoundIsAnothers' /\ NoLockIsLeft'
    BY <1>4 DEF TypeOK, LockFoundIsAnothers, NoLockIsLeft, Loading, QueryToday, GoTo, historyVars
  <2>3. QED
    BY <2>1, <2>2
<1>5. CASE AddConference(i)
  <2>1. TypeOK'
    BY <1>5 DEF TypeOK, AddConference, GoTo, Steps
  <2>2. LockFoundIsAnothers' /\ NoLockIsLeft'
    BY <1>5 DEF TypeOK, LockFoundIsAnothers, NoLockIsLeft, Loading, AddConference, GoTo
  <2>3. QED
    BY <2>1, <2>2
<1>6. CASE LoadFails(i)
  BY <1>6 DEF TypeOK, LockFoundIsAnothers, NoLockIsLeft, LoadFails, GoTo, Steps
<1>7. CASE Finally(i)
  <2>1. TypeOK'
    BY <1>7 DEF TypeOK, Finally, GoTo, Steps
  <2>2. LockFoundIsAnothers'
    BY <1>7 DEF TypeOK, LockFoundIsAnothers, Finally, GoTo
  <2>3. NoLockIsLeft'
    BY <1>7 DEF TypeOK, NoLockIsLeft, Finally
  <2>4. QED
    BY <2>1, <2>2, <2>3
<1>8. QED
  BY <1>1, <1>2, <1>3, <1>4, <1>5, <1>6, <1>7 DEF Routine

\* A crash, or a lock that expires, counts as a failure.
LEMMA AccidentStep ==
  ASSUME LoaderInv, (\E i \in Instances : Crash(i)) \/ Expire
  PROVE  LoaderInv'
<1> USE FaultCounts DEF LoaderInv, TypeOK, LockFoundIsAnothers, NoLockIsLeft
<1>1. ASSUME NEW i \in Instances, Crash(i) PROVE LoaderInv'
  BY <1>1 DEF Crash, GoTo, Steps
<1>2. CASE Expire
  BY <1>2 DEF Expire
<1>3. QED
  BY <1>1, <1>2

\* Every step keeps the invariant.
THEOREM LoaderNext == LoaderInv /\ [Next]_vars => LoaderInv'
<1> SUFFICES ASSUME LoaderInv, [Next]_vars PROVE LoaderInv'
  OBVIOUS
<1>1. CASE Next
  BY <1>1, BeginStep, RoutineStep, AccidentStep DEF Next
<1>2. CASE UNCHANGED vars
  BY <1>2 DEF vars, historyVars, LoaderInv, TypeOK, LockFoundIsAnothers, NoLockIsLeft, Loading
<1>3. QED
  BY <1>1, <1>2

\* The invariant holds in every behaviour, however routines interleave and
\* whatever fails.
THEOREM LoaderCorrect == Spec => []LoaderInv
BY LoaderInit, LoaderNext, PTL DEF Spec

\* Whoever leaves the load to another has found a lock that was taken after its
\* own routine removed the lock, or could not remove it: an instance that
\* crashed on an earlier day stops nobody.
THEOREM OnlyANewLockStops == Spec => []LockFoundIsAnothers
<1>1. LoaderInv => LockFoundIsAnothers
  BY DEF LoaderInv
<1>2. QED
  BY <1>1, LoaderCorrect, PTL

\* While nothing fails, a lock that is taken belongs to a routine that is
\* loading or about to remove it, though not always to the one that took it.
THEOREM LocksAreRemoved == Spec => []NoLockIsLeft
<1>1. LoaderInv => NoLockIsLeft
  BY DEF LoaderInv
<1>2. QED
  BY <1>1, LoaderCorrect, PTL
=============================================================================
