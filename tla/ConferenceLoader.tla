-------------------------- MODULE ConferenceLoader --------------------------
(***************************************************************************)
(* The daily routine that fills the cache with the conferences of the day. *)
(* Every instance of the web app runs it at the same hour; a lock in the   *)
(* Redis cache is to keep all but one from loading.  The lock is an entry  *)
(* that is read and then written, expires, and fails silently, and the     *)
(* routine removes it before it takes it, so that one left by an instance  *)
(* that crashed does not stop the next day's load.                         *)
(***************************************************************************)
EXTENDS Naturals, FiniteSets

CONSTANTS
  Instances,
  Conferences,     \* the conferences of the day
  Failures,        \* what may fail, a subset of FailureKinds
  MaxRuns,         \* bound on the routines started in a behaviour
  MaxFaults        \* bound on the failures in a behaviour

FailureKinds == {"Read", "Write", "Remove", "Expiry", "Api", "Crash"}

ASSUME ConferenceLoaderAssumption ==
  /\ Failures \subseteq FailureKinds
  /\ MaxRuns \in Nat /\ MaxFaults \in Nat

VARIABLES
  pc,         \* pc[i]: the next await of instance i
  lock,       \* the entry conference_data_loader_lock holds "locked"
  left,       \* left[i]: the conferences i has still to add to the cache
  runs,       \* routines started so far (bounded by MaxRuns)
  faults,     \* failures so far (bounded by MaxFaults)
  maybeHeld,  \* history: instances whose lock another may have taken since
              \* they removed it, or who could not remove it
  served,     \* history: since their routine began, a load has been completed
  disturbed   \* history: since their routine began, something has failed

historyVars == <<maybeHeld, served, disturbed>>
vars == <<pc, lock, left, runs, faults, historyVars>>

Steps == {"waiting", "release", "read", "write", "query", "add", "finally"}

Loading(i) == pc[i] \in {"query", "add"}

\* A failure is one to every routine in progress.
Fault(kind) ==
  /\ kind \in Failures
  /\ faults < MaxFaults
  /\ faults' = faults + 1
  /\ disturbed' = Instances

NoFault == UNCHANGED <<faults, disturbed>>

GoTo(i, step) == pc' = [pc EXCEPT ![i] = step]

-----------------------------------------------------------------------------
(***************************************************************************)
(* LoadDailyConferencesRoutine                                             *)
(***************************************************************************)
Begin(i) ==
  /\ pc[i] = "waiting"
  /\ runs < MaxRuns
  /\ runs' = runs + 1
  /\ GoTo(i, "release")
  /\ served' = served \ {i}
  /\ disturbed' = disturbed \ {i}
  /\ UNCHANGED <<lock, left, faults, maybeHeld>>

\* Mutant: the routine does not remove the lock first.
KeepLock(i) ==
  /\ pc[i] = "release"
  /\ GoTo(i, "read")
  /\ maybeHeld' = maybeHeld \ {i}
  /\ UNCHANGED <<lock, left, runs, faults, served, disturbed>>

ReleaseLock(i) ==
  /\ pc[i] = "release"
  /\ GoTo(i, "read")
  /\ \/ /\ lock' = FALSE
        /\ maybeHeld' = maybeHeld \ {i}
        /\ NoFault
     \/ /\ Fault("Remove")
        /\ maybeHeld' = maybeHeld \cup {i}
        /\ UNCHANGED lock
  /\ UNCHANGED <<left, runs, served>>

\* AcquireLockAsync, first half: a failed read finds no lock.
ReadLock(i) ==
  /\ pc[i] = "read"
  /\ \/ /\ GoTo(i, IF lock THEN "waiting" ELSE "write")
        /\ NoFault
     \/ /\ Fault("Read")
        /\ GoTo(i, "write")
  /\ UNCHANGED <<lock, left, runs, maybeHeld, served>>

\* AcquireLockAsync, second half.
WriteLock(i) ==
  /\ pc[i] = "write"
  /\ GoTo(i, "query")
  /\ \/ /\ lock' = TRUE
        /\ maybeHeld' = maybeHeld \cup {j \in Instances : pc[j] = "read"}
        /\ NoFault
     \/ /\ Fault("Write")
        /\ UNCHANGED <<lock, maybeHeld>>
  /\ UNCHANGED <<left, runs, served>>

(***************************************************************************)
(* PopulateConferenceCacheForToday asks for the hearings and conferences   *)
(* of the day and adds one after the other; that the cache has not taken   *)
(* one is not noticed.                                                     *)
(***************************************************************************)
QueryToday(i) ==
  /\ pc[i] = "query"
  /\ GoTo(i, "add")
  /\ left' = [left EXCEPT ![i] = Conferences]
  /\ UNCHANGED <<lock, runs, faults, historyVars>>

AddConference(i) ==
  /\ pc[i] = "add"
  /\ \/ /\ \E c \in left[i] : left' = [left EXCEPT ![i] = @ \ {c}]
        /\ NoFault \/ Fault("Write")
        /\ UNCHANGED <<pc, served>>
     \/ /\ left[i] = {}
        /\ GoTo(i, "finally")
        /\ served' = Instances
        /\ NoFault
        /\ UNCHANGED left
  /\ UNCHANGED <<lock, runs, maybeHeld>>

\* A call to the Booking API or the Video API fails, or an answer cannot be
\* mapped: the exception passes through the finally block.
LoadFails(i) ==
  /\ Loading(i)
  /\ Fault("Api")
  /\ GoTo(i, "finally")
  /\ UNCHANGED <<lock, left, runs, maybeHeld, served>>

\* Mutant: the lock is left to expire.
FinallyKeepLock(i) ==
  /\ pc[i] = "finally"
  /\ GoTo(i, "waiting")
  /\ UNCHANGED <<lock, left, runs, faults, historyVars>>

\* The finally block removes whatever lock there is.
Finally(i) ==
  /\ pc[i] = "finally"
  /\ GoTo(i, "waiting")
  /\ \/ /\ lock' = FALSE
        /\ NoFault
     \/ /\ Fault("Remove")
        /\ UNCHANGED lock
  /\ UNCHANGED <<left, runs, maybeHeld, served>>

\* The instance is stopped and started again; no finally block runs.
Crash(i) ==
  /\ pc[i] # "waiting"
  /\ Fault("Crash")
  /\ GoTo(i, "waiting")
  /\ UNCHANGED <<lock, left, runs, maybeHeld, served>>

Expire ==
  /\ lock
  /\ Fault("Expiry")
  /\ lock' = FALSE
  /\ UNCHANGED <<pc, left, runs, maybeHeld, served>>

Routine(i) ==
  \/ ReleaseLock(i) \/ ReadLock(i) \/ WriteLock(i) \/ QueryToday(i)
  \/ AddConference(i) \/ LoadFails(i) \/ Finally(i)

Init ==
  /\ pc = [i \in Instances |-> "waiting"]
  /\ lock = FALSE
  /\ left = [i \in Instances |-> {}]
  /\ runs = 0
  /\ faults = 0
  /\ maybeHeld = {}
  /\ served = {}
  /\ disturbed = {}

Next ==
  \/ \E i \in Instances : Begin(i) \/ Routine(i) \/ Crash(i)
  \/ Expire

Spec == Init /\ [][Next]_vars
FairSpec == Spec /\ \A i \in Instances : WF_vars(Routine(i))

-----------------------------------------------------------------------------
(***************************************************************************)
(* Properties.                                                             *)
(***************************************************************************)
TypeOK ==
  /\ pc \in [Instances -> Steps]
  /\ lock \in BOOLEAN
  /\ left \in [Instances -> SUBSET Conferences]
  /\ runs \in Nat /\ faults \in Nat
  /\ maybeHeld \subseteq Instances
  /\ served \subseteq Instances
  /\ disturbed \subseteq Instances

\* Whoever finds the lock taken and leaves the load to another finds one that
\* was taken after its own routine removed the lock, never one that a crash, a
\* failed removal or an earlier day has left, unless its own removal failed.
LockFoundIsAnothers ==
  \A i \in Instances : pc[i] = "read" /\ lock => i \in maybeHeld

\* Of a lock that is taken somebody is in charge, or something has failed: the
\* removals at the beginning and at the end, of whosever lock there is, leave
\* none behind.
NoLockIsLeft ==
  lock => faults > 0 \/ \E i \in Instances : Loading(i) \/ pc[i] = "finally"

\* A routine that begins is followed by a complete load, by whichever instance,
\* unless something fails meanwhile.
TheDayIsLoaded ==
  \A i \in Instances :
    pc[i] = "release" ~> (i \in served \/ i \in disturbed)

\* What the comment in LoadDailyConferencesRoutine and the log entry "Another
\* VideoWeb instance is already processing the job" say the lock is for.
AtMostOneLoads ==
  Cardinality({i \in Instances : Loading(i)}) <= 1
=============================================================================
