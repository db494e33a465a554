------------------------------ MODULE FileLock ------------------------------
(***************************************************************************)
(* core/src/file_lock.cpp: the reentrant wrapper around flock(2), one      *)
(* FileLock per process, each on an open file description of its own.  One *)
(* action per call, or per system call where a call makes several.         *)
(*                                                                         *)
(* The kernel is external.  It grants a lock that conflicts with nobody    *)
(* else's; a blocked request may be interrupted by a signal; a request of  *)
(* another type gives up the lock that was held before it waits, or fails. *)
(***************************************************************************)
EXTENDS Integers

CONSTANTS
  Procs,            \* the processes
  Calls,            \* the ways in which they ask: "lock", "tryLock"
  Types,            \* the locks they ask for
  MaxNesting,       \* bound: locks of one type a process holds at a time
  AtomicDowngrade   \* whether flock(2) turns LOCK_EX into LOCK_SH in one step

LockTypes == {"shared", "exclusive"}

ASSUME CallsAssumption == Calls \subseteq {"lock", "tryLock"}
ASSUME TypesAssumption == Types \subseteq LockTypes
ASSUME NestingAssumption == MaxNesting \in Nat
ASSUME DowngradeAssumption == AtomicDowngrade \in BOOLEAN

VARIABLES
  os,        \* the kernel's lock on each process's file description
  count,     \* m_sharedLockCount and m_exclusiveLockCount
  pc,        \* "idle", the type flock waits for, or where tryLock or unlock is
  holders    \* history: shared locks granted and not yet given back

vars == <<os, count, pc, holders>>

PCs == LockTypes \cup {"idle", "promote", "reshare", "downgrade"}

Unlocked == [type \in LockTypes |-> 0]

Init == /\ os = [p \in Procs |-> "none"]
        /\ count = [p \in Procs |-> Unlocked]
        /\ pc = [p \in Procs |-> "idle"]
        /\ holders = [p \in Procs |-> 0]

-----------------------------------------------------------------------------
\* Whether flock(2) grants p the lock at once.
Free(p, type) ==
  \A q \in Procs \ {p} : os[q] = "none" \/ (type = "shared" /\ os[q] = "shared")

Flock(p, lock) == os' = [os EXCEPT ![p] = lock]
Goto(p, label) == pc' = [pc EXCEPT ![p] = label]

\* The call returns true, with n locks of the type counted.
Granted(p, type, n) ==
  /\ count' = [count EXCEPT ![p][type] = n]
  /\ holders' = [holders EXCEPT ![p] = IF type = "shared" THEN @ + 1 ELSE @]

Asks(p, type) == /\ pc[p] = "idle" /\ type \in Types
                 /\ count[p][type] < MaxNesting
                 /\ type = "shared" => holders[p] < MaxNesting

\* The lock is held already, or an exclusive one that is stronger.
Satisfied(p, type) ==
  count[p]["exclusive"] > 0 \/ (type = "shared" /\ count[p]["shared"] > 0)

\* lock() and tryLock() alike.
LockAgain(p, type) ==
  /\ Asks(p, type) /\ Satisfied(p, type)
  /\ Granted(p, type, count[p][type] + 1)
  /\ UNCHANGED <<os, pc>>

\* Mutant: the shared lock is kept while the process waits for the other.
Lock_Keeps(p, type) ==
  /\ Asks(p, type) /\ ~Satisfied(p, type) /\ "lock" \in Calls
  /\ count' = [count EXCEPT ![p]["shared"] = 0]
  /\ Goto(p, type)
  /\ UNCHANGED <<os, holders>>

\* lock(), up to the wait.  A promotion first releases the shared lock,
\* whatever its count.  (One without a count the kernel gives up.)
Lock(p, type) ==
  /\ Asks(p, type) /\ ~Satisfied(p, type) /\ "lock" \in Calls
  /\ IF type = "exclusive" THEN Flock(p, "none") ELSE UNCHANGED os
  /\ count' = [count EXCEPT ![p]["shared"] = 0]
  /\ Goto(p, type)
  /\ UNCHANGED holders

Acquire(p) ==
  /\ pc[p] \in LockTypes
  /\ Free(p, pc[p]) /\ Flock(p, pc[p])
  /\ Granted(p, pc[p], 1)
  /\ Goto(p, "idle")

\* flock(2) fails with EINTR: lock() returns false.
Interrupt(p) == /\ pc[p] \in LockTypes
                /\ Goto(p, "idle")
                /\ UNCHANGED <<os, count, holders>>

-----------------------------------------------------------------------------
\* tryLock() by a process that counts no lock.
TryLock(p, type) ==
  /\ Asks(p, type) /\ ~Satisfied(p, type) /\ "tryLock" \in Calls
  /\ count[p]["shared"] = 0
  /\ IF Free(p, type)
       THEN Flock(p, type) /\ Granted(p, type, 1)
       ELSE Flock(p, "none") /\ UNCHANGED <<count, holders>>
  /\ UNCHANGED pc

\* tryLock() by a process that counts shared locks, in its system calls.
TryPromote(p) ==
  /\ Asks(p, "exclusive") /\ "tryLock" \in Calls
  /\ ~Satisfied(p, "exclusive") /\ count[p]["shared"] > 0
  /\ Flock(p, "none")
  /\ count' = [count EXCEPT ![p]["shared"] = 0]
  /\ Goto(p, "promote")
  /\ UNCHANGED holders

\* Mutant: the result of the second flock call is not looked at.
Promote_Ignored(p) ==
  /\ pc[p] = "promote"
  /\ IF Free(p, "exclusive") THEN Flock(p, "exclusive") ELSE UNCHANGED os
  /\ Granted(p, "exclusive", 1)
  /\ Goto(p, "idle")

Promote(p) ==
  /\ pc[p] = "promote"
  /\ IF Free(p, "exclusive")
       THEN Flock(p, "exclusive") /\ Granted(p, "exclusive", 1) /\ Goto(p, "idle")
       ELSE Goto(p, "reshare") /\ UNCHANGED <<os, count, holders>>

\* After a failed promotion, and in a downgrade of two steps: the shared lock
\* is taken, or not; its count is left as it is.
TakeShared(p) ==
  /\ pc[p] \in {"reshare", "downgrade"}
  /\ IF Free(p, "shared") THEN Flock(p, "shared") ELSE UNCHANGED os
  /\ Goto(p, "idle")
  /\ UNCHANGED <<count, holders>>

-----------------------------------------------------------------------------
\* Mutant: the count is not looked at before it is decreased.
UnlockShared_Unchecked(p) ==
  /\ pc[p] = "idle" /\ holders[p] > 0
  /\ holders' = [holders EXCEPT ![p] = @ - 1]
  /\ count' = [count EXCEPT ![p]["shared"] = @ - 1]
  /\ IF count'[p]["shared"] = 0 /\ count[p]["exclusive"] = 0
       THEN Flock(p, "none") ELSE UNCHANGED os
  /\ UNCHANGED pc

\* unlock(), by a process that has a lock of the type to give back.  A count
\* that is zero already makes it return early.
UnlockShared(p) ==
  /\ pc[p] = "idle" /\ holders[p] > 0
  /\ holders' = [holders EXCEPT ![p] = @ - 1]
  /\ IF count[p]["shared"] > 0
       THEN /\ count' = [count EXCEPT ![p]["shared"] = @ - 1]
            /\ IF count'[p]["shared"] = 0 /\ count[p]["exclusive"] = 0
                 THEN Flock(p, "none") ELSE UNCHANGED os
       ELSE UNCHANGED <<os, count>>
  /\ UNCHANGED pc

\* Mutant: a downgrade, also where no shared lock is counted.
UnlockExclusive_Leaks(p) ==
  /\ pc[p] = "idle" /\ count[p]["exclusive"] > 0
  /\ count' = [count EXCEPT ![p]["exclusive"] = @ - 1]
  /\ IF count'[p]["exclusive"] = 0 THEN Flock(p, "shared") ELSE UNCHANGED os
  /\ UNCHANGED <<pc, holders>>

\* Mutant: a downgrade of two steps lets the lock go with its count still there.
UnlockExclusive_CountsLate(p) ==
  /\ pc[p] = "idle" /\ count[p]["exclusive"] > 0
  /\ IF count[p]["exclusive"] > 1 \/ count[p]["shared"] = 0
       THEN /\ count' = [count EXCEPT ![p]["exclusive"] = @ - 1]
            /\ IF count'[p]["exclusive"] > 0 THEN UNCHANGED os ELSE Flock(p, "none")
            /\ UNCHANGED pc
       ELSE Flock(p, "none") /\ Goto(p, "downgrade") /\ UNCHANGED count
  /\ UNCHANGED holders

UnlockExclusive(p) ==
  /\ pc[p] = "idle" /\ count[p]["exclusive"] > 0
  /\ count' = [count EXCEPT ![p]["exclusive"] = @ - 1]
  /\ IF count'[p]["exclusive"] > 0 THEN UNCHANGED <<os, pc>>
     ELSE IF count[p]["shared"] = 0 THEN Flock(p, "none") /\ UNCHANGED pc
     ELSE IF AtomicDowngrade THEN Flock(p, "shared") /\ UNCHANGED pc
     ELSE Flock(p, "none") /\ Goto(p, "downgrade")
  /\ UNCHANGED holders

\* The process ends, and another takes its place: the kernel closes the file.
Crash(p) == /\ Flock(p, "none")
            /\ count' = [count EXCEPT ![p] = Unlocked]
            /\ holders' = [holders EXCEPT ![p] = 0]
            /\ Goto(p, "idle")

Step(p) ==
  \/ \E type \in Types : LockAgain(p, type) \/ Lock(p, type) \/ TryLock(p, type)
  \/ Acquire(p) \/ Interrupt(p)
  \/ TryPromote(p) \/ Promote(p) \/ TakeShared(p)
  \/ UnlockShared(p) \/ UnlockExclusive(p)
  \/ Crash(p)

Next == \E p \in Procs : Step(p)

Spec == Init /\ [][Next]_vars

\* The kernel: a process that waits, and finds the lock free again and again,
\* is granted it at last.  The process: a system call that does not wait
\* returns.  Nothing else is fair: no process need ask, unlock or end.
FairSpec == /\ Spec
            /\ \A p \in Procs : /\ SF_vars(Acquire(p))
                                /\ WF_vars(Promote(p) \/ TakeShared(p))

-----------------------------------------------------------------------------
\* The type invariant.  The counts are size_t: none goes below zero.
TypeOK == /\ os \in [Procs -> {"none"} \cup LockTypes]
          /\ count \in [Procs -> [LockTypes -> Nat]]
          /\ pc \in [Procs -> PCs]
          /\ holders \in [Procs -> Nat]

\* FileLock's exclusive lock excludes: while one process counts it, through
\* nested calls, promotions and downgrades, no other counts a lock of either
\* type.  The shared half needs a kernel that downgrades in one step: in a
\* downgrade of two (file_lock.cpp:86) the shared lock is counted and not held.
Exclusion ==
  \A p, q \in Procs :
    p # q /\ count[p]["exclusive"] > 0 =>
      /\ count[q]["exclusive"] = 0
      /\ AtomicDowngrade => count[q]["shared"] = 0

\* file_lock.h:15, "the OS lock is taken once and released only when the last
\* holder unlocks": with every lock given back, the kernel's is given back.
ReleasedByLastHolder ==
  \A p \in Procs :
    pc[p] = "idle" /\ count[p]["exclusive"] = 0 /\ holders[p] = 0
      => os[p] = "none"

\* No lock() call waits forever where every process that is not itself waiting
\* gives back what it was granted, as the guards of writer.cpp:286 and :354 do
\* on every return path.  In particular two processes that hold the shared lock
\* and promote at once do not wait for each other.
GivesBack(p) ==
  pc[p] \in LockTypes \/ (count[p]["exclusive"] = 0 /\ holders[p] = 0)

LockReturns ==
  (\A p \in Procs : []<>GivesBack(p))
    => \A p \in Procs : pc[p] \in LockTypes ~> pc[p] = "idle"
=============================================================================
