--------------------------- MODULE FileLockProofs ---------------------------
(***************************************************************************)
(* FileLock keeps its counts in step with the kernel's locks, for any      *)
(* number of processes, nested to any depth, and so its exclusive lock     *)
(* excludes.                                                               *)
(*                                                                         *)
(* Exclusion speaks of counts and is not inductive: what is, is that a     *)
(* count is backed by the kernel's lock of its type (Backed), and that the *)
(* kernel's locks exclude each other (KernelExcludes).                     *)
(*                                                                         *)
(* The converse, that the kernel's lock is given back with the last of     *)
(* them, holds of processes that never call tryLock: no kernel lock is     *)
(* without a count (Counted), and no count without a holder, whatever      *)
(* promotions and interrupted waits have dropped.                          *)
(***************************************************************************)
EXTENDS FileLock, TLAPS

KernelExcludes ==
  \A p, q \in Procs : p # q /\ os[p] = "exclusive" => os[q] = "none"

BackedAt(p) ==
  /\ count[p]["exclusive"] > 0 => os[p] = "exclusive"
  /\ AtomicDowngrade /\ count[p]["shared"] > 0 /\ count[p]["exclusive"] = 0
       => os[p] = "shared"
  /\ pc[p] \notin {"idle", "downgrade"} =>
       count[p]["exclusive"] = 0 /\ count[p]["shared"] = 0
  /\ pc[p] = "downgrade" => count[p]["exclusive"] = 0 /\ ~AtomicDowngrade

Backed == \A p \in Procs : BackedAt(p)

Inv == TypeOK /\ KernelExcludes /\ Backed

-----------------------------------------------------------------------------
\* A step of p leaves what the other processes have as it was.
OthersKept(p) ==
  \A q \in Procs \ {p} :
    /\ os'[q] = os[q]
    /\ count'[q] = count[q]
    /\ pc'[q] = pc[q]

\* p's lock after the step is one it had, one it gave up, or one that was free.
OsStep(p) ==
  \/ os'[p] \in {os[p], "none"}
  \/ os[p] = "exclusive" /\ os'[p] = "shared"
  \/ os'[p] \in {"shared", "exclusive"} /\ Free(p, os'[p])

\* The kernel's locks exclude each other after such a step.
LEMMA GrantKeepsExclusion ==
  ASSUME NEW p \in Procs, Inv, OthersKept(p), OsStep(p)
  PROVE  KernelExcludes'
  BY DEF Inv, KernelExcludes, OthersKept, OsStep, Free

\* What one step of p must establish for the invariant to be kept.
LEMMA LocalStep ==
  ASSUME NEW p \in Procs, Inv, TypeOK', OthersKept(p), OsStep(p), BackedAt(p)'
  PROVE  Inv'
<1>1. KernelExcludes'
  BY GrantKeepsExclusion
<1>2. ASSUME NEW q \in Procs  PROVE BackedAt(q)'
  BY DEF Inv, Backed, BackedAt, OthersKept
<1> QED
  BY <1>1, <1>2 DEF Inv, Backed

LEMMA InitInv == Init => Inv
  BY DEF Init, Inv, TypeOK, PCs, LockTypes, Unlocked, KernelExcludes, Backed,
     BackedAt

-----------------------------------------------------------------------------
(***************************************************************************)
(* The steps that set a count and the kernel's lock together.              *)
(***************************************************************************)
\* A step of p that leaves it with lock o, counts c and h holders, at place l.
Becomes(p, o, c, h, l) ==
  /\ os' = [os EXCEPT ![p] = o] /\ count' = [count EXCEPT ![p] = c]
  /\ holders' = [holders EXCEPT ![p] = h] /\ pc' = [pc EXCEPT ![p] = l]

LEMMA BecomesLocal ==
  ASSUME NEW p \in Procs, TypeOK, NEW o \in LockTypes \cup {"none"},
         NEW c \in [LockTypes -> Nat], NEW h \in Nat, NEW l \in PCs,
         Becomes(p, o, c, h, l)
  PROVE  /\ TypeOK' /\ OthersKept(p)
         /\ os'[p] = o /\ count'[p] = c /\ pc'[p] = l
BY DEF TypeOK, OthersKept, Becomes

LEMMA TryLockGranted ==
  ASSUME NEW p \in Procs, Inv, NEW type \in Types, TryLock(p, type),
         Free(p, type)
  PROVE  TypeOK' /\ OthersKept(p) /\ OsStep(p) /\ BackedAt(p)'
<1> DEFINE c == [count[p] EXCEPT ![type] = 1]
           h == IF type = "shared" THEN holders[p] + 1 ELSE holders[p]
<1>1. /\ count[p] \in [LockTypes -> Nat] /\ holders[p] \in Nat
      /\ pc[p] = "idle" /\ type \in LockTypes /\ count[p]["shared"] = 0
      /\ ~(count[p]["exclusive"] > 0)
  BY TypesAssumption DEF TryLock, Asks, Satisfied, Inv, TypeOK
<1>2. /\ c \in [LockTypes -> Nat] /\ c[type] = 1 /\ h \in Nat
      /\ \A u \in LockTypes \ {type} : c[u] = 0
  BY <1>1 DEF LockTypes
<1>3. Becomes(p, type, c, h, "idle")
  BY <1>1 DEF TryLock, Flock, Granted, Becomes, Inv, TypeOK
<1> HIDE DEF c, h
<1>4. /\ TypeOK' /\ OthersKept(p)
      /\ os'[p] = type /\ count'[p] = c /\ pc'[p] = "idle"
  BY <1>1, <1>2, <1>3, BecomesLocal DEF Inv, PCs
<1>5. OsStep(p)
  BY <1>1, <1>4 DEF OsStep, LockTypes
<1>6. BackedAt(p)'
  BY <1>1, <1>2, <1>4 DEF BackedAt, LockTypes
<1> QED
  BY <1>4, <1>5, <1>6

LEMMA PromoteGranted ==
  ASSUME NEW p \in Procs, Inv, Promote(p), Free(p, "exclusive")
  PROVE  TypeOK' /\ OthersKept(p) /\ OsStep(p) /\ BackedAt(p)'
<1> DEFINE c == [count[p] EXCEPT !["exclusive"] = 1]
<1>1. /\ count[p] \in [LockTypes -> Nat] /\ holders[p] \in Nat
      /\ pc[p] = "promote" /\ count[p]["shared"] = 0
  BY DEF Promote, Inv, TypeOK, Backed, BackedAt
<1>2. /\ c \in [LockTypes -> Nat] /\ c["exclusive"] = 1 /\ c["shared"] = 0
  BY <1>1 DEF LockTypes
<1>3. Becomes(p, "exclusive", c, holders[p], "idle")
  BY <1>1 DEF Promote, Flock, Granted, Goto, Becomes, Inv, TypeOK
<1> HIDE DEF c
<1>4. /\ TypeOK' /\ OthersKept(p)
      /\ os'[p] = "exclusive" /\ count'[p] = c /\ pc'[p] = "idle"
  BY <1>1, <1>2, <1>3, BecomesLocal DEF Inv, PCs, LockTypes
<1>5. OsStep(p)
  BY <1>4 DEF OsStep
<1>6. BackedAt(p)'
  BY <1>2, <1>4 DEF BackedAt
<1> QED
  BY <1>4, <1>5, <1>6

\* What an unlock leaves of the lock.
LEMMA Unlocks ==
  ASSUME NEW p \in Procs, Inv, NEW o, NEW c \in [LockTypes -> Nat],
         NEW h \in Nat, NEW l \in {"idle", "downgrade"}, Becomes(p, o, c, h, l),
         pc[p] = "idle",
         o \in {os[p], "none"} \/ (os[p] = "exclusive" /\ o = "shared"),
         c["exclusive"] > 0 => o = "exclusive",
         AtomicDowngrade /\ c["shared"] > 0 /\ c["exclusive"] = 0 =>
           o = "shared",
         l = "downgrade" => c["exclusive"] = 0 /\ ~AtomicDowngrade
  PROVE  TypeOK' /\ OthersKept(p) /\ OsStep(p) /\ BackedAt(p)'
<1>1. o \in LockTypes \cup {"none"} /\ l \in PCs
  BY DEF Inv, TypeOK, LockTypes, PCs
<1>2. /\ TypeOK' /\ OthersKept(p)
      /\ os'[p] = o /\ count'[p] = c /\ pc'[p] = l
  BY <1>1, BecomesLocal DEF Inv
<1>3. OsStep(p)
  BY <1>2 DEF OsStep
<1>4. BackedAt(p)'
  BY <1>2 DEF BackedAt
<1> QED
  BY <1>2, <1>3, <1>4

LEMMA UnlockSharedLocal ==
  ASSUME NEW p \in Procs, Inv, UnlockShared(p)
  PROVE  TypeOK' /\ OthersKept(p) /\ OsStep(p) /\ BackedAt(p)'
<1> DEFINE n == IF count[p]["shared"] > 0 THEN count[p]["shared"] - 1 ELSE 0
           c == [count[p] EXCEPT !["shared"] = n]
           o == IF count[p]["shared"] = 1 /\ count[p]["exclusive"] = 0
                  THEN "none" ELSE os[p]
<1>1. /\ count[p] \in [LockTypes -> Nat] /\ count[p]["shared"] \in Nat
      /\ count[p]["exclusive"] \in Nat /\ holders[p] \in Nat
      /\ holders[p] > 0 /\ pc[p] = "idle" /\ BackedAt(p)
  BY DEF UnlockShared, Inv, TypeOK, LockTypes, Backed
<1>2. /\ n \in Nat /\ c \in [LockTypes -> Nat] /\ c["shared"] = n
      /\ c["exclusive"] = count[p]["exclusive"] /\ holders[p] - 1 \in Nat
  BY <1>1 DEF LockTypes
<1>3. Becomes(p, o, c, holders[p] - 1, "idle")
  <2>1. count' = [count EXCEPT ![p] = c] /\ count'[p]["shared"] = n
    BY <1>1, <1>2 DEF UnlockShared, Inv, TypeOK, LockTypes
  <2>2. os' = [os EXCEPT ![p] = o]
    BY <1>1, <2>1 DEF UnlockShared, Flock, Inv, TypeOK
  <2> QED
    BY <1>1, <2>1, <2>2 DEF UnlockShared, Becomes, Inv, TypeOK
<1>4. /\ o \in {os[p], "none"}
      /\ count[p]["exclusive"] > 0 => o = os[p]
      /\ n > 0 => o = os[p] /\ count[p]["shared"] > 0
  BY <1>1
<1> HIDE DEF n, c, o
<1>5. /\ c["exclusive"] > 0 => o = "exclusive"
      /\ AtomicDowngrade /\ c["shared"] > 0 /\ c["exclusive"] = 0 =>
           o = "shared"
  BY <1>1, <1>2, <1>4 DEF BackedAt
<1> QED
  BY <1>1, <1>2, <1>3, <1>4, <1>5, Unlocks

LEMMA UnlockExclusiveLocal ==
  ASSUME NEW p \in Procs, Inv, UnlockExclusive(p)
  PROVE  TypeOK' /\ OthersKept(p) /\ OsStep(p) /\ BackedAt(p)'
<1> DEFINE n == count[p]["exclusive"] - 1
           c == [count[p] EXCEPT !["exclusive"] = n]
           o == IF n > 0 THEN os[p]
                ELSE IF count[p]["shared"] = 0 \/ ~AtomicDowngrade THEN "none"
                ELSE "shared"
           l == IF n = 0 /\ count[p]["shared"] # 0 /\ ~AtomicDowngrade
                  THEN "downgrade" ELSE "idle"
<1>1. /\ count[p] \in [LockTypes -> Nat] /\ count[p]["shared"] \in Nat
      /\ count[p]["exclusive"] \in Nat /\ holders[p] \in Nat
      /\ count[p]["exclusive"] > 0 /\ pc[p] = "idle" /\ BackedAt(p)
  BY DEF UnlockExclusive, Inv, TypeOK, LockTypes, Backed
<1>2. /\ n \in Nat /\ c \in [LockTypes -> Nat] /\ c["exclusive"] = n
      /\ c["shared"] = count[p]["shared"] /\ l \in {"idle", "downgrade"}
  BY <1>1 DEF LockTypes
<1>3. Becomes(p, o, c, holders[p], l)
  <2>1. count' = [count EXCEPT ![p] = c] /\ count'[p]["exclusive"] = n
    BY <1>1, <1>2 DEF UnlockExclusive, Inv, TypeOK, LockTypes
  <2>2. os' = [os EXCEPT ![p] = o] /\ pc' = [pc EXCEPT ![p] = l]
    BY <1>1, <1>2, <2>1, DowngradeAssumption
    DEF UnlockExclusive, Flock, Goto, Inv, TypeOK
  <2> QED
    BY <1>1, <2>1, <2>2 DEF UnlockExclusive, Becomes, Inv, TypeOK
<1>4. /\ os[p] = "exclusive"
      /\ o \in {os[p], "none", "shared"}
      /\ n > 0 => o = os[p]
  BY <1>1 DEF BackedAt
<1>5. AtomicDowngrade /\ count[p]["shared"] > 0 /\ n = 0 => o = "shared"
  BY <1>1
<1>6. l = "downgrade" => n = 0 /\ ~AtomicDowngrade
  OBVIOUS
<1> HIDE DEF n, c, o, l
<1> QED
  BY <1>1, <1>2, <1>3, <1>4, <1>5, <1>6, Unlocks

-----------------------------------------------------------------------------
(***************************************************************************)
(* One step per action.                                                    *)
(***************************************************************************)
LEMMA StepInv ==
  ASSUME NEW p \in Procs, Inv, Step(p)
  PROVE  Inv'
<1> USE TypesAssumption DEF Inv, TypeOK, PCs, LockTypes, Unlocked, Backed,
       BackedAt, OthersKept, OsStep, Goto, Flock, Granted, Asks, Satisfied
<1> SUFFICES TypeOK' /\ OthersKept(p) /\ OsStep(p) /\ BackedAt(p)'
  BY LocalStep
<1>1. ASSUME NEW type \in Types, LockAgain(p, type)
      PROVE  TypeOK' /\ OthersKept(p) /\ OsStep(p) /\ BackedAt(p)'
  BY <1>1 DEF LockAgain
<1>2. ASSUME NEW type \in Types, Lock(p, type)
      PROVE  TypeOK' /\ OthersKept(p) /\ OsStep(p) /\ BackedAt(p)'
  BY <1>2 DEF Lock
<1>3. ASSUME NEW type \in Types, TryLock(p, type)
      PROVE  TypeOK' /\ OthersKept(p) /\ OsStep(p) /\ BackedAt(p)'
  <2>1. CASE Free(p, type)
    BY <1>3, <2>1, TryLockGranted
  <2>2. CASE ~Free(p, type)
    BY <1>3, <2>2 DEF TryLock
  <2> QED
    BY <2>1, <2>2
<1>4. CASE Acquire(p)
  BY <1>4 DEF Acquire
<1>5. CASE Interrupt(p)
  BY <1>5 DEF Interrupt
<1>6. CASE TryPromote(p)
  BY <1>6 DEF TryPromote
<1>7. CASE Promote(p)
  <2>1. CASE Free(p, "exclusive")
    BY <1>7, <2>1, PromoteGranted
  <2>2. CASE ~Free(p, "exclusive")
    BY <1>7, <2>2 DEF Promote
  <2> QED
    BY <2>1, <2>2
<1>8. CASE TakeShared(p)
  BY <1>8 DEF TakeShared
<1>9. CASE UnlockShared(p)
  BY <1>9, UnlockSharedLocal
<1>10. CASE UnlockExclusive(p)
  BY <1>10, UnlockExclusiveLocal
<1>11. CASE Crash(p)
  BY <1>11 DEF Crash
<1> QED
  BY <1>1, <1>2, <1>3, <1>4, <1>5, <1>6, <1>7, <1>8, <1>9, <1>10, <1>11
  DEF Step

LEMMA NextInv == Inv /\ [Next]_vars => Inv'
<1>1. CASE Next
  BY <1>1, StepInv DEF Next
<1>2. CASE UNCHANGED vars
  BY <1>2 DEF vars, Inv, TypeOK, KernelExcludes, Backed, BackedAt
<1> QED
  BY <1>1, <1>2

LEMMA SpecInv == Spec => []Inv
  BY InitInv, NextInv, PTL DEF Spec

\* The counts are numbers, and every process is inside one call at most:
\* file_lock.cpp never decreases a count that is zero.
THEOREM FileLockTypeCorrect == Spec => []TypeOK
<1>1. Inv => TypeOK
  BY DEF Inv
<1> QED
  BY <1>1, SpecInv, PTL

\* file_lock.h: while one process counts an exclusive lock no other counts a
\* lock, however many processes there are and however deep they nest.
THEOREM ExclusiveExcludes == Spec => []Exclusion
<1>1. Inv => Exclusion
  BY DowngradeAssumption DEF Inv, TypeOK, LockTypes, KernelExcludes, Backed, BackedAt, Exclusion
<1> QED
  BY <1>1, SpecInv, PTL

-----------------------------------------------------------------------------
(***************************************************************************)
(* Giving the lock back.                                                   *)
(***************************************************************************)
CountedAt(p) ==
  /\ os[p] # "none" => count[p]["exclusive"] > 0 \/ count[p]["shared"] > 0
  /\ count[p]["shared"] <= holders[p]
  /\ pc[p] = "downgrade" => count[p]["shared"] > 0
  /\ pc[p] \in LockTypes =>
       count[p]["exclusive"] = 0 /\ count[p]["shared"] = 0
  /\ pc[p] \in LockTypes \cup {"idle", "downgrade"}

Counted == TypeOK /\ \A p \in Procs : CountedAt(p)

LEMMA StepCounted ==
  ASSUME "tryLock" \notin Calls, NEW p \in Procs, Counted, TypeOK', Step(p)
  PROVE  Counted'
<1> USE TypesAssumption DEF Counted, TypeOK, LockTypes, Unlocked, CountedAt,
       Goto, Flock, Granted, Asks, Satisfied
<1> SUFFICES OthersKept(p) /\ holders' = [holders EXCEPT ![p] = holders'[p]]
             /\ CountedAt(p)'
  BY DEF OthersKept
<1>1. ASSUME NEW type \in Types, LockAgain(p, type)
      PROVE  OthersKept(p) /\ holders' = [holders EXCEPT ![p] = holders'[p]]
             /\ CountedAt(p)'
  BY <1>1 DEF LockAgain, OthersKept
<1>2. ASSUME NEW type \in Types, Lock(p, type)
      PROVE  OthersKept(p) /\ holders' = [holders EXCEPT ![p] = holders'[p]]
             /\ CountedAt(p)'
  BY <1>2 DEF Lock, OthersKept
<1>3. CASE Acquire(p)
  BY <1>3 DEF Acquire, OthersKept
<1>4. CASE Interrupt(p)
  BY <1>4 DEF Interrupt, OthersKept
<1>5. CASE TakeShared(p)
  BY <1>5 DEF TakeShared, OthersKept
<1>6. CASE UnlockShared(p)
  BY <1>6 DEF UnlockShared, OthersKept
<1>7. CASE UnlockExclusive(p)
  BY <1>7, DowngradeAssumption DEF UnlockExclusive, OthersKept
<1>8. CASE Crash(p)
  BY <1>8 DEF Crash, OthersKept
<1>9. /\ \A type \in Types : ~TryLock(p, type)
      /\ ~TryPromote(p) /\ ~Promote(p)
  BY DEF TryLock, TryPromote, Promote
<1> QED
  BY <1>1, <1>2, <1>3, <1>4, <1>5, <1>6, <1>7, <1>8, <1>9 DEF Step

\* file_lock.h:15: the kernel's lock is given back with the last lock, where
\* no process calls tryLock, however they nest, promote and are interrupted,
\* and whether or not the kernel downgrades in one step.  (With tryLock it is
\* not: the run filelock_leak.)
THEOREM LastUnlockReleases ==
  ASSUME "tryLock" \notin Calls
  PROVE  Spec => []ReleasedByLastHolder
<1>1. Init => Counted
  BY DEF Init, Counted, CountedAt, TypeOK, PCs, LockTypes, Unlocked
<1>2. Counted /\ TypeOK' /\ [Next]_vars => Counted'
  <2>1. CASE UNCHANGED vars
    BY <2>1 DEF vars, Counted, CountedAt, TypeOK
  <2> QED
    BY <2>1, StepCounted DEF Next
<1>3. Counted => ReleasedByLastHolder
  BY DEF Counted, CountedAt, TypeOK, LockTypes, ReleasedByLastHolder
<1> QED
  BY <1>1, <1>2, <1>3, FileLockTypeCorrect, PTL DEF Spec
=============================================================================
