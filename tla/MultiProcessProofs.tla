------------------------- MODULE MultiProcessProofs -------------------------
(***************************************************************************)
(* Proofs about MultiProcess: its types, and its three safety properties,  *)
(* for any set of processes, any finite set of keys, any values and any    *)
(* capacities.                                                             *)
(*                                                                         *)
(* Inv has two parts.  TypeInv ties the lock to where the processes are,   *)
(* so that one of them at most is inside its critical section.  Protocol   *)
(* is what holds while something is promised: the files verify and hold    *)
(* what is stored; each process that has no lock has a meta record that is *)
(* older than that on disk, or the same (Behind, UpToDate), and an index   *)
(* that yields what it knew last from a prefix of the log that no append   *)
(* touches (Snapshot), if only once it has a mapping again (Knows); the    *)
(* process that has the lock and has compared its meta record works on the *)
(* files as they are (Holding), and what it has copied is the record or    *)
(* the log that its meta record counts (Appending, Rewritten).  The        *)
(* sequence number grows with every write of the meta record, which is why *)
(* no older one matches it; and a rewrite changes the ItemSizeHolder,      *)
(* which is why a log that is half replaced cannot verify.                 *)
(***************************************************************************)
EXTENDS MultiProcess, DataFileProofs

\* The lock follows where the processes are.
LockAt(p) ==
  /\ os[p] = IF pc[p] \in LockedPCs THEN "exclusive" ELSE "none"
  /\ count[p]["exclusive"] = IF pc[p] \in LockedPCs THEN 1 ELSE 0
  /\ count[p]["shared"] = 0
  /\ lockPc[p] = IF pc[p] = "wait" THEN "exclusive" ELSE "idle"
  /\ holders[p] = 0

LockInv ==
  /\ \A p \in Procs : LockAt(p)
  /\ \A p, q \in Procs : pc[p] \in LockedPCs /\ pc[q] \in LockedPCs => p = q

Asked == {"append", "compact", "clearAll"}

OpAt(p) ==
  /\ pc[p] \in {"closed", "create", "init", "create_crc", "idle"} =>
       op[p] = NoCall
  /\ pc[p] \in {"read_meta", "validate", "decode"} =>
       op[p] \in {NoCall, ReaderCall}
  /\ pc[p] = "reading" => op[p] = ReaderCall
  /\ pc[p] \in {"wait", "locked"} =>
       op[p].kind \in Asked \cup {"open"} /\ ~op[p].reloaded
  /\ pc[p] \in {"wait", "locked", "reserve"} => ~op[p].blind
  /\ pc[p] \in {"reserve", "store", "sync"} => op[p].kind \in Asked
  /\ op[p].kind = "append" => op[p].key \in Keys /\ op[p].blob \in Blobs

FileAt(p) == pc[p] \notin {"closed", "create"} => data # <<>>

TypeInv == /\ TypeOK /\ LockInv
           /\ \A p \in Procs : OpAt(p) /\ FileAt(p)

-----------------------------------------------------------------------------
(***************************************************************************)
(* The invariant of the protocol, while something is promised.             *)
(***************************************************************************)
\* In a rewrite the log on disk is the new one, and the meta record the old.
Rewriter(p) == pc[p] = "sync" /\ Rewriting(p)
Settled     == \A p \in Procs : ~Rewriter(p)

\* What the call of p leaves: nothing, where it has emptied the index.
Left(p)    == IF Cleared(p) THEN EmptyContents ELSE stored

\* The meta records that the calls write.
Good(m) == /\ m.version = 4
           /\ 1 <= m.lastConfirmedActualSize
           /\ m.lastConfirmedActualSize <= m.actualSize
           /\ m.actualSize = Len(m.crcDigest)
           /\ Extends(m)

\* What checkLoadData compares.
Match(p) == /\ meta[p].sequence = crc.sequence
            /\ meta[p].actualSize = crc.actualSize

\* The index of p yields v from the first n cells, and they are mapped, unless
\* p has lost its mapping: then it yields v once there is one again.
Knows(p, n, v) == /\ mapped[p] = 0 \/ n <= mapped[p] - HeaderSize
                  /\ Yields(data, map[p], n, v)

\* There is no store until the meta record of the process that creates it is
\* on disk; from then on the files verify, and hold what is stored, unless a
\* rewrite is under way.
Files ==
  IF crc.version = 0
    THEN /\ crc = NoMeta /\ stored = EmptyContents
         /\ \A p, q \in Procs :
              {pc[p], pc[q]} \subseteq {"init", "create_crc"} => p = q
    ELSE /\ data # <<>> /\ Good(crc)
         /\ Settled => /\ Verifies(data, crc.actualSize, crc.crcDigest)
                       /\ LogHolds(data, crc.actualSize, stored)

Making(p) ==
  IF crc.version = 0
    THEN /\ pc[p] \in {"closed", "create", "init", "create_crc", "read_meta"}
         /\ map[p] = NoIndex
         /\ pc[p] = "create_crc" =>
              meta[p] = NewMeta(data, 1, 0) /\ 1 <= mapped[p] - HeaderSize
    ELSE pc[p] \notin {"init", "create_crc"}

\* The meta record in memory is an older one than that on disk, or the same:
\* two that agree in sequence number and size agree in everything.
Behind(p) ==
  /\ pc[p] = "validate" =>
       /\ Good(meta[p]) /\ meta[p].sequence <= crc.sequence
       /\ meta[p].sequence = crc.sequence => meta[p] = crc
  /\ pc[p] \in {"decode", "idle", "wait", "locked"} =>
       /\ meta[p].sequence <= crc.sequence
       /\ Match(p) => meta[p] = crc
  /\ pc[p] = "decode" => meta[p].actualSize <= mapped[p] - HeaderSize

\* Where it is the same, so is what the index yields.
UpToDate(p) ==
  pc[p] \in {"idle", "wait", "locked"} /\ Match(p) /\ Settled /\ ~Cleared(p) =>
    Knows(p, crc.actualSize, stored)

\* What a process knew last it still knows, or, where it opened the store in
\* the middle of a rewrite, it will see that the log is not the one of its
\* meta record.
Snapshot(p) ==
  synced[p] # Unsynced =>
    /\ pc[p] = "validate" =>
         \/ /\ Settled /\ meta[p].actualSize <= crc.actualSize
            /\ Verifies(data, meta[p].actualSize, meta[p].crcDigest)
            /\ LogHolds(data, meta[p].actualSize, synced[p])
         \/ data[1] # meta[p].crcDigest[1]
    /\ pc[p] = "decode" =>
         /\ Settled /\ meta[p].actualSize <= crc.actualSize
         /\ LogHolds(data, meta[p].actualSize, synced[p])
    /\ pc[p] \in {"idle", "reading", "wait", "locked"} /\ ~Cleared(p) =>
         /\ Settled /\ meta[p].actualSize <= crc.actualSize
         /\ Knows(p, meta[p].actualSize, synced[p])

\* Once checkLoadData has run, the process works on the files as they are.
Holding(p) ==
  /\ pc[p] \in {"wait", "locked", "reserve", "store"} /\ Cleared(p) =>
       map[p] = NoIndex
  /\ pc[p] \in {"reserve", "store"} =>
       /\ meta[p] = crc
       /\ ~Cleared(p) => synced[p] = stored /\ Knows(p, crc.actualSize, stored)
  /\ pc[p] = "store" => HasRoom(p)

\* A record has been copied behind the log, and no size counts it yet.
Appending(p) ==
  LET i == crc.actualSize + 1
  IN  pc[p] = "sync" /\ op[p].kind = "append" =>
        /\ meta[p] = [crc EXCEPT !.crcDigest  = UpdateCRC(@, NewRecord(p)),
                                 !.actualSize = i,
                                 !.sequence   = @ + 1]
        /\ i <= Len(data) /\ i <= mapped[p] - HeaderSize
        /\ data[i] = NewRecord(p)
        /\ Yields(data, map[p], crc.actualSize, stored)

\* A new log has been copied over the old, whose digest it cannot have: the
\* ItemSizeHolder is another.
Rewritten(p) ==
  Rewriter(p) =>
    /\ crc.crcDigest[1] # data[1]
    /\ \E n \in 1 .. Len(data) :
         /\ meta[p] = NewMeta(data, n, crc.sequence + 1)
         /\ n <= mapped[p] - HeaderSize
         /\ LogHolds(data, n, Left(p))

ProcInv(p) == /\ Making(p) /\ Behind(p) /\ UpToDate(p) /\ Snapshot(p)
              /\ Holding(p) /\ Appending(p) /\ Rewritten(p)

Protocol == Files /\ \A p \in Procs : ProcInv(p)

Inv == TypeInv /\ (~excused => Protocol)

-----------------------------------------------------------------------------
(***************************************************************************)
(* What a process sees.                                                    *)
(***************************************************************************)
\* A mapping shows the cells of the file that it covers.
LEMMA ViewProperties ==
  ASSUME data \in Seq(Cell), NEW size \in Nat
  PROVE  /\ View(size) \in Seq(Cell)
         /\ \A n \in Nat : n <= size - HeaderSize /\ n <= Len(data) =>
              n <= Len(View(size))
         /\ \A i \in 1 .. Len(View(size)) :
              /\ i <= Len(data) /\ i <= size - HeaderSize
              /\ View(size)[i] = data[i]
<1> DEFINE n == IF size - HeaderSize < Len(data)
                  THEN size - HeaderSize ELSE Len(data)
<1>1. Len(data) \in Nat
  BY LenProperties
<1>2. /\ n \in Int /\ n <= Len(data) /\ n <= size - HeaderSize
      /\ n = size - HeaderSize \/ n = Len(data)
      /\ size - HeaderSize \in Int
  BY <1>1 DEF HeaderSize
<1> HIDE DEF n
<1>3. \A i \in 1 .. n : data[i] \in Cell
  BY <1>1, <1>2, ElementOfSeq
<1>4. /\ SubSeq(data, 1, n) \in Seq(Cell)
      /\ Len(SubSeq(data, 1, n)) = IF 1 <= n THEN n ELSE 0
      /\ \A i \in 1 .. n : SubSeq(data, 1, n)[i] = data[i]
  BY <1>1, <1>2, <1>3, SubSeqProperties
<1>5. View(size) = SubSeq(data, 1, n)
  BY DEF View, n
<1> QED
  BY <1>1, <1>2, <1>4, <1>5

LEMMA IndexType ==
  ASSUME NEW cells \in Seq(Cell), NEW n \in Nat
  PROVE  Index(cells, n) \in [Keys -> Nat]
<1>1. Len(cells) \in Nat
  BY LenProperties
<1> QED
  BY <1>1, DecodeMapType DEF Index

LEMMA NewMetaType ==
  ASSUME NEW cells \in Seq(Cell), NEW n \in 0 .. Len(cells), NEW seq \in Nat
  PROVE  NewMeta(cells, n, seq) \in SharedMeta
<1>1. n \in Nat /\ ComputeCRC(cells, n) \in Seq(Cell)
  BY LenProperties, ComputeCRCProperties
<1> QED
  BY <1>1 DEF NewMeta, SharedMeta

LEMMA NoMetaType == NoMeta \in SharedMeta
BY EmptySeq DEF NoMeta, SharedMeta

\* What a rewrite encodes is what its process read when it looked the live
\* entries up.
LEMMA PreparedProperties ==
  ASSUME NEW p
  PROVE  LET v == Lookup(Seen(p), map[p])
         IN  /\ LiveKeys(p) = {k \in Keys : v[k] # Empty}
             /\ Cardinality(LiveKeys(p)) \in Nat
             /\ \A s \in PreparedData(p) :
                  /\ s \in Seq(Record) /\ Encodes(s, v)
                  /\ Len(s) = Cardinality(LiveKeys(p))
<1> DEFINE v    == Lookup(Seen(p), map[p])
           live == {k \in Keys : v[k] # Empty}
           n    == Cardinality(live)
<1>1. \A k \in Keys : v[k] = ValueBlob(Seen(p), map[p][k])
  BY DEF Lookup
<1>2. v \in Contents
  BY LookupType
<1> HIDE DEF v
<1>3. LiveKeys(p) = live
  BY <1>1 DEF LiveKeys
<1>4. n \in Nat
  BY KeysAssumption, FS_Subset, FS_CardinalityType
<1>5. ASSUME NEW s \in PreparedData(p)
      PROVE  /\ s \in Seq(Record) /\ Encodes(s, v)
             /\ Len(s) = n
  <2>1. PICK o \in Orderings(live) :
          s = [i \in DOMAIN o |->
                 [key |-> o[i], blob |-> ValueBlob(Seen(p), map[p][o[i]])]]
    BY <1>3 DEF PreparedData
  <2>2. /\ o \in [1 .. n -> live] /\ DOMAIN o = 1 .. n
        /\ \A i, j \in 1 .. n : o[i] = o[j] => i = j
    BY <2>1 DEF Orderings
  <2>3. \A i \in 1 .. n : o[i] \in Keys /\ v[o[i]] \in Blobs
    BY <1>2, <2>2 DEF Contents
  <2>4. /\ s \in [1 .. n -> Record]
        /\ \A i \in 1 .. n : s[i].key = o[i] /\ s[i].blob = v[o[i]]
    BY <1>1, <2>1, <2>2, <2>3 DEF Record
  <2>5. Enumerates(s, v)
    BY ONLY <2>2, <2>4 DEF Enumerates
  <2> QED
    BY ONLY <1>2, <2>5, KeysAssumption, OrderedEncodes
<1> QED
  BY <1>3, <1>4, <1>5 DEF v

-----------------------------------------------------------------------------
(***************************************************************************)
(* The lock: what each of its operations does to it.                       *)
(***************************************************************************)
\* What a step of p must establish.
LEMMA LockLocal ==
  ASSUME TypeInv, NEW p \in Procs, NEW label, Goto(p, label),
         Lk!TypeOK', LockAt(p)',
         \A q \in Procs \ {p} :
           /\ os'[q] = os[q] /\ count'[q] = count[q]
           /\ lockPc'[q] = lockPc[q] /\ holders'[q] = holders[q],
         label \in LockedPCs => \/ pc[p] \in LockedPCs
                                \/ \A q \in Procs \ {p} : pc[q] \notin LockedPCs
  PROVE  LockInv'
<1>1. pc'[p] = label /\ \A q \in Procs \ {p} : pc'[q] = pc[q]
  BY DEF TypeInv, TypeOK, Goto, OpenPCs, LockedPCs
<1>2. \A q \in Procs : LockAt(q)'
  BY <1>1 DEF TypeInv, LockInv, LockAt
<1>3. \A q, r \in Procs :
        pc'[q] \in LockedPCs /\ pc'[r] \in LockedPCs => q = r
  BY <1>1 DEF TypeInv, LockInv
<1> QED
  BY <1>2, <1>3 DEF LockInv

\* A step that leaves the lock alone.
LEMMA LockKept ==
  ASSUME TypeInv, NEW p \in Procs, UNCHANGED lock,
         NEW label, Goto(p, label), label # "wait", pc[p] # "wait",
         label \in LockedPCs <=> pc[p] \in LockedPCs
  PROVE  Lk!TypeOK' /\ LockInv'
<1>1. pc'[p] = label
  BY DEF TypeInv, TypeOK, Goto
<1>2. Lk!TypeOK' /\ LockAt(p)'
  BY <1>1 DEF TypeInv, TypeOK, LockInv, LockAt, lock, Lk!TypeOK
<1> QED
  BY <1>2, LockLocal DEF lock

\* One that asks for it.
LEMMA LockAsked ==
  ASSUME TypeInv, NEW p \in Procs, Lk!Lock(p, "exclusive"), Goto(p, "wait")
  PROVE  Lk!TypeOK' /\ LockInv'
<1>1. pc'[p] = "wait" /\ pc[p] \notin LockedPCs /\ LockAt(p) /\ Lk!TypeOK
  BY DEF TypeInv, TypeOK, LockInv, LockAt, Goto, Lk!Lock, Lk!Satisfied
<1>2. /\ os' = [os EXCEPT ![p] = "none"]
      /\ count' = [count EXCEPT ![p]["shared"] = 0]
      /\ lockPc' = [lockPc EXCEPT ![p] = "exclusive"]
      /\ holders' = holders
  BY DEF Lk!Lock, Lk!Flock, Lk!Goto
<1>3. Lk!TypeOK' /\ LockAt(p)'
  BY <1>1, <1>2 DEF LockAt, LockedPCs, Lk!TypeOK, Lk!LockTypes, Lk!PCs
<1>4. \A q \in Procs \ {p} :
        /\ os'[q] = os[q] /\ count'[q] = count[q]
        /\ lockPc'[q] = lockPc[q] /\ holders'[q] = holders[q]
  BY <1>1, <1>2 DEF Lk!TypeOK
<1>5. "wait" \notin LockedPCs
  BY DEF LockedPCs
<1> QED
  BY <1>3, <1>4, <1>5, LockLocal

\* One that is granted it: no other process has it.
LEMMA LockAcquired ==
  ASSUME TypeInv, NEW p \in Procs, pc[p] = "wait", Lk!Acquire(p),
         Goto(p, "locked")
  PROVE  Lk!TypeOK' /\ LockInv'
<1>1. pc'[p] = "locked" /\ lockPc[p] = "exclusive" /\ LockAt(p) /\ Lk!TypeOK
  BY DEF TypeInv, TypeOK, LockInv, LockAt, Goto
<1>2. /\ os' = [os EXCEPT ![p] = "exclusive"]
      /\ count' = [count EXCEPT ![p]["exclusive"] = 1]
      /\ lockPc' = [lockPc EXCEPT ![p] = "idle"]
      /\ holders' = [holders EXCEPT ![p] = @]
      /\ \A q \in Procs \ {p} : os[q] = "none"
  BY <1>1 DEF Lk!Acquire, Lk!Free, Lk!Granted, Lk!Flock, Lk!Goto
<1>3. Lk!TypeOK' /\ LockAt(p)'
  BY <1>1, <1>2 DEF LockAt, LockedPCs, Lk!TypeOK, Lk!LockTypes, Lk!PCs
<1>4. \A q \in Procs \ {p} :
        /\ os'[q] = os[q] /\ count'[q] = count[q]
        /\ lockPc'[q] = lockPc[q] /\ holders'[q] = holders[q]
  BY <1>1, <1>2 DEF Lk!TypeOK
<1>5. \A q \in Procs \ {p} : pc[q] \notin LockedPCs
  BY <1>2 DEF TypeInv, LockInv, LockAt
<1> QED
  BY <1>3, <1>4, <1>5, LockLocal

\* One that gives it back.
LEMMA LockReturned ==
  ASSUME TypeInv, NEW p \in Procs, pc[p] \in LockedPCs, Return(p)
  PROVE  Lk!TypeOK' /\ LockInv'
<1>1. pc'[p] = "idle" /\ Goto(p, "idle") /\ LockAt(p) /\ Lk!TypeOK
  BY DEF TypeInv, TypeOK, LockInv, Goto, Return
<1>2. /\ lockPc' = lockPc /\ holders' = holders
      /\ count' = [count EXCEPT ![p]["exclusive"] = @ - 1]
      /\ count'[p]["exclusive"] = 0 /\ count[p]["exclusive"] = 1
  <2>1. count[p]["exclusive"] = 1 /\ count[p]["shared"] = 0
    BY <1>1 DEF LockAt
  <2>2. count' = [count EXCEPT ![p]["exclusive"] = @ - 1]
    BY DEF Return, Lk!UnlockExclusive
  <2>3. count'[p]["exclusive"] = 0
    BY <1>1, <2>1, <2>2 DEF Lk!TypeOK, Lk!LockTypes
  <2> QED
    BY <2>1, <2>2, <2>3 DEF Return, Lk!UnlockExclusive
<1>3. os' = [os EXCEPT ![p] = "none"]
  BY <1>1, <1>2 DEF LockAt, Return, Lk!UnlockExclusive, Lk!Flock
<1>4. Lk!TypeOK' /\ LockAt(p)'
  BY <1>1, <1>2, <1>3 DEF LockAt, LockedPCs, Lk!TypeOK, Lk!LockTypes, Lk!PCs
<1>5. \A q \in Procs \ {p} :
        /\ os'[q] = os[q] /\ count'[q] = count[q]
        /\ lockPc'[q] = lockPc[q] /\ holders'[q] = holders[q]
  BY <1>1, <1>2, <1>3 DEF Lk!TypeOK
<1> QED
  BY <1>1, <1>4, <1>5, LockLocal

\* One that stops to wait for it.
LEMMA LockInterrupted ==
  ASSUME TypeInv, NEW p \in Procs, pc[p] = "wait", Lk!Interrupt(p),
         Goto(p, "idle")
  PROVE  Lk!TypeOK' /\ LockInv'
<1>1. pc'[p] = "idle" /\ LockAt(p) /\ Lk!TypeOK
  BY DEF TypeInv, TypeOK, LockInv, Goto
<1>2. /\ UNCHANGED <<os, count, holders>>
      /\ lockPc' = [lockPc EXCEPT ![p] = "idle"]
  BY DEF Lk!Interrupt, Lk!Goto
<1>3. Lk!TypeOK' /\ LockAt(p)'
  BY <1>1, <1>2 DEF LockAt, LockedPCs, Lk!TypeOK, Lk!LockTypes, Lk!PCs
<1>4. \A q \in Procs \ {p} : lockPc'[q] = lockPc[q]
  BY <1>1, <1>2 DEF Lk!TypeOK
<1>5. "idle" \notin LockedPCs
  BY DEF LockedPCs
<1> QED
  BY <1>2, <1>3, <1>4, <1>5, LockLocal

\* The kernel takes it from a process that is gone.
LEMMA LockForgotten ==
  ASSUME TypeInv, NEW p \in Procs, Forget(p)
  PROVE  Lk!TypeOK' /\ LockInv'
<1>1. pc'[p] = "closed" /\ Goto(p, "closed") /\ Lk!TypeOK
  BY DEF TypeInv, TypeOK, Goto, Forget
<1>2. /\ os' = [os EXCEPT ![p] = "none"]
      /\ count' = [count EXCEPT ![p] = Lk!Unlocked]
      /\ lockPc' = [lockPc EXCEPT ![p] = "idle"]
      /\ holders' = [holders EXCEPT ![p] = 0]
  BY DEF Forget, Lk!Crash, Lk!Flock, Lk!Goto
<1>3. Lk!TypeOK' /\ LockAt(p)'
  <2>1. Lk!Unlocked \in [Lk!LockTypes -> Nat]
        /\ Lk!Unlocked["exclusive"] = 0 /\ Lk!Unlocked["shared"] = 0
    BY DEF Lk!Unlocked, Lk!LockTypes
  <2> QED
    BY <1>1, <1>2, <2>1 DEF LockAt, LockedPCs, Lk!TypeOK, Lk!LockTypes, Lk!PCs
<1>4. \A q \in Procs \ {p} :
        /\ os'[q] = os[q] /\ count'[q] = count[q]
        /\ lockPc'[q] = lockPc[q] /\ holders'[q] = holders[q]
  BY <1>1, <1>2 DEF Lk!TypeOK
<1>5. "closed" \notin LockedPCs
  BY DEF LockedPCs
<1> QED
  BY <1>1, <1>3, <1>4, <1>5, LockLocal

-----------------------------------------------------------------------------
(***************************************************************************)
(* Every action preserves the type invariant.                              *)
(***************************************************************************)
PCs == {"closed", "idle", "reading", "wait"} \cup OpenPCs \cup LockedPCs

\* What a step of p must establish.
LEMMA TypeLocal ==
  ASSUME TypeInv, NEW p \in Procs, NEW label, Goto(p, label),
         TypeOK', LockInv', OpAt(p)',
         \A q \in Procs \ {p} : op'[q] = op[q],
         data # <<>> => data' # <<>>,
         label \in {"closed", "create"} \/ data' # <<>>
  PROVE  TypeInv'
<1>1. pc'[p] = label /\ \A q \in Procs \ {p} : pc'[q] = pc[q]
  BY DEF TypeInv, TypeOK, Goto
<1>2. ASSUME NEW q \in Procs  PROVE OpAt(q)' /\ FileAt(q)'
  BY <1>1 DEF TypeInv, OpAt, FileAt
<1> QED
  BY <1>2 DEF TypeInv

LEMMA CallTypes ==
  /\ NoCall \in CallType /\ OpenCall \in CallType /\ ReaderCall \in CallType
  /\ NoCall.kind = "none" /\ OpenCall.kind = "open"
  /\ ReaderCall.kind = "reader" /\ ~OpenCall.reloaded /\ ~OpenCall.blind
BY DEF NoCall, OpenCall, ReaderCall, Call, CallType

\* The empty index.
LEMMA NoIndexType == NoIndex \in [Keys -> Nat]
BY DEF NoIndex

LEMMA EmptyContentsType == EmptyContents \in Contents
BY DEF EmptyContents, Contents, Blobs

\* A process that is gone leaves the files.
LEMMA ForgetTypeInv ==
  ASSUME TypeInv, NEW p \in Procs, Forget(p), data' = data, crc' = crc,
         stored' = stored, synced' \in [Procs -> Contents \cup {Unsynced}],
         excused' \in BOOLEAN
  PROVE  TypeInv'
<1>1. Goto(p, "closed") /\ Lk!TypeOK' /\ LockInv'
  BY LockForgotten DEF Forget
<1>2. TypeOK'
  <2>1. pc' \in [Procs -> PCs]
    BY <1>1 DEF TypeInv, TypeOK, Goto, PCs
  <2>2. op' \in [Procs -> CallType] /\ mapped' \in [Procs -> Nat]
        /\ meta' \in [Procs -> SharedMeta] /\ map' \in [Procs -> [Keys -> Nat]]
    BY CallTypes, NoMetaType, NoIndexType DEF TypeInv, TypeOK, Forget
  <2> QED
    BY <1>1, <2>1, <2>2 DEF TypeInv, TypeOK, PCs
<1>3. pc'[p] = "closed" /\ op'[p] = NoCall
      /\ \A q \in Procs \ {p} : op'[q] = op[q]
  BY DEF TypeInv, TypeOK, Forget, Goto
<1>4. OpAt(p)'
  BY <1>3, CallTypes DEF OpAt
<1> QED
  BY <1>1, <1>2, <1>3, <1>4, TypeLocal

\* A step that only moves a process on.
LEMMA MoveTypeInv ==
  ASSUME TypeInv, NEW p \in Procs, NEW label \in PCs, Goto(p, label),
         Lk!TypeOK', LockInv',
         UNCHANGED files, UNCHANGED process, UNCHANGED history,
         op' \in [Procs -> CallType], \A q \in Procs \ {p} : op'[q] = op[q],
         OpAt(p)', label \in {"closed", "create"} \/ data # <<>>
  PROVE  TypeInv'
<1>1. pc' \in [Procs -> PCs]
  BY DEF TypeInv, TypeOK, Goto, PCs
<1>2. TypeOK'
  BY <1>1 DEF TypeInv, TypeOK, PCs, files, process, history
<1> QED
  BY <1>2, TypeLocal DEF files

LEMMA StatAbsentTypeInv ==
  ASSUME TypeInv, NEW p \in Procs, StatAbsent(p)
  PROVE  TypeInv'
<1>1. Goto(p, "create") /\ Lk!TypeOK' /\ LockInv'
  BY LockKept DEF StatAbsent, LockedPCs
<1>2. pc'[p] = "create" /\ op' = op /\ op[p] = NoCall
  BY DEF TypeInv, TypeOK, OpAt, StatAbsent, Goto
<1>3. OpAt(p)'
  BY <1>2, CallTypes DEF OpAt
<1>4. "create" \in PCs
  BY DEF PCs, OpenPCs
<1> QED
  BY <1>1, <1>2, <1>3, <1>4, MoveTypeInv DEF StatAbsent, TypeInv, TypeOK

LEMMA CreateDataTypeInv ==
  ASSUME TypeInv, NEW p \in Procs, CreateData(p)
  PROVE  TypeInv'
<1>1. Goto(p, "init") /\ Lk!TypeOK' /\ LockInv'
  BY LockKept DEF CreateData, LockedPCs
<1>2. pc'[p] = "init" /\ op' = op /\ op[p] = NoCall
  BY DEF TypeInv, TypeOK, OpAt, CreateData, Goto
<1>3. data' \in Seq(Cell) /\ Len(data') = InitialCapacity - HeaderSize
  <2>1. InitialCapacity - HeaderSize \in Nat
    BY CapacityAssumption DEF HeaderSize
  <2> QED
    BY <2>1, ResizeProperties DEF TypeInv, TypeOK, CreateData
<1>4. data' # <<>>
  BY <1>3, CapacityAssumption, EmptySeq DEF HeaderSize
<1>5. TypeOK'
  <2>1. pc' \in [Procs -> PCs]
    BY <1>1 DEF TypeInv, TypeOK, Goto, PCs, OpenPCs
  <2> QED
    BY <1>1, <1>3, <2>1 DEF TypeInv, TypeOK, CreateData, PCs, process
<1>6. OpAt(p)'
  BY <1>2, CallTypes DEF OpAt
<1> QED
  BY <1>1, <1>2, <1>4, <1>5, <1>6, TypeLocal

LEMMA NonEmpty ==
  ASSUME NEW cells \in Seq(Cell)
  PROVE  cells # <<>> <=> 1 \in 0 .. Len(cells)
BY LenProperties, EmptySeq

LEMMA InitDataTypeInv ==
  ASSUME TypeInv, NEW p \in Procs, InitData(p)
  PROVE  TypeInv'
<1>1. Goto(p, "create_crc") /\ Lk!TypeOK' /\ LockInv'
  BY LockKept DEF InitData, LockedPCs
<1>2. pc'[p] = "create_crc" /\ op' = op /\ op[p] = NoCall
  BY DEF TypeInv, TypeOK, OpAt, InitData, Goto, history
<1>3. data \in Seq(Cell) /\ data # <<>> /\ Len(data) \in Nat
  BY LenProperties DEF TypeInv, TypeOK, FileAt, InitData
<1>4. data' \in Seq(Cell) /\ Len(data') = Len(data) /\ data' # <<>>
  BY <1>3, StoreCell, CellMembers, NonEmpty DEF InitData
<1>5. NewMeta(data', 1, 0) \in SharedMeta
  <2>1. 1 \in 0 .. Len(data')
    BY <1>4, NonEmpty
  <2> QED
    BY <1>4, <2>1, NewMetaType
<1>6. TypeOK'
  <2>1. pc' \in [Procs -> PCs]
    BY <1>1 DEF TypeInv, TypeOK, Goto, PCs, OpenPCs
  <2>2. mapped' \in [Procs -> Nat] /\ meta' \in [Procs -> SharedMeta]
    BY <1>3, <1>5 DEF TypeInv, TypeOK, InitData, HeaderSize
  <2> QED
    BY <1>1, <1>4, <2>1, <2>2 DEF TypeInv, TypeOK, InitData, PCs, history
<1>7. OpAt(p)'
  BY <1>2, CallTypes DEF OpAt
<1> QED
  BY <1>1, <1>2, <1>4, <1>6, <1>7, TypeLocal

LEMMA CreateCrcTypeInv ==
  ASSUME TypeInv, NEW p \in Procs, CreateCrc(p)
  PROVE  TypeInv'
<1>1. Goto(p, "wait") /\ Lk!TypeOK' /\ LockInv'
  BY LockAsked DEF CreateCrc
<1>2. pc'[p] = "wait" /\ op'[p] = OpenCall
      /\ \A q \in Procs \ {p} : op'[q] = op[q]
  BY DEF TypeInv, TypeOK, CreateCrc, Goto
<1>3. data' = data /\ data # <<>>
  BY DEF TypeInv, FileAt, CreateCrc
<1>4. TypeOK'
  <2>1. pc' \in [Procs -> PCs] /\ op' \in [Procs -> CallType]
    BY <1>1, CallTypes DEF TypeInv, TypeOK, Goto, PCs, CreateCrc
  <2>2. crc' \in SharedMeta /\ synced' \in [Procs -> Contents \cup {Unsynced}]
    BY EmptyContentsType DEF TypeInv, TypeOK, CreateCrc
  <2> QED
    BY <1>1, <1>3, <2>1, <2>2 DEF TypeInv, TypeOK, CreateCrc, PCs, process
<1>5. OpAt(p)'
  BY <1>2, CallTypes DEF OpAt, Asked
<1> QED
  BY <1>1, <1>2, <1>3, <1>4, <1>5, TypeLocal

\* The file is mapped, by a writer or by a reader.
LEMMA MapTypeInv ==
  ASSUME TypeInv, NEW p \in Procs, MapData(p) \/ MapReader(p)
  PROVE  TypeInv'
<1>1. Goto(p, "read_meta") /\ Lk!TypeOK' /\ LockInv'
  <2>1. Goto(p, "read_meta") /\ UNCHANGED lock /\ pc[p] = "closed"
    BY DEF MapData, MapReader
  <2> QED
    BY <2>1, LockKept DEF LockedPCs
<1>2. /\ pc'[p] = "read_meta" /\ op'[p] \in {NoCall, ReaderCall}
      /\ op' \in [Procs -> CallType]
      /\ \A q \in Procs \ {p} : op'[q] = op[q]
  BY CallTypes DEF TypeInv, TypeOK, OpAt, MapData, MapReader, Goto
<1>3. data' = data /\ data # <<>>
  BY DEF MapData, MapReader, files
<1>4. TypeOK'
  <2>1. pc' \in [Procs -> PCs]
    BY <1>1 DEF TypeInv, TypeOK, Goto, PCs, OpenPCs
  <2>2. mapped' \in [Procs -> Nat]
    <3>1. HeaderSize + Len(data) \in Nat
      BY LenProperties DEF TypeInv, TypeOK, HeaderSize
    <3>2. mapped' = [mapped EXCEPT ![p] = HeaderSize + Len(data)]
      BY DEF MapData, MapReader
    <3> QED
      BY <3>1, <3>2 DEF TypeInv, TypeOK
  <2>3. UNCHANGED <<files, meta, map, history>>
    BY DEF MapData, MapReader
  <2> QED
    BY <1>1, <1>2, <2>1, <2>2, <2>3 DEF TypeInv, TypeOK, PCs, files, history
<1>5. OpAt(p)'
  BY <1>2, CallTypes DEF OpAt
<1> QED
  BY <1>1, <1>2, <1>3, <1>4, <1>5, TypeLocal

LEMMA ReadMetaTypeInv ==
  ASSUME TypeInv, NEW p \in Procs, ReadMeta(p)
  PROVE  TypeInv'
<1>1. CASE crc.version = 0
  <2>1. Forget(p) /\ UNCHANGED history /\ UNCHANGED files
    BY <1>1 DEF ReadMeta
  <2> QED
    BY <2>1, ForgetTypeInv DEF files, history, TypeInv, TypeOK
<1>2. CASE crc.version # 0
  <2>1. /\ meta' = [meta EXCEPT ![p] = crc]
        /\ synced' = [synced EXCEPT ![p] = stored]
        /\ Goto(p, "validate")
        /\ UNCHANGED <<files, lock, mapped, map, stored, excused, op>>
        /\ pc[p] = "read_meta"
    BY <1>2 DEF ReadMeta
  <2>2. Lk!TypeOK' /\ LockInv'
    BY <2>1, LockKept DEF LockedPCs
  <2>3. pc'[p] = "validate" /\ op' = op /\ op[p] \in {NoCall, ReaderCall}
        /\ data' = data /\ data # <<>>
    BY <2>1 DEF TypeInv, TypeOK, OpAt, FileAt, Goto, files
  <2>4. TypeOK'
    <3>1. pc' \in [Procs -> PCs]
      BY <2>1 DEF TypeInv, TypeOK, Goto, PCs, OpenPCs
    <3> QED
      BY <2>1, <2>2, <3>1 DEF TypeInv, TypeOK, PCs, files
  <2>5. OpAt(p)'
    BY <2>3, CallTypes DEF OpAt
  <2> QED
    BY <2>1, <2>2, <2>3, <2>4, <2>5, TypeLocal
<1> QED
  BY <1>1, <1>2

\* The size that checkDataValid reports.
LEMMA CheckedSize ==
  ASSUME NEW cells, NEW m \in SharedMeta
  PROVE  CheckDataValid(cells, 0, m).effectiveActualSize \in Nat
BY DEF CheckDataValid, CandidateSize, SharedMeta

LEMMA ValidateTypeInv ==
  ASSUME TypeInv, NEW p \in Procs, Validate(p)
  PROVE  TypeInv'
<1> DEFINE r == CheckDataValid(Shown(p), 0, meta[p])
<1>1. r.effectiveActualSize \in Nat
  BY CheckedSize DEF TypeInv, TypeOK
<1>2. CASE r.loadFromFile
  <2>1. /\ meta' = [meta EXCEPT ![p].actualSize = r.effectiveActualSize]
        /\ synced' = [synced EXCEPT ![p] =
                         IF r.needFullWriteback THEN Unsynced ELSE @]
        /\ Goto(p, "decode")
        /\ UNCHANGED <<files, lock, mapped, map, stored, excused, op>>
        /\ pc[p] = "validate"
    BY <1>2 DEF Validate
  <2>2. Lk!TypeOK' /\ LockInv'
    BY <2>1, LockKept DEF LockedPCs
  <2>3. pc'[p] = "decode" /\ op' = op /\ op[p] \in {NoCall, ReaderCall}
        /\ data' = data /\ data # <<>>
    BY <2>1 DEF TypeInv, TypeOK, OpAt, FileAt, Goto, files
  <2>4. TypeOK'
    <3>1. pc' \in [Procs -> PCs]
      BY <2>1 DEF TypeInv, TypeOK, Goto, PCs, OpenPCs
    <3> HIDE DEF r
    <3>2. meta' \in [Procs -> SharedMeta]
      BY <1>1, <2>1 DEF TypeInv, TypeOK, SharedMeta
    <3>3. synced' \in [Procs -> Contents \cup {Unsynced}]
      BY <2>1 DEF TypeInv, TypeOK
    <3> QED
      BY <2>1, <2>2, <3>1, <3>2, <3>3 DEF TypeInv, TypeOK, PCs, files
  <2>5. OpAt(p)'
    BY <2>3, CallTypes DEF OpAt
  <2> QED
    BY <2>1, <2>2, <2>3, <2>4, <2>5, TypeLocal
<1>3. CASE ~r.loadFromFile
  <2>1. Forget(p) /\ UNCHANGED <<files, stored, excused, synced>>
    BY <1>3 DEF Validate
  <2> QED
    BY <2>1, ForgetTypeInv DEF files, TypeInv, TypeOK
<1> QED
  BY <1>2, <1>3

LEMMA DecodeTypeInv ==
  ASSUME TypeInv, NEW p \in Procs, Decode(p)
  PROVE  TypeInv'
<1>1. Index(Shown(p), meta[p].actualSize) \in [Keys -> Nat]
  BY ViewProperties, IndexType DEF Shown, TypeInv, TypeOK, SharedMeta
<1>2. data' = data /\ data # <<>> /\ crc' = crc
  BY DEF TypeInv, FileAt, Decode, files
<1>3. CASE op[p] = ReaderCall
  <2>1. Goto(p, "reading") /\ UNCHANGED <<lock, op, mapped, meta, history>>
        /\ pc[p] = "decode" /\ op[p] = ReaderCall
        /\ map' = [map EXCEPT ![p] = Index(Shown(p), meta[p].actualSize)]
    BY <1>3 DEF Decode
  <2>2. Lk!TypeOK' /\ LockInv'
    BY <2>1, LockKept DEF LockedPCs
  <2>3. pc'[p] = "reading" /\ op'[p] = ReaderCall /\ op' = op
    BY <2>1 DEF TypeInv, TypeOK, Goto
  <2>4. TypeOK'
    <3>1. pc' \in [Procs -> PCs]
      BY <2>1 DEF TypeInv, TypeOK, Goto, PCs
    <3>2. map' \in [Procs -> [Keys -> Nat]]
      BY <1>1, <2>1 DEF TypeInv, TypeOK
    <3> QED
      BY <1>2, <2>1, <2>2, <3>1, <3>2 DEF TypeInv, TypeOK, PCs, history
  <2>5. OpAt(p)'
    BY <2>3, CallTypes DEF OpAt
  <2> QED
    BY <1>2, <2>1, <2>2, <2>3, <2>4, <2>5, TypeLocal
<1>4. CASE op[p] # ReaderCall
  <2>1. /\ op' = [op EXCEPT ![p] = OpenCall]
        /\ Lk!Lock(p, "exclusive") /\ Goto(p, "wait")
        /\ UNCHANGED <<mapped, meta, history>>
        /\ map' = [map EXCEPT ![p] = Index(Shown(p), meta[p].actualSize)]
    BY <1>4 DEF Decode
  <2>2. Lk!TypeOK' /\ LockInv'
    BY <2>1, LockAsked
  <2>3. pc'[p] = "wait" /\ op'[p] = OpenCall
        /\ \A q \in Procs \ {p} : op'[q] = op[q]
    BY <2>1 DEF TypeInv, TypeOK, Goto
  <2>4. TypeOK'
    <3>1. pc' \in [Procs -> PCs] /\ op' \in [Procs -> CallType]
      BY <2>1, CallTypes DEF TypeInv, TypeOK, Goto, PCs
    <3>2. map' \in [Procs -> [Keys -> Nat]]
      BY <1>1, <2>1 DEF TypeInv, TypeOK
    <3> QED
      BY <1>2, <2>1, <2>2, <3>1, <3>2 DEF TypeInv, TypeOK, PCs, history
  <2>5. OpAt(p)'
    BY <2>3, CallTypes DEF OpAt
  <2> QED
    BY <1>2, <2>1, <2>2, <2>3, <2>4, <2>5, TypeLocal
<1> QED
  BY <1>3, <1>4

\* What a process may ask for.
LEMMA CallKinds ==
  ASSUME NEW kind \in Asked,
         NEW k \in Keys \cup {""}, NEW b \in Blobs \cup {""},
         kind = "append" => k \in Keys /\ b \in Blobs
  PROVE  LET c == Call(kind, k, b)
         IN  /\ c \in CallType /\ c.kind = kind /\ ~c.reloaded /\ ~c.blind
             /\ c.kind = "append" => c.key \in Keys /\ c.blob \in Blobs
BY DEF Call, CallType, Asked

LEMMA BeginTypeInv ==
  ASSUME TypeInv, NEW p \in Procs,
         NEW c \in CallType, c.kind \in Asked, ~c.reloaded, ~c.blind,
         c.kind = "append" => c.key \in Keys /\ c.blob \in Blobs,
         Begin(p, c), map' \in [Procs -> [Keys -> Nat]],
         synced' \in [Procs -> Contents \cup {Unsynced}]
  PROVE  TypeInv'
<1>1. Goto(p, "wait") /\ Lk!TypeOK' /\ LockInv'
  BY LockAsked DEF Begin
<1>2. pc'[p] = "wait" /\ op'[p] = c
      /\ \A q \in Procs \ {p} : op'[q] = op[q]
  BY DEF TypeInv, TypeOK, Begin, Goto
<1>3. data' = data /\ data # <<>> /\ crc' = crc
  BY DEF TypeInv, FileAt, Begin, files
<1>4. TypeOK'
  <2>1. pc' \in [Procs -> PCs] /\ op' \in [Procs -> CallType]
    BY <1>1 DEF TypeInv, TypeOK, Goto, PCs, Begin
  <2> QED
    BY <1>1, <1>3, <2>1 DEF TypeInv, TypeOK, Begin, PCs
<1>5. OpAt(p)'
  BY <1>2 DEF OpAt
<1> QED
  BY <1>1, <1>2, <1>3, <1>4, <1>5, TypeLocal

LEMMA SetTypeInv ==
  ASSUME TypeInv, NEW p \in Procs, NEW k \in Keys, NEW b \in Blobs, Set(p, k, b)
  PROVE  TypeInv'
<1> DEFINE c == Call("append", k, b)
<1>1. c \in CallType /\ c.kind \in Asked /\ ~c.reloaded /\ ~c.blind
      /\ (c.kind = "append" => c.key \in Keys /\ c.blob \in Blobs)
  BY CallKinds DEF Asked
<1>2. Begin(p, c) /\ UNCHANGED <<map, synced>>
  BY DEF Set
<1> HIDE DEF c
<1> QED
  BY <1>1, <1>2, BeginTypeInv DEF TypeInv, TypeOK

LEMMA CallsTypeInv ==
  ASSUME TypeInv, NEW p \in Procs, Calls(p)
  PROVE  TypeInv'
<1>1. ASSUME NEW k \in Keys, NEW b \in Blobs, Set(p, k, b)  PROVE TypeInv'
  BY <1>1, SetTypeInv
<1>2. ASSUME NEW k \in Keys, Remove(p, k)  PROVE TypeInv'
  BY <1>2, SetTypeInv DEF Remove, Blobs
<1>3. CASE Compact(p)
  <2> DEFINE c == Call("compact", "", "")
  <2>1. c \in CallType /\ c.kind \in Asked /\ ~c.reloaded /\ ~c.blind
        /\ c.kind # "append"
    BY DEF Asked, Call, CallType
  <2>2. Begin(p, c) /\ UNCHANGED <<map, synced>>
    BY <1>3 DEF Compact
  <2> HIDE DEF c
  <2> QED
    BY <2>1, <2>2, BeginTypeInv DEF TypeInv, TypeOK
<1>4. CASE ClearAll(p)
  <2> DEFINE c == Call("clearAll", "", "")
  <2>1. c \in CallType /\ c.kind \in Asked /\ ~c.reloaded /\ ~c.blind
        /\ c.kind # "append"
    BY DEF Asked, Call, CallType
  <2>2. /\ Begin(p, c) /\ map' = [map EXCEPT ![p] = NoIndex]
        /\ synced' = [synced EXCEPT ![p] = EmptyContents]
    BY <1>4 DEF ClearAll
  <2> HIDE DEF c
  <2>3. map' \in [Procs -> [Keys -> Nat]]
        /\ synced' \in [Procs -> Contents \cup {Unsynced}]
    BY <2>2, NoIndexType, EmptyContentsType DEF TypeInv, TypeOK
  <2> QED
    BY <2>1, <2>2, <2>3, BeginTypeInv
<1> QED
  BY <1>1, <1>2, <1>3, <1>4 DEF Calls

LEMMA AcquireTypeInv ==
  ASSUME TypeInv, NEW p \in Procs, Acquire(p)
  PROVE  TypeInv'
<1>1. Goto(p, "locked") /\ Lk!TypeOK' /\ LockInv'
  BY LockAcquired DEF Acquire
<1>2. pc[p] = "wait" /\ pc'[p] = "locked" /\ op' = op
  BY DEF TypeInv, TypeOK, Acquire, Goto
<1>3. OpAt(p)'
  BY <1>2 DEF TypeInv, OpAt
<1>4. data # <<>> /\ "locked" \in PCs
  BY <1>2 DEF TypeInv, FileAt, PCs, LockedPCs
<1> QED
  BY <1>1, <1>2, <1>3, <1>4, MoveTypeInv DEF Acquire, TypeInv, TypeOK

\* What a call that returns must establish.
LEMMA ReturnTypeInv ==
  ASSUME TypeInv, NEW p \in Procs, pc[p] \in LockedPCs, Return(p),
         data' \in Seq(Cell), data' # <<>>, crc' \in SharedMeta,
         mapped' \in [Procs -> Nat], meta' = meta,
         map' \in [Procs -> [Keys -> Nat]], stored' \in Contents,
         synced' \in [Procs -> Contents \cup {Unsynced}], excused' \in BOOLEAN
  PROVE  TypeInv'
<1>1. Goto(p, "idle") /\ Lk!TypeOK' /\ LockInv'
  BY LockReturned DEF Return
<1>2. pc'[p] = "idle" /\ op'[p] = NoCall
      /\ \A q \in Procs \ {p} : op'[q] = op[q]
  BY DEF TypeInv, TypeOK, Return, Goto
<1>3. TypeOK'
  <2>1. pc' \in [Procs -> PCs] /\ op' \in [Procs -> CallType]
    BY <1>1, CallTypes DEF TypeInv, TypeOK, Goto, PCs, Return
  <2> QED
    BY <1>1, <2>1 DEF TypeInv, TypeOK, PCs
<1>4. OpAt(p)'
  BY <1>2, CallTypes DEF OpAt
<1> QED
  BY <1>1, <1>2, <1>3, <1>4, TypeLocal

\* One that returns and has changed no file.
LEMMA IdleReturnTypeInv ==
  ASSUME TypeInv, NEW p \in Procs, pc[p] \in LockedPCs, Return(p),
         UNCHANGED <<files, process, stored, synced>>, excused' \in BOOLEAN
  PROVE  TypeInv'
<1>1. data # <<>>
  BY DEF TypeInv, FileAt, LockedPCs
<1> QED
  BY <1>1, ReturnTypeInv DEF TypeInv, TypeOK, files, process

LEMMA InterruptTypeInv ==
  ASSUME TypeInv, NEW p \in Procs, Interrupt(p)
  PROVE  TypeInv'
<1>1. excused' \in BOOLEAN /\ UNCHANGED <<files, stored, synced>>
  BY DEF TypeInv, TypeOK, Interrupt
<1>2. CASE op[p].kind = "open"
  BY <1>1, <1>2, ForgetTypeInv DEF Interrupt, files, TypeInv, TypeOK
<1>3. CASE op[p].kind # "open"
  <2>1. /\ Goto(p, "idle") /\ Lk!Interrupt(p) /\ pc[p] = "wait"
        /\ op' = [op EXCEPT ![p] = NoCall] /\ UNCHANGED process
    BY <1>3 DEF Interrupt
  <2>2. Lk!TypeOK' /\ LockInv'
    BY <2>1, LockInterrupted
  <2>3. pc'[p] = "idle" /\ op'[p] = NoCall
        /\ \A q \in Procs \ {p} : op'[q] = op[q]
    BY <2>1 DEF TypeInv, TypeOK, Goto
  <2>4. data' = data /\ data # <<>>
    BY <1>1, <2>1 DEF TypeInv, FileAt, files
  <2>5. TypeOK'
    <3>1. pc' \in [Procs -> PCs] /\ op' \in [Procs -> CallType]
      BY <2>1, CallTypes DEF TypeInv, TypeOK, Goto, PCs
    <3> QED
      BY <1>1, <2>1, <2>2, <3>1 DEF TypeInv, TypeOK, PCs, files, process
  <2>6. OpAt(p)'
    BY <2>3, CallTypes DEF OpAt
  <2> QED
    BY <2>1, <2>2, <2>3, <2>4, <2>5, <2>6, TypeLocal
<1> QED
  BY <1>2, <1>3

LEMMA CheckLoadDataTypeInv ==
  ASSUME TypeInv, NEW p \in Procs, CheckLoadData(p)
  PROVE  TypeInv'
<1>1. /\ Goto(p, "reserve") /\ pc[p] = "locked" /\ op[p].kind # "open"
      /\ UNCHANGED <<files, lock, stored, excused>>
  BY DEF CheckLoadData
<1>2. Lk!TypeOK' /\ LockInv'
  BY <1>1, LockKept DEF LockedPCs
<1>3. /\ meta' \in [Procs -> SharedMeta] /\ mapped' \in [Procs -> Nat]
      /\ map' \in [Procs -> [Keys -> Nat]] /\ op' \in [Procs -> CallType]
      /\ op'[p].kind = op[p].kind /\ op'[p].key = op[p].key
      /\ op'[p].blob = op[p].blob /\ op'[p].blind = op[p].blind
      /\ \A q \in Procs \ {p} : op'[q] = op[q]
  <2>1. CASE ~Changed(p)
    BY <2>1 DEF TypeInv, TypeOK, CheckLoadData, process
  <2>2. CASE Changed(p)
    <3>1. /\ meta' = [meta EXCEPT ![p] = crc]
          /\ mapped' = [mapped EXCEPT ![p] =
                          IF HeaderSize + crc.actualSize > @
                            THEN HeaderSize + Len(data) ELSE @]
          /\ map' = [map EXCEPT ![p] =
                        Index(View(mapped'[p]), crc.actualSize)]
          /\ op' = [op EXCEPT ![p].reloaded = TRUE]
      BY <2>2 DEF CheckLoadData
    <3>2. HeaderSize + Len(data) \in Nat
      BY LenProperties DEF TypeInv, TypeOK, HeaderSize
    <3>3. mapped' \in [Procs -> Nat]
      BY <3>1, <3>2 DEF TypeInv, TypeOK
    <3>4. Index(View(mapped'[p]), crc.actualSize) \in [Keys -> Nat]
      BY <3>3, ViewProperties, IndexType DEF TypeInv, TypeOK, SharedMeta
    <3>5. map' \in [Procs -> [Keys -> Nat]] /\ meta' \in [Procs -> SharedMeta]
      BY <3>1, <3>4 DEF TypeInv, TypeOK
    <3>6. /\ op' \in [Procs -> CallType]
          /\ op'[p].kind = op[p].kind /\ op'[p].key = op[p].key
          /\ op'[p].blob = op[p].blob /\ op'[p].blind = op[p].blind
          /\ \A q \in Procs \ {p} : op'[q] = op[q]
      BY <3>1 DEF TypeInv, TypeOK, CallType
    <3> QED
      BY <3>3, <3>5, <3>6
  <2> QED
    BY <2>1, <2>2
<1>4. synced' \in [Procs -> Contents \cup {Unsynced}]
  <2>1. synced' = [synced EXCEPT ![p] = synced'[p]]
        /\ synced'[p] \in {synced[p], stored}
    BY DEF TypeInv, TypeOK, CheckLoadData
  <2> QED
    BY <2>1 DEF TypeInv, TypeOK
<1>5. TypeOK'
  <2>1. pc' \in [Procs -> PCs]
    BY <1>1 DEF TypeInv, TypeOK, Goto, PCs, LockedPCs
  <2> QED
    BY <1>1, <1>2, <1>3, <1>4, <2>1 DEF TypeInv, TypeOK, PCs, files
<1>6. pc'[p] = "reserve" /\ data' = data /\ data # <<>>
  BY <1>1 DEF TypeInv, TypeOK, FileAt, Goto, files
<1>7. OpAt(p)'
  BY <1>1, <1>3, <1>6 DEF TypeInv, OpAt
<1> QED
  BY <1>1, <1>2, <1>3, <1>5, <1>6, <1>7, TypeLocal

LEMMA ReloadFailsTypeInv ==
  ASSUME TypeInv, NEW p \in Procs, ReloadFails(p)
  PROVE  TypeInv'
<1>1. /\ Goto(p, "reserve") /\ pc[p] = "locked" /\ op[p].kind # "open"
      /\ UNCHANGED <<files, lock, process, stored, synced, op>>
      /\ excused' = TRUE
  BY DEF ReloadFails
<1>2. Lk!TypeOK' /\ LockInv'
  BY <1>1, LockKept DEF LockedPCs
<1>3. pc'[p] = "reserve" /\ data' = data /\ data # <<>>
  BY <1>1 DEF TypeInv, TypeOK, FileAt, Goto, files
<1>4. TypeOK'
  <2>1. pc' \in [Procs -> PCs]
    BY <1>1 DEF TypeInv, TypeOK, Goto, PCs, LockedPCs
  <2> QED
    BY <1>1, <1>2, <2>1 DEF TypeInv, TypeOK, PCs, files, process
<1>5. OpAt(p)'
  BY <1>1, <1>3 DEF TypeInv, OpAt
<1> QED
  BY <1>1, <1>2, <1>3, <1>4, <1>5, TypeLocal

LEMMA NeededType ==
  ASSUME NEW p
  PROVE  Needed(p) \in Nat \ {0}
<1>1. Cardinality(LiveKeys(p)) \in Nat
  BY PreparedProperties
<1> QED
  BY <1>1 DEF Needed, ItemSizeHolder

LEMMA EnsureSpaceTypeInv ==
  ASSUME TypeInv, NEW p \in Procs, EnsureSpace(p)
  PROVE  TypeInv'
<1>1. Goto(p, "store") /\ Lk!TypeOK' /\ LockInv'
  BY LockKept DEF EnsureSpace, LockedPCs
<1>2. pc[p] = "reserve" /\ pc'[p] = "store" /\ op' = op
  BY DEF TypeInv, TypeOK, EnsureSpace, Goto
<1>3. OpAt(p)'
  BY <1>2 DEF TypeInv, OpAt
<1>4. data # <<>> /\ "store" \in PCs
  BY <1>2 DEF TypeInv, FileAt, PCs, LockedPCs
<1> QED
  BY <1>1, <1>2, <1>3, <1>4, MoveTypeInv DEF EnsureSpace, TypeInv, TypeOK

\* The sizes that ensureSpace gives the file hold what was asked.
LEMMA NewCapacitiesProperties ==
  ASSUME TypeInv, NEW p \in Procs, NEW c \in NewCapacities(p)
  PROVE  LET grown == Resize(data, c - HeaderSize)
         IN  /\ c \in Nat /\ grown \in Seq(Cell) /\ grown # <<>>
             /\ Len(grown) \in Nat /\ Len(grown) = c - HeaderSize
             /\ meta[p].actualSize + Needed(p) <= Len(grown)
             /\ \A i \in 1 .. Len(grown) : i <= Len(data) => grown[i] = data[i]
<1> DEFINE wanted == meta[p].actualSize + Needed(p)
           start  == IF mapped[p] = 0 THEN InitialCapacity ELSE mapped[p]
           grown  == Resize(data, c - HeaderSize)
<1>1. wanted \in Nat \ {0}
  BY NeededType DEF TypeInv, TypeOK, SharedMeta
<1>2. start \in Nat
  BY CapacityAssumption DEF TypeInv, TypeOK
<1>3. c \in GrownCapacities(start, wanted, MaxCapacity)
  BY DEF NewCapacities
<1> HIDE DEF wanted, start
<1>4. c \in Nat /\ c - HeaderSize >= wanted
  BY ONLY <1>1, <1>2, <1>3, GrownCapacitiesBound, CapacityAssumption
<1>5. c - HeaderSize \in Nat /\ 1 <= c - HeaderSize
  BY <1>1, <1>4 DEF HeaderSize
<1>6. /\ grown \in Seq(Cell) /\ Len(grown) = c - HeaderSize
      /\ \A i \in 1 .. c - HeaderSize : i <= Len(data) => grown[i] = data[i]
  BY <1>5, ResizeProperties DEF TypeInv, TypeOK
<1> HIDE DEF grown
<1>7. grown # <<>>
  BY <1>5, <1>6, NonEmpty
<1>8. wanted <= Len(grown) /\ Len(grown) \in Nat
  BY <1>1, <1>4, <1>5, <1>6
<1> QED
  BY <1>4, <1>6, <1>7, <1>8 DEF grown, wanted

\* The file that ensureSpace leaves.
LEMMA GrowProperties ==
  ASSUME TypeInv, NEW p \in Procs, Grow(p)
  PROVE  /\ data' \in Seq(Cell) /\ data' # <<>>
         /\ mapped' \in [Procs -> Nat]
         /\ \A q \in Procs \ {p} : mapped'[q] = mapped[q]
         /\ Len(data') = mapped'[p] - HeaderSize
         /\ meta[p].actualSize + Needed(p) <= mapped'[p] - HeaderSize
         /\ \A i \in 1 .. Len(data') : i <= Len(data) => data'[i] = data[i]
<1>1. PICK c \in NewCapacities(p) :
        /\ data' = Resize(data, c - HeaderSize)
        /\ mapped' = [mapped EXCEPT ![p] = c]
  BY DEF Grow
<1>2. mapped' \in [Procs -> Nat] /\ mapped'[p] = c
      /\ \A q \in Procs \ {p} : mapped'[q] = mapped[q]
  BY <1>1, NewCapacitiesProperties DEF TypeInv, TypeOK
<1> QED
  BY <1>1, <1>2, NewCapacitiesProperties

LEMMA GrowTypeInv ==
  ASSUME TypeInv, NEW p \in Procs, Grow(p)
  PROVE  TypeInv'
<1>1. Goto(p, "store") /\ Lk!TypeOK' /\ LockInv'
  BY LockKept DEF Grow, LockedPCs
<1>2. /\ pc[p] = "reserve" /\ pc'[p] = "store"
      /\ op' \in [Procs -> CallType] /\ \A q \in Procs \ {p} : op'[q] = op[q]
      /\ op'[p].kind = op[p].kind /\ op'[p].key = op[p].key
      /\ op'[p].blob = op[p].blob
  <2> DEFINE blind == mapped[p] = 0
  <2>1. /\ op' = [op EXCEPT ![p].blind = blind] /\ blind \in BOOLEAN
        /\ pc[p] = "reserve" /\ pc'[p] = "store"
    BY DEF TypeInv, TypeOK, Grow, Goto
  <2> HIDE DEF blind
  <2> QED
    BY <2>1 DEF TypeInv, TypeOK, CallType
<1>3. data' \in Seq(Cell) /\ mapped' \in [Procs -> Nat] /\ data' # <<>>
  BY GrowProperties
<1>4. TypeOK'
  <2>1. pc' \in [Procs -> PCs]
    BY <1>1 DEF TypeInv, TypeOK, Goto, PCs, LockedPCs
  <2> QED
    BY <1>1, <1>2, <1>3, <2>1 DEF TypeInv, TypeOK, Grow, PCs, history
<1>5. OpAt(p)'
  BY <1>2 DEF TypeInv, OpAt
<1> QED
  BY <1>1, <1>2, <1>3, <1>4, <1>5, TypeLocal

LEMMA MmapFailsTypeInv ==
  ASSUME TypeInv, NEW p \in Procs, MmapFails(p)
  PROVE  TypeInv'
<1>1. data' \in Seq(Cell) /\ data' # <<>>
  BY NewCapacitiesProperties DEF MmapFails
<1>2. mapped' \in [Procs -> Nat] /\ excused' \in BOOLEAN
  BY DEF MmapFails, TypeInv, TypeOK
<1> QED
  BY <1>1, <1>2, ReturnTypeInv DEF MmapFails, LockedPCs, TypeInv, TypeOK

\* A call that returns false, for want of space.
LEMMA GrowFailsTypeInv ==
  ASSUME TypeInv, NEW p \in Procs, GrowFails(p)
  PROVE  TypeInv'
BY IdleReturnTypeInv DEF GrowFails, LockedPCs, TypeInv, TypeOK

LEMMA OpenReturnsTypeInv ==
  ASSUME TypeInv, NEW p \in Procs, OpenReturns(p)
  PROVE  TypeInv'
BY IdleReturnTypeInv DEF OpenReturns, LockedPCs, TypeInv, TypeOK, history

\* What a copy into the mapping must establish.
LEMMA StoreTypeInv ==
  ASSUME TypeInv, NEW p \in Procs, pc[p] = "store", Goto(p, "sync"),
         UNCHANGED <<crc, lock, mapped, map, op, stored>>,
         excused' \in BOOLEAN, data' \in Seq(Cell), data' # <<>>, meta' \in [Procs -> SharedMeta],
         synced' \in [Procs -> Contents \cup {Unsynced}]
  PROVE  TypeInv'
<1>1. Lk!TypeOK' /\ LockInv'
  BY LockKept DEF LockedPCs
<1>2. pc'[p] = "sync" /\ op' = op
  BY DEF TypeInv, TypeOK, Goto
<1>3. TypeOK'
  <2>1. pc' \in [Procs -> PCs]
    BY DEF TypeInv, TypeOK, Goto, PCs, LockedPCs
  <2> QED
    BY <1>1, <2>1 DEF TypeInv, TypeOK, PCs
<1>4. OpAt(p)'
  BY <1>2 DEF TypeInv, OpAt
<1> QED
  BY <1>1, <1>2, <1>3, <1>4, TypeLocal

LEMMA NewRecordType ==
  ASSUME TypeInv, NEW p \in Procs, op[p].kind = "append"
  PROVE  NewRecord(p) \in Record /\ NewRecord(p) \in Cell
BY CellMembers DEF TypeInv, OpAt, NewRecord, Record

\* What the copy of a record does, where the file still has the page.
LEMMA StoreRecordProperties ==
  ASSUME TypeInv, NEW p \in Procs, StoreRecord(p),
         meta[p].actualSize + 1 <= Len(data)
  PROVE  LET i == meta[p].actualSize + 1
         IN  /\ data' \in Seq(Cell) /\ Len(data') = Len(data)
             /\ i \in 1 .. Len(data) /\ data'[i] = NewRecord(p)
             /\ \A j \in 1 .. Len(data) : j # i => data'[j] = data[j]
             /\ meta' \in [Procs -> SharedMeta]
             /\ \A q \in Procs \ {p} : meta'[q] = meta[q]
             /\ meta'[p] = [meta[p] EXCEPT
                              !.crcDigest  = UpdateCRC(@, NewRecord(p)),
                              !.actualSize = i,
                              !.sequence   = @ + 1]
             /\ Goto(p, "sync")
             /\ UNCHANGED <<crc, lock, mapped, map, op, history>>
<1> DEFINE i == meta[p].actualSize + 1
           m == [meta[p] EXCEPT !.crcDigest  = UpdateCRC(@, NewRecord(p)),
                                !.actualSize = i,
                                !.sequence   = @ + 1]
<1>1. /\ data' = [data EXCEPT ![i] = NewRecord(p)]
      /\ meta' = [meta EXCEPT ![p].crcDigest  = UpdateCRC(@, NewRecord(p)),
                              ![p].actualSize = i,
                              ![p].sequence   = @ + 1]
      /\ Goto(p, "sync")
      /\ UNCHANGED <<crc, lock, mapped, map, op, history>>
  BY DEF StoreRecord
<1>2. i \in 1 .. Len(data) /\ data \in Seq(Cell) /\ meta[p] \in SharedMeta
      /\ meta \in [Procs -> SharedMeta] /\ Len(data) \in Nat
  BY LenProperties DEF TypeInv, TypeOK, SharedMeta
<1>3. NewRecord(p) \in Cell
  BY NewRecordType DEF StoreRecord
<1>4. UpdateCRC(meta[p].crcDigest, NewRecord(p)) \in Seq(Cell)
  BY <1>2, <1>3, AppendProperties DEF UpdateCRC, SharedMeta
<1>5. m \in SharedMeta
  <2> DEFINE d == UpdateCRC(meta[p].crcDigest, NewRecord(p))
  <2>1. m = [meta[p] EXCEPT !.crcDigest = d, !.actualSize = i,
                            !.sequence = meta[p].sequence + 1]
    OBVIOUS
  <2>2. d \in Seq(Cell) /\ i \in Nat /\ meta[p].sequence + 1 \in Nat
    BY <1>2, <1>4 DEF SharedMeta
  <2> HIDE DEF d, i, m
  <2> QED
    BY <1>2, <2>1, <2>2 DEF SharedMeta
<1>6. meta'[p] = m /\ \A q \in Procs \ {p} : meta'[q] = meta[q]
  BY <1>1, <1>2
<1>7. meta' \in [Procs -> SharedMeta]
  <2>1. DOMAIN meta' = Procs /\ meta' = [q \in Procs |-> meta'[q]]
    BY <1>1, <1>2
  <2> QED
    BY <1>2, <1>5, <1>6, <2>1
<1>8. /\ data' \in Seq(Cell) /\ Len(data') = Len(data)
      /\ data'[i] = NewRecord(p)
      /\ \A j \in 1 .. Len(data) : j # i => data'[j] = data[j]
  BY <1>1, <1>2, <1>3, StoreCell
<1> QED
  BY <1>1, <1>2, <1>6, <1>7, <1>8

LEMMA StoreRecordTypeInv ==
  ASSUME TypeInv, NEW p \in Procs, StoreRecord(p)
  PROVE  TypeInv'
<1>1. CASE meta[p].actualSize + 1 <= Len(data)
  <2>1. /\ data' \in Seq(Cell) /\ Len(data') = Len(data)
        /\ meta' \in [Procs -> SharedMeta] /\ Goto(p, "sync")
        /\ UNCHANGED <<crc, lock, mapped, map, op, history>>
    BY <1>1, StoreRecordProperties
  <2>2. data' # <<>>
    <3>1. Len(data) \in Nat /\ meta[p].actualSize \in Nat
      BY LenProperties DEF TypeInv, TypeOK, SharedMeta
    <3>2. 1 \in 0 .. Len(data')
      BY <1>1, <2>1, <3>1
    <3> QED
      BY <2>1, <3>2, NonEmpty
  <2> QED
    BY <2>1, <2>2, StoreTypeInv DEF StoreRecord, history, TypeInv, TypeOK
<1>2. CASE ~(meta[p].actualSize + 1 <= Len(data))
  <2>1. Forget(p) /\ UNCHANGED <<data, crc, history>>
    BY <1>2 DEF StoreRecord
  <2> QED
    BY <2>1, ForgetTypeInv DEF history, TypeInv, TypeOK
<1> QED
  BY <1>1, <1>2

\* Copying over the front of a file.
LEMMA CopyProperties ==
  ASSUME NEW cells \in Seq(Cell), NEW new \in Seq(Cell), Len(new) <= Len(cells)
  PROVE  LET b == new \o SubSeq(cells, Len(new) + 1, Len(cells))
         IN  /\ b \in Seq(Cell) /\ Len(b) = Len(cells)
             /\ \A i \in 1 .. Len(new) : b[i] = new[i]
<1> DEFINE m == Len(new)
           n == Len(cells)
           tail == SubSeq(cells, m + 1, n)
<1>1. m \in Nat /\ n \in Nat
  BY LenProperties
<1>2. \A i \in m + 1 .. n : cells[i] \in Cell
  BY <1>1, ElementOfSeq
<1> HIDE DEF m, n
<1>3. tail \in Seq(Cell) /\ Len(tail) = IF m + 1 <= n THEN n - m ELSE 0
  BY <1>1, <1>2, SubSeqProperties
<1>4. Len(tail) = n - m
  BY <1>1, <1>3 DEF m, n
<1> HIDE DEF tail
<1>5. /\ new \o tail \in Seq(Cell) /\ Len(new \o tail) = m + Len(tail)
      /\ \A i \in 1 .. m : (new \o tail)[i] = new[i]
  BY <1>1, <1>3, ConcatProperties DEF m
<1> QED
  BY <1>1, <1>4, <1>5 DEF m, n, tail

\* What a rewrite copies: another ItemSizeHolder, and the prepared data.
LEMMA StoreRewriteProperties ==
  ASSUME TypeInv, NEW p \in Procs, StoreRewrite(p)
  PROVE  \E s \in PreparedData(p) :
           LET n == ItemSizeHolder + Len(s)
           IN  /\ s \in Seq(Record) /\ n \in Nat \ {0}
               /\ IF n <= Len(data)
                    THEN /\ data' \in Seq(Cell) /\ Len(data') = Len(data)
                         /\ data'[1] # data[1] /\ InPlace(data', s, Len(s))
                         /\ meta' = [meta EXCEPT ![p] =
                                       NewMeta(data', n, @.sequence + 1)]
                         /\ Goto(p, "sync")
                         /\ UNCHANGED <<lock, mapped, map, op>>
                    ELSE Forget(p) /\ UNCHANGED data
<1> DEFINE holder == [seed |-> IF data[1] = [seed |-> 1] THEN 2 ELSE 1]
<1>1. PICK s \in PreparedData(p) :
        LET new == <<holder>> \o s
        IN  IF Len(new) <= Len(data)
              THEN /\ data' = new \o SubSeq(data, Len(new) + 1, Len(data))
                   /\ meta' = [meta EXCEPT ![p] =
                                 NewMeta(data', Len(new), @.sequence + 1)]
                   /\ Goto(p, "sync")
                   /\ UNCHANGED <<lock, mapped, map, op>>
              ELSE Forget(p) /\ UNCHANGED data
  BY DEF StoreRewrite
<1> DEFINE new == <<holder>> \o s
           n   == ItemSizeHolder + Len(s)
<1>2. holder \in Cell /\ holder # data[1]
  BY CellMembers
<1>3. s \in Seq(Record) /\ s \in Seq(Cell) /\ Len(s) \in Nat
  <2>1. s \in Seq(Record)
    BY PreparedProperties
  <2> QED
    BY <2>1, CellMembers, LenProperties, SeqDef
<1> HIDE DEF holder
<1>4. /\ new \in Seq(Cell) /\ Len(new) = n /\ n \in Nat \ {0}
      /\ new[1] = holder /\ \A i \in 1 .. Len(s) : new[1 + i] = s[i]
  <2>1. /\ <<holder>> \in Seq(Cell) /\ Len(<<holder>>) = 1
        /\ <<holder>>[1] = holder
    BY <1>2
  <2> DEFINE one == <<holder>>
  <2> HIDE DEF one
  <2>2. /\ one \o s \in Seq(Cell) /\ Len(one \o s) = 1 + Len(s)
        /\ (one \o s)[1] = one[1]
        /\ \A i \in 1 .. Len(s) : (one \o s)[1 + i] = s[i]
    BY <1>3, <2>1, ConcatProperties DEF one
  <2> QED
    BY <1>3, <2>1, <2>2 DEF one, ItemSizeHolder
<1> HIDE DEF new
<1>5. CASE n <= Len(data)
  <2>1. /\ data' = new \o SubSeq(data, Len(new) + 1, Len(data))
        /\ meta' = [meta EXCEPT ![p] = NewMeta(data', n, @.sequence + 1)]
        /\ Goto(p, "sync")
        /\ UNCHANGED <<lock, mapped, map, op>>
    BY <1>1, <1>4, <1>5 DEF new
  <2>2. /\ data' \in Seq(Cell) /\ Len(data') = Len(data)
        /\ \A i \in 1 .. Len(new) : data'[i] = new[i]
    BY <1>4, <1>5, <2>1, CopyProperties DEF TypeInv, TypeOK
  <2>3. data'[1] # data[1]
    BY <1>2, <1>4, <2>2
  <2>4. InPlace(data', s, Len(s))
    BY <1>3, <1>4, <2>2 DEF InPlace, ItemSizeHolder
  <2> QED
    BY <1>3, <1>4, <1>5, <2>1, <2>2, <2>3, <2>4
<1>6. CASE ~(n <= Len(data))
  BY <1>1, <1>3, <1>4, <1>6 DEF new
<1> QED
  BY <1>5, <1>6

LEMMA StoreRewriteTypeInv ==
  ASSUME TypeInv, NEW p \in Procs, StoreRewrite(p)
  PROVE  TypeInv'
<1>1. PICK s \in PreparedData(p) :
        LET n == ItemSizeHolder + Len(s)
        IN  /\ n \in Nat \ {0}
            /\ IF n <= Len(data)
                 THEN /\ data' \in Seq(Cell) /\ Len(data') = Len(data)
                      /\ meta' = [meta EXCEPT ![p] =
                                    NewMeta(data', n, @.sequence + 1)]
                      /\ Goto(p, "sync")
                      /\ UNCHANGED <<lock, mapped, map, op>>
                 ELSE Forget(p) /\ UNCHANGED data
  BY StoreRewriteProperties
<1> DEFINE n == ItemSizeHolder + Len(s)
<1>2. pc[p] = "store" /\ UNCHANGED <<crc, stored>> /\ excused' \in BOOLEAN
  BY DEF StoreRewrite, TypeInv, TypeOK
<1>3. synced' \in [Procs -> Contents \cup {Unsynced}]
  BY DEF StoreRewrite, TypeInv, TypeOK
<1> HIDE DEF n
<1>4. CASE n <= Len(data)
  <2>1. /\ data' \in Seq(Cell) /\ Len(data') = Len(data)
        /\ meta' = [meta EXCEPT ![p] = NewMeta(data', n, @.sequence + 1)]
        /\ Goto(p, "sync")
        /\ UNCHANGED <<lock, mapped, map, op>>
        /\ n \in Nat \ {0}
    BY <1>1, <1>4 DEF n
  <2>2. n \in 0 .. Len(data') /\ 1 \in 0 .. Len(data')
    BY <1>4, <2>1, LenProperties
  <2>3. NewMeta(data', n, meta[p].sequence + 1) \in SharedMeta
    <3>1. meta[p].sequence + 1 \in Nat
      BY DEF TypeInv, TypeOK, SharedMeta
    <3> QED
      BY ONLY <2>1, <2>2, <3>1, NewMetaType
  <2>4. meta' \in [Procs -> SharedMeta]
    BY <2>1, <2>3 DEF TypeInv, TypeOK
  <2>5. data' # <<>>
    BY <2>1, <2>2, NonEmpty
  <2> QED
    BY <1>2, <1>3, <2>1, <2>4, <2>5, StoreTypeInv
<1>5. CASE ~(n <= Len(data))
  <2>1. Forget(p) /\ UNCHANGED data
    BY <1>1, <1>5 DEF n
  <2> QED
    BY <1>2, <1>3, <2>1, ForgetTypeInv DEF TypeInv, TypeOK
<1> QED
  BY <1>4, <1>5

\* What the write of the meta record must establish.
LEMMA SyncTypeInv ==
  ASSUME TypeInv, NEW p \in Procs, pc[p] = "sync", Return(p),
         crc' = meta[p], UNCHANGED <<data, mapped, meta>>,
         map' \in [Procs -> [Keys -> Nat]], stored' \in Contents,
         synced' = [synced EXCEPT ![p] = stored'], excused' \in BOOLEAN
  PROVE  TypeInv'
<1>1. data # <<>> /\ pc[p] \in LockedPCs
  BY DEF TypeInv, FileAt, LockedPCs
<1>2. synced' \in [Procs -> Contents \cup {Unsynced}] /\ crc' \in SharedMeta
  BY DEF TypeInv, TypeOK
<1> QED
  BY <1>1, <1>2, ReturnTypeInv DEF TypeInv, TypeOK

LEMMA SyncRecordTypeInv ==
  ASSUME TypeInv, NEW p \in Procs, SyncRecord(p)
  PROVE  TypeInv'
<1>1. op[p].key \in Keys /\ op[p].blob \in Blobs /\ meta[p].actualSize \in Nat
  BY DEF SyncRecord, TypeInv, TypeOK, OpAt, SharedMeta
<1>2. stored' \in Contents
  BY <1>1 DEF SyncRecord, TypeInv, TypeOK, Contents
<1>3. map' \in [Procs -> [Keys -> Nat]]
  <2> DEFINE at == IF op[p].blob = Empty THEN 0 ELSE meta[p].actualSize
  <2>1. at \in Nat /\ map' = [map EXCEPT ![p][op[p].key] = at]
    BY <1>1 DEF SyncRecord
  <2> HIDE DEF at
  <2> QED
    BY <1>1, <2>1 DEF TypeInv, TypeOK
<1> QED
  BY <1>2, <1>3, SyncTypeInv DEF SyncRecord, TypeInv, TypeOK

LEMMA SyncRewriteTypeInv ==
  ASSUME TypeInv, NEW p \in Procs, SyncRewrite(p)
  PROVE  TypeInv'
<1>1. stored' \in Contents
  BY EmptyContentsType DEF SyncRewrite, TypeInv, TypeOK
<1>2. Index(Shown(p), meta[p].actualSize) \in [Keys -> Nat]
  BY ViewProperties, IndexType DEF Shown, TypeInv, TypeOK, SharedMeta
<1>3. map' \in [Procs -> [Keys -> Nat]]
  BY <1>2 DEF SyncRewrite, TypeInv, TypeOK
<1>4. excused' \in BOOLEAN
  BY DEF SyncRewrite, TypeInv, TypeOK
<1> QED
  BY <1>1, <1>3, <1>4, SyncTypeInv DEF SyncRewrite

LEMMA CrashTypeInv ==
  ASSUME TypeInv, NEW p \in Procs, Crash(p)
  PROVE  TypeInv'
BY ForgetTypeInv DEF Crash, files, TypeInv, TypeOK

-----------------------------------------------------------------------------
LEMMA StutterTypeInv == TypeInv /\ UNCHANGED vars => TypeInv'
BY DEF vars, files, lock, process, history, TypeInv, TypeOK, LockInv, LockAt,
       OpAt, FileAt, Lk!TypeOK

LEMMA StepTypeInv ==
  ASSUME TypeInv, NEW p \in Procs, Step(p)
  PROVE  TypeInv'
<1>1. CASE Opens(p)
  BY <1>1, StatAbsentTypeInv, CreateDataTypeInv, InitDataTypeInv,
     CreateCrcTypeInv, MapTypeInv, ReadMetaTypeInv, ValidateTypeInv,
     DecodeTypeInv DEF Opens
<1>2. CASE Calls(p)
  BY <1>2, CallsTypeInv
<1>3. CASE Holds(p)
  BY <1>3, OpenReturnsTypeInv, CheckLoadDataTypeInv, ReloadFailsTypeInv,
     EnsureSpaceTypeInv, GrowTypeInv, MmapFailsTypeInv, GrowFailsTypeInv, StoreRecordTypeInv, StoreRewriteTypeInv,
     SyncRecordTypeInv, SyncRewriteTypeInv DEF Holds
<1> QED
  BY <1>1, <1>2, <1>3, AcquireTypeInv, InterruptTypeInv, CrashTypeInv DEF Step

\* The data file of a new store.
LEMMA NewStore ==
  ASSUME NEW cells,
         cells = [Resize(<<>>, InitialCapacity - HeaderSize)
                    EXCEPT ![1] = [seed |-> 1]]
  PROVE  cells \in Seq(Cell) /\ cells # <<>> /\ 1 <= Len(cells)
<1>1. InitialCapacity - HeaderSize \in Nat \ {0}
  BY CapacityAssumption DEF HeaderSize
<1>2. <<>> \in Seq(Cell)
  BY EmptySeq
<1> DEFINE zeros == Resize(<<>>, InitialCapacity - HeaderSize)
<1>3. zeros \in Seq(Cell) /\ Len(zeros) = InitialCapacity - HeaderSize
  BY <1>1, <1>2, ResizeProperties
<1> HIDE DEF zeros
<1>4. cells = [zeros EXCEPT ![1] = [seed |-> 1]]
  BY DEF zeros
<1>5. cells \in Seq(Cell) /\ Len(cells) = Len(zeros)
  BY <1>3, <1>4, StoreCell, CellMembers
<1> QED
  BY <1>1, <1>3, <1>5, NonEmpty

LEMMA InitTypeInv == Init => TypeInv
<1> SUFFICES ASSUME Init PROVE TypeInv
  OBVIOUS
<1>1. data \in Seq(Cell) /\ crc \in SharedMeta
  <2>1. CASE data = <<>> /\ crc = NoMeta
    BY <2>1, EmptySeq, NoMetaType
  <2>2. CASE /\ data = [Resize(<<>>, InitialCapacity - HeaderSize)
                          EXCEPT ![1] = [seed |-> 1]]
             /\ crc = NewMeta(data, 1, 0)
    <3>1. data \in Seq(Cell) /\ 1 \in 0 .. Len(data)
      BY <2>2, NewStore, NonEmpty
    <3> QED
      BY <2>2, <3>1, NewMetaType
  <2> QED
    BY <2>1, <2>2 DEF Init
<1>2. Lk!TypeOK
  BY DEF Init, Lk!Init, Lk!TypeOK, Lk!Unlocked, Lk!LockTypes, Lk!PCs
<1>3. TypeOK
  BY <1>1, <1>2, CallTypes, NoMetaType, NoIndexType, EmptyContentsType
     DEF Init, TypeOK
<1>4. LockInv
  BY DEF Init, LockInv, LockAt, LockedPCs, Lk!Init, Lk!Unlocked, Lk!LockTypes
<1>5. \A p \in Procs : OpAt(p) /\ FileAt(p)
  BY CallTypes DEF Init, OpAt, FileAt
<1> QED
  BY <1>3, <1>4, <1>5 DEF TypeInv

LEMMA NextTypeInv == TypeInv /\ [Next]_vars => TypeInv'
BY StepTypeInv, StutterTypeInv DEF Next

\* The types, of the lock's state too, hold for any number of processes, keys
\* and values and any capacity: whatever a peer has done to the file, every
\* index and every meta record a process reads from it is one, and the sizes
\* it works with stay natural numbers.
THEOREM TypesCorrect == Spec => []TypeOK
<1>1. TypeInv => TypeOK
  BY DEF TypeInv
<1> QED
  BY InitTypeInv, NextTypeInv, <1>1, PTL DEF Spec

-----------------------------------------------------------------------------
(***************************************************************************)
(* The protocol: what a step leaves of the processes that do not take it.  *)
(***************************************************************************)
Same(q) == /\ pc'[q] = pc[q] /\ op'[q] = op[q] /\ mapped'[q] = mapped[q]
           /\ meta'[q] = meta[q] /\ map'[q] = map[q]

\* A step of p is no step of another.
Alone(p) == \A q \in Procs \ {p} : Same(q)

\* What another knows of the store it keeps, or loses to a rewrite.
Kept(q) == \/ synced'[q] = synced[q]
           \/ synced'[q] = Unsynced /\ pc[q] \notin LockedPCs

Quiet(p) == Alone(p) /\ \A q \in Procs \ {p} : Kept(q)

\* Only one process is in its critical section.
LEMMA OneHolder ==
  ASSUME TypeInv, NEW p \in Procs, pc[p] \in LockedPCs, NEW q \in Procs \ {p}
  PROVE  pc[q] \notin LockedPCs
BY DEF TypeInv, LockInv

\* While it has not rewritten the log, the log is settled.
LEMMA HolderSettled ==
  ASSUME TypeInv, NEW p \in Procs, pc[p] \in LockedPCs
  PROVE  Settled <=> ~Rewriter(p)
BY OneHolder DEF Settled, Rewriter, LockedPCs

\* The meta record of the store is sound, and its log is on disk.
LEMMA StoreFacts ==
  ASSUME TypeInv, Protocol, crc.version # 0
  PROVE  /\ data \in Seq(Cell) /\ Len(data) \in Nat \ {0}
         /\ crc \in SharedMeta /\ Good(crc) /\ crc.sequence \in Nat
         /\ crc.actualSize \in Nat \ {0} /\ crc.crcDigest \in Seq(Cell)
         /\ Len(crc.crcDigest) = crc.actualSize /\ stored \in Contents
         /\ Settled => /\ crc.actualSize <= Len(data)
                       /\ crc.crcDigest[1] = data[1]
                       /\ LogHolds(data, crc.actualSize, stored)
<1>1. data \in Seq(Cell) /\ Len(data) \in Nat \ {0}
  <2>1. data \in Seq(Cell) /\ data # <<>>
    BY DEF TypeInv, TypeOK, Protocol, Files
  <2> QED
    BY <2>1, NonEmpty, LenProperties
<1>2. /\ crc \in SharedMeta /\ Good(crc) /\ crc.sequence \in Nat
      /\ crc.actualSize \in Nat \ {0} /\ crc.crcDigest \in Seq(Cell)
      /\ Len(crc.crcDigest) = crc.actualSize
  BY DEF TypeInv, TypeOK, Protocol, Files, Good, SharedMeta
<1>3. Settled => /\ Verifies(data, crc.actualSize, crc.crcDigest)
                /\ LogHolds(data, crc.actualSize, stored)
  BY DEF Protocol, Files
<1> QED
  BY <1>1, <1>2, <1>3 DEF TypeInv, TypeOK, Verifies

\* A process that has opened the store shows that there is one.
LEMMA Opened ==
  ASSUME Protocol, NEW p \in Procs,
         pc[p] \notin {"closed", "create", "init", "create_crc", "read_meta"}
  PROVE  crc.version # 0
BY DEF Protocol, ProcInv, Making

\* A process that knows nothing of the store is only asked what it makes.
LEMMA Outside ==
  ASSUME NEW p,
         pc[p] \in {"closed", "create", "init", "create_crc", "read_meta"}
  PROVE  ProcInv(p) <=> Making(p)
BY DEF ProcInv, Behind, UpToDate, Snapshot, Holding, Appending, Rewritten,
       Rewriter

LEMMA OutsideNext ==
  (\A p \in Procs :
     pc[p] \in {"closed", "create", "init", "create_crc", "read_meta"} =>
       (ProcInv(p) <=> Making(p)))'
<1>1. \A p \in Procs :
        pc[p] \in {"closed", "create", "init", "create_crc", "read_meta"} =>
          (ProcInv(p) <=> Making(p))
  BY Outside
<1> QED
  BY <1>1, PTL

\* A step that changes no file and settles or unsettles nothing.
LEMMA QuietOther ==
  ASSUME NEW q, Same(q), Kept(q),
         data' = data, crc' = crc, stored' = stored, Settled' <=> Settled,
         ProcInv(q)
  PROVE  ProcInv(q)'
<1> USE DEF Same, Kept, ProcInv
<1>1. Making(q)' /\ Behind(q)'
  BY DEF Making, Behind, Match
<1>2. UpToDate(q)' /\ Snapshot(q)'
  BY DEF UpToDate, Snapshot, Match, Knows, Cleared
<1>3. Holding(q)'
  BY DEF Holding, Cleared, Knows, HasRoom, Needed, Rewriting, LiveKeys, Seen,
         Shown, View, LockedPCs
<1>4. Appending(q)' /\ Rewritten(q)'
  BY DEF Appending, Rewritten, Rewriter, Rewriting, NewRecord, Left, Cleared
<1> QED
  BY <1>1, <1>2, <1>3, <1>4

LEMMA QuietStep ==
  ASSUME Protocol, NEW p \in Procs, Quiet(p),
         data' = data, crc' = crc, stored' = stored,
         ~Rewriter(p), ~Rewriter(p)', ProcInv(p)',
         pc'[p] \in {"init", "create_crc"} => pc[p] \in {"init", "create_crc"}
  PROVE  Protocol'
<1>1. Settled' <=> Settled
  BY DEF Settled, Rewriter, Rewriting, Quiet, Kept, Alone, Same
<1>2. ASSUME NEW q \in Procs  PROVE ProcInv(q)'
  <2>1. CASE q = p
    BY <2>1
  <2>2. CASE q # p
    BY <1>1, <2>2, QuietOther DEF Quiet, Kept, Alone, Protocol
  <2> QED
    BY <2>1, <2>2
<1>3. Files'
  <2>1. CASE crc.version = 0
    <3>1. \A q, r \in Procs :
            {pc'[q], pc'[r]} \subseteq {"init", "create_crc"} => q = r
      BY <2>1 DEF Protocol, Files, Quiet, Kept, Alone, Same
    <3> QED
      BY <2>1, <3>1 DEF Protocol, Files
  <2>2. CASE crc.version # 0
    BY <1>1, <2>2 DEF Protocol, Files
  <2> QED
    BY <2>1, <2>2
<1> QED
  BY <1>2, <1>3 DEF Protocol

\* A process that is gone.
LEMMA ForgetProtocol ==
  ASSUME TypeInv, Protocol, NEW p \in Procs, Forget(p),
         data' = data, crc' = crc, stored' = stored,
         \A q \in Procs \ {p} : Kept(q), ~Rewriter(p)
  PROVE  Protocol'
<1>1. Quiet(p) /\ pc'[p] = "closed" /\ map'[p] = NoIndex
  BY DEF Quiet, Kept, Alone, Same, Forget, Goto, TypeInv, TypeOK
<1>2. Making(p)'
  BY <1>1 DEF Making
<1>3. ProcInv(p)' /\ ~Rewriter(p)'
  BY <1>1, <1>2, OutsideNext DEF Rewriter
<1> QED
  BY <1>1, <1>3, QuietStep

-----------------------------------------------------------------------------
(***************************************************************************)
(* Every action preserves the protocol: open().                            *)
(***************************************************************************)
LEMMA QuietSettled ==
  ASSUME NEW p \in Procs, Alone(p), ~Rewriter(p), ~Rewriter(p)'
  PROVE  Settled' <=> Settled
BY DEF Settled, Rewriter, Rewriting, Alone, Same

LEMMA StatAbsentProtocol ==
  ASSUME TypeInv, Protocol, NEW p \in Procs, StatAbsent(p)
  PROVE  Protocol'
<1>1. Quiet(p) /\ pc[p] = "closed" /\ pc'[p] = "create" /\ map' = map
      /\ data' = data /\ crc' = crc /\ stored' = stored
  BY DEF StatAbsent, Quiet, Kept, Alone, Same, Goto, TypeInv, TypeOK, files,
         process, history
<1>2. Making(p)'
  BY <1>1 DEF Making, Protocol, ProcInv
<1>3. ProcInv(p)' /\ ~Rewriter(p) /\ ~Rewriter(p)'
  BY <1>1, <1>2, OutsideNext DEF Rewriter
<1> QED
  BY <1>1, <1>3, QuietStep

LEMMA MapProtocol ==
  ASSUME TypeInv, Protocol, NEW p \in Procs, MapData(p) \/ MapReader(p)
  PROVE  Protocol'
<1>1. Quiet(p) /\ pc[p] = "closed" /\ pc'[p] = "read_meta" /\ map' = map
      /\ data' = data /\ crc' = crc /\ stored' = stored
  BY DEF MapData, MapReader, Quiet, Kept, Alone, Same, Goto, TypeInv, TypeOK,
         files, history
<1>2. Making(p)'
  BY <1>1 DEF Making, Protocol, ProcInv
<1>3. ProcInv(p)' /\ ~Rewriter(p) /\ ~Rewriter(p)'
  BY <1>1, <1>2, OutsideNext DEF Rewriter
<1> QED
  BY <1>1, <1>3, QuietStep

LEMMA CreateDataProtocol ==
  ASSUME TypeInv, Protocol, NEW p \in Procs, CreateData(p), ~excused'
  PROVE  Protocol'
<1>1. data = <<>> /\ crc.version = 0
  BY DEF CreateData, Protocol, Files
<1>2. \A q \in Procs : pc[q] \in {"closed", "create"} /\ map[q] = NoIndex
  BY <1>1 DEF TypeInv, FileAt, Protocol, ProcInv, Making
<1>3. /\ crc' = crc /\ stored' = stored /\ map' = map /\ pc'[p] = "init"
      /\ \A q \in Procs \ {p} : pc'[q] = pc[q]
  BY DEF CreateData, Goto, process, TypeInv, TypeOK
<1>4. ASSUME NEW q \in Procs  PROVE ProcInv(q)'
  <2>1. pc'[q] \in {"closed", "create", "init"}
    BY <1>2, <1>3
  <2>2. Making(q)'
    BY <1>1, <1>2, <1>3, <2>1 DEF Making
  <2> QED
    BY <2>1, <2>2, OutsideNext
<1>5. Files'
  BY <1>1, <1>2, <1>3 DEF Protocol, Files
<1> QED
  BY <1>4, <1>5 DEF Protocol

LEMMA InitDataProtocol ==
  ASSUME TypeInv, Protocol, NEW p \in Procs, InitData(p)
  PROVE  Protocol'
<1>1. crc.version = 0
  BY DEF InitData, Protocol, ProcInv, Making
<1>2. \A q \in Procs \ {p} :
        pc[q] \in {"closed", "create", "read_meta"} /\ map[q] = NoIndex
  BY <1>1 DEF InitData, Protocol, Files, ProcInv, Making
<1>3. /\ crc' = crc /\ stored' = stored /\ map' = map /\ pc'[p] = "create_crc"
      /\ \A q \in Procs \ {p} : pc'[q] = pc[q]
      /\ meta'[p] = NewMeta(data', 1, 0) /\ mapped'[p] = HeaderSize + Len(data)
  BY DEF InitData, Goto, history, TypeInv, TypeOK
<1>4. 1 <= mapped'[p] - HeaderSize
  <2>1. data # <<>> /\ data \in Seq(Cell)
    BY DEF InitData, TypeInv, TypeOK, FileAt
  <2> QED
    BY <1>3, <2>1, NonEmpty, LenProperties DEF HeaderSize
<1>5. map[p] = NoIndex
  BY <1>1 DEF Protocol, ProcInv, Making
<1>6. ASSUME NEW q \in Procs  PROVE ProcInv(q)'
  <2>1. pc'[q] \in {"closed", "create", "create_crc", "read_meta"}
    BY <1>2, <1>3
  <2>2. Making(q)'
    BY <1>1, <1>2, <1>3, <1>4, <1>5 DEF Making
  <2> QED
    BY <2>1, <2>2, OutsideNext
<1>7. Files'
  BY <1>1, <1>2, <1>3 DEF Protocol, Files
<1> QED
  BY <1>6, <1>7 DEF Protocol

\* The meta record of a file, by its own digest.
LEMMA NewMetaGood ==
  ASSUME NEW cells \in Seq(Cell), NEW n \in 1 .. Len(cells), NEW seq
  PROVE  LET m == NewMeta(cells, n, seq)
         IN  /\ Good(m) /\ m.actualSize = n /\ m.sequence = seq
             /\ m.version = 4 /\ Verifies(cells, n, m.crcDigest)
<1>1. n \in 0 .. Len(cells) /\ n \in Nat /\ 1 <= n /\ n <= Len(cells)
  BY LenProperties
<1>2. /\ Len(ComputeCRC(cells, n)) = n
      /\ \A i \in 1 .. n : ComputeCRC(cells, n)[i] = cells[i]
  BY <1>1, ComputeCRCProperties
<1> QED
  BY <1>1, <1>2 DEF NewMeta, Good, Extends, Verifies

LEMMA CreateCrcProtocol ==
  ASSUME TypeInv, Protocol, NEW p \in Procs, CreateCrc(p)
  PROVE  Protocol'
<1>1. /\ crc.version = 0 /\ meta[p] = NewMeta(data, 1, 0)
      /\ 1 <= mapped[p] - HeaderSize /\ map[p] = NoIndex
  BY DEF CreateCrc, Protocol, ProcInv, Making
<1>2. data \in Seq(Cell) /\ data # <<>> /\ 1 \in 1 .. Len(data)
  <2>1. data \in Seq(Cell) /\ data # <<>>
    BY DEF CreateCrc, TypeInv, TypeOK, FileAt
  <2> QED
    BY <2>1, NonEmpty, LenProperties
<1>3. \A q \in Procs \ {p} : pc[q] \in {"closed", "create", "read_meta"}
  BY <1>1 DEF CreateCrc, Protocol, Files, ProcInv, Making
<1>4. /\ crc' = meta[p] /\ data' = data /\ stored' = stored
      /\ meta' = meta /\ map' = map /\ mapped' = mapped
      /\ pc'[p] = "wait" /\ \A q \in Procs \ {p} : pc'[q] = pc[q]
      /\ op'[p] = OpenCall /\ synced'[p] = EmptyContents
  BY DEF CreateCrc, Goto, process, TypeInv, TypeOK
<1>5. stored = EmptyContents
  BY <1>1 DEF Protocol, Files
<1>6. /\ Good(meta[p]) /\ meta[p].actualSize = 1 /\ meta[p].sequence = 0
      /\ meta[p].version = 4 /\ Verifies(data, 1, meta[p].crcDigest)
  BY <1>1, <1>2, NewMetaGood
<1>7. ASSUME NEW q \in Procs \ {p}  PROVE ProcInv(q)'
  <2>1. pc'[q] \in {"closed", "create", "read_meta"}
    BY <1>3, <1>4
  <2>2. Making(q)'
    BY <1>4, <1>6, <2>1 DEF Making
  <2> QED
    BY <2>1, <2>2, OutsideNext
<1>8. Knows(p, 1, EmptyContents)'
  <2>1. Yields(data, NoIndex, 1, EmptyContents)
    BY <1>2, EmptyIndex DEF NoIndex
  <2> QED
    BY <1>1, <1>4, <2>1 DEF Knows
<1>9. Settled'
  BY <1>3, <1>4 DEF Settled, Rewriter
<1>10. ProcInv(p)'
  <2>1. Making(p)' /\ Behind(p)'
    BY <1>4, <1>6 DEF Making, Behind
  <2>2. UpToDate(p)' /\ Snapshot(p)'
    BY <1>4, <1>5, <1>6, <1>8, <1>9 DEF UpToDate, Snapshot
  <2>3. Holding(p)' /\ Appending(p)' /\ Rewritten(p)'
    BY <1>4, CallTypes DEF Holding, Appending, Rewritten, Rewriter, Cleared
  <2> QED
    BY <2>1, <2>2, <2>3 DEF ProcInv
<1>11. Files'
  BY <1>2, <1>4, <1>5, <1>6, LogHoldsNothing DEF Files
<1> QED
  BY <1>7, <1>10, <1>11 DEF Protocol

LEMMA ReadMetaProtocol ==
  ASSUME TypeInv, Protocol, NEW p \in Procs, ReadMeta(p)
  PROVE  Protocol'
<1>1. CASE crc.version = 0
  <2>1. Forget(p) /\ UNCHANGED history /\ UNCHANGED files /\ ~Rewriter(p)
    BY <1>1 DEF ReadMeta, Rewriter
  <2> QED
    BY <2>1, ForgetProtocol DEF Kept, files, history
<1>2. CASE crc.version # 0
  <2>1. /\ Quiet(p) /\ pc[p] = "read_meta" /\ pc'[p] = "validate"
        /\ meta'[p] = crc /\ synced'[p] = stored
        /\ data' = data /\ crc' = crc /\ stored' = stored
    BY <1>2 DEF ReadMeta, Quiet, Kept, Alone, Same, Goto, TypeInv, TypeOK, files
  <2>2. ~Rewriter(p) /\ ~Rewriter(p)'
    BY <2>1 DEF Rewriter
  <2>3. Settled' <=> Settled
    BY <2>1, <2>2, QuietSettled DEF Quiet, Kept
  <2>4. Good(crc) /\ crc.sequence \in Nat /\ crc.actualSize \in Nat
    BY <1>2, StoreFacts
  <2>5. Snapshot(p)'
    <3>1. CASE Settled
      BY <1>2, <2>1, <2>3, <2>4, <3>1 DEF Snapshot, Protocol, Files
    <3>2. CASE ~Settled
      <4>1. crc.crcDigest[1] # data[1]
        BY <3>2 DEF Settled, Protocol, ProcInv, Rewritten
      <4> QED
        BY <2>1, <4>1 DEF Snapshot
    <3> QED
      BY <3>1, <3>2
  <2>6. Making(p)' /\ Behind(p)' /\ UpToDate(p)' /\ Holding(p)'
        /\ Appending(p)' /\ Rewritten(p)'
    BY <1>2, <2>1, <2>2, <2>4
       DEF Making, Behind, UpToDate, Holding, Appending, Rewritten
  <2> QED
    BY <2>1, <2>2, <2>5, <2>6, QuietStep DEF ProcInv
<1> QED
  BY <1>1, <1>2

\* A log that is mapped is found by decodeMap, and the index yields what it
\* holds.
LEMMA IndexYields ==
  ASSUME data \in Seq(Cell), NEW size \in Nat, NEW n \in Nat,
         n <= size - HeaderSize, n <= Len(data),
         NEW v \in Contents, LogHolds(data, n, v)
  PROVE  Yields(data, Index(View(size), n), n, v)
<1> DEFINE cells == View(size)
           index == Index(cells, n)
<1>1. /\ cells \in Seq(Cell) /\ n <= Len(cells) /\ Len(cells) \in Nat
      /\ \A i \in 1 .. Len(cells) : cells[i] = data[i]
  BY ViewProperties, LenProperties
<1> HIDE DEF cells
<1>2. index = DecodeMap(cells, n)
  BY <1>1 DEF Index
<1>3. index \in [Keys -> Nat] /\ \A k \in Keys : index[k] <= n
  BY <1>2, DecodeMapType, DecodeMapBound
<1> HIDE DEF index
<1>4. \A i \in 1 .. n : cells[i] = data[i]
  BY <1>1
<1>5. LogHolds(cells, n, v)
  BY ONLY <1>4, n \in Nat, LogHolds(data, n, v), LogHoldsKept
<1>6. Lookup(cells, index) = v
  BY <1>1, <1>2, <1>5, LogHoldsLookup
<1>7. Yields(cells, index, n, v)
  BY <1>3, <1>6 DEF Yields
<1>8. Yields(data, index, n, v)
  BY ONLY <1>1, <1>3, <1>4, <1>7, n \in Nat, n <= Len(data),
          data \in Seq(Cell), YieldsKept
<1> QED
  BY <1>8 DEF index, cells

\* Without a mapping nothing is read, through any index.
LEMMA NothingMapped ==
  ASSUME data \in Seq(Cell), NEW index
  PROVE  View(0) = <<>> /\ Lookup(<<>>, index) = EmptyContents
<1>1. View(0) = <<>>
  <2>1. View(0) \in Seq(Cell) /\ Len(View(0)) \in Nat
    BY ViewProperties, LenProperties
  <2>2. \A i \in 1 .. Len(View(0)) : i <= 0 - HeaderSize
    BY ViewProperties
  <2>3. ~(1 <= Len(View(0)))
    BY <2>1, <2>2 DEF HeaderSize
  <2> QED
    BY <2>1, <2>3, NonEmpty
<1>2. Lookup(<<>>, index) = EmptyContents
  BY EmptySeq DEF Lookup, ValueBlob, EmptyContents
<1> QED
  BY <1>1, <1>2

\* What a process reads through the index is what that yields, or nothing.
LEMMA KnowsLookup ==
  ASSUME TypeInv, NEW p \in Procs, NEW n \in Nat, n <= Len(data), NEW v,
         Knows(p, n, v)
  PROVE  Lookup(Shown(p), map[p]) = IF mapped[p] = 0 THEN EmptyContents ELSE v
<1>1. data \in Seq(Cell) /\ map[p] \in [Keys -> Nat] /\ mapped[p] \in Nat
  BY DEF TypeInv, TypeOK
<1>2. CASE mapped[p] = 0
  BY <1>1, <1>2, NothingMapped DEF Shown
<1>3. CASE mapped[p] # 0
  <2>1. /\ Shown(p) \in Seq(Cell) /\ n <= Len(Shown(p))
        /\ \A i \in 1 .. Len(Shown(p)) : Shown(p)[i] = data[i]
    BY <1>1, <1>3, ViewProperties DEF Shown, Knows
  <2>2. \A i \in 1 .. n : Shown(p)[i] = data[i]
    BY <2>1, LenProperties
  <2>3. Yields(Shown(p), map[p], n, v)
    BY ONLY <1>1, <2>1, <2>2, n \in Nat, n <= Len(data), Knows(p, n, v),
            YieldsKept DEF Knows
  <2> QED
    BY <1>3, <2>3 DEF Yields
<1> QED
  BY <1>2, <1>3

LEMMA ValidateProtocol ==
  ASSUME TypeInv, Protocol, NEW p \in Procs, Validate(p)
  PROVE  Protocol'
<1> DEFINE m     == meta[p]
           cells == Shown(p)
           r     == CheckDataValid(cells, 0, m)
<1>1. /\ pc[p] = "validate" /\ m \in SharedMeta
      /\ data' = data /\ crc' = crc /\ stored' = stored /\ ~Rewriter(p)
  BY DEF Validate, files, Rewriter, TypeInv, TypeOK
<1>2. /\ crc.version # 0 /\ Good(m) /\ m.sequence <= crc.sequence
      /\ m.sequence = crc.sequence => m = crc
  BY <1>1, Opened DEF Protocol, ProcInv, Behind
<1>3. CASE ~r.loadFromFile
  BY <1>1, <1>3, ForgetProtocol DEF Kept, Validate
<1>4. CASE r.loadFromFile
  <2> DEFINE size == r.effectiveActualSize
  <2>1. /\ Quiet(p) \/ synced'[p] \in {Unsynced, synced[p]}
        /\ meta' = [meta EXCEPT ![p].actualSize = size]
        /\ synced' = [synced EXCEPT ![p] =
                         IF r.needFullWriteback THEN Unsynced ELSE @]
        /\ Goto(p, "decode")
        /\ UNCHANGED <<lock, mapped, map, op>>
    BY <1>4 DEF Validate, TypeInv, TypeOK
  <2> HIDE DEF r
  <2>2. Quiet(p) /\ pc'[p] = "decode" /\ mapped'[p] = mapped[p]
    BY <2>1 DEF Quiet, Kept, Alone, Same, Goto, TypeInv, TypeOK
  <2>3. meta'[p] = [m EXCEPT !.actualSize = size]
        /\ synced'[p] = IF r.needFullWriteback THEN Unsynced ELSE synced[p]
    BY <2>1 DEF TypeInv, TypeOK
  <2>4. /\ cells \in Seq(Cell) /\ Len(cells) \in Nat
        /\ \A i \in 1 .. Len(cells) :
             i <= mapped[p] - HeaderSize /\ cells[i] = data[i]
    BY ViewProperties, LenProperties DEF Shown, TypeInv, TypeOK
  <2>5. /\ m.actualSize \in Nat \ {0} /\ m.lastConfirmedActualSize \in Nat \ {0}
        /\ m.actualSize = Len(m.crcDigest) /\ m.version = 4
    BY <1>1, <1>2 DEF Good, SharedMeta
  <2>6. \/ /\ size = m.actualSize /\ ~r.needFullWriteback
           /\ Verifies(cells, m.actualSize, m.crcDigest)
        \/ /\ size = m.lastConfirmedActualSize /\ r.needFullWriteback
           /\ size <= Len(cells)
    BY <1>4, <2>5 DEF r, CheckDataValid, PrimaryValid, CandidateSize,
                      ConfirmedValid, Verifies
  <2> HIDE DEF size, cells
  <2>7. size \in 1 .. Len(cells) /\ size <= mapped[p] - HeaderSize
    BY <2>4, <2>5, <2>6 DEF Verifies
  <2>8. Behind(p)'
    <3>1. meta'[p].sequence = m.sequence /\ meta'[p].actualSize = size
      BY <1>1, <2>3 DEF SharedMeta
    <3>2. ASSUME m.sequence = crc.sequence, size = crc.actualSize
          PROVE  meta'[p] = crc
      <4>1. m = crc /\ size = m.actualSize
        BY <1>2, <3>2
      <4>2. meta'[p] = m
        BY <1>1, <2>3, <4>1 DEF SharedMeta
      <4> QED
        BY <4>1, <4>2
    <3> QED
      BY <1>1, <1>2, <2>2, <2>7, <3>1, <3>2 DEF Behind, Match
  <2>9. Settled' <=> Settled
    BY <1>1, <2>2, QuietSettled DEF Quiet, Kept, Rewriter
  <2>10. Snapshot(p)'
    <3>1. SUFFICES ASSUME synced'[p] # Unsynced
                   PROVE  /\ Settled /\ m.actualSize <= crc.actualSize
                          /\ LogHolds(data, m.actualSize, synced[p])
                          /\ synced'[p] = synced[p]
                          /\ meta'[p].actualSize = m.actualSize
      BY <1>1, <2>2, <2>9 DEF Snapshot
    <3>2. /\ size = m.actualSize /\ synced'[p] = synced[p]
          /\ Verifies(cells, m.actualSize, m.crcDigest)
      BY <2>3, <2>6, <3>1
    <3>3. data[1] = m.crcDigest[1]
      BY <2>4, <2>5, <3>2 DEF Verifies
    <3>4. meta'[p].actualSize = m.actualSize
      BY <1>1, <2>3, <3>2 DEF SharedMeta
    <3> QED
      BY <1>1, <3>1, <3>2, <3>3, <3>4 DEF Protocol, ProcInv, Snapshot
  <2>11. Making(p)' /\ UpToDate(p)' /\ Holding(p)' /\ Appending(p)'
         /\ Rewritten(p)' /\ ~Rewriter(p)'
    BY <1>1, <1>2, <2>2
       DEF Making, UpToDate, Holding, Appending, Rewritten, Rewriter
  <2> QED
    BY <1>1, <2>2, <2>8, <2>10, <2>11, QuietStep DEF ProcInv
<1> QED
  BY <1>3, <1>4

LEMMA DecodeProtocol ==
  ASSUME TypeInv, Protocol, NEW p \in Procs, Decode(p)
  PROVE  Protocol'
<1> DEFINE n == meta[p].actualSize
           index == Index(View(mapped[p]), n)
<1>1. /\ pc[p] = "decode" /\ Quiet(p) /\ pc'[p] \in {"reading", "wait"}
      /\ data' = data /\ crc' = crc /\ stored' = stored
      /\ meta' = meta /\ mapped' = mapped /\ synced' = synced
      /\ map'[p] = index /\ op'[p] \in {ReaderCall, OpenCall}
  BY DEF Decode, Quiet, Kept, Alone, Same, Goto, files, history, Shown, TypeInv,
         TypeOK
<1>2. n \in Nat /\ mapped[p] \in Nat /\ data \in Seq(Cell)
      /\ stored \in Contents /\ synced[p] \in Contents \cup {Unsynced}
  BY DEF TypeInv, TypeOK, SharedMeta
<1>3. /\ crc.version # 0 /\ n <= mapped[p] - HeaderSize
      /\ meta[p].sequence <= crc.sequence
      /\ Match(p) => meta[p] = crc
  BY <1>1, Opened DEF Protocol, ProcInv, Behind
<1>4. ~Rewriter(p) /\ ~Rewriter(p)'
  BY <1>1 DEF Rewriter
<1>5. Settled' <=> Settled
  BY <1>1, <1>4, QuietSettled DEF Quiet, Kept
<1> HIDE DEF n, index
<1>6. ASSUME NEW v \in Contents, LogHolds(data, n, v), n <= Len(data)
      PROVE  n <= mapped'[p] - HeaderSize /\ Yields(data', map'[p], n, v)
  <2>1. Yields(data, index, n, v)
    BY <1>2, <1>3, <1>6, IndexYields DEF index
  <2> QED
    BY <1>1, <1>3, <2>1
<1>7. Match(p)' <=> Match(p)
  BY <1>1 DEF Match
<1>8. Behind(p)' /\ Making(p)'
  BY <1>1, <1>3, <1>7 DEF Behind, Making
<1>9. UpToDate(p)'
  <2>1. SUFFICES ASSUME Match(p), Settled
                 PROVE  /\ crc.actualSize <= mapped'[p] - HeaderSize
                        /\ Yields(data', map'[p], crc.actualSize, stored)
    BY <1>1, <1>5, <1>7 DEF UpToDate, Knows
  <2>2. n = crc.actualSize /\ n <= Len(data) /\ LogHolds(data, n, stored)
    BY <1>3, <2>1, StoreFacts DEF Match, n
  <2> QED
    BY <1>2, <1>6, <2>2
<1>10. Snapshot(p)'
  <2>1. SUFFICES ASSUME synced[p] # Unsynced
                 PROVE  /\ Settled /\ n <= crc.actualSize
                        /\ n <= mapped'[p] - HeaderSize
                        /\ Yields(data', map'[p], n, synced[p])
    BY <1>1, <1>5 DEF Snapshot, Knows, n
  <2>2. Settled /\ n <= crc.actualSize /\ LogHolds(data, n, synced[p])
    BY <1>1, <2>1 DEF Protocol, ProcInv, Snapshot, n
  <2>3. n <= Len(data)
    <3>1. crc.actualSize \in Nat /\ Len(data) \in Nat
          /\ crc.actualSize <= Len(data)
      BY <1>3, <2>2, StoreFacts
    <3> QED
      BY <1>2, <2>2, <3>1
  <2>4. synced[p] \in Contents
    BY <1>2, <2>1
  <2> QED
    BY <1>6, <2>2, <2>3, <2>4
<1>11. Holding(p)' /\ Appending(p)' /\ Rewritten(p)'
  BY <1>1, <1>4, CallTypes DEF Holding, Cleared, Appending, Rewritten
<1> QED
  BY <1>1, <1>4, <1>8, <1>9, <1>10, <1>11, QuietStep DEF ProcInv

-----------------------------------------------------------------------------
(***************************************************************************)
(* The calls, up to the reservation of space.                              *)
(***************************************************************************)
\* Between checkLoadData and the copy only these two parts ask anything.
LEMMA InsideNext ==
  (\A p \in Procs :
     pc[p] \in {"reserve", "store"} =>
       (ProcInv(p) <=> Making(p) /\ Holding(p)))'
<1>1. \A p \in Procs :
        pc[p] \in {"reserve", "store"} =>
          (ProcInv(p) <=> Making(p) /\ Holding(p))
  BY DEF ProcInv, Behind, UpToDate, Snapshot, Appending, Rewritten, Rewriter
<1> QED
  BY <1>1, PTL

LEMMA BeginProtocol ==
  ASSUME TypeInv, Protocol, NEW p \in Procs, NEW c, Begin(p, c),
         c.kind \in Asked, ~c.reloaded, Quiet(p),
         \/ c.kind # "clearAll" /\ UNCHANGED <<map, synced>>
         \/ c.kind = "clearAll" /\ map'[p] = NoIndex
  PROVE  Protocol'
<1>1. /\ pc[p] = "idle" /\ pc'[p] = "wait" /\ op'[p] = c /\ op[p] = NoCall
      /\ data' = data /\ crc' = crc /\ mapped' = mapped /\ meta' = meta
      /\ stored' = stored
  BY DEF Begin, Goto, files, TypeInv, TypeOK, OpAt
<1>2. ~Rewriter(p) /\ ~Rewriter(p)' /\ crc.version # 0
  BY <1>1, Opened DEF Rewriter
<1>3. (Settled' <=> Settled) /\ (Match(p)' <=> Match(p))
  BY <1>1, <1>2, QuietSettled DEF Quiet, Kept, Match
<1>4. Making(p)' /\ Behind(p)' /\ Appending(p)' /\ Rewritten(p)' /\ ProcInv(p)
  BY <1>1, <1>2, <1>3
     DEF Making, Behind, Appending, Rewritten, Protocol, ProcInv
<1>5. CASE c.kind = "clearAll"
  <2>1. map'[p] = NoIndex /\ Cleared(p)'
    BY <1>1, <1>5 DEF Cleared
  <2> QED
    BY <1>1, <1>2, <1>4, <2>1, QuietStep
       DEF ProcInv, UpToDate, Snapshot, Holding
<1>6. CASE c.kind # "clearAll"
  <2>1. /\ map' = map /\ synced' = synced /\ ~Cleared(p) /\ ~Cleared(p)'
    BY <1>1, <1>6, CallTypes DEF Cleared
  <2>2. UpToDate(p)' /\ Snapshot(p)'
    BY <1>1, <1>3, <1>4, <2>1 DEF ProcInv, UpToDate, Snapshot, Knows
  <2>3. Holding(p)'
    BY <1>1, <2>1 DEF Holding
  <2> QED
    BY <1>1, <1>2, <1>4, <2>2, <2>3, QuietStep DEF ProcInv
<1> QED
  BY <1>5, <1>6

LEMMA CallsProtocol ==
  ASSUME TypeInv, Protocol, NEW p \in Procs, Calls(p)
  PROVE  Protocol'
<1>1. ASSUME NEW c, Begin(p, c), UNCHANGED <<map, synced>>  PROVE Quiet(p)
  BY <1>1 DEF Begin, Goto, Quiet, Kept, Alone, Same, TypeInv, TypeOK
<1>2. ASSUME NEW k \in Keys, NEW b \in Blobs, Set(p, k, b)  PROVE Protocol'
  <2> DEFINE c == Call("append", k, b)
  <2>1. c.kind \in Asked /\ ~c.reloaded /\ c.kind # "clearAll"
    BY DEF Call, Asked
  <2>2. Begin(p, c) /\ UNCHANGED <<map, synced>>
    BY <1>2 DEF Set
  <2> HIDE DEF c
  <2> QED
    BY <1>1, <2>1, <2>2, BeginProtocol
<1>3. CASE Compact(p)
  <2> DEFINE c == Call("compact", "", "")
  <2>1. c.kind \in Asked /\ ~c.reloaded /\ c.kind # "clearAll"
    BY DEF Call, Asked
  <2>2. Begin(p, c) /\ UNCHANGED <<map, synced>>
    BY <1>3 DEF Compact
  <2> HIDE DEF c
  <2> QED
    BY <1>1, <2>1, <2>2, BeginProtocol
<1>4. CASE ClearAll(p)
  <2> DEFINE c == Call("clearAll", "", "")
  <2>1. c.kind \in Asked /\ ~c.reloaded /\ c.kind = "clearAll"
    BY DEF Call, Asked
  <2>2. /\ Begin(p, c) /\ map' = [map EXCEPT ![p] = NoIndex]
        /\ synced' = [synced EXCEPT ![p] = EmptyContents]
    BY <1>4 DEF ClearAll
  <2> HIDE DEF c
  <2>3. Quiet(p) /\ map'[p] = NoIndex
    BY <2>2 DEF Begin, Goto, Quiet, Kept, Alone, Same, TypeInv, TypeOK
  <2> QED
    BY <2>1, <2>2, <2>3, BeginProtocol
<1>5. Empty \in Blobs
  BY DEF Blobs
<1> QED
  BY <1>2, <1>3, <1>4, <1>5 DEF Calls, Remove

LEMMA AcquireProtocol ==
  ASSUME TypeInv, Protocol, NEW p \in Procs, Acquire(p)
  PROVE  Protocol'
<1>1. /\ pc[p] = "wait" /\ pc'[p] = "locked" /\ Quiet(p) /\ op' = op
      /\ data' = data /\ crc' = crc /\ mapped' = mapped /\ meta' = meta
      /\ map' = map /\ stored' = stored /\ synced' = synced
  BY DEF Acquire, Goto, Quiet, Kept, Alone, Same, files, process, history,
         TypeInv, TypeOK
<1>2. ~Rewriter(p) /\ ~Rewriter(p)' /\ crc.version # 0 /\ ProcInv(p)
  BY <1>1, Opened DEF Rewriter, Protocol
<1>3. /\ Settled' <=> Settled
      /\ Match(p)' <=> Match(p)
      /\ Cleared(p)' <=> Cleared(p)
  BY <1>1, <1>2, QuietSettled DEF Quiet, Kept, Match, Cleared
<1>4. Making(p)' /\ Behind(p)' /\ Appending(p)' /\ Rewritten(p)'
  BY <1>1, <1>2, <1>3 DEF Making, Behind, Appending, Rewritten, ProcInv
<1>5. UpToDate(p)' /\ Snapshot(p)' /\ Holding(p)'
  BY <1>1, <1>2, <1>3 DEF ProcInv, UpToDate, Snapshot, Holding, Knows
<1> QED
  BY <1>1, <1>2, <1>4, <1>5, QuietStep DEF ProcInv

\* A call returns, and has written nothing.
LEMMA ReturnProtocol ==
  ASSUME TypeInv, Protocol, NEW p \in Procs, Quiet(p), ~Cleared(p),
         pc[p] \in {"wait", "locked", "reserve"}, pc'[p] = "idle",
         op'[p] = NoCall, UNCHANGED <<files, process, stored, synced>>
  PROVE  Protocol'
<1>1. /\ data' = data /\ crc' = crc /\ mapped' = mapped /\ meta' = meta
      /\ map' = map /\ stored' = stored /\ synced' = synced
  BY DEF files, process
<1>2. /\ ~Rewriter(p) /\ ~Rewriter(p)' /\ crc.version # 0 /\ ProcInv(p)
      /\ ~Cleared(p)'
  BY Opened, CallTypes DEF Rewriter, Protocol, Cleared
<1>3. /\ Settled' <=> Settled
      /\ Match(p)' <=> Match(p)
  BY <1>1, <1>2, QuietSettled DEF Quiet, Kept, Match
<1>4. Making(p)' /\ Appending(p)' /\ Rewritten(p)' /\ Holding(p)'
  BY <1>1, <1>2 DEF Making, Appending, Rewritten, Holding
<1>5. Behind(p)' /\ UpToDate(p)' /\ Snapshot(p)'
  <2>1. CASE pc[p] \in {"wait", "locked"}
    BY <1>1, <1>2, <1>3, <2>1
       DEF ProcInv, Behind, UpToDate, Snapshot, Knows
  <2>2. CASE pc[p] = "reserve"
    <3>1. /\ meta[p] = crc /\ synced[p] = stored
          /\ Knows(p, crc.actualSize, stored)
      BY <1>2, <2>2 DEF ProcInv, Holding
    <3>2. Settled
      BY <1>2, <2>2, HolderSettled DEF LockedPCs
    <3>3. crc.sequence \in Nat /\ crc.actualSize \in Nat
      BY <1>2, StoreFacts
    <3> QED
      BY <1>1, <1>3, <3>1, <3>2, <3>3
         DEF Behind, UpToDate, Snapshot, Knows
  <2> QED
    BY <2>1, <2>2
<1> QED
  BY <1>1, <1>2, <1>4, <1>5, QuietStep DEF ProcInv

LEMMA OpenReturnsProtocol ==
  ASSUME TypeInv, Protocol, NEW p \in Procs, OpenReturns(p)
  PROVE  Protocol'
<1>1. /\ Quiet(p) /\ ~Cleared(p) /\ pc[p] = "locked" /\ pc'[p] = "idle"
      /\ op'[p] = NoCall /\ UNCHANGED <<files, process, stored, synced>>
  BY DEF OpenReturns, Return, Goto, Quiet, Kept, Alone, Same, Cleared, process,
         history, TypeInv, TypeOK
<1> QED
  BY <1>1, ReturnProtocol

LEMMA GrowFailsProtocol ==
  ASSUME TypeInv, Protocol, NEW p \in Procs, GrowFails(p), ~excused'
  PROVE  Protocol'
<1>1. /\ Quiet(p) /\ ~Cleared(p) /\ pc[p] = "reserve" /\ pc'[p] = "idle"
      /\ op'[p] = NoCall /\ UNCHANGED <<files, process, stored, synced>>
  BY DEF GrowFails, Return, Goto, Quiet, Kept, Alone, Same, Cleared, process,
         TypeInv, TypeOK
<1> QED
  BY <1>1, ReturnProtocol

LEMMA InterruptProtocol ==
  ASSUME TypeInv, Protocol, NEW p \in Procs, Interrupt(p), ~excused'
  PROVE  Protocol'
<1>1. pc[p] = "wait" /\ UNCHANGED <<files, stored, synced>> /\ ~Cleared(p)
  BY DEF Interrupt, Cleared
<1>2. CASE op[p].kind = "open"
  BY <1>1, <1>2, ForgetProtocol DEF Interrupt, Kept, files, Rewriter
<1>3. CASE op[p].kind # "open"
  <2>1. /\ Quiet(p) /\ pc'[p] = "idle" /\ op'[p] = NoCall
        /\ UNCHANGED process
    BY <1>1, <1>3 DEF Interrupt, Goto, Quiet, Kept, Alone, Same, process,
                      TypeInv, TypeOK
  <2> QED
    BY <1>1, <2>1, ReturnProtocol
<1> QED
  BY <1>2, <1>3

LEMMA CrashProtocol ==
  ASSUME TypeInv, Protocol, NEW p \in Procs, Crash(p), ~excused'
  PROVE  Protocol'
BY ForgetProtocol DEF Crash, Kept, files, Rewriter

LEMMA CheckLoadDataProtocol ==
  ASSUME TypeInv, Protocol, NEW p \in Procs, CheckLoadData(p)
  PROVE  Protocol'
<1>1. /\ pc[p] = "locked" /\ pc'[p] = "reserve" /\ Quiet(p)
      /\ data' = data /\ crc' = crc /\ stored' = stored
      /\ op[p].kind \in Asked /\ ~op[p].reloaded
  BY DEF CheckLoadData, Goto, Quiet, Kept, Alone, Same, files, process, TypeInv,
         TypeOK, OpAt
<1>2. ~Rewriter(p) /\ ~Rewriter(p)' /\ crc.version # 0 /\ ProcInv(p)
  BY <1>1, Opened DEF Rewriter, Protocol
<1>3. Settled
  BY <1>1, <1>2, HolderSettled DEF LockedPCs
<1>4. Making(p)'
  BY <1>1, <1>2 DEF Making
<1>5. CASE Match(p)
  <2>1. /\ UNCHANGED process /\ op' = op
        /\ synced'[p] = IF op[p].kind = "clearAll" THEN synced[p] ELSE stored
    BY <1>1, <1>5 DEF CheckLoadData, Changed, Match, TypeInv, TypeOK
  <2>2. Cleared(p)' <=> Cleared(p)
    BY <2>1 DEF Cleared
  <2>3. /\ meta[p] = crc
        /\ ~Cleared(p) => Knows(p, crc.actualSize, stored)
        /\ Cleared(p) => map[p] = NoIndex
    BY <1>1, <1>2, <1>3, <1>5 DEF ProcInv, Behind, UpToDate, Holding
  <2>4. Holding(p)'
    BY <1>1, <2>1, <2>2, <2>3 DEF Holding, Knows, process, Cleared
  <2> QED
    BY <1>1, <1>2, <1>4, <2>4, InsideNext, QuietStep
<1>6. CASE ~Match(p)
  <2> DEFINE size == IF HeaderSize + crc.actualSize > mapped[p]
                       THEN HeaderSize + Len(data) ELSE mapped[p]
             n == crc.actualSize
  <2>1. /\ meta'[p] = crc /\ mapped'[p] = size /\ synced'[p] = stored
        /\ map'[p] = Index(View(size), n)
        /\ op'[p].reloaded
    <3>1. mapped'[p] = size
      BY <1>6 DEF CheckLoadData, Changed, Match, TypeInv, TypeOK
    <3>2. map'[p] = Index(View(mapped'[p]), n)
      BY <1>6 DEF CheckLoadData, Changed, Match, TypeInv, TypeOK
    <3>3. /\ meta' = [meta EXCEPT ![p] = crc]
          /\ synced' = [synced EXCEPT ![p] = stored]
          /\ op' = [op EXCEPT ![p].reloaded = TRUE]
      BY <1>6 DEF CheckLoadData, Changed, Match
    <3>4. meta'[p] = crc /\ synced'[p] = stored
      BY <3>3 DEF TypeInv, TypeOK
    <3>5. op'[p].reloaded
      BY <3>3 DEF TypeInv, TypeOK, CallType
    <3> QED
      BY <3>1, <3>2, <3>4, <3>5
  <2>2. /\ data \in Seq(Cell) /\ Len(data) \in Nat /\ n \in Nat
        /\ n <= Len(data) /\ stored \in Contents /\ LogHolds(data, n, stored)
        /\ mapped[p] \in Nat
    BY <1>2, <1>3, StoreFacts DEF TypeInv, TypeOK
  <2> HIDE DEF n
  <2>3. size \in Nat /\ n <= size - HeaderSize
    BY <2>2 DEF HeaderSize, n
  <2> HIDE DEF size
  <2>4. Yields(data, Index(View(size), n), n, stored)
    BY <2>2, <2>3, IndexYields
  <2>5. Holding(p)'
    BY <1>1, <2>1, <2>3, <2>4 DEF Holding, Knows, Cleared, n
  <2> QED
    BY <1>1, <1>2, <1>4, <2>5, InsideNext, QuietStep
<1> QED
  BY <1>5, <1>6

-----------------------------------------------------------------------------
(***************************************************************************)
(* The reservation of space, and the copy of a record.                     *)
(***************************************************************************)
\* What the index of the process that has the lock yields is what is stored,
\* or, where it has cleared it, nothing.
Reads(p) == IF Cleared(p) THEN map[p] = NoIndex
                          ELSE Knows(p, crc.actualSize, stored)

LEMMA ReadsLeft ==
  \A p \in Procs :
    TypeInv /\ crc.actualSize <= Len(data) /\ Reads(p) =>
      /\ Lookup(Shown(p), map[p]) = IF mapped[p] = 0 THEN EmptyContents
                                                    ELSE Left(p)
      /\ mapped[p] # 0 /\ ~op[p].blind =>
           LiveKeys(p) = {k \in Keys : Left(p)[k] # Empty}
<1> SUFFICES ASSUME NEW p \in Procs, TypeInv, crc.actualSize <= Len(data),
                    Reads(p)
             PROVE  /\ Lookup(Shown(p), map[p]) =
                          IF mapped[p] = 0 THEN EmptyContents ELSE Left(p)
                    /\ mapped[p] # 0 /\ ~op[p].blind =>
                         LiveKeys(p) = {k \in Keys : Left(p)[k] # Empty}
  OBVIOUS
<1>1. Lookup(Shown(p), map[p]) =
        IF mapped[p] = 0 THEN EmptyContents ELSE Left(p)
  <2>1. CASE Cleared(p)
    <3>1. Shown(p) \in Seq(Cell)
      BY ViewProperties DEF Shown, TypeInv, TypeOK
    <3>2. Yields(Shown(p), NoIndex, 0, EmptyContents)
      BY <3>1, EmptyIndex DEF NoIndex
    <3> QED
      BY <2>1, <3>2 DEF Reads, Yields, Left
  <2>2. CASE ~Cleared(p)
    <3>1. crc.actualSize \in Nat
      BY DEF TypeInv, TypeOK, SharedMeta
    <3> QED
      BY <2>2, <3>1, KnowsLookup DEF Reads, Left
  <2> QED
    BY <2>1, <2>2
<1> QED
  BY <1>1, PreparedProperties DEF Seen

LEMMA ReadsLeftNext ==
  (\A p \in Procs :
     TypeInv /\ crc.actualSize <= Len(data) /\ Reads(p) =>
       /\ Lookup(Shown(p), map[p]) = IF mapped[p] = 0 THEN EmptyContents
                                                     ELSE Left(p)
       /\ mapped[p] # 0 /\ ~op[p].blind =>
            LiveKeys(p) = {k \in Keys : Left(p)[k] # Empty})'
BY ReadsLeft, PTL

\* A step that keeps the log: what lies behind it may change, and the file may
\* grow, or shrink to it.
LogKept == /\ data' \in Seq(Cell) /\ crc.actualSize <= Len(data')
           /\ \A i \in 1 .. crc.actualSize : data'[i] = data[i]

LEMMA LogKeptYields ==
  ASSUME TypeInv, Protocol, crc.version # 0, Settled, LogKept,
         NEW index \in [Keys -> Nat], NEW n \in Nat, n <= crc.actualSize,
         NEW v, Yields(data, index, n, v)
  PROVE  Yields(data', index, n, v)
<1>1. /\ data \in Seq(Cell) /\ Len(data) \in Nat /\ crc.actualSize \in Nat
      /\ crc.actualSize <= Len(data) /\ data' \in Seq(Cell)
      /\ Len(data') \in Nat
  BY StoreFacts, LenProperties DEF LogKept
<1>2. n <= Len(data) /\ n <= Len(data') /\ \A i \in 1 .. n : data'[i] = data[i]
  BY <1>1 DEF LogKept
<1> QED
  BY ONLY <1>1, <1>2, n \in Nat, index \in [Keys -> Nat],
          Yields(data, index, n, v), YieldsKept

LEMMA LogKeptHolds ==
  ASSUME LogKept, crc.actualSize \in Nat, NEW n \in Nat, n <= crc.actualSize,
         NEW v, LogHolds(data, n, v)
  PROVE  LogHolds(data', n, v)
<1>1. \A i \in 1 .. n : data'[i] = data[i]
  BY DEF LogKept
<1> QED
  BY ONLY <1>1, n \in Nat, LogHolds(data, n, v), LogHoldsKept

LEMMA LogKeptOther ==
  ASSUME TypeInv, Protocol, crc.version # 0, Settled, Settled', LogKept,
         NEW q \in Procs, Same(q), Kept(q), crc' = crc,
         stored' = stored, pc[q] \notin LockedPCs
  PROVE  ProcInv(q)'
<1> USE DEF Same, Kept
<1>1. /\ data \in Seq(Cell) /\ crc.actualSize \in Nat \ {0}
      /\ meta[q].actualSize \in Nat /\ map[q] \in [Keys -> Nat] /\ ProcInv(q)
  BY StoreFacts DEF TypeInv, TypeOK, SharedMeta, Protocol
<1>2. Making(q)' /\ Behind(q)' /\ Holding(q)' /\ Appending(q)' /\ Rewritten(q)'
  BY <1>1 DEF ProcInv, Making, Behind, Match, Holding, Cleared, Appending,
              Rewritten, Rewriter, LockedPCs
<1>3. UpToDate(q)'
  BY <1>1, LogKeptYields DEF ProcInv, UpToDate, Match, Cleared, Knows
<1>4. Snapshot(q)'
  <2>1. CASE pc[q] = "validate"
    <3>1. data'[1] = data[1]
      BY <1>1 DEF LogKept
    <3>2. CASE data[1] # meta[q].crcDigest[1]
      BY <2>1, <3>1, <3>2 DEF Snapshot
    <3>3. CASE data[1] = meta[q].crcDigest[1]
      <4> DEFINE n == meta[q].actualSize
                 d == meta[q].crcDigest
      <4>1. SUFFICES ASSUME synced[q] # Unsynced
                     PROVE  /\ n <= crc.actualSize /\ Verifies(data', n, d)
                            /\ LogHolds(data', n, synced[q])
        BY <2>1 DEF Snapshot
      <4>2. /\ n <= crc.actualSize /\ Verifies(data, n, d)
            /\ LogHolds(data, n, synced[q])
        BY <1>1, <2>1, <3>3, <4>1 DEF ProcInv, Snapshot
      <4>3. n \in Nat
        BY <1>1
      <4> HIDE DEF n, d
      <4>4. LogHolds(data', n, synced[q])
        BY <1>1, <4>2, <4>3, LogKeptHolds
      <4>5. Verifies(data', n, d)
        BY <1>1, <4>2, <4>3, VerifiesKept DEF LogKept
      <4> QED
        BY <4>2, <4>4, <4>5
    <3> QED
      BY <3>2, <3>3
  <2>2. CASE pc[q] = "decode"
    BY <1>1, <2>2, LogKeptHolds DEF ProcInv, Snapshot
  <2>3. CASE pc[q] \in {"idle", "reading", "wait"}
    BY <1>1, <2>3, LogKeptYields DEF ProcInv, Snapshot, Knows, Cleared
  <2> QED
    BY <2>1, <2>2, <2>3 DEF Snapshot, LockedPCs
<1> QED
  BY <1>2, <1>3, <1>4 DEF ProcInv

LEMMA LogKeptStep ==
  ASSUME TypeInv, Protocol, NEW p \in Procs, pc[p] \in LockedPCs, Quiet(p),
         LogKept, crc' = crc, stored' = stored, ~Rewriter(p), ~Rewriter(p)',
         ProcInv(p)'
  PROVE  Protocol'
<1>1. crc.version # 0
  BY Opened DEF LockedPCs
<1>2. Settled /\ Settled'
  BY HolderSettled, QuietSettled DEF Quiet, Kept
<1>3. ASSUME NEW q \in Procs  PROVE ProcInv(q)'
  BY <1>1, <1>2, OneHolder, LogKeptOther DEF Quiet, Kept, Alone
<1>4. Files'
  <2>1. /\ data \in Seq(Cell) /\ crc.actualSize \in Nat \ {0} /\ Good(crc)
        /\ Verifies(data, crc.actualSize, crc.crcDigest)
        /\ LogHolds(data, crc.actualSize, stored)
    BY <1>1, <1>2, StoreFacts DEF Protocol, Files
  <2> DEFINE n == crc.actualSize
             d == crc.crcDigest
  <2>2. Verifies(data', n, d)
    <3>1. /\ n \in Nat /\ n <= n /\ n <= Len(data') /\ data' \in Seq(Cell)
          /\ \A i \in 1 .. n : data'[i] = data[i]
          /\ Verifies(data, n, d)
      BY <2>1 DEF LogKept
    <3> HIDE DEF n, d
    <3> QED
      BY <2>1, <3>1, VerifiesKept
  <2>3. LogHolds(data', n, stored)
    BY <2>1, LogKeptHolds
  <2>4. data' # <<>>
    BY <2>1, NonEmpty, LenProperties DEF LogKept
  <2> QED
    BY <1>1, <2>1, <2>2, <2>3, <2>4 DEF Files
<1> QED
  BY <1>3, <1>4 DEF Protocol

LEMMA EnsureSpaceProtocol ==
  ASSUME TypeInv, Protocol, NEW p \in Procs, EnsureSpace(p)
  PROVE  Protocol'
<1>1. /\ pc[p] = "reserve" /\ pc'[p] = "store" /\ Quiet(p) /\ HasRoom(p)
      /\ data' = data /\ crc' = crc /\ stored' = stored /\ synced' = synced
      /\ mapped' = mapped /\ meta' = meta /\ map' = map /\ op' = op
  BY DEF EnsureSpace, Goto, Quiet, Kept, Alone, Same, files, process, history,
         TypeInv, TypeOK
<1>2. ~Rewriter(p) /\ ~Rewriter(p)' /\ crc.version # 0 /\ ProcInv(p)
  BY <1>1, Opened DEF Rewriter, Protocol
<1>3. HasRoom(p)'
  BY <1>1 DEF HasRoom, Needed, Rewriting, LiveKeys, Seen, Shown, View
<1>4. Making(p)' /\ Holding(p)'
  BY <1>1, <1>2, <1>3 DEF Making, ProcInv, Holding, Cleared, Knows
<1> QED
  BY <1>1, <1>2, <1>4, InsideNext, QuietStep

\* What the process that is about to copy has: the meta record of the file,
\* and what is stored.
LEMMA HolderFacts ==
  ASSUME TypeInv, Protocol, NEW p \in Procs, pc[p] \in {"reserve", "store"}
  PROVE  /\ crc.version # 0 /\ Settled /\ ~Rewriter(p) /\ pc[p] \in LockedPCs
         /\ op[p].kind \in Asked
         /\ meta[p] = crc /\ Reads(p)
         /\ ~Cleared(p) => synced[p] = stored
         /\ data \in Seq(Cell) /\ Len(data) \in Nat
         /\ crc.actualSize \in Nat \ {0} /\ crc.actualSize <= Len(data)
         /\ crc.sequence \in Nat /\ mapped[p] \in Nat
<1>1. crc.version # 0 /\ ~Rewriter(p) /\ pc[p] \in LockedPCs
      /\ op[p].kind \in Asked
  BY Opened DEF Rewriter, LockedPCs, TypeInv, OpAt
<1>2. Settled
  BY <1>1, HolderSettled
<1> QED
  BY <1>1, <1>2, StoreFacts
     DEF Protocol, ProcInv, Holding, Reads, TypeInv, TypeOK

LEMMA GrowProtocol ==
  ASSUME TypeInv, Protocol, NEW p \in Procs, Grow(p)
  PROVE  Protocol'
<1>1. /\ pc[p] = "reserve" /\ pc'[p] = "store" /\ Quiet(p)
      /\ crc' = crc /\ stored' = stored /\ synced' = synced
      /\ meta' = meta /\ map' = map /\ ~op[p].blind
  BY GrowProperties DEF Grow, Goto, Quiet, Kept, Alone, Same, history, TypeInv,
                        TypeOK, OpAt
<1>2. /\ op'[p].kind = op[p].kind /\ op'[p].reloaded = op[p].reloaded
      /\ op'[p].blind <=> mapped[p] = 0
  <2> DEFINE blind == mapped[p] = 0
  <2>1. op' = [op EXCEPT ![p].blind = blind]
    BY DEF Grow
  <2> HIDE DEF blind
  <2>2. /\ op'[p].kind = op[p].kind /\ op'[p].reloaded = op[p].reloaded
        /\ op'[p].blind = blind
    BY <2>1 DEF TypeInv, TypeOK, CallType
  <2> QED
    BY <2>2 DEF blind
<1>3. /\ crc.version # 0 /\ Settled /\ ~Rewriter(p) /\ pc[p] \in LockedPCs
      /\ meta[p] = crc /\ Reads(p)
      /\ data \in Seq(Cell) /\ Len(data) \in Nat
      /\ crc.actualSize \in Nat \ {0} /\ crc.actualSize <= Len(data)
  BY <1>1, HolderFacts
<1>4. Needed(p) \in Nat \ {0}
  BY NeededType
<1>5. /\ data' \in Seq(Cell) /\ Len(data') = mapped'[p] - HeaderSize
      /\ meta[p].actualSize + Needed(p) <= mapped'[p] - HeaderSize
      /\ \A i \in 1 .. Len(data') : i <= Len(data) => data'[i] = data[i]
      /\ mapped'[p] \in Nat /\ Len(data') \in Nat
  BY GrowProperties, LenProperties
<1>6. crc.actualSize <= mapped'[p] - HeaderSize
  BY ONLY <1>3, <1>4, <1>5
<1>7. LogKept
  <2>1. crc.actualSize <= Len(data')
    BY <1>5, <1>6
  <2> QED
    BY <1>3, <1>5, <2>1 DEF LogKept
<1>8. (Cleared(p)' <=> Cleared(p)) /\ Left(p)' = Left(p)
  BY <1>1, <1>2 DEF Cleared, Left
<1>9. Reads(p)'
  <2>1. ASSUME Yields(data, map[p], crc.actualSize, stored)
        PROVE  Yields(data', map[p], crc.actualSize, stored)
    <3>1. map[p] \in [Keys -> Nat]
      BY DEF TypeInv, TypeOK
    <3> QED
      BY <1>3, <1>7, <2>1, <3>1, LogKeptYields
  <2> QED
    BY <1>1, <1>3, <1>6, <1>8, <2>1 DEF Reads, Knows
<1>10. LiveKeys(p)' = LiveKeys(p)
  <2>1. CASE mapped[p] = 0
    <3>1. Seen(p) = <<>>
      BY <1>1, <1>3, <2>1, NothingMapped DEF Seen, Shown
    <3>2. Seen(p)' = <<>>
      BY <1>2, <2>1 DEF Seen
    <3> QED
      BY <1>1, <3>1, <3>2 DEF LiveKeys
  <2>2. CASE mapped[p] # 0
    <3>1. LiveKeys(p) = {k \in Keys : Left(p)[k] # Empty}
      BY <1>1, <1>3, <2>2, ReadsLeft
    <3>2. mapped'[p] # 0 /\ crc'.actualSize <= Len(data')
      BY <1>1, <1>3, <1>5, <1>6 DEF HeaderSize
    <3>3. LiveKeys(p)' = {k \in Keys : Left(p)'[k] # Empty}
      BY <1>2, <1>9, <2>2, <3>2, GrowTypeInv, ReadsLeftNext
    <3> QED
      BY <1>8, <3>1, <3>3
  <2> QED
    BY <2>1, <2>2
<1>11. HasRoom(p)'
  <2>1. Needed(p)' = Needed(p)
    BY <1>1, <1>2, <1>10 DEF Needed, Rewriting
  <2>2. meta'[p].actualSize + Needed(p)' <= mapped'[p] - HeaderSize
    BY <1>1, <1>5, <2>1
  <2> QED
    BY <1>1, <1>3, <1>4, <1>5, <2>1, <2>2 DEF HasRoom, HeaderSize
<1>12. Making(p)' /\ Holding(p)' /\ ~Rewriter(p)'
  <2>1. ~Cleared(p) => synced[p] = stored
    BY <1>1, HolderFacts
  <2> QED
    BY <1>1, <1>3, <1>8, <1>9, <1>11, <2>1
       DEF Making, Holding, Reads, Rewriter
<1> QED
  BY <1>1, <1>3, <1>7, <1>12, InsideNext, LogKeptStep

\* The mapping is gone, and the log is still there: the process knows what it
\* knew, and will yield it once the file is mapped again.
LEMMA MmapFailsProtocol ==
  ASSUME TypeInv, Protocol, NEW p \in Procs, MmapFails(p), ~excused'
  PROVE  Protocol'
<1>1. /\ pc[p] = "reserve" /\ pc'[p] = "idle" /\ Quiet(p) /\ ~Cleared(p)
      /\ op'[p] = NoCall /\ mapped'[p] = 0 /\ crc' = crc /\ stored' = stored
      /\ synced' = synced /\ meta' = meta /\ map' = map
  BY DEF MmapFails, Return, Goto, Quiet, Kept, Alone, Same, Cleared, TypeInv,
         TypeOK
<1>2. /\ crc.version # 0 /\ Settled /\ ~Rewriter(p) /\ pc[p] \in LockedPCs
      /\ meta[p] = crc /\ Reads(p) /\ synced[p] = stored
      /\ data \in Seq(Cell) /\ Len(data) \in Nat
      /\ crc.actualSize \in Nat \ {0} /\ crc.actualSize <= Len(data)
      /\ crc.sequence \in Nat /\ map[p] \in [Keys -> Nat]
  BY <1>1, HolderFacts DEF TypeInv, TypeOK
<1>3. LogKept
  <2>1. /\ data' \in Seq(Cell) /\ Len(data') \in Nat
        /\ crc.actualSize + Needed(p) <= Len(data')
        /\ \A i \in 1 .. Len(data') : i <= Len(data) => data'[i] = data[i]
    BY <1>2, NewCapacitiesProperties DEF MmapFails
  <2>2. Needed(p) \in Nat
    BY NeededType
  <2>3. crc.actualSize <= Len(data')
    BY ONLY <1>2, <2>1, <2>2
  <2> QED
    BY <1>2, <2>1, <2>3 DEF LogKept
<1>4. Yields(data', map[p], crc.actualSize, stored)
  <2>1. Yields(data, map[p], crc.actualSize, stored)
    BY <1>1, <1>2 DEF Reads, Knows
  <2> QED
    BY <1>2, <1>3, <2>1, LogKeptYields
<1>5. ~Rewriter(p)' /\ Settled'
  <2>1. ~Rewriter(p)'
    BY <1>1 DEF Rewriter
  <2> QED
    BY <1>1, <1>2, <2>1, QuietSettled DEF Quiet, Kept
<1>6. Making(p)' /\ Behind(p)' /\ Holding(p)' /\ Appending(p)' /\ Rewritten(p)'
  BY <1>1, <1>2, <1>5, CallTypes
     DEF Making, Behind, Holding, Cleared, Appending, Rewritten
<1>7. UpToDate(p)' /\ Snapshot(p)'
  BY <1>1, <1>2, <1>4, <1>5 DEF UpToDate, Snapshot, Knows
<1> QED
  BY <1>1, <1>2, <1>3, <1>5, <1>6, <1>7, LogKeptStep DEF ProcInv

LEMMA StoreRecordProtocol ==
  ASSUME TypeInv, Protocol, NEW p \in Procs, StoreRecord(p)
  PROVE  Protocol'
<1> DEFINE i == meta[p].actualSize + 1
<1>1. pc[p] = "store" /\ op[p].kind = "append" /\ ~Cleared(p)
  BY DEF StoreRecord, Cleared
<1>2. /\ crc.version # 0 /\ Settled /\ ~Rewriter(p) /\ pc[p] \in LockedPCs
      /\ meta[p] = crc /\ Reads(p)
      /\ data \in Seq(Cell) /\ Len(data) \in Nat /\ mapped[p] \in Nat
      /\ crc.actualSize \in Nat \ {0} /\ crc.actualSize <= Len(data)
  BY <1>1, HolderFacts
<1>3. CASE ~(i <= Len(data))
  <2>1. Forget(p) /\ UNCHANGED <<data, crc, history>>
    BY <1>3 DEF StoreRecord
  <2> QED
    BY <1>2, <2>1, ForgetProtocol DEF Kept, history
<1>4. CASE i <= Len(data)
  <2>1. /\ data' \in Seq(Cell) /\ Len(data') = Len(data)
        /\ i \in 1 .. Len(data) /\ data'[i] = NewRecord(p)
        /\ \A j \in 1 .. Len(data) : j # i => data'[j] = data[j]
        /\ \A q \in Procs \ {p} : meta'[q] = meta[q]
        /\ meta'[p] = [meta[p] EXCEPT
                         !.crcDigest  = UpdateCRC(@, NewRecord(p)),
                         !.actualSize = i,
                         !.sequence   = @ + 1]
        /\ Goto(p, "sync")
        /\ UNCHANGED <<crc, lock, mapped, map, op, history>>
    BY <1>4, StoreRecordProperties
  <2>2. Quiet(p) /\ pc'[p] = "sync" /\ NewRecord(p)' = NewRecord(p)
        /\ op'[p].kind = "append"
    BY <1>1, <2>1
       DEF Quiet, Kept, Alone, Same, Goto, history, NewRecord, TypeInv, TypeOK
  <2>3. LogKept
    BY <1>2, <2>1 DEF LogKept
  <2>4. i <= mapped[p] - HeaderSize
    <3>1. HasRoom(p) /\ Needed(p) = 1
      BY <1>1 DEF Protocol, ProcInv, Holding, Needed, Rewriting
    <3> QED
      BY <1>2, <3>1 DEF HasRoom, HeaderSize
  <2>5. Yields(data', map[p], crc.actualSize, stored)
    <3>1. map[p] \in [Keys -> Nat]
          /\ Yields(data, map[p], crc.actualSize, stored)
      BY <1>1, <1>2 DEF TypeInv, TypeOK, Reads, Knows
    <3> QED
      BY <1>2, <2>3, <3>1, LogKeptYields
  <2>6. Appending(p)'
    BY <1>2, <1>4, <2>1, <2>2, <2>4, <2>5 DEF Appending, history
  <2>7. ~Rewriter(p)' /\ ProcInv(p)'
    BY <1>2, <2>1, <2>2, <2>6
       DEF Rewriter, Rewriting, ProcInv, Making, Behind, UpToDate, Snapshot,
           Holding, Rewritten
  <2> QED
    BY <1>2, <2>1, <2>2, <2>3, <2>7, LogKeptStep DEF history
<1> QED
  BY <1>3, <1>4

-----------------------------------------------------------------------------
(***************************************************************************)
(* The rewrite, and the writes of the meta record.                         *)
(***************************************************************************)
LEMMA StoreRewriteProtocol ==
  ASSUME TypeInv, Protocol, NEW p \in Procs, StoreRewrite(p), ~excused'
  PROVE  Protocol'
<1>1. /\ pc[p] = "store" /\ Rewriting(p) /\ UNCHANGED <<crc, stored>>
      /\ synced' = [q \in Procs |-> IF q = p THEN synced[q] ELSE Unsynced]
  BY DEF StoreRewrite
<1>2. /\ crc.version # 0 /\ Settled /\ ~Rewriter(p) /\ pc[p] \in LockedPCs
      /\ meta[p] = crc /\ Reads(p)
      /\ data \in Seq(Cell) /\ Len(data) \in Nat /\ mapped[p] \in Nat
      /\ crc.actualSize \in Nat \ {0} /\ crc.actualSize <= Len(data)
  BY <1>1, HolderFacts
<1>3. \A q \in Procs \ {p} : pc[q] \notin LockedPCs /\ synced'[q] = Unsynced
  BY <1>1, <1>2, OneHolder
<1>4. PICK s \in PreparedData(p) :
        LET n == ItemSizeHolder + Len(s)
        IN  /\ s \in Seq(Record) /\ n \in Nat \ {0}
            /\ IF n <= Len(data)
                 THEN /\ data' \in Seq(Cell) /\ Len(data') = Len(data)
                      /\ data'[1] # data[1] /\ InPlace(data', s, Len(s))
                      /\ meta' = [meta EXCEPT ![p] =
                                    NewMeta(data', n, @.sequence + 1)]
                      /\ Goto(p, "sync")
                      /\ UNCHANGED <<lock, mapped, map, op>>
                 ELSE Forget(p) /\ UNCHANGED data
  BY StoreRewriteProperties
<1> DEFINE n == ItemSizeHolder + Len(s)
<1>5. CASE ~(n <= Len(data))
  <2>1. Forget(p) /\ data' = data
    BY <1>4, <1>5
  <2> QED
    BY <1>1, <1>2, <1>3, <2>1, ForgetProtocol DEF Kept
<1>6. CASE n <= Len(data)
  <2>1. /\ data' \in Seq(Cell) /\ Len(data') = Len(data)
        /\ data'[1] # data[1] /\ InPlace(data', s, Len(s))
        /\ meta' = [meta EXCEPT ![p] = NewMeta(data', n, @.sequence + 1)]
        /\ Goto(p, "sync") /\ s \in Seq(Record) /\ n \in Nat \ {0}
        /\ UNCHANGED <<lock, mapped, map, op>>
    BY <1>4, <1>6
  <2>2. Encodes(s, Left(p)) /\ Len(s) = Cardinality(LiveKeys(p))
    <3>1. Lookup(Seen(p), map[p]) = Left(p)
      <4>1. CASE op[p].blind
        <5>1. Left(p) = EmptyContents
          BY <4>1 DEF StoreRewrite, Left
        <5> QED
          BY <1>2, <4>1, <5>1, NothingMapped DEF Seen
      <4>2. CASE ~op[p].blind
        <5>1. mapped[p] # 0
          <6>1. HasRoom(p) /\ Needed(p) \in Nat
            BY <1>1, NeededType DEF Protocol, ProcInv, Holding
          <6> QED
            BY <1>2, <6>1 DEF HasRoom, HeaderSize
        <5> QED
          BY <1>2, <4>2, <5>1, ReadsLeft DEF Seen
      <4> QED
        BY <4>1, <4>2
    <3> QED
      BY <3>1, PreparedProperties
  <2>3. n <= mapped[p] - HeaderSize
    <3>1. HasRoom(p) /\ Needed(p) = n
      BY <1>1, <2>2 DEF Protocol, ProcInv, Holding, Needed
    <3> HIDE DEF n
    <3> QED
      BY <1>2, <2>1, <3>1 DEF HasRoom, HeaderSize
  <2>4. LogHolds(data', n, Left(p))
    <3>1. Left(p) \in Contents
      BY EmptyContentsType DEF Left, TypeInv, TypeOK
    <3> DEFINE v == Left(p)
               index == DecodeMap(data', n)
    <3> HIDE DEF v
    <3>2. Yields(data', index, n, v)
      BY <1>6, <2>1, <2>2, <3>1, DecodeEncoded DEF v
    <3> HIDE DEF n
    <3>3. LogHolds(data', n, Lookup(data', index))
      BY <1>6, <2>1, LookupLogHolds
    <3> QED
      BY <3>2, <3>3 DEF Yields, v
  <2> HIDE DEF n
  <2>5. /\ Alone(p) /\ pc'[p] = "sync" /\ op' = op /\ map' = map
        /\ meta'[p] = NewMeta(data', n, crc.sequence + 1)
        /\ mapped' = mapped /\ crc' = crc /\ stored' = stored
    BY <1>1, <1>2, <2>1 DEF Alone, Same, Goto, TypeInv, TypeOK
  <2>6. Rewriter(p)' /\ ~Settled'
    BY <1>1, <2>5 DEF Rewriter, Rewriting, Settled
  <2>7. crc.crcDigest[1] # data'[1]
    BY <1>2, <2>1, StoreFacts
  <2>8. Rewritten(p)'
    <3>1. Left(p)' = Left(p)
      BY <2>5 DEF Left, Cleared
    <3>2. n \in 1 .. Len(data')
      BY <1>2, <1>6, <2>1
    <3> QED
      BY <2>3, <2>4, <2>5, <2>7, <3>1, <3>2 DEF Rewritten
  <2>9. ProcInv(p)'
    BY <1>1, <1>2, <2>5, <2>8
       DEF ProcInv, Making, Behind, UpToDate, Snapshot, Holding, Appending,
           Rewriting
  <2>10. ASSUME NEW q \in Procs \ {p}  PROVE ProcInv(q)'
    <3>1. Same(q) /\ ProcInv(q) /\ pc[q] \notin LockedPCs
          /\ synced'[q] = Unsynced
      BY <1>3, <2>5 DEF Alone, Protocol
    <3>2. Unsynced' = Unsynced
      BY DEF Unsynced
    <3>3. UpToDate(q)' /\ Snapshot(q)'
      BY <2>6, <3>1, <3>2 DEF UpToDate, Snapshot
    <3>4. Making(q)' /\ Behind(q)'
      BY <1>2, <2>5, <3>1 DEF Same, ProcInv, Making, Behind, Match
    <3>5. Holding(q)' /\ Appending(q)' /\ Rewritten(q)'
      BY <3>1 DEF Same, ProcInv, Holding, Cleared, Appending, Rewritten,
                  Rewriter, LockedPCs
    <3> QED
      BY <3>3, <3>4, <3>5 DEF ProcInv
  <2>11. Files'
    <3>1. data' # <<>>
      BY <1>2, <1>6, <2>1, NonEmpty
    <3> QED
      BY <1>2, <2>5, <2>6, <3>1, StoreFacts DEF Files
  <2> QED
    BY <2>9, <2>10, <2>11 DEF Protocol
<1> QED
  BY <1>5, <1>6

\* The meta record on disk is now one that no peer can take for its own.
LEMMA SyncOther ==
  ASSUME TypeInv, Protocol, crc.version # 0,
         NEW q \in Procs, Same(q), synced'[q] = synced[q], data' = data,
         pc[q] \notin LockedPCs, crc'.sequence = crc.sequence + 1,
         crc'.version # 0, Settled', crc'.actualSize \in Nat,
         Settled => crc.actualSize <= crc'.actualSize
  PROVE  ProcInv(q)'
<1> USE DEF Same
<1>1. /\ crc.sequence \in Nat /\ crc.actualSize \in Nat
      /\ meta[q].sequence \in Nat /\ meta[q].actualSize \in Nat /\ ProcInv(q)
  BY DEF TypeInv, TypeOK, SharedMeta, Protocol
<1>2. /\ meta[q].sequence <= crc.sequence =>
           meta[q].sequence <= crc'.sequence /\ meta[q].sequence # crc'.sequence
      /\ Settled /\ meta[q].actualSize <= crc.actualSize =>
           meta[q].actualSize <= crc'.actualSize
  BY <1>1
<1>3. Making(q)' /\ Behind(q)' /\ UpToDate(q)'
  BY <1>1, <1>2 DEF ProcInv, Making, Behind, UpToDate, Match, LockedPCs
<1>4. Snapshot(q)'
  BY <1>1, <1>2 DEF ProcInv, Snapshot, Knows, Cleared
<1>5. Holding(q)' /\ Appending(q)' /\ Rewritten(q)'
  BY <1>1 DEF ProcInv, Holding, Cleared, Appending, Rewritten, Rewriter,
              LockedPCs
<1> QED
  BY <1>3, <1>4, <1>5 DEF ProcInv

\* What a call that returns true must have done.
LEMMA SyncProtocol ==
  ASSUME TypeInv, Protocol, NEW p \in Procs, pc[p] = "sync", Return(p),
         crc' = meta[p], UNCHANGED <<data, mapped, meta>>,
         \A q \in Procs \ {p} : map'[q] = map[q],
         synced' = [synced EXCEPT ![p] = stored'],
         meta[p].sequence = crc.sequence + 1,
         Settled => crc.actualSize <= meta[p].actualSize,
         Good(meta[p]), meta[p].actualSize <= mapped[p] - HeaderSize,
         Verifies(data, meta[p].actualSize, meta[p].crcDigest),
         LogHolds(data, meta[p].actualSize, stored'),
         Yields(data, map'[p], meta[p].actualSize, stored')
  PROVE  Protocol'
<1>1. /\ pc'[p] = "idle" /\ op'[p] = NoCall /\ Alone(p)
      /\ synced'[p] = stored' /\ \A q \in Procs \ {p} : synced'[q] = synced[q]
  BY DEF Return, Goto, Alone, Same, TypeInv, TypeOK
<1>2. /\ crc.version # 0 /\ pc[p] \in LockedPCs /\ data # <<>>
      /\ meta[p].version # 0 /\ meta[p].actualSize \in Nat
      /\ meta[p].sequence \in Nat
  BY Opened DEF LockedPCs, TypeInv, TypeOK, FileAt, SharedMeta, Good
<1>3. \A q \in Procs \ {p} : pc[q] \notin LockedPCs /\ pc'[q] = pc[q]
  BY <1>1, <1>2, OneHolder DEF Alone, Same
<1>4. Settled'
  BY <1>1, <1>3 DEF Settled, Rewriter, LockedPCs
<1>5. ASSUME NEW q \in Procs \ {p}  PROVE ProcInv(q)'
  BY <1>1, <1>2, <1>3, <1>4, SyncOther DEF Alone
<1>6. ProcInv(p)'
  <2>1. /\ Making(p)' /\ Behind(p)' /\ Holding(p)' /\ Appending(p)'
        /\ Rewritten(p)'
    BY <1>1, <1>2, CallTypes
       DEF Making, Behind, Holding, Cleared, Appending, Rewritten, Rewriter
  <2>2. UpToDate(p)' /\ Snapshot(p)'
    BY <1>1, <1>2, <1>4 DEF UpToDate, Snapshot, Knows
  <2> QED
    BY <2>1, <2>2 DEF ProcInv
<1>7. Files'
  BY <1>2 DEF Files
<1> QED
  BY <1>5, <1>6, <1>7 DEF Protocol

LEMMA SyncRecordProtocol ==
  ASSUME TypeInv, Protocol, NEW p \in Procs, SyncRecord(p)
  PROVE  Protocol'
<1> DEFINE n == crc.actualSize
           i == n + 1
           r == NewRecord(p)
           d == UpdateCRC(crc.crcDigest, r)
<1>1. /\ pc[p] = "sync" /\ op[p].kind = "append" /\ Return(p) /\ crc' = meta[p]
      /\ map' = [map EXCEPT ![p][op[p].key] =
                   IF op[p].blob = Empty THEN 0 ELSE meta[p].actualSize]
      /\ stored' = [stored EXCEPT ![op[p].key] = op[p].blob]
      /\ synced' = [synced EXCEPT ![p] = stored']
      /\ UNCHANGED <<data, mapped, meta>>
  BY DEF SyncRecord
<1>2. crc.version # 0 /\ ~Rewriter(p) /\ pc[p] \in LockedPCs
  BY <1>1, Opened DEF Rewriter, Rewriting, LockedPCs
<1>3. Settled
  BY <1>2, HolderSettled
<1>4. /\ data \in Seq(Cell) /\ Len(data) \in Nat /\ crc \in SharedMeta
      /\ Good(crc) /\ n \in Nat \ {0} /\ crc.crcDigest \in Seq(Cell)
      /\ Len(crc.crcDigest) = n /\ stored \in Contents /\ n <= Len(data)
      /\ LogHolds(data, n, stored) /\ map[p] \in [Keys -> Nat]
      /\ Verifies(data, n, crc.crcDigest) /\ crc.sequence \in Nat
      /\ mapped[p] \in Nat /\ map \in [Procs -> [Keys -> Nat]]
  BY <1>2, <1>3, StoreFacts DEF TypeInv, TypeOK, Protocol, Files
<1>5. /\ meta[p] = [crc EXCEPT !.crcDigest = d, !.actualSize = i,
                               !.sequence = @ + 1]
      /\ i <= Len(data) /\ i <= mapped[p] - HeaderSize /\ data[i] = r
      /\ Yields(data, map[p], n, stored)
  BY <1>1 DEF Protocol, ProcInv, Appending
<1>6. r \in Record /\ r \in Cell /\ r.key = op[p].key /\ r.blob = op[p].blob
      /\ r.key \in Keys
  BY <1>1, NewRecordType DEF NewRecord, Record
<1>7. /\ Len(d) = i /\ d[i] = r
      /\ \A j \in 1 .. n : d[j] = crc.crcDigest[j]
  BY <1>4, <1>6, AppendProperties DEF UpdateCRC
<1> HIDE DEF d, r, n
<1>8. /\ meta[p].crcDigest = d /\ meta[p].actualSize = i
      /\ meta[p].sequence = crc.sequence + 1
      /\ meta[p].version = crc.version
      /\ meta[p].lastConfirmedActualSize = crc.lastConfirmedActualSize
      /\ meta[p].lastConfirmedCRCDigest = crc.lastConfirmedCRCDigest
  BY <1>4, <1>5 DEF SharedMeta
<1>9. Good(meta[p])
  <2>1. crc.lastConfirmedActualSize \in Nat
    BY <1>4 DEF SharedMeta
  <2>2. /\ 1 <= crc.lastConfirmedActualSize
        /\ crc.lastConfirmedActualSize <= n /\ crc.version = 4
        /\ crc.lastConfirmedActualSize = Len(crc.lastConfirmedCRCDigest)
        /\ \A j \in 1 .. crc.lastConfirmedActualSize :
             crc.lastConfirmedCRCDigest[j] = crc.crcDigest[j]
    BY <1>4 DEF Good, Extends, n
  <2>3. /\ crc.lastConfirmedActualSize <= i
        /\ \A j \in 1 .. crc.lastConfirmedActualSize :
             crc.lastConfirmedCRCDigest[j] = d[j]
    BY <1>4, <1>7, <2>1, <2>2
  <2> HIDE DEF i
  <2> QED
    BY <1>7, <1>8, <2>2, <2>3 DEF Good, Extends
<1>10. Verifies(data, i, d)
  BY <1>4, <1>5, <1>7 DEF Verifies
<1>11. stored' = [stored EXCEPT ![r.key] = r.blob]
  BY <1>1, <1>6
<1>12. LogHolds(data, i, stored')
  <2>1. i - 1 = n /\ i \in Nat /\ ItemSizeHolder + 1 <= i
    BY <1>4 DEF ItemSizeHolder
  <2> HIDE DEF i
  <2>2. LogHolds(data, i - 1, stored)
    BY <1>4, <2>1
  <2> QED
    BY ONLY <1>4, <1>5, <1>6, <1>11, <2>1, <2>2, LogHoldsAppend
<1>13. Yields(data, map'[p], i, stored')
  <2>1. map'[p] = [map[p] EXCEPT ![r.key] = IF r.blob = Empty THEN 0 ELSE i]
    BY <1>1, <1>4, <1>6, <1>8
  <2> DEFINE index == map[p]
  <2>2. /\ index \in [Keys -> Nat] /\ Yields(data, index, n, stored)
        /\ n + 1 <= Len(data) /\ n \in Nat /\ data[n + 1] = r
    BY <1>4, <1>5
  <2> HIDE DEF index
  <2>3. Yields(data,
               [index EXCEPT ![r.key] = IF r.blob = Empty THEN 0 ELSE n + 1],
               n + 1, [stored EXCEPT ![r.key] = r.blob])
    BY ONLY <1>4, <1>6, <2>2, YieldsAppend
  <2> QED
    BY <1>11, <2>1, <2>3 DEF index
<1>14. /\ \A q \in Procs \ {p} : map'[q] = map[q]
       /\ crc.actualSize <= meta[p].actualSize
  BY <1>1, <1>4, <1>8 DEF n
<1> HIDE DEF i
<1> QED
  BY <1>1, <1>5, <1>8, <1>9, <1>10, <1>12, <1>13, <1>14, SyncProtocol

LEMMA SyncRewriteProtocol ==
  ASSUME TypeInv, Protocol, NEW p \in Procs, SyncRewrite(p), ~excused'
  PROVE  Protocol'
<1>1. /\ pc[p] = "sync" /\ Rewriting(p) /\ Return(p) /\ crc' = meta[p]
      /\ map' = [map EXCEPT ![p] = Index(View(mapped[p]), meta[p].actualSize)]
      /\ stored' = Left(p) /\ synced' = [synced EXCEPT ![p] = stored']
      /\ UNCHANGED <<data, mapped, meta>>
  BY DEF SyncRewrite, Rewriting, Left, Cleared, Shown
<1>2. Rewriter(p) /\ ~Settled
  BY <1>1 DEF Rewriter, Settled
<1>3. PICK n \in 1 .. Len(data) :
        /\ meta[p] = NewMeta(data, n, crc.sequence + 1)
        /\ n <= mapped[p] - HeaderSize
        /\ LogHolds(data, n, Left(p))
  BY <1>2 DEF Protocol, ProcInv, Rewritten
<1>4. /\ data \in Seq(Cell) /\ mapped[p] \in Nat /\ stored' \in Contents
      /\ n \in Nat /\ n <= Len(data)
  BY <1>1, EmptyContentsType, LenProperties DEF Left, TypeInv, TypeOK
<1>5. /\ Good(meta[p]) /\ meta[p].actualSize = n
      /\ meta[p].sequence = crc.sequence + 1
      /\ Verifies(data, n, meta[p].crcDigest)
  BY <1>3, <1>4, NewMetaGood
<1>6. LogHolds(data, n, stored')
  BY <1>1, <1>3
<1>7. Yields(data, map'[p], n, stored')
  <2>1. map'[p] = Index(View(mapped[p]), n)
    BY <1>1, <1>5 DEF TypeInv, TypeOK
  <2> QED
    BY <1>3, <1>4, <1>6, <2>1, IndexYields
<1>8. \A q \in Procs \ {p} : map'[q] = map[q]
  BY <1>1 DEF TypeInv, TypeOK
<1> QED
  BY <1>1, <1>2, <1>3, <1>5, <1>6, <1>7, <1>8, SyncProtocol

-----------------------------------------------------------------------------
\* What has been excused stays so.
LEMMA ExcusedStays ==
  ASSUME NEW p \in Procs, Step(p), excused
  PROVE  excused'
<1>1. CASE Opens(p)
  BY <1>1 DEF Opens, StatAbsent, CreateData, InitData, CreateCrc, MapData,
              MapReader, ReadMeta, Validate, Decode, history
<1>2. CASE Calls(p)
  BY <1>2 DEF Calls, Remove, Set, Compact, ClearAll, Begin
<1>3. CASE Acquire(p) \/ Interrupt(p) \/ Crash(p)
  BY <1>3 DEF Acquire, Interrupt, Crash, history
<1>4. CASE Holds(p)
  BY <1>4 DEF Holds, OpenReturns, CheckLoadData, EnsureSpace, Grow, GrowFails,
              MmapFails, ReloadFails, StoreRecord, StoreRewrite, SyncRecord,
              SyncRewrite, history
<1> QED
  BY <1>1, <1>2, <1>3, <1>4 DEF Step

LEMMA StepProtocol ==
  ASSUME TypeInv, Protocol, NEW p \in Procs, Step(p), ~excused'
  PROVE  Protocol'
<1>1. CASE Opens(p)
  BY <1>1, StatAbsentProtocol, CreateDataProtocol, InitDataProtocol,
     CreateCrcProtocol, MapProtocol, ReadMetaProtocol, ValidateProtocol,
     DecodeProtocol DEF Opens
<1>2. CASE Calls(p)
  BY <1>2, CallsProtocol
<1>3. CASE Holds(p)
  BY <1>3, OpenReturnsProtocol, CheckLoadDataProtocol, EnsureSpaceProtocol,
     GrowProtocol, MmapFailsProtocol, GrowFailsProtocol, StoreRecordProtocol,
     StoreRewriteProtocol, SyncRecordProtocol, SyncRewriteProtocol
     DEF Holds, ReloadFails
<1> QED
  BY <1>1, <1>2, <1>3, AcquireProtocol, InterruptProtocol, CrashProtocol
     DEF Step

LEMMA StutterProtocol ==
  ASSUME Protocol, UNCHANGED vars
  PROVE  Protocol'
<1>1. /\ data' = data /\ crc' = crc /\ stored' = stored /\ synced' = synced
      /\ pc' = pc /\ op' = op /\ mapped' = mapped /\ meta' = meta /\ map' = map
  BY DEF vars, files, process, history
<1>2. Settled' <=> Settled
  BY <1>1 DEF Settled, Rewriter, Rewriting
<1>3. ASSUME NEW q \in Procs  PROVE ProcInv(q)'
  BY <1>1, <1>2, QuietOther DEF Same, Kept, Protocol
<1>4. Files'
  BY <1>1, <1>2 DEF Protocol, Files
<1> QED
  BY <1>3, <1>4 DEF Protocol

LEMMA InitProtocol == Init => Protocol
<1> SUFFICES ASSUME Init PROVE Protocol
  OBVIOUS
<1>1. \A p \in Procs : pc[p] = "closed" /\ map[p] = NoIndex
  BY DEF Init
<1>2. \A p \in Procs : ProcInv(p)
  <2>1. \A p \in Procs : Making(p)
    BY <1>1 DEF Making
  <2> QED
    BY <1>1, <2>1, Outside
<1>3. Files
  <2>1. CASE data = <<>> /\ crc = NoMeta
    BY <1>1, <2>1 DEF Files, Init, NoMeta
  <2>2. CASE /\ data = [Resize(<<>>, InitialCapacity - HeaderSize)
                          EXCEPT ![1] = [seed |-> 1]]
             /\ crc = NewMeta(data, 1, 0)
    <3>1. data \in Seq(Cell) /\ data # <<>> /\ 1 \in 1 .. Len(data)
      <4>1. data \in Seq(Cell) /\ data # <<>> /\ 1 <= Len(data)
        BY <2>2, NewStore
      <4> QED
        BY <4>1, LenProperties
    <3>2. /\ Good(crc) /\ crc.actualSize = 1 /\ crc.version = 4
          /\ Verifies(data, 1, crc.crcDigest)
      BY <2>2, <3>1, NewMetaGood
    <3>3. stored = EmptyContents
      BY DEF Init
    <3> QED
      BY <3>1, <3>2, <3>3, LogHoldsNothing DEF Files
  <2> QED
    BY <2>1, <2>2 DEF Init
<1> QED
  BY <1>2, <1>3 DEF Protocol

LEMMA InitInv == Init => Inv
BY InitTypeInv, InitProtocol DEF Inv

LEMMA NextInv == Inv /\ [Next]_vars => Inv'
<1> SUFFICES ASSUME Inv, [Next]_vars PROVE Inv'
  OBVIOUS
<1>1. TypeInv /\ TypeInv'
  BY NextTypeInv DEF Inv
<1>2. ASSUME ~excused'  PROVE Protocol'
  <2>1. CASE UNCHANGED vars
    <3>1. ~excused
      BY <1>2, <2>1 DEF vars, history
    <3> QED
      BY <2>1, <3>1, StutterProtocol DEF Inv
  <2>2. CASE Next
    <3>1. PICK p \in Procs : Step(p)
      BY <2>2 DEF Next
    <3>2. ~excused
      BY <1>2, <3>1, ExcusedStays
    <3> QED
      BY <1>1, <1>2, <3>1, <3>2, StepProtocol DEF Inv
  <2> QED
    BY <2>1, <2>2
<1> QED
  BY <1>1, <1>2 DEF Inv

-----------------------------------------------------------------------------
(***************************************************************************)
(* What the invariant says to a user.                                      *)
(***************************************************************************)
LEMMA InvAcked == Inv => AckedOnDisk
<1> SUFFICES ASSUME Inv, ~excused, crc.version # 0,
                    ~\E p \in Procs : pc[p] = "sync" /\ Rewriting(p)
             PROVE  PrimaryValid(data, 0, crc) /\ DiskContents = stored
  BY DEF AckedOnDisk
<1>1. TypeInv /\ Protocol /\ Settled
  BY DEF Inv, Settled, Rewriter
<1> DEFINE n == crc.actualSize
<1>2. /\ data \in Seq(Cell) /\ Len(data) \in Nat /\ n \in Nat
      /\ n <= Len(data) /\ stored \in Contents /\ crc.version = 4
      /\ Verifies(data, n, crc.crcDigest) /\ LogHolds(data, n, stored)
  BY <1>1, StoreFacts DEF Protocol, Files, Good
<1>3. PrimaryValid(data, 0, crc)
  BY <1>2 DEF PrimaryValid, CandidateSize
<1> HIDE DEF n
<1>4. Index(data, n) = DecodeMap(data, n)
  BY <1>2 DEF Index
<1>5. Lookup(data, DecodeMap(data, n)) = stored
  BY <1>2, LogHoldsLookup
<1> QED
  BY <1>3, <1>4, <1>5 DEF DiskContents, n

\* For any set of processes, any of them readers, any finite set of keys, any
\* values and any capacity: no acknowledged write of any process is lost or
\* undone by another, through every interleaving of opens, calls, growth, lost
\* mappings, failed locks and deaths of the processes, until one of the things
\* that `excused` lists has happened, a compaction without a mapping among
\* them (writer.cpp:282-438, mmap_region.cpp:58-70).
THEOREM NoWriteIsLost == Spec => []AckedOnDisk
BY InitInv, NextInv, InvAcked, PTL DEF Spec

LEMMA InvHolder == Inv => HolderUpToDate
<1> SUFFICES ASSUME Inv, NEW p \in Procs, pc[p] \in {"reserve", "store"},
                    ~excused
             PROVE  /\ meta[p] = crc
                    /\ ~Cleared(p) =>
                         Lookup(Shown(p), map[p]) =
                           IF mapped[p] = 0 THEN EmptyContents ELSE stored
  BY DEF HolderUpToDate
<1>1. TypeInv /\ Protocol
  BY DEF Inv
<1>2. meta[p] = crc /\ Reads(p) /\ crc.actualSize <= Len(data)
  BY <1>1, HolderFacts
<1>3. Lookup(Shown(p), map[p]) =
        IF mapped[p] = 0 THEN EmptyContents ELSE Left(p)
  BY <1>1, <1>2, ReadsLeft
<1> QED
  BY <1>2, <1>3 DEF Left

\* Under the same hypotheses, the comparison of sequence number and size is
\* enough: whoever has the lock and has run checkLoadData has the meta record
\* of the files, and reads what is stored in them, unless a failed grow() has
\* left it without a mapping, when it reads nothing until it has grown the file
\* (writer.cpp:243-254, mmap_region.cpp:60-66).
THEOREM TheHolderIsUpToDate == Spec => []HolderUpToDate
BY InitInv, NextInv, InvHolder, PTL DEF Spec

LEMMA InvSnapshot == Inv => SnapshotReads
<1> SUFFICES ASSUME Inv, NEW p \in Procs, pc[p] \in {"idle", "reading"},
                    synced[p] # Unsynced, ~excused
             PROVE  Lookup(Shown(p), map[p]) =
                      IF mapped[p] = 0 THEN EmptyContents ELSE synced[p]
  BY DEF SnapshotReads
<1>1. TypeInv /\ Protocol
  BY DEF Inv
<1>2. ~Cleared(p) /\ crc.version # 0
  BY <1>1, Opened, CallTypes DEF TypeInv, OpAt, Cleared
<1>3. /\ Settled /\ meta[p].actualSize <= crc.actualSize
      /\ Knows(p, meta[p].actualSize, synced[p])
  BY <1>1, <1>2 DEF Protocol, ProcInv, Snapshot
<1> DEFINE n == meta[p].actualSize
<1>4. n \in Nat /\ n <= Len(data)
  <2>1. crc.actualSize \in Nat /\ Len(data) \in Nat
        /\ crc.actualSize <= Len(data) /\ n \in Nat
    BY <1>1, <1>2, <1>3, StoreFacts DEF TypeInv, TypeOK, SharedMeta
  <2> HIDE DEF n
  <2> QED
    BY <1>3, <2>1 DEF n
<1>5. Knows(p, n, synced[p])
  BY <1>3
<1> HIDE DEF n
<1> QED
  BY <1>1, <1>4, <1>5, KnowsLookup

\* Under the same hypotheses, a process that reads without the lock, a
\* QuickStoreReader too, reads the whole contents it knew last, until a peer
\* rewrites the log, or reads nothing for as long as a failed grow() leaves it
\* without a mapping (writer.cpp:525-596, reader.cpp).
THEOREM ReadsAreSnapshots == Spec => []SnapshotReads
BY InitInv, NextInv, InvSnapshot, PTL DEF Spec

=============================================================================
