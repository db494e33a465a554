---------------------------- MODULE MultiProcess ----------------------------
(***************************************************************************)
(* Several QuickStoreWriters of core/src/writer.cpp, opened with           *)
(* multi_process = 1, one per process, on one pair of files.  It composes  *)
(* DataFile (the files) and FileLock (the lock on the .crc file) with what *)
(* a writer does in this mode: it opens without the lock; it appends and   *)
(* rewrites under the lock, after checkLoadData has looked whether a peer  *)
(* has written; it reads with neither.  A QuickStoreReader of reader.cpp    *)
(* opens as a writer does, asks for no lock, and only reads.               *)
(*                                                                         *)
(* Steps are those a peer can get between.  A copy into the mapping, with  *)
(* the header, is one step, and the pwrite of the meta record another;     *)
(* QuickStoreWriter is about what a crash inside a copy leaves.            *)
(***************************************************************************)
EXTENDS DataFile, FiniteSets

CONSTANTS
  Procs,            \* the processes
  Readers,          \* those that may also open a QuickStoreReader
  InitialCapacity,  \* 4096 bytes
  MaxCapacity,      \* bound: the largest file ftruncate grants
  MaxSequence       \* bound: no call begins once m_sequence has reached it

ASSUME CapacityAssumption ==
  InitialCapacity \in Nat /\ InitialCapacity > HeaderSize /\ MaxCapacity \in Nat
ASSUME KeysAssumption == IsFiniteSet(Keys)

VARIABLES
  data, crc,                    \* the files; data is empty where there is none
  os, count, lockPc, holders,   \* FileLock
  pc,      \* where each process is
  op,      \* the call it is in
  mapped,  \* the size of its m_dataRegion, 0 where it has none
  meta,    \* its m_meta
  map,     \* its m_map
  stored,  \* history: what the calls that returned true have left in the store
  synced,  \* history: `stored` as each process knew it last, or Unsynced
  excused  \* history: something happened after which nothing is promised:
           \* a second creator (CreateData), a clearAll that fails, a death
           \* inside a rewrite (Crash), ReloadFails, a compaction without a
           \* mapping (StoreRewrite), a clearAll that keeps what a peer wrote
           \* (SyncRewrite)

files   == <<data, crc>>
lock    == <<os, count, lockPc, holders>>
process == <<mapped, meta, map>>
history == <<stored, synced, excused>>
vars    == <<files, lock, process, history, pc, op>>

Lk == INSTANCE FileLock WITH
        pc <- lockPc, Calls <- {"lock"}, Types <- {"exclusive"},
        MaxNesting <- 1, AtomicDowngrade <- TRUE

-----------------------------------------------------------------------------
\* The meta record with the sequence number.  Version 0: no .crc file, or one
\* of 112 zeroes.
NoMeta == [ crcDigest |-> <<>>, version |-> 0, actualSize |-> 0,
            lastConfirmedActualSize |-> 0, lastConfirmedCRCDigest |-> <<>>,
            sequence |-> 0 ]

NewMeta(cells, n, seq) ==
  [ crcDigest               |-> ComputeCRC(cells, n),
    version                 |-> 4,
    actualSize              |-> n,
    lastConfirmedActualSize |-> n,
    lastConfirmedCRCDigest  |-> ComputeCRC(cells, n),
    sequence                |-> seq ]

Unsynced == [k \in Keys |-> "unsynced"]

\* The call a process is in.  `reloaded`: checkLoadData found a peer's write.
\* `blind`: the live entries were looked up through a null base.
Call(kind, k, b) ==
  [kind |-> kind, key |-> k, blob |-> b, reloaded |-> FALSE, blind |-> FALSE]
NoCall == Call("none", "", "")
OpenCall == Call("open", "", "")
ReaderCall == Call("reader", "", "")
Rewriting(p) == op[p].kind \in {"compact", "clearAll"}

\* The index is the empty one that clearAll made.
Cleared(p) == op[p].kind = "clearAll" /\ ~op[p].reloaded

Goto(p, label) == pc' = [pc EXCEPT ![p] = label]

\* What a process sees of the data file through a mapping of a given size:
\* nothing where it has none.
View(size) == SubSeq(data, 1, IF size - HeaderSize < Len(data)
                                THEN size - HeaderSize ELSE Len(data))
Shown(p) == View(mapped[p])

\* decodeMap over that.  (Only a race of two creators cuts a log short.)
Index(cells, n) == DecodeMap(cells, IF n < Len(cells) THEN n ELSE Len(cells))

NoIndex == [k \in Keys |-> 0]

\* No store, or a new one that was closed again.
Init == /\ \/ data = <<>> /\ crc = NoMeta
           \/ /\ data = [Resize(<<>>, InitialCapacity - HeaderSize)
                           EXCEPT ![1] = [seed |-> 1]]
              /\ crc = NewMeta(data, 1, 0)
        /\ Lk!Init
        /\ pc = [p \in Procs |-> "closed"]
        /\ op = [p \in Procs |-> NoCall]
        /\ mapped = [p \in Procs |-> 0]
        /\ meta = [p \in Procs |-> NoMeta]
        /\ map = [p \in Procs |-> NoIndex]
        /\ stored = EmptyContents
        /\ synced = [p \in Procs |-> Unsynced]
        /\ excused = FALSE

-----------------------------------------------------------------------------
(***************************************************************************)
(* open(), which does not have the lock: it takes and drops it at the end. *)
(***************************************************************************)
\* stat() finds no file.
StatAbsent(p) == /\ pc[p] = "closed" /\ data = <<>>
                 /\ Goto(p, "create")
                 /\ UNCHANGED <<files, lock, process, history, op>>

\* ftruncate to 4096 bytes, of what may be a peer's store by now.
CreateData(p) ==
  /\ pc[p] = "create"
  /\ data' = Resize(data, InitialCapacity - HeaderSize)
  /\ excused' = (excused \/ data # <<>>)
  /\ Goto(p, "init")
  /\ UNCHANGED <<crc, lock, process, stored, synced, op>>

InitData(p) ==
  /\ pc[p] = "init"
  /\ mapped' = [mapped EXCEPT ![p] = HeaderSize + Len(data)]
  /\ data' = [data EXCEPT ![1] = [seed |-> 1]]
  /\ meta' = [meta EXCEPT ![p] = NewMeta(data', 1, 0)]
  /\ Goto(p, "create_crc")
  /\ UNCHANGED <<crc, lock, map, history, op>>

CreateCrc(p) ==
  /\ pc[p] = "create_crc"
  /\ crc' = meta[p]
  /\ synced' = [synced EXCEPT ![p] = EmptyContents]
  /\ op' = [op EXCEPT ![p] = OpenCall]
  /\ Lk!Lock(p, "exclusive") /\ Goto(p, "wait")
  /\ UNCHANGED <<data, process, stored, excused>>

\* stat() finds one; it is mapped at the size it has.  Where that fails, open()
\* returns nothing.
MapData(p) == /\ pc[p] = "closed" /\ data # <<>>
              /\ mapped' = [mapped EXCEPT ![p] = HeaderSize + Len(data)]
              /\ Goto(p, "read_meta")
              /\ UNCHANGED <<files, lock, meta, map, history, op>>

\* QuickStoreReader::open.  Nobody writes to its private mapping, which shows
\* the pages of the file like any other.
MapReader(p) == /\ p \in Readers /\ pc[p] = "closed" /\ data # <<>>
                /\ mapped' = [mapped EXCEPT ![p] = HeaderSize + Len(data)]
                /\ op' = [op EXCEPT ![p] = ReaderCall]
                /\ Goto(p, "read_meta")
                /\ UNCHANGED <<files, lock, meta, map, history>>

\* The process is gone, or its open() returned nothing; close() writes nothing.
Forget(p) == /\ Goto(p, "closed")
             /\ op' = [op EXCEPT ![p] = NoCall]
             /\ mapped' = [mapped EXCEPT ![p] = 0]
             /\ meta' = [meta EXCEPT ![p] = NoMeta]
             /\ map' = [map EXCEPT ![p] = NoIndex]
             /\ Lk!Crash(p)

ReadMeta(p) ==
  /\ pc[p] = "read_meta"
  /\ IF crc.version = 0
       THEN Forget(p) /\ UNCHANGED history
       ELSE /\ meta' = [meta EXCEPT ![p] = crc]
            /\ synced' = [synced EXCEPT ![p] = stored]
            /\ Goto(p, "validate")
            /\ UNCHANGED <<lock, mapped, map, stored, excused, op>>
  /\ UNCHANGED files

\* A peer that appends and grows the file between the two steps before this
\* one makes it look cut short, and the open rolls back to the confirmed size.
Validate(p) ==
  /\ pc[p] = "validate"
  /\ LET r == CheckDataValid(Shown(p), 0, meta[p])
     IN  IF r.loadFromFile
           THEN /\ meta' = [meta EXCEPT ![p].actualSize = r.effectiveActualSize]
                /\ synced' = [synced EXCEPT ![p] =
                                IF r.needFullWriteback THEN Unsynced ELSE @]
                /\ Goto(p, "decode")
                /\ UNCHANGED <<lock, mapped, map, op>>
           ELSE Forget(p) /\ UNCHANGED synced
  /\ UNCHANGED <<files, stored, excused>>

Decode(p) ==
  /\ pc[p] = "decode"
  /\ map' = [map EXCEPT ![p] = Index(Shown(p), meta[p].actualSize)]
  /\ IF op[p] = ReaderCall
       THEN Goto(p, "reading") /\ UNCHANGED <<lock, op>>
       ELSE /\ op' = [op EXCEPT ![p] = OpenCall]
            /\ Lk!Lock(p, "exclusive") /\ Goto(p, "wait")
  /\ UNCHANGED <<files, mapped, meta, history>>

-----------------------------------------------------------------------------
(***************************************************************************)
(* The calls that write.  Each asks for the lock first.                    *)
(***************************************************************************)
Begin(p, call) ==
  /\ pc[p] = "idle" /\ crc.sequence < MaxSequence
  /\ op' = [op EXCEPT ![p] = call]
  /\ Lk!Lock(p, "exclusive") /\ Goto(p, "wait")
  /\ UNCHANGED <<files, mapped, meta, stored, excused>>

Set(p, k, b) == Begin(p, Call("append", k, b)) /\ UNCHANGED <<map, synced>>

\* remove() returns false, and does nothing, where its own index has no key.
Remove(p, k) == map[p][k] # 0 /\ Set(p, k, Empty)

Compact(p) == Begin(p, Call("compact", "", "")) /\ UNCHANGED <<map, synced>>

\* m_map.clear() comes before the lock.
ClearAll(p) == /\ Begin(p, Call("clearAll", "", ""))
               /\ map' = [map EXCEPT ![p] = NoIndex]
               /\ synced' = [synced EXCEPT ![p] = EmptyContents]

\* The call returns, and the guard unlocks.
Return(p) == /\ Lk!UnlockExclusive(p)
             /\ op' = [op EXCEPT ![p] = NoCall]
             /\ Goto(p, "idle")

\* flock grants the lock.  open() drops it at once.
Acquire(p) == /\ pc[p] = "wait"
              /\ Lk!Acquire(p)
              /\ Goto(p, "locked")
              /\ UNCHANGED <<files, process, history, op>>

OpenReturns(p) == /\ pc[p] = "locked" /\ op[p].kind = "open"
                  /\ Return(p)
                  /\ UNCHANGED <<files, process, history>>

\* flock fails: the call returns false, and open() nothing.  The index that
\* clearAll has emptied stays empty.
Interrupt(p) ==
  /\ pc[p] = "wait"
  /\ IF op[p].kind = "open"
       THEN Forget(p)
       ELSE /\ Lk!Interrupt(p)
            /\ op' = [op EXCEPT ![p] = NoCall]
            /\ Goto(p, "idle")
            /\ UNCHANGED process
  /\ excused' = (excused \/ op[p].kind = "clearAll")
  /\ UNCHANGED <<files, stored, synced>>

\* Mutant: the meta record is taken over, and the index is not decoded again.
CheckLoadData_KeepsIndex(p) ==
  /\ pc[p] = "locked" /\ op[p].kind # "open"
  /\ meta' = [meta EXCEPT ![p] = crc]
  /\ mapped' = [mapped EXCEPT ![p] =
                  IF HeaderSize + crc.actualSize > @
                    THEN HeaderSize + Len(data) ELSE @]
  /\ synced' = [synced EXCEPT ![p] = stored]
  /\ Goto(p, "reserve")
  /\ UNCHANGED <<files, lock, map, stored, excused, op>>

\* Mutant: a peer's write is noticed only when it has outgrown the mapping.
CheckLoadData_OnGrowthOnly(p) ==
  /\ pc[p] = "locked" /\ op[p].kind # "open"
  /\ IF HeaderSize + crc.actualSize > mapped[p]
       THEN /\ meta' = [meta EXCEPT ![p] = crc]
            /\ mapped' = [mapped EXCEPT ![p] = HeaderSize + Len(data)]
            /\ map' = [map EXCEPT ![p] = Index(data, crc.actualSize)]
            /\ op' = [op EXCEPT ![p].reloaded = TRUE]
       ELSE UNCHANGED <<process, op>>
  /\ synced' = [synced EXCEPT ![p] = stored]
  /\ Goto(p, "reserve")
  /\ UNCHANGED <<files, lock, stored, excused>>

\* A peer has written, as far as checkLoadData can tell.
Changed(p) ==
  crc.sequence # meta[p].sequence \/ crc.actualSize # meta[p].actualSize

\* checkLoadData, reloadFromFile: where the sequence number or the size on
\* disk is another, the meta record and the index are read again, and the
\* file is mapped again if the log has outgrown the mapping.  Where they are
\* not, a process that has lost its mapping stays without one.
CheckLoadData(p) ==
  /\ pc[p] = "locked" /\ op[p].kind # "open"
  /\ IF ~Changed(p)
       THEN /\ UNCHANGED <<process, op>>
            /\ synced' = [synced EXCEPT ![p] =
                            IF op[p].kind = "clearAll" THEN @ ELSE stored]
       ELSE /\ meta' = [meta EXCEPT ![p] = crc]
            /\ mapped' = [mapped EXCEPT ![p] =
                            IF HeaderSize + crc.actualSize > @
                              THEN HeaderSize + Len(data) ELSE @]
            /\ map' = [map EXCEPT ![p] =
                          Index(View(mapped'[p]), crc.actualSize)]
            /\ op' = [op EXCEPT ![p].reloaded = TRUE]
            /\ synced' = [synced EXCEPT ![p] = stored]
  /\ Goto(p, "reserve")
  /\ UNCHANGED <<files, lock, stored, excused>>

\* The meta record cannot be read, or the file not be mapped: nobody is told,
\* and the call goes on with what the process knew.
ReloadFails(p) ==
  /\ pc[p] = "locked" /\ op[p].kind # "open"
  /\ Changed(p)
  /\ excused' = TRUE
  /\ Goto(p, "reserve")
  /\ UNCHANGED <<files, lock, process, stored, synced, op>>

-----------------------------------------------------------------------------
\* What the live entries are looked up in, which is before the file is grown.
Seen(p) == IF op[p].blind THEN <<>> ELSE Shown(p)

\* doFullWriteback's live entries, in the order of an unordered_map.
LiveKeys(p) == {k \in Keys : ValueBlob(Seen(p), map[p][k]) # Empty}

Orderings(S) == {s \in [1 .. Cardinality(S) -> S] :
                   \A i, j \in DOMAIN s : s[i] = s[j] => i = j}

PreparedData(p) ==
  {[i \in DOMAIN s |->
      [key |-> s[i], blob |-> ValueBlob(Seen(p), map[p][s[i]])]] :
     s \in Orderings(LiveKeys(p))}

Needed(p) == IF Rewriting(p) THEN ItemSizeHolder + Cardinality(LiveKeys(p))
             ELSE 1

HasRoom(p) == mapped[p] - HeaderSize >= meta[p].actualSize + Needed(p)

\* ensureSpace.  The new size of the file is computed from the size of the
\* process's own mapping, or from 4096 where it has none: a file a peer has
\* grown further is cut back.
NewCapacities(p) ==
  GrownCapacities(IF mapped[p] = 0 THEN InitialCapacity ELSE mapped[p],
                  meta[p].actualSize + Needed(p), MaxCapacity)

Grow(p) ==
  /\ pc[p] = "reserve" /\ ~HasRoom(p)
  /\ \E c \in NewCapacities(p) :
       /\ data' = Resize(data, c - HeaderSize)
       /\ mapped' = [mapped EXCEPT ![p] = c]
  /\ op' = [op EXCEPT ![p].blind = (mapped[p] = 0)]
  /\ Goto(p, "store")
  /\ UNCHANGED <<crc, lock, meta, map, history>>

EnsureSpace(p) == /\ pc[p] = "reserve" /\ HasRoom(p)
                  /\ Goto(p, "store")
                  /\ UNCHANGED <<files, lock, process, history, op>>

\* Mutant: an early return without the guard.
GrowFails_Locked(p) ==
  /\ pc[p] = "reserve" /\ ~HasRoom(p)
  /\ op' = [op EXCEPT ![p] = NoCall]
  /\ Goto(p, "idle")
  /\ excused' = (excused \/ op[p].kind = "clearAll")
  /\ UNCHANGED <<files, lock, process, stored, synced>>

\* grow()'s mmap fails: the call returns false, the file has its new size, and
\* the old mapping is gone.
MmapFails(p) ==
  /\ pc[p] = "reserve" /\ ~HasRoom(p)
  /\ \E c \in NewCapacities(p) : data' = Resize(data, c - HeaderSize)
  /\ mapped' = [mapped EXCEPT ![p] = 0]
  /\ Return(p)
  /\ excused' = (excused \/ op[p].kind = "clearAll")
  /\ UNCHANGED <<crc, meta, map, stored, synced>>

\* ftruncate fails: the call returns false.
GrowFails(p) ==
  /\ pc[p] = "reserve" /\ ~HasRoom(p)
  /\ Return(p)
  /\ excused' = (excused \/ op[p].kind = "clearAll")
  /\ UNCHANGED <<files, process, stored, synced>>

NewRecord(p) == [key |-> op[p].key, blob |-> op[p].blob]

\* The copy of the record, and m_meta.  A page that the file no longer has is
\* SIGBUS.
StoreRecord(p) ==
  /\ pc[p] = "store" /\ op[p].kind = "append"
  /\ LET i == meta[p].actualSize + 1
     IN  IF i <= Len(data)
           THEN /\ data' = [data EXCEPT ![i] = NewRecord(p)]
                /\ meta' = [meta EXCEPT ![p].crcDigest  = UpdateCRC(@, NewRecord(p)),
                                        ![p].actualSize = i,
                                        ![p].sequence   = @ + 1]
                /\ Goto(p, "sync")
                /\ UNCHANGED <<lock, mapped, map, op>>
           ELSE Forget(p) /\ UNCHANGED data
  /\ UNCHANGED <<crc, history>>

\* The copy of the ItemSizeHolder and the prepared data, and m_meta.  From
\* here on the peers' offsets belong to a log that is gone.  A compaction that
\* had no mapping writes no key, and returns true.
StoreRewrite(p) ==
  /\ pc[p] = "store" /\ Rewriting(p)
  /\ \E s \in PreparedData(p) :
       LET new == <<[seed |-> IF data[1] = [seed |-> 1] THEN 2 ELSE 1]>> \o s
       IN  IF Len(new) <= Len(data)
             THEN /\ data' = new \o SubSeq(data, Len(new) + 1, Len(data))
                  /\ meta' = [meta EXCEPT ![p] =
                                NewMeta(data', Len(new), @.sequence + 1)]
                  /\ Goto(p, "sync")
                  /\ UNCHANGED <<lock, mapped, map, op>>
             ELSE Forget(p) /\ UNCHANGED data
  /\ synced' = [q \in Procs |-> IF q = p THEN synced[q] ELSE Unsynced]
  /\ excused' = \/ excused
                \/ op[p].blind /\ ~Cleared(p) /\ stored # EmptyContents
  /\ UNCHANGED <<crc, stored>>

\* Mutant: the index takes the position after the record.
SyncRecord_OffByOne(p) ==
  /\ pc[p] = "sync" /\ op[p].kind = "append"
  /\ crc' = meta[p]
  /\ map' = [map EXCEPT ![p][op[p].key] =
               IF op[p].blob = Empty THEN 0 ELSE meta[p].actualSize + 1]
  /\ stored' = [stored EXCEPT ![op[p].key] = op[p].blob]
  /\ synced' = [synced EXCEPT ![p] = stored']
  /\ Return(p)
  /\ UNCHANGED <<data, mapped, meta, excused>>

\* updateMetaAfterAppend's pwrite of the whole meta record, and the index;
\* the call returns true.
SyncRecord(p) ==
  /\ pc[p] = "sync" /\ op[p].kind = "append"
  /\ crc' = meta[p]
  /\ map' = [map EXCEPT ![p][op[p].key] =
               IF op[p].blob = Empty THEN 0 ELSE meta[p].actualSize]
  /\ stored' = [stored EXCEPT ![op[p].key] = op[p].blob]
  /\ synced' = [synced EXCEPT ![p] = stored']
  /\ Return(p)
  /\ UNCHANGED <<data, mapped, meta, excused>>

\* The pwrite of a rewrite; the call returns true.  A clearAll that found a
\* peer's write has loaded every key again, and has cleared nothing.
SyncRewrite(p) ==
  /\ pc[p] = "sync" /\ Rewriting(p)
  /\ crc' = meta[p]
  /\ map' = [map EXCEPT ![p] = Index(Shown(p), meta[p].actualSize)]
  /\ stored' = IF op[p].kind = "clearAll" THEN EmptyContents ELSE stored
  /\ synced' = [synced EXCEPT ![p] = stored']
  /\ excused' = \/ excused
                \/ /\ op[p].kind = "clearAll" /\ op[p].reloaded
                   /\ stored # EmptyContents
  /\ Return(p)
  /\ UNCHANGED <<data, mapped, meta>>

-----------------------------------------------------------------------------
\* A process dies, or closes its store.  In a rewrite the log is left without
\* the meta record that goes with it.
Crash(p) == /\ pc[p] # "closed"
            /\ Forget(p)
            /\ excused' = (excused \/ (pc[p] = "sync" /\ Rewriting(p)))
            /\ UNCHANGED <<files, stored, synced>>

Opens(p) == \/ StatAbsent(p) \/ CreateData(p) \/ InitData(p) \/ CreateCrc(p)
            \/ MapData(p) \/ MapReader(p)
            \/ ReadMeta(p) \/ Validate(p) \/ Decode(p)

Calls(p) == \/ \E k \in Keys, b \in Blobs : Set(p, k, b)
            \/ \E k \in Keys : Remove(p, k)
            \/ Compact(p) \/ ClearAll(p)

\* What a process does while it has the lock.
Holds(p) == \/ OpenReturns(p) \/ CheckLoadData(p) \/ ReloadFails(p)
            \/ EnsureSpace(p) \/ Grow(p) \/ MmapFails(p) \/ GrowFails(p)
            \/ StoreRecord(p) \/ StoreRewrite(p)
            \/ SyncRecord(p) \/ SyncRewrite(p)

Step(p) == Opens(p) \/ Calls(p) \/ Acquire(p) \/ Interrupt(p) \/ Holds(p)
           \/ Crash(p)

Next == \E p \in Procs : Step(p)

Spec == Init /\ [][Next]_vars

\* The scheduler does not leave a process inside its critical section, and
\* the kernel grants the lock to one that waits and finds it free again and
\* again.  No process need call anything, and none need die.
FairSpec == Spec /\ \A p \in Procs : WF_vars(Holds(p)) /\ SF_vars(Acquire(p))

-----------------------------------------------------------------------------
OpenPCs == {"create", "init", "create_crc", "read_meta", "validate", "decode"}
LockedPCs == {"locked", "reserve", "store", "sync"}
SharedMeta ==
  [ crcDigest : Seq(Cell), version : {0, 4}, actualSize : Nat,
    lastConfirmedActualSize : Nat, lastConfirmedCRCDigest : Seq(Cell),
    sequence : Nat ]
CallType == [ kind : {"none", "open", "reader", "append", "compact",
                      "clearAll"},
              key : Keys \cup {""}, blob : Blobs \cup {""},
              reloaded : BOOLEAN, blind : BOOLEAN ]

\* The type invariant, with the lock's.
TypeOK == /\ Lk!TypeOK
          /\ data \in Seq(Cell) /\ crc \in SharedMeta
          /\ pc \in [Procs -> {"closed", "idle", "reading", "wait"}
                                \cup OpenPCs \cup LockedPCs]
          /\ op \in [Procs -> CallType]
          /\ mapped \in [Procs -> Nat]
          /\ meta \in [Procs -> SharedMeta]
          /\ map \in [Procs -> [Keys -> Nat]]
          /\ stored \in Contents
          /\ synced \in [Procs -> Contents \cup {Unsynced}]
          /\ excused \in BOOLEAN

\* What a process that opened the store now would read.
DiskContents == Lookup(data, Index(data, crc.actualSize))

\* No acknowledged write of any process is lost or undone by another: outside
\* a rewrite the log on disk verifies and yields what the calls that returned
\* true have left, whoever grew, cut, reloaded or rewrote it, lost its mapping
\* in a grow() that failed, or died in between (writer.cpp:282-438,
\* mmap_region.cpp:58-70, test_multiprocess.cpp:90).  Nothing is promised once
\* `excused`: then the code does lose them.
AckedOnDisk ==
  LET InRewrite == \E p \in Procs : pc[p] = "sync" /\ Rewriting(p)
  IN  ~excused /\ crc.version # 0 /\ ~InRewrite =>
        PrimaryValid(data, 0, crc) /\ DiskContents = stored

\* Once checkLoadData has run, the process that has the lock works on the
\* state of the files: that the sequence number or the size differs is enough
\* to notice every write of a peer (writer.cpp:243-254).  The exception is a
\* process that a failed grow() has left without a mapping: if no peer has
\* written it stays without, and its index yields nothing, until its own call
\* has grown the file again (writer.cpp:252, mmap_region.cpp:60-66).
HolderUpToDate ==
  \A p \in Procs : pc[p] \in {"reserve", "store"} /\ ~excused =>
    /\ meta[p] = crc
    /\ ~Cleared(p) => Lookup(Shown(p), map[p]) =
                        IF mapped[p] = 0 THEN EmptyContents ELSE stored

\* The reads take no lock and look at no meta record (writer.cpp:525-596,
\* reader.cpp).  They are stale but whole: until a peer rewrites the log, they
\* yield the contents that the process last knew, however the peers append and
\* grow, and all of them again once a process that lost its mapping has one.
\* Without one they yield nothing.  A QuickStoreReader keeps the contents there
\* were when it read the meta record, although it had mapped the file before
\* and scans it after.
SnapshotReads ==
  \A p \in Procs :
    pc[p] \in {"idle", "reading"} /\ synced[p] # Unsynced /\ ~excused =>
      Lookup(Shown(p), map[p]) =
        IF mapped[p] = 0 THEN EmptyContents ELSE synced[p]

\* Every call that asks for the lock returns, whatever the peers do and
\* wherever they die: no path of the code keeps the lock (writer.cpp:286-298).
CallsReturn ==
  \A p \in Procs : pc[p] = "wait" ~> pc[p] \in {"idle", "closed"}

\* writer.h:53, the lookups "Return the value when the key exists": an entry
\* of the index leads to a record of that key.
ReadsOwnRecord ==
  \A p \in Procs, k \in Keys :
    LET at == map[p][k]
    IN  pc[p] \in {"idle", "reading"} /\ ~excused /\ at \in DOMAIN Shown(p) =>
          Shown(p)[at] \in [key : {k}, blob : Values]
=============================================================================
