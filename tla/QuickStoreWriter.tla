-------------------------- MODULE QuickStoreWriter --------------------------
(***************************************************************************)
(* core/src/writer.cpp in single-process mode: one QuickStoreWriter on one *)
(* pair of files, one action per system call or store to the shared        *)
(* mapping, and a crash of the process between any two of them.            *)
(*                                                                         *)
(* A crash is that of core/tests/test_crash_harness.cpp: the process dies, *)
(* the kernel does not, so that every store to the mapping and every       *)
(* pwrite done before it is found by the next open(), in that order.       *)
(*                                                                         *)
(* An error return in the middle of open() leaves the files as a crash at  *)
(* that step does and no object, so that Crash stands for it as well.      *)
(***************************************************************************)
EXTENDS DataFile, FiniteSets

CONSTANTS
  InitialCapacity,  \* the size of a new data file (4096 bytes in the code)
  MaxCapacity,      \* the size at which ftruncate fails
  MaxDigest,        \* bound: no append once the CRC covers so many cells
  MmapMayFail,      \* whether mmap may fail in grow()
  LegacyVersions    \* the versions of a file another program left behind

ASSUME CapacityAssumption ==
  /\ InitialCapacity \in Nat
  /\ MaxCapacity \in Nat
  /\ 3 <= InitialCapacity
  /\ InitialCapacity <= MaxCapacity
ASSUME DigestAssumption == MaxDigest \in Nat
ASSUME KeysAssumption == IsFiniteSet(Keys)
ASSUME MmapAssumption == MmapMayFail \in BOOLEAN
ASSUME LegacyAssumption == LegacyVersions \subseteq {1, 3, 4}

VARIABLES
  \* The disk, which survives a crash.
  exists,    \* the data file exists
  data,      \* its cells (none while its size is zero)
  header,    \* oldStyleActualSize, base[0,4)
  crc,       \* <<>> or <<m>>, where m is the meta record in the .crc file
  \* The process.
  pc,        \* where it is: "closed", "idle" or inside an operation
  mapped,    \* m_dataRegion maps the whole data file (else base is null)
  meta,      \* m_meta
  map,       \* m_map
  buffer,    \* the records the operation has encoded and not yet finished with
  copied,    \* how many of them a compaction has copied
  \* History.
  view,      \* what this process has promised its client a read returns
  stored,    \* what the successful calls promise the next open() will read
  logged     \* whether appends count for that: no rollback since a rewrite

disk    == <<exists, data, header, crc>>
process == <<mapped, meta, map, buffer, copied>>
history == <<view, stored, logged>>
vars    == <<disk, pc, process, history>>

OpenPCs   == {"new_truncate", "new_init", "new_crc", "new_meta"}
AppendPCs == {"append_write", "append_meta", "append_digest", "append_size",
              "append_index"}
RewritePCs == {"rewrite_holder", "rewrite_copy", "rewrite_meta", "rewrite_sync"}
PCs == {"closed", "idle"} \cup OpenPCs \cup AppendPCs \cup RewritePCs

-----------------------------------------------------------------------------
(***************************************************************************)
(* Initially there is no store, or one that another program (MMKV itself)  *)
(* left, with one record.  Version 1 has neither an actualSize nor a       *)
(* confirmed size in its meta record; later ones have both.                *)
(***************************************************************************)
LegacyMeta(v, cells) ==
  IF v = 1
    THEN [ crcDigest               |-> cells,
           version                 |-> 1,
           actualSize              |-> 0,
           lastConfirmedActualSize |-> 0,
           lastConfirmedCRCDigest  |-> <<>> ]
    ELSE [ crcDigest               |-> cells,
           version                 |-> v,
           actualSize              |-> 2,
           lastConfirmedActualSize |-> 1,
           lastConfirmedCRCDigest  |-> ComputeCRC(cells, 1) ]

NoFiles == /\ exists = FALSE
           /\ data = <<>>
           /\ header = 0
           /\ crc = <<>>

LegacyFiles ==
  \E v \in LegacyVersions, k \in Keys, b \in Values :
    LET cells == <<[seed |-> 1], [key |-> k, blob |-> b]>>
    IN  /\ exists = TRUE
        /\ data = Resize(cells, InitialCapacity - HeaderSize)
        /\ header = 2
        /\ crc = <<LegacyMeta(v, cells)>>

Init == /\ NoFiles \/ LegacyFiles
        /\ pc = "closed"
        /\ mapped = FALSE
        /\ meta = ZeroMeta
        /\ map = [k \in Keys |-> 0]
        /\ buffer = <<>>
        /\ copied = 0
        /\ view = EmptyContents
        /\ stored = EmptyContents
        /\ logged = TRUE

-----------------------------------------------------------------------------
(***************************************************************************)
(* open() of a store that does not exist: the files are made step by step. *)
(***************************************************************************)
CreateData ==
  /\ pc = "closed" /\ ~exists
  /\ exists' = TRUE
  /\ pc' = "new_truncate"
  /\ UNCHANGED <<data, header, crc, process, history>>

TruncateData ==
  /\ pc = "new_truncate"
  /\ data' = Resize(data, InitialCapacity - HeaderSize)
  /\ mapped' = TRUE
  /\ pc' = "new_init"
  /\ UNCHANGED <<exists, header, crc, meta, map, buffer, copied, history>>

\* Mutant: the new file is not given a recovery point.
InitData_Unconfirmed ==
  /\ pc = "new_init"
  /\ header' = 1
  /\ data' = [data EXCEPT ![1] = [seed |-> 1]]
  /\ meta' = [ZeroMeta EXCEPT !.crcDigest  = ComputeCRC(data', 1),
                              !.version    = 4,
                              !.actualSize = 1,
                              !.lastConfirmedCRCDigest = ComputeCRC(data', 1)]
  /\ pc' = "new_crc"
  /\ UNCHANGED <<exists, crc, mapped, map, buffer, copied, history>>

\* The header and the ItemSizeHolder; the meta record, in memory.
InitData ==
  /\ pc = "new_init"
  /\ header' = 1
  /\ data' = [data EXCEPT ![1] = [seed |-> 1]]
  /\ meta' = [ crcDigest               |-> ComputeCRC(data', 1),
               version                 |-> 4,
               actualSize              |-> 1,
               lastConfirmedActualSize |-> 1,
               lastConfirmedCRCDigest  |-> ComputeCRC(data', 1) ]
  /\ pc' = "new_crc"
  /\ UNCHANGED <<exists, crc, mapped, map, buffer, copied, history>>

CreateCrc ==
  /\ pc = "new_crc"
  /\ crc' = <<ZeroMeta>>
  /\ pc' = "new_meta"
  /\ UNCHANGED <<exists, data, header, process, history>>

WriteInitialMeta ==
  /\ pc = "new_meta"
  /\ crc' = <<meta>>
  /\ pc' = "idle"
  /\ UNCHANGED <<exists, data, header, process, history>>

(***************************************************************************)
(* open() of a store that exists.  A data file of size zero, a .crc file   *)
(* that is missing or short, and a file that does not verify are refused.  *)
(***************************************************************************)
Openable == /\ exists /\ Len(data) > 0 /\ Len(crc) > 0
            /\ CheckDataValid(data, header, crc[1]).loadFromFile

\* Mutant: the records are decoded up to the size in the meta record, whether
\* or not that is the size that verified.
OpenExisting_DecodesUnverified ==
  /\ pc = "closed"
  /\ Openable
  /\ meta' = crc[1]
  /\ map' = DecodeMap(data, CandidateSize(crc[1], header))
  /\ mapped' = TRUE
  /\ view' = Lookup(data, map')
  /\ stored' = view'
  /\ logged' = PrimaryValid(data, header, crc[1])
  /\ pc' = "idle"
  /\ UNCHANGED <<disk, buffer, copied>>

OpenExisting ==
  /\ pc = "closed"
  /\ Openable
  /\ LET size == CheckDataValid(data, header, crc[1]).effectiveActualSize
     IN  /\ meta' = [crc[1] EXCEPT !.actualSize = size]
         /\ map' = DecodeMap(data, size)
  /\ mapped' = TRUE
  /\ view' = Lookup(data, map')
  /\ stored' = view'
  /\ logged' = PrimaryValid(data, header, crc[1])
  /\ pc' = "idle"
  /\ UNCHANGED <<disk, buffer, copied>>

OpenRefused ==
  /\ pc = "closed" /\ exists /\ ~Openable
  /\ UNCHANGED vars

-----------------------------------------------------------------------------
(***************************************************************************)
(* ensureSpace(needed), and the grow() it calls.  It returns ok.  ftruncate *)
(* may fail, and must where the file would pass MaxCapacity; mmap may fail *)
(* after the old mapping is gone, which leaves a null base and size zero.  *)
(***************************************************************************)
Capacity  == IF mapped THEN HeaderSize + Len(data) ELSE 0
\* Mutant: the header of the file is counted as free.
FreeSpace_IgnoresHeader ==
  IF Capacity > meta.actualSize THEN Capacity - meta.actualSize ELSE 0

FreeSpace == IF Capacity > HeaderSize + meta.actualSize
               THEN Capacity - HeaderSize - meta.actualSize ELSE 0

\* Mutant: the loop compares with the record alone, not with log and record.
NewCapacities_IgnoresLog(needed) ==
  GrownCapacities(IF Capacity = 0 THEN InitialCapacity ELSE Capacity,
                  needed, MaxCapacity)

NewCapacities(needed) ==
  GrownCapacities(IF Capacity = 0 THEN InitialCapacity ELSE Capacity,
                  meta.actualSize + needed, MaxCapacity)

Grow(newCap, ok) ==
  /\ ok \/ MmapMayFail
  /\ data' = Resize(data, newCap - HeaderSize)
  /\ mapped' = ok

\* Mutant: the result of grow() is not looked at.
EnsureSpace_IgnoresGrow(needed, ok) ==
  \/ FreeSpace >= needed /\ ok /\ UNCHANGED <<data, mapped>>
  \/ /\ FreeSpace < needed /\ ok
     /\ \E c \in NewCapacities(needed), r \in BOOLEAN : Grow(c, r)

EnsureSpace(needed, ok) ==
  \/ FreeSpace >= needed /\ ok /\ UNCHANGED <<data, mapped>>
  \/ FreeSpace < needed /\ \E c \in NewCapacities(needed) : Grow(c, ok)
  \/ FreeSpace < needed /\ ~ok /\ UNCHANGED <<data, mapped>>

(***************************************************************************)
(* appendRecord.  MaxDigest is a bound of the model, not of the code: after *)
(* a rollback every reopened log takes the stale digest up again, so that  *)
(* what the digest was computed over grows without limit.                  *)
(***************************************************************************)
AppendRecord(k, b) ==
  /\ pc = "idle"
  /\ Len(meta.crcDigest) < MaxDigest
  /\ \E ok \in BOOLEAN :
       /\ EnsureSpace(1, ok)
       /\ buffer' = IF ok THEN <<[key |-> k, blob |-> b]>> ELSE <<>>
       /\ pc' = IF ok THEN "append_write" ELSE "idle"
  /\ UNCHANGED <<exists, header, crc, meta, map, copied, history>>

Set(k, b) == AppendRecord(k, b)

Remove(k) == map[k] # 0 /\ AppendRecord(k, Empty)

WriteRecord ==
  /\ pc = "append_write"
  /\ data' = [data EXCEPT ![meta.actualSize + 1] = buffer[1]]
  /\ pc' = "append_meta"
  /\ UNCHANGED <<exists, header, crc, process, history>>

\* updateMetaAfterAppend, down to the header.
UpdateMeta ==
  /\ pc = "append_meta"
  /\ meta' = [meta EXCEPT !.crcDigest  = UpdateCRC(@, buffer[1]),
                          !.actualSize = @ + 1]
  /\ header' = meta'.actualSize
  /\ pc' = "append_digest"
  /\ UNCHANGED <<exists, data, crc, mapped, map, buffer, copied, history>>

\* writeMetaInfoFast, its first and its second pwrite.
WriteCrcDigest ==
  /\ pc = "append_digest"
  /\ crc' = <<[crc[1] EXCEPT !.crcDigest = meta.crcDigest]>>
  /\ pc' = "append_size"
  /\ UNCHANGED <<exists, data, header, process, history>>

WriteActualSize ==
  /\ pc = "append_size"
  /\ crc' = <<[crc[1] EXCEPT !.actualSize = meta.actualSize]>>
  /\ pc' = "append_index"
  /\ UNCHANGED <<exists, data, header, process, history>>

\* The index is updated and the call returns true.
IndexRecord ==
  /\ pc = "append_index"
  /\ LET r == buffer[1]
     IN  /\ map' = [map EXCEPT ![r.key] =
                      IF r.blob = Empty THEN 0 ELSE meta.actualSize]
         /\ view' = [view EXCEPT ![r.key] = r.blob]
         /\ stored' = IF logged THEN [stored EXCEPT ![r.key] = r.blob]
                      ELSE stored
  /\ buffer' = <<>>
  /\ pc' = "idle"
  /\ UNCHANGED <<disk, mapped, meta, copied, logged>>

-----------------------------------------------------------------------------
(***************************************************************************)
(* doFullWriteback, called by compact() with the index and by clearAll()   *)
(* with an index it has just emptied.  The live keys are those whose       *)
(* blob the mapping yields (none from a null base), in the order in which  *)
(* an unordered_map happens to be walked.                                  *)
(***************************************************************************)
LiveKeys(index) ==
  {k \in Keys : mapped /\ ValueBlob(data, index[k]) # Empty}

Orderings(S) ==
  {s \in [1 .. Cardinality(S) -> S] :
     \A i, j \in 1 .. Cardinality(S) : s[i] = s[j] => i = j}

PreparedData(index) ==
  {[i \in 1 .. Cardinality(LiveKeys(index)) |->
      [key |-> s[i], blob |-> ValueBlob(data, index[s[i]])]] :
     s \in Orderings(LiveKeys(index))}

DoFullWriteback(index) ==
  /\ map' = index
  /\ \E ok \in BOOLEAN, s \in PreparedData(index) :
       /\ EnsureSpace(ItemSizeHolder + Len(s), ok)
       /\ buffer' = IF ok THEN s ELSE <<>>
       /\ pc' = IF ok THEN "rewrite_holder" ELSE "idle"
  /\ UNCHANGED <<exists, header, crc, meta, copied, stored, logged>>

Compact ==
  /\ pc = "idle"
  /\ DoFullWriteback(map)
  /\ UNCHANGED view

\* The keys are dropped before the rewrite is known to be possible.
ClearAll ==
  /\ pc = "idle"
  /\ DoFullWriteback([k \in Keys |-> 0])
  /\ view' = EmptyContents

\* A fresh random seed, over the old ItemSizeHolder.
CopyHolder ==
  /\ pc = "rewrite_holder"
  /\ data' = [data EXCEPT ![1] = [seed |-> IF @ = [seed |-> 1] THEN 2 ELSE 1]]
  /\ pc' = IF buffer = <<>> THEN "rewrite_meta" ELSE "rewrite_copy"
  /\ UNCHANGED <<exists, header, crc, process, history>>

\* The memcpy of the prepared data, over the old records.
CopyRecord ==
  /\ pc = "rewrite_copy"
  /\ data' = [data EXCEPT ![ItemSizeHolder + copied + 1] = buffer[copied + 1]]
  /\ copied' = copied + 1
  /\ pc' = IF copied' = Len(buffer) THEN "rewrite_meta" ELSE "rewrite_copy"
  /\ UNCHANGED <<exists, header, crc, mapped, meta, map, buffer, history>>

\* Mutant: the recovery point keeps the digest of the log it replaces.
ConfirmMeta_StaleDigest ==
  /\ pc = "rewrite_meta"
  /\ LET size == ItemSizeHolder + Len(buffer)
     IN  meta' = [meta EXCEPT !.crcDigest               = ComputeCRC(data, size),
                              !.actualSize              = size,
                              !.lastConfirmedActualSize = size]
  /\ header' = meta'.actualSize
  /\ pc' = "rewrite_sync"
  /\ UNCHANGED <<exists, data, crc, mapped, map, buffer, copied, history>>

ConfirmMeta ==
  /\ pc = "rewrite_meta"
  /\ LET size == ItemSizeHolder + Len(buffer)
     IN  meta' = [ crcDigest               |-> ComputeCRC(data, size),
                   version                 |-> meta.version,
                   actualSize              |-> size,
                   lastConfirmedActualSize |-> size,
                   lastConfirmedCRCDigest  |-> ComputeCRC(data, size) ]
  /\ header' = meta'.actualSize
  /\ pc' = "rewrite_sync"
  /\ UNCHANGED <<exists, data, crc, mapped, map, buffer, copied, history>>

\* Mutant: the index keeps the offsets of the log it replaces.
SyncMeta_StaleIndex ==
  /\ pc = "rewrite_sync"
  /\ crc' = <<meta>>
  /\ stored' = view
  /\ logged' = TRUE
  /\ buffer' = <<>>
  /\ copied' = 0
  /\ pc' = "idle"
  /\ UNCHANGED <<exists, data, header, mapped, meta, map, view>>

\* writeMetaInfo, then the index is rebuilt and the call returns true.
SyncMeta ==
  /\ pc = "rewrite_sync"
  /\ crc' = <<meta>>
  /\ map' = DecodeMap(data, meta.actualSize)
  /\ stored' = view
  /\ logged' = TRUE
  /\ buffer' = <<>>
  /\ copied' = 0
  /\ pc' = "idle"
  /\ UNCHANGED <<exists, data, header, mapped, meta, view>>

-----------------------------------------------------------------------------
\* Nothing of the process is left; close() writes nothing.
Forget ==
  /\ pc' = "closed"
  /\ mapped' = FALSE
  /\ meta' = ZeroMeta
  /\ map' = [k \in Keys |-> 0]
  /\ buffer' = <<>>
  /\ copied' = 0
  /\ view' = EmptyContents
  /\ stored' = EmptyContents
  /\ logged' = TRUE
  /\ UNCHANGED disk

Close == pc = "idle" /\ Forget
Crash == pc # "closed" /\ Forget

Next == \/ CreateData \/ TruncateData \/ InitData \/ CreateCrc
        \/ WriteInitialMeta \/ OpenExisting \/ OpenRefused
        \/ \E k \in Keys, b \in Blobs : Set(k, b)
        \/ \E k \in Keys : Remove(k)
        \/ WriteRecord \/ UpdateMeta \/ WriteCrcDigest \/ WriteActualSize
        \/ IndexRecord
        \/ Compact \/ ClearAll
        \/ CopyHolder \/ CopyRecord \/ ConfirmMeta \/ SyncMeta
        \/ Close \/ Crash

Spec == Init /\ [][Next]_vars

-----------------------------------------------------------------------------
(***************************************************************************)
(* Properties.                                                             *)
(***************************************************************************)
\* The type invariant: every variable of the writer and of its two files.
TypeOK == /\ exists \in BOOLEAN
          /\ data \in Seq(Cell)
          /\ header \in Nat
          /\ crc \in Seq(Meta) /\ Len(crc) <= 1
          /\ pc \in PCs
          /\ mapped \in BOOLEAN
          /\ meta \in Meta
          /\ map \in [Keys -> Nat]
          /\ buffer \in Seq(Record)
          /\ copied \in Nat
          /\ view \in Contents
          /\ stored \in Contents
          /\ logged \in BOOLEAN

\* What open() would make of the files as they are.
DiskContents ==
  IF Openable
    THEN Lookup(data, DecodeMap(data,
                CheckDataValid(data, header, crc[1]).effectiveActualSize))
    ELSE EmptyContents

\* Between two operations the index finds, for every key, the value of the
\* last successful call: appends, tombstones, growth, rollback on open and
\* compaction in whatever order keep m_map and the mapped records in step.
IndexCorrect == pc = "idle" /\ mapped => Lookup(data, map) = view

\* Between two operations, what the next open() would read after a crash is
\* what the successful calls promised (writer.cpp, updateMetaAfterAppend and
\* doFullWriteback): digest, size, header and records agree on disk.
StoredOnDisk == pc = "idle" => DiskContents = stored

\* Outside a rewrite, a store of format 2 or later has a recovery point that
\* verifies, at whichever step of an append or of a growth the process dies.
RecoverableWhileUp ==
  pc \in {"idle"} \cup AppendPCs /\ meta.version >= 2 =>
    Len(crc) > 0 /\ ConfirmedValid(data, crc[1])

\* No store goes through a null base or past the end of the mapping: what
\* ensureSpace reserved is there when the record, or the rewrite, is copied.
StoresInsideMapping ==
  /\ pc = "append_write" => mapped /\ meta.actualSize + 1 <= Len(data)
  /\ pc \in {"rewrite_holder", "rewrite_copy"} =>
       mapped /\ ItemSizeHolder + Len(buffer) <= Len(data)

\* Outside a rewrite, no step changes or cuts off a byte the log counts: not
\* an append, and not a growth, even one that follows a failed growth and so
\* starts again from the initial capacity.
AppendOnly ==
  [][(pc \in {"idle"} \cup AppendPCs) =>
       Verifies(data', meta.actualSize, ComputeCRC(data, meta.actualSize))]_vars

(***************************************************************************)
(* What the documentation and the tests say, and the code does not do.     *)
(***************************************************************************)
\* meta_info.h:27 calls the last confirmed digest "the known-good recovery
\* point": wherever the process died, a store of format 2 or later whose meta
\* record was once written rolls back to it.
RecoveryPointHolds ==
  pc = "closed" /\ Len(crc) > 0 =>
    (crc[1].version >= 2 => ConfirmedValid(data, crc[1]))

\* test_kv_store_cabi.cpp:88, "data persists": a set that returned true is
\* there when the store is closed and opened again.
SetPersists ==
  [][pc = "append_index" /\ pc' = "idle" =>
       DiskContents'[buffer[1].key] = buffer[1].blob]_vars

\* writer.h:50, "Rewrites the file keeping only live entries": a compaction
\* that returns true has kept the value of every key.
CompactKeepsLiveEntries ==
  [][pc = "rewrite_sync" /\ pc' = "idle" => DiskContents' = view]_vars

(***************************************************************************)
(* The refinement: the writer implements DurableMap.                       *)
(***************************************************************************)
Status ==
  CASE ~exists                   -> "absent"
    [] pc \in OpenPCs            -> "creating"
    [] pc \in RewritePCs         -> "rewriting"
    [] pc = "closed" /\ Openable -> "closed"
    [] pc = "closed" /\ exists /\ ~Openable -> "unopenable"
    [] OTHER                     -> "open"

Confirmed(m) == LET cells == m.lastConfirmedCRCDigest
                IN  Lookup(cells, DecodeMap(cells, Len(cells)))

Fallback == IF Status \in {"closed", "open", "rewriting"} /\ crc[1].version >= 2
              THEN {Confirmed(crc[1])} ELSE {}

Logged == IF Status = "closed" THEN PrimaryValid(data, header, crc[1])
          ELSE logged

Durable == INSTANCE DurableMap
  WITH status   <- Status,
       view     <- view,
       stored   <- IF pc = "closed" THEN DiskContents ELSE stored,
       fallback <- Fallback,
       logged   <- Logged,
       pending  <- IF pc \in AppendPCs THEN buffer ELSE <<>>

\* Every behaviour of the writer, crashes included, is one DurableMap allows:
\* in particular a crash inside an append yields the old contents, the new
\* ones or the recovery point, and a crash between two calls loses nothing.
ImplementsDurableMap == Durable!Spec
=============================================================================
