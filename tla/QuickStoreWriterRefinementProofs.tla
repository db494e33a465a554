------------------ MODULE QuickStoreWriterRefinementProofs ------------------
(***************************************************************************)
(* Where mmap does not fail, the writer implements DurableMap, for every   *)
(* set of keys and values, every capacity and every set of legacy          *)
(* versions: whatever it does and wherever it dies, a client sees a map    *)
(* that loses what DurableMap says and nothing else.                       *)
(*                                                                         *)
(* The mapping reads the files as the next open() would, so that what has  *)
(* to be known is what they yield at every step a process can die at       *)
(* (Outcome).  That follows from the state of the meta record on disk      *)
(* (Ahead, Behind, Overwritten), which says in particular that a log with  *)
(* a digest longer than itself never verifies again before a rewrite.      *)
(***************************************************************************)
EXTENDS QuickStoreWriterProofs

\* Files that are still being made yield nothing.
Unmade ==
  /\ ~exists \/ pc \in {"new_truncate", "new_init", "new_crc"} => crc = <<>>
  /\ pc = "new_meta" => crc = <<ZeroMeta>>

\* After a rollback, or between the two pwrites of an append, the digest on
\* disk covers more than the size on disk counts.
Ahead ==
  pc \in WorkingPCs /\ (~logged \/ (pc = "append_size" /\ meta.version >= 3)) =>
    crc[1].actualSize < Len(crc[1].crcDigest)

\* Before its digest is written an append leaves the meta record of the last.
Behind ==
  pc = "append_digest" /\ logged =>
    /\ Verifies(data, meta.actualSize - 1, crc[1].crcDigest)
    /\ meta.version >= 3 => crc[1].actualSize = meta.actualSize - 1

\* A rewrite begins with the recovery point, and destroys it with the cell
\* that both digests begin with.
Overwritten ==
  /\ pc = "rewrite_holder" =>
       (crc[1].version >= 2 => ConfirmedValid(data, crc[1]))
  /\ pc \in {"rewrite_copy", "rewrite_meta", "rewrite_sync"} =>
       /\ crc[1].crcDigest[1] # data[1]
       /\ crc[1].version >= 2 => crc[1].lastConfirmedCRCDigest[1] # data[1]
  /\ pc = "rewrite_sync" =>
       /\ meta.lastConfirmedActualSize = meta.actualSize
       /\ crc[1].version = meta.version

\* A file that can be rolled back, and whose digest covers what its size
\* counts, needs no rollback.
Intact(m) ==
  m.version >= 3 /\ ConfirmedValid(data, m) /\ m.actualSize = Len(m.crcDigest)
    => Verifies(data, m.actualSize, m.crcDigest)

AllIntact == \A i \in 1 .. Len(crc) : Intact(crc[i])

Staged == Unmade /\ Ahead /\ Behind /\ Overwritten

CrashInv == Staged /\ AllIntact

\* What the next open() would make of the files.
OpensAt(contents) == Openable /\ DiskContents = contents

Kept == OpensAt(stored) /\ (logged <=> PrimaryValid(data, header, crc[1]))

Stored ==
  /\ logged /\ PrimaryValid(data, header, crc[1])
  /\ OpensAt([stored EXCEPT ![buffer[1].key] = buffer[1].blob])

RolledBack ==
  /\ meta.version >= 2 /\ ~PrimaryValid(data, header, crc[1])
  /\ OpensAt(Confirmed(crc[1]))

Outcome ==
  CASE pc \in {"idle", "append_write", "append_meta", "rewrite_holder"} -> Kept
    [] pc = "append_digest" -> IF meta.version >= 3 THEN Kept ELSE ~Openable
    [] pc = "append_size"   -> IF meta.version >= 3 THEN RolledBack ELSE Stored
    [] pc = "append_index"  -> IF logged THEN Stored ELSE RolledBack
    [] pc = "closed"        -> TRUE
    [] OTHER                -> ~Openable

-----------------------------------------------------------------------------
(***************************************************************************)
(* Every action preserves the invariant: open().                           *)
(***************************************************************************)
\* There is no more than one meta record.
LEMMA OneMeta ==
  ASSUME Inv, Len(crc) > 0
  PROVE  Len(crc) = 1 /\ crc[1] \in Meta
<1> DEFINE n == Len(crc)
<1>1. crc \in Seq(Meta) /\ n <= 1 /\ n > 0
  BY DEF Inv, TypeOK
<1>2. n \in Nat
  BY <1>1, LenProperties
<1> HIDE DEF n
<1>3. n = 1
  BY <1>1, <1>2
<1> QED
  BY <1>1, <1>3, ElementOfSeq DEF n

\* While a process is there, the parts about the meta record on disk say that
\* it is intact.
LEMMA IntactWhileUp == Inv /\ DiskInv /\ Staged /\ pc # "closed" => AllIntact
<1> SUFFICES ASSUME Inv, DiskInv, Staged, pc # "closed" PROVE AllIntact
  OBVIOUS
<1> USE DEF Staged
<1> SUFFICES ASSUME NEW i \in 1 .. Len(crc) PROVE Intact(crc[i])
  BY DEF AllIntact
<1> DEFINE m == crc[1]
<1>1. i = 1 /\ Len(crc) = 1
  <2>1. Len(crc) \in Nat
    BY LenProperties DEF Inv, TypeOK
  <2>2. Len(crc) > 0
    BY <2>1
  <2>3. Len(crc) = 1
    BY <2>2, OneMeta
  <2> QED
    BY <2>3
<1>2. CASE pc \in OpenPCs
  <2>1. pc = "new_meta"
    BY <1>1, <1>2, EmptySeq DEF Unmade, OpenPCs
  <2>2. m = ZeroMeta
    BY <2>1 DEF Unmade
  <2> QED
    BY <1>1, <2>2 DEF Intact, ZeroMeta
<1>3. CASE pc \in UpPCs
  <2>1. m \in Meta /\ Sized(m) /\ meta \in Meta /\ data \in Seq(Cell)
        /\ (pc # "rewrite_sync" => m.version = meta.version)
    BY <1>3, MetaWhileUp
  <2>2. Len(m.crcDigest) \in Nat /\ m.actualSize \in Nat
    BY <2>1, LenProperties DEF Meta
  <2> SUFFICES ASSUME m.version >= 3, ConfirmedValid(data, m),
                      m.actualSize = Len(m.crcDigest)
               PROVE  Verifies(data, m.actualSize, m.crcDigest)
    BY <1>1 DEF Intact
  <2>3. CASE pc \in WorkingPCs
    <3>0. m.version = meta.version
      BY <2>1, <2>3 DEF WorkingPCs, AppendPCs
    <3>1. logged /\ pc # "append_size"
      BY <2>2, <2>3, <3>0 DEF Ahead
    <3>2. CASE pc = "append_digest"
      BY <3>0, <3>1, <3>2 DEF Behind
    <3>3. CASE pc = "append_index"
      BY <2>3, <3>1, <3>3 DEF DiskInv, Digested, Counted, WorkingPCs
    <3>4. CASE pc \notin {"append_digest", "append_index"}
      <4>1. CandidateSize(m, header) = meta.actualSize
            /\ Verifies(data, meta.actualSize, meta.crcDigest)
            /\ m.crcDigest = meta.crcDigest
        BY <2>3, <3>1, <3>4 DEF DiskInv, Digested, Counted
      <4>2. CandidateSize(m, header) = m.actualSize
        BY <2>1 DEF CandidateSize, Meta
      <4> QED
        BY <4>1, <4>2
    <3> QED
      BY <3>2, <3>3, <3>4
  <2>4. CASE pc \in {"rewrite_copy", "rewrite_meta", "rewrite_sync"}
    <3>1. 1 <= m.lastConfirmedActualSize /\ m.lastConfirmedActualSize \in Nat
      BY <2>1 DEF Sized, Meta
    <3>2. m.lastConfirmedCRCDigest[1] = data[1]
      BY <3>1 DEF ConfirmedValid, Verifies
    <3> QED
      BY <2>1, <2>4, <3>2 DEF Overwritten, Meta
  <2> QED
    BY <1>3, <2>3, <2>4 DEF WorkingPCs, UpPCs, AppendPCs, RewritePCs
<1> QED
  BY <1>2, <1>3 DEF Inv, TypeOK, PCs, UpPCs

\* And after a step.
LEMMA IntactNext ==
  Inv' /\ DiskInv' /\ Staged' /\ (pc # "closed")' => AllIntact'
BY IntactWhileUp, PTL

LEMMA InitCrashInv == Init => CrashInv
<1> SUFFICES ASSUME Init PROVE CrashInv
  OBVIOUS
<1>1. Unmade /\ Ahead /\ Behind /\ Overwritten
  BY DEF Init, NoFiles, LegacyFiles, Unmade, Ahead, Behind, Overwritten,
         WorkingPCs, AppendPCs
<1>2. ASSUME NEW i \in 1 .. Len(crc)  PROVE Intact(crc[i])
  <2>1. CASE NoFiles
    BY <2>1, EmptySeq DEF NoFiles
  <2>2. CASE LegacyFiles
    <3>1. PICK v \in LegacyVersions, k \in Keys, b \in Values :
            LET cells == <<[seed |-> 1], [key |-> k, blob |-> b]>>
            IN  /\ data = Resize(cells, InitialCapacity - HeaderSize)
                /\ crc = <<LegacyMeta(v, cells)>>
      BY <2>2 DEF LegacyFiles
    <3> DEFINE cells == <<[seed |-> 1], [key |-> k, blob |-> b]>>
               n     == InitialCapacity - HeaderSize
    <3>2. /\ cells \in Seq(Cell) /\ Len(cells) = 2
          /\ n \in Nat /\ 2 <= n
      BY CapacityAssumption, CellMembers DEF Record, Blobs, Cell, Holder, HeaderSize
    <3> HIDE DEF cells, n
    <3>3. Len(data) = n /\ \A j \in 1 .. n : j <= 2 => data[j] = cells[j]
      BY <3>1, <3>2, ResizeProperties DEF cells, n
    <3>4. Verifies(data, 2, cells)
      BY <3>2, <3>3 DEF Verifies
    <3>5. Intact(LegacyMeta(v, cells))
      BY <3>4, LegacyAssumption DEF Intact, LegacyMeta
    <3> QED
      BY <3>1, <3>5 DEF cells
  <2> QED
    BY <2>1, <2>2 DEF Init
<1> QED
  BY <1>1, <1>2 DEF CrashInv, Staged, AllIntact

LEMMA CreateStaged ==
  ASSUME Inv, DiskInv, Staged,
         CreateData \/ TruncateData \/ InitData \/ CreateCrc
  PROVE  Staged'
<1>1. pc' \in OpenPCs
  BY DEF CreateData, TruncateData, InitData, CreateCrc, OpenPCs
<1>2. Unmade'
  BY DEF CreateData, TruncateData, InitData, CreateCrc, Staged, Unmade,
         DiskInv, Files
<1>3. Ahead' /\ Behind' /\ Overwritten'
  BY <1>1 DEF Ahead, Behind, Overwritten, WorkingPCs, AppendPCs, OpenPCs
<1> QED
  BY <1>2, <1>3 DEF Staged

LEMMA WriteInitialMetaStaged ==
  ASSUME Inv, DiskInv, Staged, WriteInitialMeta
  PROVE  Staged'
<1>1. pc = "new_meta" /\ pc' = "idle" /\ exists /\ logged
      /\ UNCHANGED <<exists, logged>>
  BY DEF WriteInitialMeta, history, DiskInv, Files, Opening, OpenPCs
<1> QED
  BY <1>1 DEF Staged, Unmade, Ahead, Behind, Overwritten

\* A rollback finds a digest that covers more than the size: had it covered
\* as much, the file would not have had to be rolled back.
LEMMA OpenExistingStaged ==
  ASSUME Inv, DiskInv, CrashInv, OpenExisting
  PROVE  Staged'
<1> DEFINE m == crc[1]
<1>1. /\ pc = "closed" /\ pc' = "idle" /\ exists
      /\ logged' = PrimaryValid(data, header, m)
      /\ CheckDataValid(data, header, m).loadFromFile
      /\ UNCHANGED <<exists, data, header, crc>>
  BY DEF OpenExisting, Openable, disk
<1>2. m \in Meta /\ Sized(m) /\ Intact(m)
  <2>1. Len(crc) = 1 /\ m \in Meta
    BY OneMeta DEF OpenExisting, Openable
  <2> QED
    BY <2>1 DEF DiskInv, Sizes, CrashInv, AllIntact
<1> HIDE DEF m
<1>3. ASSUME ~logged'  PROVE m.actualSize < Len(m.crcDigest)
  <2>1. ~PrimaryValid(data, header, m) /\ ConfirmedValid(data, m)
    BY <1>1, <1>3 DEF CheckDataValid
  <2>2. m.version >= 3 /\ m.actualSize \in Nat /\ Len(m.crcDigest) \in Nat
    BY <1>2, <2>1, LenProperties DEF ConfirmedValid, Sized, Meta
  <2>3. CandidateSize(m, header) = m.actualSize
    BY <1>2, <2>2 DEF CandidateSize, Meta
  <2>4. m.actualSize # Len(m.crcDigest)
    BY <1>2, <2>1, <2>2, <2>3 DEF Intact, PrimaryValid
  <2> QED
    BY <1>2, <2>2, <2>4 DEF Sized
<1> QED
  BY <1>1, <1>3 DEF Staged, Unmade, Ahead, Behind, Overwritten, m

-----------------------------------------------------------------------------
(***************************************************************************)
(* Every action preserves the invariant: appendRecord.                     *)
(***************************************************************************)
LEMMA AppendStaged ==
  ASSUME Inv, DiskInv, Staged, NEW k, NEW b, AppendRecord(k, b)
  PROVE  Staged'
<1>1. /\ pc = "idle" /\ pc' \in {"idle", "append_write"} /\ exists
      /\ UNCHANGED <<exists, crc, logged>>
  BY DEF AppendRecord, history, DiskInv, Files
<1> QED
  BY <1>1
     DEF Staged, Unmade, Ahead, Behind, Overwritten, WorkingPCs, AppendPCs

LEMMA WriteRecordStaged ==
  ASSUME Inv, DiskInv, Staged, WriteRecord
  PROVE  Staged'
<1>1. /\ pc = "append_write" /\ pc' = "append_meta" /\ exists
      /\ UNCHANGED <<exists, crc, logged>>
  BY DEF WriteRecord, process, history, DiskInv, Files
<1> QED
  BY <1>1
     DEF Staged, Unmade, Ahead, Behind, Overwritten, WorkingPCs, AppendPCs

LEMMA UpdateMetaStaged ==
  ASSUME Inv, DiskInv, Staged, UpdateMeta
  PROVE  Staged'
<1> DEFINE n == meta.actualSize
<1>1. /\ pc = "append_meta" /\ pc' = "append_digest" /\ exists
      /\ UNCHANGED <<exists, data, crc, logged>>
  BY DEF UpdateMeta, history, DiskInv, Files
<1>2. meta'.actualSize = n + 1 /\ meta'.version = meta.version /\ n \in Nat
  BY DEF UpdateMeta, Inv, TypeOK, Meta
<1>3. crc[1].version = meta.version /\ crc[1] \in Meta
  <2>1. pc \in UpPCs /\ pc # "rewrite_sync"
    BY <1>1 DEF UpPCs, AppendPCs
  <2> QED
    BY <2>1, MetaWhileUp
<1>4. ASSUME logged
      PROVE  /\ Verifies(data, n, crc[1].crcDigest)
             /\ meta.version >= 3 => crc[1].actualSize = n
  <2>1. /\ Verifies(data, n, meta.crcDigest)
        /\ crc[1].crcDigest = meta.crcDigest
        /\ CandidateSize(crc[1], header) = n
    BY <1>1, <1>4 DEF DiskInv, Digested, Counted, WorkingPCs, AppendPCs
  <2> QED
    BY <1>3, <2>1 DEF CandidateSize, Meta
<1> HIDE DEF n
<1>5. meta'.actualSize - 1 = n
  BY <1>2
<1>6. Behind'
  BY <1>1, <1>2, <1>4, <1>5 DEF Behind
<1>7. Ahead'
  BY <1>1 DEF Staged, Ahead, WorkingPCs, AppendPCs
<1> QED
  BY <1>1, <1>6, <1>7 DEF Staged, Unmade, Overwritten

\* The digest is written before the size, so that between the two pwrites it
\* covers one cell more.
LEMMA WriteCrcDigestStaged ==
  ASSUME Inv, DiskInv, Staged, WriteCrcDigest
  PROVE  Staged'
<1> DEFINE n == meta.actualSize
           d == meta.crcDigest
<1>1. /\ pc = "append_digest" /\ pc' = "append_size" /\ exists
      /\ crc' = <<[crc[1] EXCEPT !.crcDigest = d]>>
      /\ UNCHANGED <<exists, meta, logged>>
  BY DEF WriteCrcDigest, process, history, DiskInv, Files
<1>2. /\ crc[1] \in Meta /\ crc[1].version = meta.version /\ n \in Nat
      /\ Len(d) \in Nat /\ Len(crc[1].crcDigest) \in Nat
      /\ crc[1].actualSize \in Nat
  <2>1. pc \in UpPCs /\ pc # "rewrite_sync"
    BY <1>1 DEF UpPCs, AppendPCs
  <2>2. crc[1] \in Meta /\ meta \in Meta /\ crc[1].version = meta.version
    BY <2>1, MetaWhileUp
  <2> QED
    BY <2>2, LenProperties DEF Meta
<1>3. crc'[1].actualSize = crc[1].actualSize /\ crc'[1].crcDigest = d
  BY <1>1, <1>2 DEF Meta
<1>4. CASE logged
  <2>1. Verifies(data, n, d)
    BY <1>1, <1>4 DEF DiskInv, Digested, WorkingPCs, AppendPCs
  <2>2. meta.version >= 3 => crc[1].actualSize = n - 1
    BY <1>1, <1>4 DEF Staged, Behind
  <2>3. meta.version >= 3 => crc[1].actualSize < Len(d)
    BY <1>2, <2>1, <2>2 DEF Verifies
  <2>4. Ahead'
    BY <1>1, <1>3, <1>4, <2>3 DEF Ahead
  <2> QED
    BY <1>1, <2>4 DEF Staged, Unmade, Behind, Overwritten
<1>5. CASE ~logged
  <2>1. crc[1].actualSize < Len(crc[1].crcDigest)
    BY <1>1, <1>5 DEF Staged, Ahead, WorkingPCs, AppendPCs
  <2>2. Len(crc[1].crcDigest) <= Len(d)
    BY <1>1 DEF DiskInv, Digested
  <2>3. Ahead'
    BY <1>1, <1>2, <1>3, <2>1, <2>2 DEF Ahead
  <2> QED
    BY <1>1, <2>3 DEF Staged, Unmade, Behind, Overwritten
<1> QED
  BY <1>4, <1>5

LEMMA WriteActualSizeStaged ==
  ASSUME Inv, DiskInv, Staged, WriteActualSize
  PROVE  Staged'
<1>1. /\ pc = "append_size" /\ pc' = "append_index" /\ exists
      /\ crc' = <<[crc[1] EXCEPT !.actualSize = meta.actualSize]>>
      /\ UNCHANGED <<exists, logged>>
  BY DEF WriteActualSize, process, history, DiskInv, Files
<1>2. crc[1] \in Meta /\ crc[1].crcDigest = meta.crcDigest
  <2>1. pc \in UpPCs
    BY <1>1 DEF UpPCs, AppendPCs
  <2> QED
    BY <1>1, <2>1, MetaWhileUp DEF DiskInv, Digested, WorkingPCs, AppendPCs
<1>3. /\ crc'[1].actualSize = meta.actualSize
      /\ crc'[1].crcDigest = meta.crcDigest
  BY <1>1, <1>2 DEF Meta
<1>4. ~logged => meta.actualSize < Len(meta.crcDigest)
  BY <1>1 DEF DiskInv, Held, WorkingPCs, AppendPCs
<1>5. Ahead'
  BY <1>1, <1>3, <1>4 DEF Ahead
<1> QED
  BY <1>1, <1>5 DEF Staged, Unmade, Behind, Overwritten

LEMMA IndexRecordStaged ==
  ASSUME Inv, DiskInv, Staged, IndexRecord
  PROVE  Staged'
<1>1. /\ pc = "append_index" /\ pc' = "idle" /\ exists
      /\ UNCHANGED <<exists, crc, logged>>
  BY DEF IndexRecord, disk, DiskInv, Files
<1> QED
  BY <1>1
     DEF Staged, Unmade, Ahead, Behind, Overwritten, WorkingPCs, AppendPCs

-----------------------------------------------------------------------------
(***************************************************************************)
(* Every action preserves the invariant: doFullWriteback.                  *)
(***************************************************************************)
LEMMA RewriteStaged ==
  ASSUME Inv, DiskInv, Staged, Compact \/ ClearAll
  PROVE  Staged'
<1> DEFINE m == crc[1]
<1>1. pc = "idle" /\ exists
  BY DEF Compact, ClearAll, DiskInv, Files
<1>2. PICK index : DoFullWriteback(index)
  BY DEF Compact, ClearAll
<1>3. PICK ok \in BOOLEAN, s \in PreparedData(index) :
        /\ EnsureSpace(ItemSizeHolder + Len(s), ok)
        /\ pc' = IF ok THEN "rewrite_holder" ELSE "idle"
  BY <1>2 DEF DoFullWriteback
<1>4. UNCHANGED <<exists, crc, meta, logged>>
  BY <1>2 DEF DoFullWriteback
<1>5. /\ meta.actualSize \in Nat /\ meta.lastConfirmedActualSize \in Nat
      /\ meta.lastConfirmedActualSize <= meta.actualSize
      /\ m.lastConfirmedActualSize = meta.lastConfirmedActualSize
      /\ m.lastConfirmedCRCDigest = meta.lastConfirmedCRCDigest
      /\ Verifies(data, meta.lastConfirmedActualSize,
                  meta.lastConfirmedCRCDigest)
      /\ data \in Seq(Cell) /\ TypeOK /\ meta.actualSize <= Len(data)
  BY <1>1 DEF Inv, TypeOK, Meta, RecoveryPoint, Room, UpPCs
<1> DEFINE needed == ItemSizeHolder + Len(s)
<1>6. needed \in Nat \ {0} /\ EnsureSpace(needed, ok)
  BY <1>3, PreparedDataType, LenProperties DEF ItemSizeHolder
<1> HIDE DEF needed
<1>7. /\ data' \in Seq(Cell) /\ meta.actualSize <= Len(data')
      /\ \A i \in 1 .. meta.actualSize : data'[i] = data[i]
  BY <1>5, <1>6, EnsureSpaceProperties
<1>8. Verifies(data', meta.lastConfirmedActualSize,
               meta.lastConfirmedCRCDigest)
  BY <1>5, <1>7, VerifiesKept
<1>9. m.version >= 2 => ConfirmedValid(data', m)
  BY <1>5, <1>8 DEF ConfirmedValid
<1> HIDE DEF m
<1>10. Overwritten'
  BY <1>1, <1>3, <1>4, <1>9 DEF Overwritten, m
<1>11. Ahead'
  BY <1>1, <1>3, <1>4 DEF Staged, Ahead, WorkingPCs
<1> QED
  BY <1>1, <1>3, <1>4, <1>10, <1>11 DEF Staged, Unmade, Behind

\* Both digests on disk begin with the old seed.
LEMMA CopyHolderStaged ==
  ASSUME Inv, DiskInv, Staged, CopyHolder
  PROVE  Staged'
<1> DEFINE m == crc[1]
<1>1. /\ pc = "rewrite_holder" /\ pc' \in {"rewrite_meta", "rewrite_copy"}
      /\ data' = [data EXCEPT ![1] =
                    [seed |-> IF @ = [seed |-> 1] THEN 2 ELSE 1]]
      /\ exists /\ UNCHANGED <<exists, crc>>
  BY DEF CopyHolder, process, history, DiskInv, Files
<1>2. pc \in UpPCs /\ pc # "rewrite_sync"
  BY <1>1 DEF UpPCs, RewritePCs
<1>3. /\ Len(crc) = 1 /\ m \in Meta /\ Sized(m) /\ Extends(m)
      /\ 1 <= meta.actualSize /\ meta.actualSize \in Nat
      /\ data \in Seq(Cell) /\ meta.actualSize <= Len(data)
  BY <1>2, MetaWhileUp DEF Inv, TypeOK, Meta, Room
<1>4. /\ Len(data) \in Nat /\ m.lastConfirmedActualSize \in Nat
      /\ m.version \in 0 .. 4
  BY <1>3, LenProperties DEF Meta
<1>5. data'[1] # data[1]
  <2>1. 1 \in 1 .. Len(data)
    BY <1>3, <1>4
  <2>2. data'[1] = [seed |-> IF data[1] = [seed |-> 1] THEN 2 ELSE 1]
    BY <1>1, <1>3, <2>1
  <2>3. [seed |-> 1] # [seed |-> 2]
    <3>1. [seed |-> 1].seed = 1 /\ [seed |-> 2].seed = 2
      OBVIOUS
    <3> QED
      BY <3>1
  <2> QED
    BY <2>2, <2>3
<1>6. m.version >= 2 =>
        /\ 1 <= m.lastConfirmedActualSize
        /\ m.lastConfirmedCRCDigest[1] = data[1]
        /\ m.crcDigest[1] = data[1]
  <2> SUFFICES ASSUME m.version >= 2
               PROVE  /\ 1 <= m.lastConfirmedActualSize
                      /\ m.lastConfirmedCRCDigest[1] = data[1]
                      /\ m.crcDigest[1] = data[1]
    OBVIOUS
  <2>1. 1 <= m.lastConfirmedActualSize
    BY <1>3, <1>4 DEF Sized
  <2>2. Verifies(data, m.lastConfirmedActualSize, m.lastConfirmedCRCDigest)
    BY <1>1 DEF Staged, Overwritten, ConfirmedValid
  <2> QED
    BY <1>3, <1>4, <2>1, <2>2 DEF Verifies, Extends
<1>7. m.version < 2 => m.crcDigest[1] = data[1]
  <2> SUFFICES ASSUME m.version < 2  PROVE m.crcDigest[1] = data[1]
    OBVIOUS
  <2>1. m.version = meta.version
    BY <1>2, MetaWhileUp
  <2>2. logged
    BY <1>1, <1>4, <2>1 DEF DiskInv, Held, WorkingPCs
  <2>3. /\ m.crcDigest = meta.crcDigest
        /\ Verifies(data, meta.actualSize, meta.crcDigest)
    BY <1>1, <2>2 DEF DiskInv, Digested, WorkingPCs
  <2> QED
    BY <1>3, <2>3 DEF Verifies
<1> HIDE DEF m
<1>8. Overwritten'
  BY <1>1, <1>4, <1>5, <1>6, <1>7 DEF Overwritten, m
<1> QED
  BY <1>1, <1>8
     DEF Staged, Unmade, Ahead, Behind, WorkingPCs, AppendPCs

LEMMA CopyRecordStaged ==
  ASSUME Inv, DiskInv, Staged, CopyRecord
  PROVE  Staged'
<1> DEFINE at == ItemSizeHolder + copied + 1
<1>1. /\ pc = "rewrite_copy" /\ pc' \in {"rewrite_meta", "rewrite_copy"}
      /\ data' = [data EXCEPT ![at] = buffer[copied + 1]]
      /\ exists /\ UNCHANGED <<exists, crc>>
  BY DEF CopyRecord, DiskInv, Files
<1>2. at # 1
  BY DEF Inv, TypeOK, ItemSizeHolder
<1>3. data'[1] = data[1]
  <2> HIDE DEF at
  <2>1. data \in Seq(Cell)
    BY DEF Inv, TypeOK
  <2>2. 1 \in DOMAIN data
    <3>1. pc \in UpPCs
      BY <1>1 DEF UpPCs, RewritePCs
    <3>2. /\ 1 <= meta.actualSize /\ meta.actualSize \in Nat
          /\ meta.actualSize <= Len(data)
      BY <3>1, MetaWhileUp DEF Inv, TypeOK, Meta, Room
    <3> QED
      BY <2>1, <3>2, LenProperties
  <2> QED
    BY <1>1, <1>2, <2>2
<1>4. Overwritten'
  BY <1>1, <1>3 DEF Staged, Overwritten
<1> QED
  BY <1>1, <1>4
     DEF Staged, Unmade, Ahead, Behind, WorkingPCs, AppendPCs

LEMMA ConfirmMetaStaged ==
  ASSUME Inv, DiskInv, Staged, ConfirmMeta
  PROVE  Staged'
<1>1. /\ pc = "rewrite_meta" /\ pc' = "rewrite_sync" /\ exists
      /\ meta'.lastConfirmedActualSize = meta'.actualSize
      /\ meta'.version = meta.version
      /\ UNCHANGED <<exists, data, crc>>
  BY DEF ConfirmMeta, DiskInv, Files
<1>2. crc[1].version = meta.version
  BY <1>1 DEF Inv, RecoveryPoint, UpPCs, RewritePCs
<1> QED
  BY <1>1, <1>2
     DEF Staged, Unmade, Ahead, Behind, Overwritten, WorkingPCs, AppendPCs

LEMMA SyncMetaStaged ==
  ASSUME Inv, DiskInv, Staged, SyncMeta
  PROVE  Staged'
<1>1. pc = "rewrite_sync" /\ pc' = "idle" /\ logged' /\ exists
      /\ exists' = exists
  BY DEF SyncMeta, DiskInv, Files
<1> QED
  BY <1>1 DEF Staged, Unmade, Ahead, Behind, Overwritten

-----------------------------------------------------------------------------
(***************************************************************************)
(* The invariant, at every step.                                           *)
(***************************************************************************)
LEMMA ForgetCrashInv ==
  ASSUME DiskInv, CrashInv, pc # "closed", Forget
  PROVE  CrashInv'
<1>1. pc' = "closed" /\ exists /\ UNCHANGED <<exists, data, header, crc>>
  BY DEF Forget, disk, DiskInv, Files
<1>2. Staged'
  BY <1>1
     DEF Staged, Unmade, Ahead, Behind, Overwritten, WorkingPCs, AppendPCs
<1>3. AllIntact'
  BY <1>1
     DEF CrashInv, AllIntact, Intact, ConfirmedValid, Verifies
<1> QED
  BY <1>2, <1>3 DEF CrashInv

LEMMA StutterCrashInv == CrashInv /\ UNCHANGED vars => CrashInv'
BY DEF vars, disk, process, history, CrashInv, Staged, Unmade, Ahead, Behind,
       Overwritten, AllIntact, Intact, ConfirmedValid, Verifies

LEMMA NextCrashInv ==
  ASSUME ~MmapMayFail, Inv, IndexInv, DiskInv, CrashInv, [Next]_vars
  PROVE  CrashInv'
<1>1. Inv' /\ DiskInv' /\ Staged
  BY NextInv, NextDiskInv DEF CrashInv
<1>2. CASE Staged' /\ pc' # "closed"
  BY <1>1, <1>2, IntactNext DEF CrashInv
<1>3. CASE \/ CreateData \/ TruncateData \/ InitData \/ CreateCrc
           \/ WriteInitialMeta \/ OpenExisting
  <2>1. pc' # "closed"
    BY <1>3 DEF CreateData, TruncateData, InitData, CreateCrc,
                WriteInitialMeta, OpenExisting
  <2> QED
    BY <1>1, <1>2, <1>3, <2>1, CreateStaged, WriteInitialMetaStaged,
       OpenExistingStaged
<1>4. CASE OpenRefused \/ UNCHANGED vars
  BY <1>4, StutterCrashInv DEF OpenRefused
<1>5. CASE \/ \E k \in Keys, b \in Blobs : Set(k, b)
           \/ \E k \in Keys : Remove(k)
  <2>1. PICK k, b : AppendRecord(k, b)
    BY <1>5 DEF Set, Remove
  <2>2. pc' # "closed"
    BY <2>1 DEF AppendRecord
  <2> QED
    BY <1>1, <1>2, <2>1, <2>2, AppendStaged
<1>6. CASE \/ WriteRecord \/ UpdateMeta \/ WriteCrcDigest \/ WriteActualSize
           \/ IndexRecord
  <2>1. pc' # "closed"
    BY <1>6 DEF WriteRecord, UpdateMeta, WriteCrcDigest, WriteActualSize,
                IndexRecord
  <2> QED
    BY <1>1, <1>2, <1>6, <2>1, WriteRecordStaged, UpdateMetaStaged,
       WriteCrcDigestStaged, WriteActualSizeStaged, IndexRecordStaged
<1>7. CASE \/ Compact \/ ClearAll
           \/ CopyHolder \/ CopyRecord \/ ConfirmMeta \/ SyncMeta
  <2>1. pc' # "closed"
    BY <1>7 DEF Compact, ClearAll, DoFullWriteback, CopyHolder, CopyRecord,
                ConfirmMeta, SyncMeta
  <2> QED
    BY <1>1, <1>2, <1>7, <2>1, RewriteStaged, CopyHolderStaged,
       CopyRecordStaged, ConfirmMetaStaged, SyncMetaStaged
<1>8. CASE Close \/ Crash
  BY <1>8, ForgetCrashInv DEF Close, Crash
<1> QED
  BY <1>3, <1>4, <1>5, <1>6, <1>7, <1>8 DEF Next

-----------------------------------------------------------------------------
(***************************************************************************)
(* What the next open() makes of the files.                                *)
(***************************************************************************)
\* A file that verifies by its current size yields what its log holds.
LEMMA OpensPrimary ==
  ASSUME Inv, exists, 1 <= Len(data), Len(crc) = 1, NEW n \in Nat,
         CandidateSize(crc[1], header) = n,
         Verifies(data, n, crc[1].crcDigest),
         NEW v \in Contents, LogHolds(data, n, v)
  PROVE  PrimaryValid(data, header, crc[1]) /\ OpensAt(v)
<1> DEFINE m == crc[1]
<1>1. data \in Seq(Cell) /\ Len(data) \in Nat /\ n <= Len(data)
  BY LenProperties DEF Inv, TypeOK, Verifies
<1>2. PrimaryValid(data, header, m)
  BY DEF PrimaryValid
<1>3. /\ CheckDataValid(data, header, m).loadFromFile
      /\ CheckDataValid(data, header, m).effectiveActualSize = n
  BY <1>2 DEF CheckDataValid
<1>4. Openable
  BY <1>1, <1>3 DEF Openable
<1>5. Lookup(data, DecodeMap(data, n)) = v
  BY <1>1, LogHoldsLookup
<1> QED
  BY <1>2, <1>3, <1>4, <1>5 DEF OpensAt, DiskContents

\* A file that verifies by its recovery point alone yields what that holds.
LEMMA OpensConfirmed ==
  ASSUME Inv, exists, 1 <= Len(data), Len(crc) = 1,
         ~PrimaryValid(data, header, crc[1]), ConfirmedValid(data, crc[1])
  PROVE  /\ OpensAt(Confirmed(crc[1]))
         /\ \A v \in Contents :
              LogHolds(data, crc[1].lastConfirmedActualSize, v) => OpensAt(v)
<1> DEFINE m == crc[1]
           n == m.lastConfirmedActualSize
           d == m.lastConfirmedCRCDigest
<1>1. m \in Meta
  BY OneMeta
<1>2. /\ data \in Seq(Cell) /\ Len(data) \in Nat /\ n \in Nat
      /\ n <= Len(data) /\ d \in Seq(Cell) /\ n = Len(d)
      /\ \A i \in 1 .. n : data[i] = d[i]
  BY <1>1, LenProperties DEF Inv, TypeOK, ConfirmedValid, Verifies, Meta
<1>3. /\ CheckDataValid(data, header, m).loadFromFile
      /\ CheckDataValid(data, header, m).effectiveActualSize = n
  BY DEF CheckDataValid
<1>4. Openable /\ DiskContents = Lookup(data, DecodeMap(data, n))
  BY <1>2, <1>3 DEF Openable, DiskContents
<1>5. Confirmed(m) = Lookup(d, DecodeMap(d, n))
  BY <1>2 DEF Confirmed
<1> HIDE DEF m, n, d
<1>6. Lookup(data, DecodeMap(data, n)) = Lookup(d, DecodeMap(d, n))
  <2>1. n <= Len(d)
    BY <1>2
  <2> QED
    BY ONLY <1>2, <2>1, LookupKept
<1>7. ASSUME NEW v \in Contents, LogHolds(data, n, v)
      PROVE  Lookup(data, DecodeMap(data, n)) = v
  BY <1>2, <1>7, LogHoldsLookup
<1> QED
  BY <1>4, <1>5, <1>6, <1>7 DEF OpensAt, m, n

\* What is known of the files wherever an append, or a rewrite that has not
\* written yet, may die.
LEMMA WorkingFacts ==
  ASSUME Inv, DiskInv, pc \in WorkingPCs,
         pc = "rewrite_holder" => Overwritten
  PROVE  /\ exists /\ Len(crc) = 1 /\ crc[1] \in Meta /\ Sized(crc[1])
         /\ 1 <= Len(data) /\ data \in Seq(Cell) /\ stored \in Contents
         /\ meta.actualSize \in Nat /\ meta.version \in 0 .. 4
         /\ crc[1].actualSize \in Nat /\ Len(crc[1].crcDigest) \in Nat
         /\ crc[1].version = meta.version /\ crc[1].version # 2
         /\ crc[1].lastConfirmedActualSize = meta.lastConfirmedActualSize
         /\ crc[1].version >= 2 => ConfirmedValid(data, crc[1])
<1>1. pc \in UpPCs /\ pc # "rewrite_sync"
  BY DEF WorkingPCs, UpPCs, AppendPCs, RewritePCs
<1>2. /\ exists /\ Len(crc) = 1 /\ crc[1] \in Meta /\ Sized(crc[1])
      /\ crc[1].version = meta.version
      /\ crc[1].lastConfirmedActualSize = meta.lastConfirmedActualSize
      /\ 1 <= meta.actualSize /\ meta \in Meta /\ data \in Seq(Cell)
  BY <1>1, MetaWhileUp
<1>3. meta.actualSize <= Len(data) /\ stored \in Contents
  BY <1>1 DEF Inv, Room, TypeOK
<1>4. /\ meta.actualSize \in Nat /\ meta.version \in 0 .. 4
      /\ crc[1].actualSize \in Nat /\ Len(crc[1].crcDigest) \in Nat
      /\ Len(data) \in Nat
  BY <1>2, LenProperties DEF Meta
<1>5. crc[1].version >= 2 => ConfirmedValid(data, crc[1])
  <2>1. CASE pc = "rewrite_holder"
    BY <2>1 DEF Overwritten
  <2>2. CASE pc # "rewrite_holder"
    <3>1. pc \in {"idle"} \cup AppendPCs
      BY <2>2 DEF WorkingPCs
    <3>2. /\ crc[1].lastConfirmedCRCDigest = meta.lastConfirmedCRCDigest
          /\ Verifies(data, meta.lastConfirmedActualSize,
                      meta.lastConfirmedCRCDigest)
      BY <1>1, <3>1 DEF Inv, RecoveryPoint
    <3> QED
      BY <1>2, <3>2 DEF ConfirmedValid
  <2> QED
    BY <2>1, <2>2
<1>6. 1 <= Len(data)
  BY <1>2, <1>3, <1>4
<1> QED
  BY <1>2, <1>3, <1>4, <1>5, <1>6 DEF Sized

\* After a rollback the file is rolled back again, to the same contents as
\* long as the digest on disk stays ahead.
LEMMA NotLoggedKept ==
  ASSUME Inv, DiskInv, Staged, pc \in WorkingPCs, ~logged
  PROVE  /\ meta.version >= 3 /\ ~PrimaryValid(data, header, crc[1])
         /\ OpensAt(stored) /\ OpensAt(Confirmed(crc[1]))
<1> DEFINE m == crc[1]
<1>1. pc = "rewrite_holder" => Overwritten
  BY DEF Staged
<1>2. /\ exists /\ Len(crc) = 1 /\ 1 <= Len(data) /\ stored \in Contents
      /\ m.actualSize \in Nat /\ Len(m.crcDigest) \in Nat
      /\ m.version = meta.version /\ m.version \in 0 .. 4
      /\ m.lastConfirmedActualSize = meta.lastConfirmedActualSize
      /\ m.version >= 2 => ConfirmedValid(data, m)
  BY <1>1, WorkingFacts
<1>3. /\ meta.version >= 3
      /\ LogHolds(data, meta.lastConfirmedActualSize, stored)
  BY DEF DiskInv, Held
<1>4. m.actualSize < Len(m.crcDigest)
  BY DEF Staged, Ahead
<1>5. ~PrimaryValid(data, header, m)
  BY <1>2, <1>3, <1>4 DEF PrimaryValid, Verifies, CandidateSize
<1>6. ConfirmedValid(data, m)
  BY <1>2, <1>3
<1> QED
  BY <1>2, <1>3, <1>5, <1>6, OpensConfirmed

LEMMA KeptOutcome ==
  ASSUME Inv, DiskInv, Staged,
         pc \in {"idle", "append_write", "append_meta", "rewrite_holder"}
  PROVE  Kept
<1> DEFINE m == crc[1]
           n == meta.actualSize
<1>1. pc \in WorkingPCs /\ (pc = "rewrite_holder" => Overwritten)
  BY DEF WorkingPCs, AppendPCs, Staged
<1>2. CASE logged
  <2>1. /\ exists /\ Len(crc) = 1 /\ 1 <= Len(data) /\ stored \in Contents
        /\ n \in Nat
    BY <1>1, WorkingFacts
  <2>2. /\ CandidateSize(m, header) = n /\ m.crcDigest = meta.crcDigest
        /\ Verifies(data, n, meta.crcDigest) /\ LogHolds(data, n, stored)
    BY <1>1, <1>2 DEF DiskInv, Digested, Counted, Held, IndexedSize
  <2> HIDE DEF n
  <2> QED
    BY <1>2, <2>1, <2>2, OpensPrimary DEF Kept
<1>3. CASE ~logged
  BY <1>1, <1>3, NotLoggedKept DEF Kept
<1> QED
  BY <1>2, <1>3

\* The log with the record of the append under way.
LEMMA StoredOutcome ==
  ASSUME Inv, IndexInv, DiskInv, Staged, logged,
         \/ pc = "append_index"
         \/ pc = "append_size" /\ meta.version < 3
  PROVE  Stored
<1> DEFINE m == crc[1]
           n == meta.actualSize
           r == buffer[1]
           v == [stored EXCEPT ![r.key] = r.blob]
<1>1. pc \in WorkingPCs /\ pc # "rewrite_holder"
  BY DEF WorkingPCs, AppendPCs
<1>2. /\ exists /\ Len(crc) = 1 /\ 1 <= Len(data) /\ stored \in Contents
      /\ n \in Nat /\ m.version = meta.version
  BY <1>1, WorkingFacts
<1>3. /\ header = n /\ (pc = "append_index" => m.actualSize = n)
      /\ m.crcDigest = meta.crcDigest /\ Verifies(data, n, meta.crcDigest)
      /\ LogHolds(data, n - 1, stored) /\ 2 <= n
  BY <1>1 DEF DiskInv, Files, Digested, Counted, Held, IndexedSize
<1>4. CandidateSize(m, header) = n
  BY <1>2, <1>3 DEF CandidateSize
<1>5. data[n] = r /\ r \in Record
  <2>1. Len(buffer) = 1 /\ buffer \in Seq(Record)
    BY <1>1 DEF Inv, TypeOK, Room, WorkingPCs, AppendPCs
  <2> QED
    BY <2>1, ElementOfSeq DEF IndexInv, Copied
<1> HIDE DEF n, r
<1>6. LogHolds(data, n, v)
  BY <1>2, <1>3, <1>5, LogHoldsAppend DEF ItemSizeHolder
<1>7. v \in Contents
  BY <1>2, <1>5 DEF Contents, Record
<1> HIDE DEF v
<1>8. PrimaryValid(data, header, m) /\ OpensAt(v)
  BY <1>2, <1>3, <1>4, <1>6, <1>7, OpensPrimary
<1> QED
  BY <1>8 DEF Stored, v, r

LEMMA AppendDigestOutcome ==
  ASSUME Inv, DiskInv, Staged, pc = "append_digest"
  PROVE  IF meta.version >= 3 THEN Kept ELSE ~Openable
<1> DEFINE m == crc[1]
           n == meta.actualSize
<1>1. pc \in WorkingPCs /\ pc # "rewrite_holder"
  BY DEF WorkingPCs, AppendPCs
<1>2. /\ exists /\ Len(crc) = 1 /\ 1 <= Len(data) /\ stored \in Contents
      /\ n \in Nat /\ m.version = meta.version /\ m.version \in 0 .. 4
      /\ m.version # 2
  BY <1>1, WorkingFacts
<1>3. CASE ~logged
  BY <1>1, <1>3, NotLoggedKept DEF Kept
<1>4. CASE logged
  <2>1. /\ Verifies(data, n - 1, m.crcDigest)
        /\ meta.version >= 3 => m.actualSize = n - 1
        /\ LogHolds(data, n - 1, stored) /\ header = n /\ 2 <= n
    BY <1>1, <1>4
       DEF Staged, Behind, DiskInv, Files, Held, Counted, IndexedSize
  <2>2. CASE meta.version >= 3
    <3>1. CandidateSize(m, header) = n - 1 /\ n - 1 \in Nat
      BY <1>2, <2>1, <2>2 DEF CandidateSize
    <3> HIDE DEF n
    <3> DEFINE p == n - 1
    <3>2. /\ CandidateSize(m, header) = p /\ p \in Nat
          /\ Verifies(data, p, m.crcDigest) /\ LogHolds(data, p, stored)
      BY <2>1, <3>1
    <3> HIDE DEF p
    <3> QED
      BY <1>2, <1>4, <2>2, <3>2, OpensPrimary DEF Kept
  <2>3. CASE meta.version < 3
    <3>1. m.version < 2 /\ CandidateSize(m, header) = n
      BY <1>2, <2>1, <2>3 DEF CandidateSize
    <3>2. ~PrimaryValid(data, header, m) /\ ~ConfirmedValid(data, m)
      BY <1>2, <2>1, <3>1 DEF PrimaryValid, ConfirmedValid, Verifies
    <3> QED
      BY <1>2, <2>3, <3>2 DEF Openable, CheckDataValid
  <2> QED
    BY <1>2, <2>2, <2>3
<1> QED
  BY <1>3, <1>4

LEMMA RolledBackOutcome ==
  ASSUME Inv, DiskInv, Staged,
         \/ pc = "append_size" /\ meta.version >= 3
         \/ pc = "append_index" /\ ~logged
  PROVE  RolledBack
<1> DEFINE m == crc[1]
<1>1. pc \in WorkingPCs /\ pc # "rewrite_holder"
  BY DEF WorkingPCs, AppendPCs
<1>2. CASE ~logged
  <2>1. meta.version \in 0 .. 4
    BY DEF Inv, TypeOK, Meta
  <2> QED
    BY <1>1, <1>2, <2>1, NotLoggedKept DEF RolledBack
<1>3. CASE logged
  <2>1. /\ exists /\ Len(crc) = 1 /\ 1 <= Len(data)
        /\ m.version = meta.version /\ m.version \in 0 .. 4
        /\ m.actualSize \in Nat /\ Len(m.crcDigest) \in Nat
        /\ m.version >= 2 => ConfirmedValid(data, m)
    BY <1>1, WorkingFacts
  <2>2. meta.version >= 3 /\ m.actualSize < Len(m.crcDigest)
    BY <1>1, <1>3 DEF Staged, Ahead
  <2>3. ~PrimaryValid(data, header, m)
    BY <2>1, <2>2 DEF PrimaryValid, Verifies, CandidateSize
  <2>4. ConfirmedValid(data, m) /\ meta.version >= 2
    BY <2>1, <2>2
  <2> QED
    BY <2>1, <2>3, <2>4, OpensConfirmed DEF RolledBack
<1> QED
  BY <1>2, <1>3

\* A log whose first cell is no longer the digests' is refused.
LEMMA OverwrittenOutcome ==
  ASSUME Inv, DiskInv, Staged,
         pc \in {"rewrite_copy", "rewrite_meta", "rewrite_sync"}
  PROVE  ~Openable
<1> DEFINE m == crc[1]
<1>1. pc \in UpPCs
  BY DEF UpPCs, RewritePCs
<1>2. m \in Meta /\ Sized(m) /\ 1 <= header /\ header \in Nat
  BY <1>1, MetaWhileUp DEF Inv, TypeOK
<1>3. /\ m.version \in 0 .. 4 /\ m.actualSize \in Nat
      /\ m.lastConfirmedActualSize \in Nat
  BY <1>2 DEF Meta
<1>4. /\ m.crcDigest[1] # data[1]
      /\ m.version >= 2 => m.lastConfirmedCRCDigest[1] # data[1]
  BY DEF Staged, Overwritten
<1>5. ~PrimaryValid(data, header, m)
  <2>1. 1 <= CandidateSize(m, header) /\ CandidateSize(m, header) \in Nat
    BY <1>2, <1>3 DEF CandidateSize, Sized
  <2> QED
    BY <1>4, <2>1 DEF PrimaryValid, Verifies
<1>6. ~ConfirmedValid(data, m)
  <2> SUFFICES ASSUME ConfirmedValid(data, m) PROVE FALSE
    OBVIOUS
  <2>1. 1 <= m.lastConfirmedActualSize /\ m.version >= 2
    BY <1>2, <1>3 DEF ConfirmedValid, Sized
  <2> QED
    BY <1>3, <1>4, <2>1 DEF ConfirmedValid, Verifies
<1> QED
  BY <1>5, <1>6 DEF Openable, CheckDataValid

\* Files that are still being made are refused.
LEMMA UnmadeOutcome ==
  ASSUME DiskInv, Staged, pc \in OpenPCs
  PROVE  ~Openable
<1>1. CASE pc = "new_meta"
  <2>1. crc[1] = ZeroMeta /\ header = 1
    BY <1>1 DEF Staged, Unmade, DiskInv, Opening
  <2>2. ~PrimaryValid(data, header, ZeroMeta) /\ ~ConfirmedValid(data, ZeroMeta)
    BY <2>1, EmptySeq
       DEF PrimaryValid, ConfirmedValid, Verifies, CandidateSize, ZeroMeta
  <2> QED
    BY <2>1, <2>2 DEF Openable, CheckDataValid
<1>2. CASE pc # "new_meta"
  <2>1. Len(crc) = 0
    BY <1>2, EmptySeq DEF Staged, Unmade, OpenPCs
  <2> QED
    BY <2>1 DEF Openable
<1> QED
  BY <1>1, <1>2

\* Whatever step the process dies at.
LEMMA CrashOutcome ==
  ASSUME Inv, IndexInv, DiskInv, CrashInv
  PROVE  Outcome
<1>1. Staged
  BY DEF CrashInv
<1>2. CASE pc \in {"idle", "append_write", "append_meta", "rewrite_holder"}
  BY <1>1, <1>2, KeptOutcome DEF Outcome
<1>3. CASE pc = "append_digest"
  BY <1>1, <1>3, AppendDigestOutcome DEF Outcome
<1>4. CASE pc = "append_size"
  <2>1. meta.version < 3 => logged
    BY <1>4 DEF DiskInv, Held, WorkingPCs, AppendPCs, Inv, TypeOK, Meta
  <2>2. meta.version \in 0 .. 4
    BY DEF Inv, TypeOK, Meta
  <2>3. CASE meta.version >= 3
    BY <1>1, <1>4, <2>3, RolledBackOutcome DEF Outcome
  <2>4. CASE meta.version < 3
    BY <1>1, <1>4, <2>1, <2>2, <2>4, StoredOutcome DEF Outcome
  <2> QED
    BY <2>2, <2>3, <2>4
<1>5. CASE pc = "append_index"
  BY <1>1, <1>5, StoredOutcome, RolledBackOutcome DEF Outcome
<1>6. CASE pc \in {"rewrite_copy", "rewrite_meta", "rewrite_sync"}
  BY <1>1, <1>6, OverwrittenOutcome DEF Outcome
<1>7. CASE pc \in OpenPCs
  BY <1>1, <1>7, UnmadeOutcome DEF Outcome, OpenPCs
<1>8. CASE pc = "closed"
  BY <1>8 DEF Outcome
<1> QED
  BY <1>2, <1>3, <1>4, <1>5, <1>6, <1>7, <1>8
     DEF Inv, TypeOK, PCs, OpenPCs, AppendPCs, RewritePCs

-----------------------------------------------------------------------------
(***************************************************************************)
(* The mapping.                                                            *)
(***************************************************************************)
AllInv == Inv /\ IndexInv /\ DiskInv /\ CrashInv

AbsStored  == IF pc = "closed" THEN DiskContents ELSE stored
AbsPending == IF pc \in AppendPCs THEN buffer ELSE <<>>

\* What a rollback of the file on disk yields.
RollsBackTo == IF crc[1].version >= 2 THEN {Confirmed(crc[1])} ELSE {}

\* What DurableMap sees of a store some process has open, or is making.
MappedUp ==
  /\ exists
  /\ Status = (IF pc \in OpenPCs THEN "creating"
               ELSE IF pc \in RewritePCs THEN "rewriting" ELSE "open")
  /\ AbsStored = stored
  /\ Logged = logged
  /\ Fallback = IF pc \in OpenPCs THEN {} ELSE RollsBackTo

\* And of one that no process has open.
MappedClosed ==
  /\ AbsPending = <<>>
  /\ Openable =>
       /\ Status = "closed" /\ AbsStored = DiskContents
       /\ Logged = PrimaryValid(data, header, crc[1])
       /\ Fallback = RollsBackTo
  /\ ~Openable =>
       /\ Status = IF exists THEN "unopenable" ELSE "absent"
       /\ AbsStored = EmptyContents
       /\ Logged = logged /\ Fallback = {}

LEMMA MapUp == AllInv /\ pc # "closed" => MappedUp
<1> SUFFICES ASSUME AllInv, pc # "closed" PROVE MappedUp
  OBVIOUS
<1>1. exists
  BY DEF AllInv, DiskInv, Files
<1>2. Status = (IF pc \in OpenPCs THEN "creating"
                ELSE IF pc \in RewritePCs THEN "rewriting" ELSE "open")
  BY <1>1 DEF Status, OpenPCs, RewritePCs
<1> QED
  BY <1>1, <1>2 DEF MappedUp, AbsStored, Logged, Fallback, RollsBackTo

LEMMA MapUpNext == AllInv' /\ (pc # "closed")' => MappedUp'
BY MapUp, PTL

LEMMA MapClosed == pc = "closed" => MappedClosed
<1> SUFFICES ASSUME pc = "closed" PROVE MappedClosed
  OBVIOUS
<1>1. /\ pc \notin OpenPCs /\ pc \notin RewritePCs /\ pc \notin AppendPCs
      /\ Openable => exists
  BY DEF OpenPCs, RewritePCs, AppendPCs, Openable
<1>2. Status = IF Openable THEN "closed"
               ELSE IF exists THEN "unopenable" ELSE "absent"
  BY <1>1 DEF Status
<1> QED
  BY <1>1, <1>2
     DEF MappedClosed, AbsPending, AbsStored, Logged, Fallback, RollsBackTo,
         DiskContents

LEMMA MapClosedNext == (pc = "closed")' => MappedClosed'
BY MapClosed, PTL

LEMMA InitRefines == Init => Durable!Init
<1> SUFFICES ASSUME Init PROVE Durable!Init
  OBVIOUS
<1> USE DEF Durable!Init, Durable!EmptyContents, Durable!Contents
<1>1. pc = "closed" /\ view = EmptyContents /\ logged = TRUE /\ MappedClosed
  BY MapClosed DEF Init
<1>2. CASE NoFiles
  <2>1. ~exists /\ ~Openable
    BY <1>2 DEF NoFiles, Openable
  <2> QED
    BY <1>1, <2>1
       DEF MappedClosed, AbsStored, AbsPending, EmptyContents
<1>3. CASE LegacyFiles
  <2>1. PICK v \in LegacyVersions, k \in Keys, b \in Values :
          LET cells == <<[seed |-> 1], [key |-> k, blob |-> b]>>
          IN  /\ exists = TRUE
              /\ data = Resize(cells, InitialCapacity - HeaderSize)
              /\ header = 2
              /\ crc = <<LegacyMeta(v, cells)>>
    BY <1>3 DEF LegacyFiles
  <2> DEFINE cells == <<[seed |-> 1], [key |-> k, blob |-> b]>>
             n     == InitialCapacity - HeaderSize
             m     == LegacyMeta(v, cells)
  <2>2. /\ cells \in Seq(Cell) /\ Len(cells) = 2
        /\ n \in Nat /\ 2 <= n
    BY CapacityAssumption, CellMembers DEF Record, Blobs, Cell, Holder, HeaderSize
  <2> HIDE DEF cells, n
  <2>3. Len(data) = n /\ \A j \in 1 .. n : j <= 2 => data[j] = cells[j]
    BY <2>1, <2>2, ResizeProperties DEF cells, n
  <2>4. Verifies(data, 2, cells)
    BY <2>2, <2>3 DEF Verifies
  <2>5. CandidateSize(m, 2) = 2 /\ m.crcDigest = cells
    BY LegacyAssumption DEF CandidateSize, LegacyMeta
  <2> HIDE DEF m
  <2>6. PrimaryValid(data, header, crc[1]) /\ Len(crc) = 1
    BY <2>1, <2>4, <2>5 DEF PrimaryValid, m, cells
  <2>7. Openable
    BY <2>1, <2>2, <2>3, <2>6 DEF Openable, CheckDataValid
  <2>8. DiskContents \in Contents /\ Confirmed(crc[1]) \in Contents
    BY <2>7, LookupType DEF DiskContents, Confirmed
  <2> QED
    BY <1>1, <2>6, <2>7, <2>8
       DEF MappedClosed, AbsStored, AbsPending, RollsBackTo, EmptyContents,
           Contents
<1> QED
  BY <1>2, <1>3 DEF Init

-----------------------------------------------------------------------------
(***************************************************************************)
(* Every step is one that DurableMap allows, or none: open().              *)
(***************************************************************************)
Refines == [Durable!Next]_(Durable!vars)

LEMMA CreateDataRefines ==
  ASSUME AllInv, AllInv', CreateData
  PROVE  Refines
<1>1. /\ pc = "closed" /\ ~exists /\ ~Openable
      /\ pc' = "new_truncate" /\ UNCHANGED <<buffer, history>>
  BY DEF CreateData, Openable, process
<1>2. MappedClosed /\ MappedUp'
  BY <1>1, MapClosed, MapUpNext
<1>3. stored = EmptyContents
  BY <1>1 DEF AllInv, DiskInv, Opening
<1>4. Durable!BeginCreate
  BY <1>1, <1>2, <1>3
     DEF Durable!BeginCreate, MappedClosed, MappedUp, AbsStored, AbsPending,
         OpenPCs, AppendPCs, history
<1> QED
  BY <1>4 DEF Refines, Durable!Next

\* Steps that DurableMap does not see.
LEMMA HiddenSteps ==
  ASSUME AllInv, AllInv', pc # "closed", pc' # "closed",
         UNCHANGED <<view, stored, logged>>,
         pc' \in OpenPCs <=> pc \in OpenPCs,
         pc' \in RewritePCs <=> pc \in RewritePCs,
         AbsPending' = AbsPending,
         pc \notin OpenPCs =>
           /\ crc'[1].version = crc[1].version
           /\ crc'[1].lastConfirmedCRCDigest = crc[1].lastConfirmedCRCDigest
  PROVE  Refines
<1>1. MappedUp /\ MappedUp'
  BY MapUp, MapUpNext
<1>2. pc \notin OpenPCs => RollsBackTo' = RollsBackTo
  BY DEF RollsBackTo, Confirmed
<1>3. UNCHANGED Durable!vars
  BY <1>1, <1>2 DEF Durable!vars, MappedUp, AbsStored, AbsPending
<1> QED
  BY <1>3 DEF Refines

LEMMA MakeFilesRefines ==
  ASSUME AllInv, AllInv', TruncateData \/ InitData \/ CreateCrc
  PROVE  Refines
<1>1. /\ pc \in OpenPCs /\ pc' \in OpenPCs
      /\ UNCHANGED <<view, stored, logged>>
  BY DEF TruncateData, InitData, CreateCrc, OpenPCs, history
<1>2. AbsPending' = AbsPending
  BY <1>1 DEF AbsPending, OpenPCs, AppendPCs
<1> QED
  BY <1>1, <1>2, HiddenSteps DEF OpenPCs, RewritePCs

\* A recovery point that verifies is the log up to it.
LEMMA ConfirmedLog ==
  ASSUME Inv, NEW m \in Meta,
         Verifies(data, m.lastConfirmedActualSize, m.lastConfirmedCRCDigest)
  PROVE  Confirmed(m) = Lookup(data, DecodeMap(data, m.lastConfirmedActualSize))
<1> DEFINE n == m.lastConfirmedActualSize
           d == m.lastConfirmedCRCDigest
<1>1. /\ data \in Seq(Cell) /\ n \in Nat /\ n <= Len(data)
      /\ d \in Seq(Cell) /\ n = Len(d) /\ \A i \in 1 .. n : d[i] = data[i]
  BY DEF Inv, TypeOK, Verifies, Meta
<1>2. Confirmed(m) = Lookup(d, DecodeMap(d, n))
  BY <1>1 DEF Confirmed
<1> HIDE DEF n, d
<1>3. n <= Len(d)
  BY <1>1
<1>4. Lookup(d, DecodeMap(d, n)) = Lookup(data, DecodeMap(data, n))
  BY ONLY <1>1, <1>3, LookupKept
<1> QED
  BY <1>2, <1>4 DEF n

\* A new file can be rolled back to nothing.
LEMMA WriteInitialMetaRefines ==
  ASSUME AllInv, AllInv', WriteInitialMeta
  PROVE  Refines
<1>1. /\ pc = "new_meta" /\ pc' = "idle" /\ crc' = <<meta>>
      /\ UNCHANGED <<data, meta, buffer, view, stored, logged>>
  BY DEF WriteInitialMeta, process, history
<1>2. MappedUp /\ MappedUp'
  BY <1>1, MapUp, MapUpNext
<1>3. /\ meta \in Meta /\ meta.version = 4 /\ meta.actualSize = 1
      /\ Sized(meta) /\ meta.lastConfirmedActualSize <= meta.actualSize
      /\ Verifies(data, meta.lastConfirmedActualSize,
                  meta.lastConfirmedCRCDigest)
  BY <1>1 DEF AllInv, Inv, TypeOK, RecoveryPoint, DiskInv, Sizes, Opening
<1>4. meta.lastConfirmedActualSize = 1
  BY <1>3 DEF Sized, Meta
<1>5. Confirmed(meta) = EmptyContents
  <2>1. Confirmed(meta) = Lookup(data, DecodeMap(data, 1))
    BY <1>3, <1>4, ConfirmedLog DEF AllInv
  <2>2. data \in Seq(Cell) /\ 1 <= Len(data) /\ EmptyContents \in Contents
    BY <1>3, <1>4
       DEF AllInv, Inv, TypeOK, Verifies, EmptyContents, Contents, Blobs
  <2> QED
    BY <2>1, <2>2, LogHoldsNothing, LogHoldsLookup
<1>6. RollsBackTo' = {EmptyContents}
  <2>1. crc'[1] = meta
    BY <1>1
  <2> QED
    BY <1>3, <1>5, <2>1 DEF RollsBackTo, Confirmed
<1>7. Durable!EndCreate
  BY <1>1, <1>2, <1>6
     DEF Durable!EndCreate, Durable!EmptyContents, EmptyContents, MappedUp,
         AbsStored, AbsPending, OpenPCs, RewritePCs, AppendPCs
<1> QED
  BY <1>7 DEF Refines, Durable!Next

LEMMA OpenExistingRefines ==
  ASSUME AllInv, AllInv', OpenExisting
  PROVE  Refines
<1>1. /\ pc = "closed" /\ pc' = "idle" /\ Openable
      /\ view' = DiskContents /\ stored' = view'
      /\ logged' = PrimaryValid(data, header, crc[1])
      /\ UNCHANGED <<crc, buffer>>
  BY DEF OpenExisting, DiskContents, disk
<1>2. MappedClosed /\ MappedUp'
  BY <1>1, MapClosed, MapUpNext
<1>3. RollsBackTo' = RollsBackTo
  BY <1>1 DEF RollsBackTo, Confirmed
<1>4. Durable!Open
  BY <1>1, <1>2, <1>3
     DEF Durable!Open, MappedClosed, MappedUp, AbsStored, AbsPending,
         OpenPCs, RewritePCs, AppendPCs
<1> QED
  BY <1>4 DEF Refines, Durable!Next

LEMMA StutterRefines == UNCHANGED vars => Refines
BY DEF vars, disk, process, history, Refines, Durable!vars, Status, Fallback,
       Logged, Openable, DiskContents, Confirmed

-----------------------------------------------------------------------------
(***************************************************************************)
(* Every step is one that DurableMap allows, or none: appendRecord.        *)
(***************************************************************************)
LEMMA AppendRefines ==
  ASSUME AllInv, AllInv', NEW k \in Keys, NEW b \in Blobs, AppendRecord(k, b)
  PROVE  Refines
<1>1. /\ pc = "idle" /\ UNCHANGED <<crc, view, stored, logged>>
      /\ \/ pc' = "idle"
         \/ pc' = "append_write" /\ buffer' = <<[key |-> k, blob |-> b]>>
  BY DEF AppendRecord, history
<1>2. CASE pc' = "idle"
  <2>1. AbsPending' = AbsPending
    BY <1>1, <1>2 DEF AbsPending, AppendPCs
  <2> QED
    BY <1>1, <1>2, <2>1, HiddenSteps DEF OpenPCs, RewritePCs
<1>3. CASE pc' = "append_write" /\ buffer' = <<[key |-> k, blob |-> b]>>
  <2>1. MappedUp /\ MappedUp'
    BY <1>1, <1>3, MapUp, MapUpNext
  <2>2. RollsBackTo' = RollsBackTo
    BY <1>1 DEF RollsBackTo, Confirmed
  <2>3. AbsPending = <<>> /\ AbsPending' = <<[key |-> k, blob |-> b]>>
    BY <1>1, <1>3 DEF AbsPending, AppendPCs
  <2>4. [key |-> k, blob |-> b] \in Durable!Record
    BY DEF Durable!Record, Blobs
  <2>5. Durable!BeginPut
    BY <1>1, <1>3, <2>1, <2>2, <2>3, <2>4
       DEF Durable!BeginPut, MappedUp, AbsStored, AbsPending,
           OpenPCs, RewritePCs, AppendPCs
  <2> QED
    BY <2>5 DEF Refines, Durable!Next
<1> QED
  BY <1>1, <1>2, <1>3

\* Until the index is updated nobody sees the append.
LEMMA WriteAppendRefines ==
  ASSUME AllInv, AllInv',
         WriteRecord \/ UpdateMeta \/ WriteCrcDigest \/ WriteActualSize
  PROVE  Refines
<1>1. /\ pc \in AppendPCs /\ pc' \in AppendPCs
      /\ UNCHANGED <<buffer, view, stored, logged>>
  BY DEF WriteRecord, UpdateMeta, WriteCrcDigest, WriteActualSize, AppendPCs,
         process, history
<1>2. crc[1] \in Meta
  BY <1>1, MetaWhileUp DEF AllInv, UpPCs
<1>3. /\ crc'[1].version = crc[1].version
      /\ crc'[1].lastConfirmedCRCDigest = crc[1].lastConfirmedCRCDigest
  BY <1>2 DEF WriteRecord, UpdateMeta, WriteCrcDigest, WriteActualSize, Meta
<1>4. AbsPending' = AbsPending
  BY <1>1 DEF AbsPending
<1> QED
  BY <1>1, <1>3, <1>4, HiddenSteps DEF AppendPCs, OpenPCs, RewritePCs

LEMMA IndexRecordRefines ==
  ASSUME AllInv, AllInv', IndexRecord
  PROVE  Refines
<1> DEFINE r == buffer[1]
<1>1. /\ pc = "append_index" /\ pc' = "idle"
      /\ view' = [view EXCEPT ![r.key] = r.blob]
      /\ stored' = IF logged THEN [stored EXCEPT ![r.key] = r.blob] ELSE stored
      /\ UNCHANGED <<crc, logged>>
  BY DEF IndexRecord, disk
<1>2. MappedUp /\ MappedUp'
  BY <1>1, MapUp, MapUpNext
<1>3. RollsBackTo' = RollsBackTo
  BY <1>1 DEF RollsBackTo, Confirmed
<1>4. /\ AbsPending = buffer /\ AbsPending' = <<>>
      /\ Len(buffer) = 1 /\ buffer # <<>>
  BY <1>1 DEF AbsPending, AppendPCs, AllInv, Inv, Room
<1>5. Durable!EndPut
  BY <1>1, <1>2, <1>3, <1>4
     DEF Durable!EndPut, Durable!Put, MappedUp, AbsStored, AbsPending,
         OpenPCs, RewritePCs, AppendPCs
<1> QED
  BY <1>5 DEF Refines, Durable!Next

-----------------------------------------------------------------------------
(***************************************************************************)
(* Every step is one that DurableMap allows, or none: doFullWriteback.     *)
(***************************************************************************)
LEMMA RewriteRefines ==
  ASSUME AllInv, AllInv', Compact \/ ClearAll
  PROVE  Refines
<1>1. /\ pc = "idle" /\ pc' \in {"idle", "rewrite_holder"}
      /\ UNCHANGED <<crc, stored, logged>>
      /\ view' \in {view, EmptyContents}
  BY DEF Compact, ClearAll, DoFullWriteback
<1>2. MappedUp /\ MappedUp'
  BY <1>1, MapUp, MapUpNext
<1>3. RollsBackTo' = RollsBackTo
  BY <1>1 DEF RollsBackTo, Confirmed
<1>4. AbsPending = <<>> /\ AbsPending' = <<>>
  BY <1>1 DEF AbsPending, AppendPCs
<1>5. CASE pc' = "rewrite_holder"
  <2>1. Durable!BeginRewrite
    BY <1>1, <1>2, <1>3, <1>4, <1>5
       DEF Durable!BeginRewrite, Durable!EmptyContents, EmptyContents,
           MappedUp, AbsStored, AbsPending, OpenPCs, RewritePCs, AppendPCs
  <2> QED
    BY <2>1 DEF Refines, Durable!Next
<1>6. CASE pc' = "idle" /\ view' = view
  BY <1>1, <1>4, <1>6, HiddenSteps DEF OpenPCs, RewritePCs
<1>7. CASE pc' = "idle" /\ view' = EmptyContents
  <2>1. Durable!FailClear
    BY <1>1, <1>2, <1>3, <1>4, <1>7
       DEF Durable!FailClear, Durable!EmptyContents, EmptyContents,
           MappedUp, AbsStored, AbsPending, OpenPCs, RewritePCs, AppendPCs
  <2> QED
    BY <2>1 DEF Refines, Durable!Next
<1> QED
  BY <1>1, <1>5, <1>6, <1>7

LEMMA CopyRefines ==
  ASSUME AllInv, AllInv', CopyHolder \/ CopyRecord \/ ConfirmMeta
  PROVE  Refines
<1>1. /\ pc \in RewritePCs /\ pc' \in RewritePCs
      /\ UNCHANGED <<crc, view, stored, logged>>
  BY DEF CopyHolder, CopyRecord, ConfirmMeta, RewritePCs, process, history
<1>2. AbsPending' = AbsPending
  BY <1>1 DEF AbsPending, RewritePCs, AppendPCs
<1> QED
  BY <1>1, <1>2, HiddenSteps DEF RewritePCs, OpenPCs

\* The recovery point is now what the view shows.
LEMMA SyncMetaRefines ==
  ASSUME AllInv, AllInv', SyncMeta
  PROVE  Refines
<1> DEFINE n == meta.actualSize
<1>1. /\ pc = "rewrite_sync" /\ pc' = "idle" /\ crc' = <<meta>>
      /\ map' = DecodeMap(data, n) /\ stored' = view /\ logged' = TRUE
      /\ UNCHANGED <<data, meta, view>>
  BY DEF SyncMeta
<1>2. MappedUp /\ MappedUp'
  BY <1>1, MapUp, MapUpNext
<1>3. /\ crc[1].version = meta.version
      /\ meta.lastConfirmedActualSize = n
      /\ Verifies(data, n, meta.lastConfirmedCRCDigest)
      /\ meta \in Meta
  BY <1>1 DEF AllInv, CrashInv, Staged, Overwritten, Inv, TypeOK,
              RecoveryPoint
<1>4. Lookup(data, DecodeMap(data, n)) = view
  BY <1>1 DEF AllInv, IndexInv, Serves, Yields, Lookup
<1>5. Confirmed(meta) = view
  BY <1>3, <1>4, ConfirmedLog DEF AllInv
<1>6. RollsBackTo' = IF RollsBackTo = {} THEN {} ELSE {view}
  <2>1. crc'[1] = meta
    BY <1>1
  <2>2. Confirmed(crc'[1]) = view
    BY <1>5, <2>1
  <2> QED
    BY <1>3, <2>1, <2>2 DEF RollsBackTo
<1>7. AbsPending = <<>> /\ AbsPending' = <<>>
  BY <1>1 DEF AbsPending, AppendPCs
<1>8. Durable!EndRewrite
  BY <1>1, <1>2, <1>6, <1>7
     DEF Durable!EndRewrite, MappedUp, AbsStored, AbsPending,
         OpenPCs, RewritePCs, AppendPCs
<1> QED
  BY <1>8 DEF Refines, Durable!Next

-----------------------------------------------------------------------------
(***************************************************************************)
(* Every step is one that DurableMap allows, or none: the process ends.    *)
(***************************************************************************)
\* What a process that ends leaves is what the files yield.
LEMMA ForgetMaps ==
  ASSUME AllInv, AllInv', pc # "closed", Forget
  PROVE  /\ MappedUp /\ MappedClosed'
         /\ view' = Durable!EmptyContents /\ AbsPending' = <<>>
         /\ RollsBackTo' = RollsBackTo
         /\ Openable' <=> Openable
         /\ DiskContents' = DiskContents
         /\ logged' = TRUE
         /\ PrimaryValid(data', header', crc'[1]) <=>
              PrimaryValid(data, header, crc[1])
<1>1. /\ pc' = "closed" /\ view' = EmptyContents /\ logged' = TRUE
      /\ UNCHANGED <<exists, data, header, crc>>
  BY DEF Forget, disk
<1>2. MappedUp /\ MappedClosed'
  BY <1>1, MapUp, MapClosedNext
<1>3. AbsPending' = <<>>
  BY <1>1 DEF AbsPending, AppendPCs
<1>4. RollsBackTo' = RollsBackTo
  BY <1>1 DEF RollsBackTo, Confirmed
<1>5. Openable' <=> Openable
  BY <1>1 DEF Openable
<1>6. DiskContents' = DiskContents
  BY <1>1, <1>5 DEF DiskContents
<1> QED
  BY <1>1, <1>2, <1>3, <1>4, <1>5, <1>6
     DEF Durable!EmptyContents, EmptyContents

\* What the process had stored is what they yield.
LEMMA KeptRefines ==
  ASSUME AllInv, AllInv', pc # "closed", Forget, Kept, pc \notin OpenPCs
  PROVE  Durable!Keep
<1>1. /\ MappedUp /\ MappedClosed' /\ Openable'
      /\ view' = Durable!EmptyContents /\ AbsPending' = <<>>
      /\ RollsBackTo' = RollsBackTo /\ DiskContents' = stored
      /\ PrimaryValid(data', header', crc'[1]) <=> logged
      /\ logged \in BOOLEAN
  BY ForgetMaps DEF Kept, OpensAt, AllInv, Inv, TypeOK
<1>2. Logged' = Logged
  BY <1>1 DEF MappedUp, MappedClosed, PrimaryValid, Verifies
<1> QED
  BY <1>1, <1>2
     DEF Durable!Keep, Durable!Stop, MappedUp, MappedClosed, AbsStored,
         AbsPending

\* They yield nothing.
LEMMA LostRefines ==
  ASSUME AllInv, AllInv', pc # "closed", Forget, ~Openable
  PROVE  Durable!Lose
<1>1. exists' /\ exists
  BY DEF Forget, disk, AllInv, DiskInv, Files
<1> QED
  BY <1>1, ForgetMaps
     DEF Durable!Lose, Durable!Stop, Durable!EmptyContents, EmptyContents,
         MappedClosed, AbsStored, AbsPending

\* They yield the append under way as well.
LEMMA StoredRefines ==
  ASSUME AllInv, AllInv', pc \in AppendPCs, Forget, Stored
  PROVE  Durable!CrashInPut
<1> DEFINE r == buffer[1]
<1>0. pc # "closed" /\ pc \notin OpenPCs /\ pc \notin RewritePCs
  BY DEF AppendPCs, OpenPCs, RewritePCs
<1>1. /\ MappedUp /\ MappedClosed' /\ Openable'
      /\ view' = Durable!EmptyContents /\ AbsPending' = <<>>
      /\ RollsBackTo' = RollsBackTo
      /\ DiskContents' = [stored EXCEPT ![r.key] = r.blob]
      /\ PrimaryValid(data', header', crc'[1]) /\ logged
      /\ logged \in BOOLEAN
  BY <1>0, ForgetMaps DEF Stored, OpensAt, AllInv, Inv, TypeOK
<1>2. Logged' = Logged
  BY <1>1 DEF MappedUp, MappedClosed, PrimaryValid, Verifies
<1>3. AbsPending = buffer /\ Len(buffer) = 1 /\ buffer # <<>>
  BY DEF AbsPending, AllInv, Inv, Room
<1> QED
  BY <1>0, <1>1, <1>2, <1>3
     DEF Durable!CrashInPut, Durable!Stop, Durable!Put, MappedUp,
         MappedClosed, AbsStored, AbsPending

\* They yield the recovery point.
LEMMA RolledBackRefines ==
  ASSUME AllInv, AllInv', pc \in AppendPCs, Forget, RolledBack
  PROVE  Durable!CrashInPut
<1>0. /\ pc # "closed" /\ pc \notin OpenPCs /\ pc \notin RewritePCs
      /\ pc \in UpPCs /\ pc # "rewrite_sync"
  BY DEF AppendPCs, OpenPCs, RewritePCs, UpPCs
<1>1. crc[1].version = meta.version
  BY <1>0 DEF AllInv, Inv, RecoveryPoint
<1>2. /\ MappedUp /\ MappedClosed' /\ Openable'
      /\ view' = Durable!EmptyContents /\ AbsPending' = <<>>
      /\ RollsBackTo' = RollsBackTo
      /\ RollsBackTo = {Confirmed(crc[1])}
      /\ DiskContents' = Confirmed(crc[1])
      /\ ~PrimaryValid(data', header', crc'[1])
  BY <1>0, <1>1, ForgetMaps DEF RolledBack, OpensAt, RollsBackTo
<1>3. Logged' = FALSE
  BY <1>2 DEF MappedClosed, PrimaryValid, Verifies
<1>4. AbsPending = buffer /\ Len(buffer) = 1 /\ buffer # <<>>
  BY DEF AbsPending, AllInv, Inv, Room
<1> QED
  BY <1>0, <1>2, <1>3, <1>4
     DEF Durable!CrashInPut, Durable!Stop, MappedUp,
         MappedClosed, AbsStored, AbsPending

LEMMA AppendCrashRefines ==
  ASSUME AllInv, AllInv', pc \in AppendPCs, Forget
  PROVE  Durable!CrashInPut
<1>0. /\ pc # "closed" /\ pc \notin OpenPCs /\ pc \notin RewritePCs
      /\ pc \in WorkingPCs /\ pc # "rewrite_holder"
  BY DEF AppendPCs, OpenPCs, RewritePCs, WorkingPCs
<1>1. Outcome
  BY CrashOutcome DEF AllInv
<1>2. CASE Kept
  <2>1. Durable!Keep
    BY <1>0, <1>2, KeptRefines
  <2>2. AbsPending = buffer /\ Len(buffer) = 1 /\ buffer # <<>>
    BY DEF AbsPending, AllInv, Inv, Room
  <2>3. Status = "open"
    BY <1>0, MapUp DEF MappedUp
  <2> QED
    BY ONLY <2>1, <2>2, <2>3 DEF Durable!CrashInPut, AbsPending
<1>3. CASE pc = "append_digest" /\ meta.version < 3
  <2>1. ~Openable
    BY <1>1, <1>3 DEF Outcome, AllInv, Inv, TypeOK, Meta
  <2>2. Durable!Lose
    BY <1>0, <2>1, LostRefines
  <2>3. MappedUp
    BY <1>0, MapUp
  <2>4. RollsBackTo = {}
    <3>1. /\ crc[1].version = meta.version /\ crc[1].version # 2
          /\ crc[1].version \in 0 .. 4
      BY <1>0, WorkingFacts DEF AllInv
    <3> QED
      BY <1>3, <3>1 DEF RollsBackTo
  <2>5. AbsPending = buffer /\ Len(buffer) = 1 /\ buffer # <<>>
    BY DEF AbsPending, AllInv, Inv, Room
  <2> QED
    BY <1>0, <2>2, <2>3, <2>4, <2>5
       DEF Durable!CrashInPut, MappedUp, AbsPending
<1>4. Kept \/ Stored \/ RolledBack \/ (pc = "append_digest" /\ meta.version < 3)
  <2>1. meta.version \in 0 .. 4
    BY DEF AllInv, Inv, TypeOK, Meta
  <2> QED
    BY <1>1, <2>1 DEF Outcome, AppendPCs
<1> QED
  BY <1>2, <1>3, <1>4, StoredRefines, RolledBackRefines

LEMMA CrashRefines ==
  ASSUME AllInv, AllInv', Close \/ Crash
  PROVE  Refines
<1>0. pc # "closed" /\ Forget
  BY DEF Close, Crash
<1>1. Outcome /\ MappedUp
  BY <1>0, CrashOutcome, MapUp DEF AllInv
<1>2. CASE pc = "idle"
  <2>1. Durable!Keep
    BY <1>0, <1>1, <1>2, KeptRefines DEF Outcome, OpenPCs
  <2>2. Durable!End
    BY <1>1, <1>2, <2>1
       DEF Durable!End, MappedUp, AbsPending, OpenPCs, RewritePCs, AppendPCs
  <2> QED
    BY <2>2 DEF Refines, Durable!Next
<1>3. CASE pc \in AppendPCs
  BY <1>0, <1>3, AppendCrashRefines DEF Refines, Durable!Next
<1>4. CASE pc \in RewritePCs
  <2>1. Durable!Keep \/ Durable!Lose
    <3>1. Kept \/ ~Openable
      BY <1>1, <1>4 DEF Outcome, RewritePCs
    <3>2. pc \notin OpenPCs
      BY <1>4 DEF RewritePCs, OpenPCs
    <3> QED
      BY <1>0, <3>1, <3>2, KeptRefines, LostRefines
  <2>2. Status = "rewriting"
    BY <1>1, <1>4 DEF MappedUp, OpenPCs, RewritePCs
  <2> QED
    BY <2>1, <2>2 DEF Refines, Durable!Next, Durable!CrashInRewrite
<1>5. CASE pc \in OpenPCs
  <2>1. ~Openable
    BY <1>1, <1>5 DEF Outcome, OpenPCs
  <2>2. Durable!Lose /\ Status = "creating"
    BY <1>0, <1>1, <1>5, <2>1, LostRefines DEF MappedUp
  <2> QED
    BY <2>2 DEF Refines, Durable!Next, Durable!CrashInCreate
<1> QED
  BY <1>0, <1>2, <1>3, <1>4, <1>5 DEF AllInv, Inv, TypeOK, PCs

-----------------------------------------------------------------------------
(***************************************************************************)
(* The theorem.                                                            *)
(***************************************************************************)
LEMMA NextRefines ==
  ASSUME AllInv, AllInv', [Next]_vars
  PROVE  Refines
<1>1. CASE \/ CreateData \/ TruncateData \/ InitData \/ CreateCrc
           \/ WriteInitialMeta \/ OpenExisting
  BY <1>1, CreateDataRefines, MakeFilesRefines, WriteInitialMetaRefines,
     OpenExistingRefines
<1>2. CASE OpenRefused \/ UNCHANGED vars
  BY <1>2, StutterRefines DEF OpenRefused
<1>3. CASE \/ \E k \in Keys, b \in Blobs : Set(k, b)
           \/ \E k \in Keys : Remove(k)
  <2>1. Empty \in Blobs
    BY DEF Blobs
  <2> QED
    BY <1>3, <2>1, AppendRefines DEF Set, Remove
<1>4. CASE \/ WriteRecord \/ UpdateMeta \/ WriteCrcDigest \/ WriteActualSize
           \/ IndexRecord
  BY <1>4, WriteAppendRefines, IndexRecordRefines
<1>5. CASE \/ Compact \/ ClearAll
           \/ CopyHolder \/ CopyRecord \/ ConfirmMeta \/ SyncMeta
  BY <1>5, RewriteRefines, CopyRefines, SyncMetaRefines
<1>6. CASE Close \/ Crash
  BY <1>6, CrashRefines
<1> QED
  BY <1>1, <1>2, <1>3, <1>4, <1>5, <1>6 DEF Next

\* Whatever the writer does and wherever it dies, a client sees what
\* DurableMap allows: a crash inside an append yields the old contents, the
\* new ones or the last rewrite's, one between two calls loses nothing, and
\* only a rewrite or the making of the files can leave a store that nobody
\* opens again (writer.cpp:293-442, data_validator.cpp), as long as no mmap
\* fails.
THEOREM WriterImplementsDurableMap ==
  ASSUME ~MmapMayFail
  PROVE  Spec => ImplementsDurableMap
<1>1. Init => AllInv
  BY InitInv, InitIndexInv, InitDiskInv, InitCrashInv DEF AllInv
<1>2. AllInv /\ [Next]_vars => AllInv'
  BY NextInv, NextIndexInv, NextDiskInv, NextCrashInv DEF AllInv
<1>3. Init => Durable!Init
  BY InitRefines
<1>4. AllInv /\ AllInv' /\ [Next]_vars => [Durable!Next]_(Durable!vars)
  BY NextRefines DEF Refines
<1> QED
  BY <1>1, <1>2, <1>3, <1>4, PTL DEF Spec, ImplementsDurableMap, Durable!Spec
=============================================================================
