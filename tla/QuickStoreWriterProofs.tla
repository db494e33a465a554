----------------------- MODULE QuickStoreWriterProofs -----------------------
(***************************************************************************)
(* Theorems about QuickStoreWriter, for every set of keys and values,      *)
(* every capacity and every set of legacy versions: first those that hold  *)
(* whether or not mmap may fail, and then those that need it not to.       *)
(*                                                                         *)
(* TypeOK is not inductive (ComputeCRC is typed only where the log fits    *)
(* the file), and neither is RecoverableWhileUp: that a file which verifies *)
(* by its current size also verifies by its recovery point is not visible  *)
(* in one state of the process.  What makes it so is that the recovery     *)
(* digest is at all times a prefix of the current one, on disk and in      *)
(* memory (Extends), and that the recovery point never lies beyond the     *)
(* place where the next record is written (RecoveryPoint).                 *)
(***************************************************************************)
EXTENDS QuickStoreWriter, DataFileProofs

-----------------------------------------------------------------------------
\* What a rewrite copies is a sequence of records.
LEMMA PreparedDataType ==
  ASSUME NEW index, NEW s \in PreparedData(index)
  PROVE  s \in Seq(Record)
<1>1. LiveKeys(index) \in SUBSET Keys
  BY DEF LiveKeys
<1>2. Cardinality(LiveKeys(index)) \in Nat
  BY <1>1, KeysAssumption, FS_Subset, FS_CardinalityType
<1> DEFINE n == Cardinality(LiveKeys(index))
<1>3. PICK o \in Orderings(LiveKeys(index)) :
        s = [i \in 1 .. n |->
               [key |-> o[i], blob |-> ValueBlob(data, index[o[i]])]]
  BY DEF PreparedData
<1>4. \A i \in 1 .. n : o[i] \in Keys
  BY <1>1 DEF Orderings
<1>5. \A i \in 1 .. n :
        [key |-> o[i], blob |-> ValueBlob(data, index[o[i]])] \in Record
  BY <1>4, ValueBlobType DEF Record
<1>6. s \in [1 .. n -> Record]
  BY <1>3, <1>5
<1> QED
  BY <1>2, <1>6, SeqDef

-----------------------------------------------------------------------------
(***************************************************************************)
(* The inductive invariant.                                                *)
(***************************************************************************)
UpPCs == {"idle"} \cup AppendPCs \cup RewritePCs

\* The log, and what ensureSpace has reserved, fit the file.
Room ==
  /\ pc \in {"new_init", "new_crc", "new_meta"} => 1 <= Len(data)
  /\ pc \in {"new_crc", "new_meta"} => meta.actualSize <= Len(data)
  /\ pc \in UpPCs => meta.actualSize <= Len(data)
  /\ pc \in AppendPCs => Len(buffer) = 1
  /\ pc \in {"append_write", "append_meta"} =>
       mapped /\ meta.actualSize + 1 <= Len(data)
  /\ pc \in {"rewrite_holder", "rewrite_copy", "rewrite_meta"} =>
       mapped /\ ItemSizeHolder + Len(buffer) <= Len(data)
  /\ pc = "rewrite_copy" => copied < Len(buffer)
  /\ pc # "rewrite_copy" /\ pc # "rewrite_meta" /\ pc # "rewrite_sync" =>
       copied = 0

\* The recovery point in memory is the one on disk, and, unless a rewrite has
\* begun to overwrite it, it verifies and lies inside the log.
RecoveryPoint ==
  /\ pc \in UpPCs => Len(crc) = 1
  /\ pc \in UpPCs \ {"rewrite_sync"} =>
       /\ crc[1].version = meta.version
       /\ crc[1].lastConfirmedActualSize = meta.lastConfirmedActualSize
       /\ crc[1].lastConfirmedCRCDigest = meta.lastConfirmedCRCDigest
  /\ pc \in {"new_crc", "new_meta", "idle", "rewrite_sync"} \cup AppendPCs =>
       /\ meta.lastConfirmedActualSize <= meta.actualSize
       /\ Verifies(data, meta.lastConfirmedActualSize,
                   meta.lastConfirmedCRCDigest)

Inv == /\ TypeOK
       /\ \A i \in 1 .. Len(crc) : Extends(crc[i])
       /\ Extends(meta)
       /\ Room
       /\ RecoveryPoint

\* ensureSpace keeps the log, and when it returns true there is a mapping with
\* room for what was asked.
LEMMA EnsureSpaceProperties ==
  ASSUME TypeOK, meta.actualSize <= Len(data),
         NEW needed \in Nat \ {0}, NEW ok \in BOOLEAN, EnsureSpace(needed, ok)
  PROVE  /\ data' \in Seq(Cell)
         /\ mapped' \in BOOLEAN
         /\ meta.actualSize <= Len(data')
         /\ \A i \in 1 .. meta.actualSize : data'[i] = data[i]
         /\ ok => mapped' /\ meta.actualSize + needed <= Len(data')
<1> USE DEF TypeOK, HeaderSize
<1>1. meta.actualSize \in Nat /\ Len(data) \in Nat /\ Capacity \in Nat
  BY LenProperties DEF Meta, Capacity
<1>2. CASE FreeSpace >= needed /\ ok /\ UNCHANGED <<data, mapped>>
  BY <1>1, <1>2 DEF FreeSpace, Capacity
<1>3. CASE FreeSpace < needed /\ \E c \in NewCapacities(needed) : Grow(c, ok)
  <2>1. PICK c \in NewCapacities(needed) : Grow(c, ok)
    BY <1>3
  <2>2. c \in Nat /\ c - HeaderSize >= meta.actualSize + needed
    <3> DEFINE start == IF Capacity = 0 THEN InitialCapacity ELSE Capacity
    <3>1. start \in Nat /\ meta.actualSize + needed \in Nat
      BY <1>1, CapacityAssumption
    <3>2. c \in GrownCapacities(start, meta.actualSize + needed, MaxCapacity)
      BY <2>1 DEF NewCapacities
    <3> HIDE DEF start
    <3> QED
      BY <3>1, <3>2, GrownCapacitiesBound, CapacityAssumption
  <2>3. c - HeaderSize \in Nat
    BY <1>1, <2>2
  <2>4. data' = Resize(data, c - HeaderSize) /\ mapped' = ok
    BY <2>1 DEF Grow
  <2>5. /\ data' \in Seq(Cell)
        /\ Len(data') = c - HeaderSize
        /\ \A i \in 1 .. c - HeaderSize : i <= Len(data) => data'[i] = data[i]
    BY <2>3, <2>4, ResizeProperties
  <2> QED
    BY <1>1, <2>2, <2>4, <2>5
<1>4. CASE FreeSpace < needed /\ ~ok /\ UNCHANGED <<data, mapped>>
  BY <1>4
<1> QED
  BY <1>2, <1>3, <1>4 DEF EnsureSpace

LEMMA InitInv == Init => Inv
<1> SUFFICES ASSUME Init PROVE Inv
  OBVIOUS
<1>1. ZeroMeta \in Meta /\ Extends(ZeroMeta)
  BY ZeroMetaProperties
<1>2. EmptyContents \in Contents
  BY DEF EmptyContents, Contents, Blobs
<1>3. /\ exists \in BOOLEAN
      /\ data \in Seq(Cell)
      /\ header \in Nat
      /\ crc \in Seq(Meta) /\ Len(crc) <= 1
      /\ \A i \in 1 .. Len(crc) : Extends(crc[i])
  <2>1. CASE NoFiles
    <3>1. exists = FALSE /\ data = <<>> /\ header = 0 /\ crc = <<>>
      BY <2>1 DEF NoFiles
    <3>2. <<>> \in Seq(Cell) /\ <<>> \in Seq(Meta) /\ Len(<<>>) = 0
      BY EmptySeq
    <3>3. 1 .. Len(crc) = {}
      BY <3>1, <3>2
    <3>4. \A i \in 1 .. Len(crc) : Extends(crc[i])
      BY <3>3
    <3>5. crc \in Seq(Meta) /\ Len(crc) <= 1
      BY <3>1, <3>2
    <3>6. exists \in BOOLEAN /\ data \in Seq(Cell) /\ header \in Nat
      BY <3>1, <3>2
    <3> QED
      BY <3>4, <3>5, <3>6
  <2>2. CASE LegacyFiles
    <3>1. PICK v \in LegacyVersions, k \in Keys, b \in Values :
            LET cells == <<[seed |-> 1], [key |-> k, blob |-> b]>>
            IN  /\ exists = TRUE
                /\ data = Resize(cells, InitialCapacity - HeaderSize)
                /\ header = 2
                /\ crc = <<LegacyMeta(v, cells)>>
      BY <2>2 DEF LegacyFiles
    <3> DEFINE cells == <<[seed |-> 1], [key |-> k, blob |-> b]>>
    <3>2. [key |-> k, blob |-> b] \in Cell /\ [seed |-> 1] \in Cell
      BY CellMembers DEF Record, Blobs
    <3>3. cells \in Seq(Cell) /\ Len(cells) = 2
      BY <3>2
    <3>4. data \in Seq(Cell)
      <4>1. InitialCapacity - HeaderSize \in Nat
        BY CapacityAssumption DEF HeaderSize
      <4> QED
        BY <3>1, <3>3, <4>1, ResizeProperties
    <3> HIDE DEF cells
    <3>5. LegacyMeta(v, cells) \in Meta /\ Extends(LegacyMeta(v, cells))
      <4>1. CASE v = 1
        BY <4>1, <3>3, EmptySeq DEF LegacyMeta, Meta, Extends
      <4>2. CASE v # 1
        <5>1. v \in {3, 4}
          BY <4>2, LegacyAssumption
        <5>2. /\ ComputeCRC(cells, 1) \in Seq(Cell)
              /\ Len(ComputeCRC(cells, 1)) = 1
              /\ \A i \in 1 .. 1 : ComputeCRC(cells, 1)[i] = cells[i]
          <6>1. 1 \in 0 .. Len(cells)
            BY <3>3
          <6> QED
            BY ONLY <3>3, <6>1, ComputeCRCProperties
        <5> QED
          BY <4>2, <5>1, <5>2, <3>3 DEF LegacyMeta, Meta, Extends
      <4> QED
        BY <4>1, <4>2
    <3> QED
      BY <3>1, <3>4, <3>5 DEF cells
  <2> QED
    BY <2>1, <2>2 DEF Init
<1>4. TypeOK
  <2>1. map \in [Keys -> Nat] /\ copied \in Nat /\ buffer \in Seq(Record)
    BY EmptySeq DEF Init
  <2>2. pc \in PCs /\ mapped \in BOOLEAN /\ logged \in BOOLEAN
    BY DEF Init, PCs
  <2>3. meta \in Meta /\ view \in Contents /\ stored \in Contents
    BY <1>1, <1>2 DEF Init
  <2> QED
    BY <1>3, <2>1, <2>2, <2>3 DEF TypeOK
<1>5. Room /\ RecoveryPoint
  BY DEF Init, Room, RecoveryPoint, UpPCs, AppendPCs, RewritePCs
<1> QED
  BY <1>1, <1>3, <1>4, <1>5 DEF Inv, Init

-----------------------------------------------------------------------------
(***************************************************************************)
(* Every action preserves the invariant: open().                           *)
(***************************************************************************)
LEMMA CreateDataInv == Inv /\ CreateData => Inv'
<1> SUFFICES ASSUME Inv, CreateData PROVE Inv'
  OBVIOUS
<1> USE DEF Inv, CreateData, process, history
<1>1. TypeOK'
  BY DEF TypeOK, PCs, OpenPCs
<1>2. (\A i \in 1 .. Len(crc) : Extends(crc[i]))' /\ Extends(meta)'
  BY DEF Extends
<1>3. Room' /\ RecoveryPoint'
  BY DEF Room, RecoveryPoint, UpPCs, AppendPCs, RewritePCs
<1> QED
  BY <1>1, <1>2, <1>3

LEMMA TruncateDataInv == Inv /\ TruncateData => Inv'
<1> SUFFICES ASSUME Inv, TruncateData PROVE Inv'
  OBVIOUS
<1> USE DEF Inv, TruncateData, history
<1>1. InitialCapacity - HeaderSize \in Nat /\ 1 <= InitialCapacity - HeaderSize
  BY CapacityAssumption DEF HeaderSize
<1>2. data' \in Seq(Cell) /\ Len(data') = InitialCapacity - HeaderSize
  BY <1>1, ResizeProperties DEF TypeOK
<1>3. TypeOK'
  BY <1>2 DEF TypeOK, PCs, OpenPCs
<1>4. (\A i \in 1 .. Len(crc) : Extends(crc[i]))' /\ Extends(meta)'
  BY DEF Extends
<1>5. Room' /\ RecoveryPoint'
  BY <1>1, <1>2 DEF Room, RecoveryPoint, UpPCs, AppendPCs, RewritePCs
<1> QED
  BY <1>3, <1>4, <1>5

LEMMA InitDataInv == Inv /\ InitData => Inv'
<1> SUFFICES ASSUME Inv, InitData PROVE Inv'
  OBVIOUS
<1> USE DEF Inv, InitData, history
<1>1. data' \in Seq(Cell) /\ Len(data') = Len(data) /\ Len(data) \in Nat
  BY CellMembers, StoreCell, LenProperties DEF TypeOK
<1>2. 1 \in 0 .. Len(data')
  BY <1>1 DEF Room
<1>3. /\ ComputeCRC(data', 1) \in Seq(Cell)
      /\ Len(ComputeCRC(data', 1)) = 1
      /\ \A i \in 1 .. 1 : ComputeCRC(data', 1)[i] = data'[i]
  BY ONLY <1>1, <1>2, ComputeCRCProperties
<1>4. meta' \in Meta /\ Extends(meta)'
  BY <1>3 DEF Meta, Extends
<1>5. TypeOK'
  BY <1>1, <1>4 DEF TypeOK, PCs, OpenPCs
<1>6. (\A i \in 1 .. Len(crc) : Extends(crc[i]))'
  BY DEF Extends
<1>7. /\ meta'.actualSize = 1
      /\ meta'.lastConfirmedActualSize = 1
      /\ meta'.lastConfirmedCRCDigest = ComputeCRC(data', 1)
      /\ pc = "new_init" /\ pc' = "new_crc" /\ copied' = copied
  OBVIOUS
<1>8. 1 <= Len(data)' /\ (copied = 0)'
  BY <1>2 DEF Room
<1> HIDE DEF InitData
<1>9. Room'
  BY <1>7, <1>8 DEF Room, UpPCs, AppendPCs, RewritePCs
<1>10. RecoveryPoint'
  BY <1>1, <1>3, <1>7, <1>8
     DEF RecoveryPoint, UpPCs, AppendPCs, RewritePCs, Verifies
<1> QED
  BY <1>4, <1>5, <1>6, <1>9, <1>10

LEMMA CreateCrcInv == Inv /\ CreateCrc => Inv'
<1> SUFFICES ASSUME Inv, CreateCrc PROVE Inv'
  OBVIOUS
<1> USE DEF Inv, CreateCrc, process, history
<1>1. crc' \in Seq(Meta) /\ Len(crc') = 1 /\ Extends(crc'[1])
  BY ZeroMetaProperties
<1>2. TypeOK'
  BY <1>1 DEF TypeOK, PCs, OpenPCs
<1>3. (\A i \in 1 .. Len(crc) : Extends(crc[i]))' /\ Extends(meta)'
  BY <1>1 DEF Extends
<1>4. Room' /\ RecoveryPoint'
  BY DEF Room, RecoveryPoint, UpPCs, AppendPCs, RewritePCs
<1> QED
  BY <1>2, <1>3, <1>4

LEMMA WriteInitialMetaInv == Inv /\ WriteInitialMeta => Inv'
<1> SUFFICES ASSUME Inv, WriteInitialMeta PROVE Inv'
  OBVIOUS
<1> USE DEF Inv, WriteInitialMeta, process, history
<1>1. crc' \in Seq(Meta) /\ Len(crc') = 1 /\ crc'[1] = meta
  BY DEF TypeOK
<1>2. TypeOK'
  BY <1>1 DEF TypeOK, PCs
<1>3. (\A i \in 1 .. Len(crc) : Extends(crc[i]))' /\ Extends(meta)'
  BY <1>1 DEF Extends
<1>4. Room' /\ RecoveryPoint'
  BY <1>1 DEF Room, RecoveryPoint, UpPCs, AppendPCs, RewritePCs
<1> QED
  BY <1>2, <1>3, <1>4

LEMMA OpenExistingInv == Inv /\ OpenExisting => Inv'
<1> SUFFICES ASSUME Inv, OpenExisting PROVE Inv'
  OBVIOUS
<1> USE DEF Inv, OpenExisting
<1> DEFINE m    == crc[1]
           size == CheckDataValid(data, header, m).effectiveActualSize
<1>1. m \in Meta /\ Extends(m) /\ Len(crc) = 1
  <2>1. crc \in Seq(Meta) /\ Len(crc) \in Nat /\ Len(crc) = 1
    <3>1. Len(crc) > 0
      BY DEF Openable
    <3>2. crc \in Seq(Meta) /\ Len(crc) <= 1
      BY DEF TypeOK
    <3> QED
      BY ONLY <3>1, <3>2, LenProperties
  <2>2. 1 \in 1 .. Len(crc)
    BY <2>1
  <2> QED
    BY <2>1, <2>2, ElementOfSeq
<1>2. size \in Nat /\ size <= Len(data)
  BY <1>1, CheckDataValidBound DEF TypeOK, Openable
<1>3. /\ m.lastConfirmedActualSize <= size
      /\ Verifies(data, m.lastConfirmedActualSize, m.lastConfirmedCRCDigest)
  <2>1. CASE PrimaryValid(data, header, m)
    <3>1. size = CandidateSize(m, header)
      BY <2>1 DEF CheckDataValid
    <3> HIDE DEF size, m
    <3> QED
      BY <1>1, <1>2, <2>1, <3>1, PrimaryExtends DEF PrimaryValid, TypeOK
  <2>2. CASE ~PrimaryValid(data, header, m)
    <3>1. ConfirmedValid(data, m) /\ size = m.lastConfirmedActualSize
      BY <2>2 DEF CheckDataValid, Openable
    <3> HIDE DEF size
    <3> QED
      BY <1>2, <3>1 DEF ConfirmedValid
  <2> QED
    BY <2>1, <2>2
<1>4. /\ meta' \in Meta
      /\ meta'.actualSize = size
      /\ meta'.version = m.version
      /\ meta'.crcDigest = m.crcDigest
      /\ meta'.lastConfirmedActualSize = m.lastConfirmedActualSize
      /\ meta'.lastConfirmedCRCDigest = m.lastConfirmedCRCDigest
  <2>1. meta' = [m EXCEPT !.actualSize = size]
    OBVIOUS
  <2> HIDE DEF size, m
  <2> QED
    BY <1>1, <1>2, <2>1 DEF Meta
<1>5. /\ map' \in [Keys -> Nat]
      /\ view' \in Contents /\ stored' \in Contents
      /\ logged' \in BOOLEAN
  <2>1. map' \in [Keys -> Nat]
    BY <1>2, DecodeMapType
  <2>2. view' \in Contents /\ stored' \in Contents
    BY LookupType
  <2>3. logged' \in BOOLEAN
    BY DEF PrimaryValid, Verifies
  <2> QED
    BY <2>1, <2>2, <2>3
<1>6. UNCHANGED <<exists, data, header, crc, buffer, copied>>
  BY DEF disk
<1>7. pc = "closed" /\ pc' = "idle" /\ mapped' = TRUE
  OBVIOUS
<1> HIDE DEF OpenExisting, size
<1>8. TypeOK'
  BY <1>4, <1>5, <1>6, <1>7 DEF TypeOK, PCs
<1>9. (\A i \in 1 .. Len(crc) : Extends(crc[i]))' /\ Extends(meta)'
  BY <1>1, <1>4, <1>6 DEF Extends
<1>10. Room'
  BY <1>2, <1>4, <1>6, <1>7
     DEF Room, UpPCs, AppendPCs, RewritePCs
<1>11. RecoveryPoint'
  BY <1>1, <1>2, <1>3, <1>4, <1>6, <1>7
     DEF RecoveryPoint, UpPCs, AppendPCs, RewritePCs
<1> QED
  BY <1>8, <1>9, <1>10, <1>11

-----------------------------------------------------------------------------
(***************************************************************************)
(* Every action preserves the invariant: appendRecord.                     *)
(***************************************************************************)
\* ensureSpace at the start of an operation keeps the recovery point, too.
LEMMA EnsureSpaceInv ==
  ASSUME Inv, pc = "idle", NEW needed \in Nat \ {0}, NEW ok \in BOOLEAN,
         EnsureSpace(needed, ok)
  PROVE  /\ data' \in Seq(Cell)
         /\ mapped' \in BOOLEAN
         /\ meta.actualSize <= Len(data')
         /\ ok => mapped' /\ meta.actualSize + needed <= Len(data')
         /\ meta.lastConfirmedActualSize <= meta.actualSize
         /\ Verifies(data', meta.lastConfirmedActualSize,
                     meta.lastConfirmedCRCDigest)
<1>1. TypeOK /\ meta.actualSize <= Len(data)
  BY DEF Inv, Room, UpPCs
<1>2. /\ data' \in Seq(Cell)
      /\ mapped' \in BOOLEAN
      /\ meta.actualSize <= Len(data')
      /\ \A i \in 1 .. meta.actualSize : data'[i] = data[i]
      /\ ok => mapped' /\ meta.actualSize + needed <= Len(data')
  BY <1>1, EnsureSpaceProperties
<1>3. /\ meta.lastConfirmedActualSize <= meta.actualSize
      /\ Verifies(data, meta.lastConfirmedActualSize,
                  meta.lastConfirmedCRCDigest)
  BY DEF Inv, RecoveryPoint
<1>4. /\ data \in Seq(Cell)
      /\ meta.actualSize \in Nat /\ meta.lastConfirmedActualSize \in Nat
  BY <1>1 DEF TypeOK, Meta
<1> QED
  BY <1>2, <1>3, <1>4, VerifiesKept

LEMMA AppendRecordInv ==
  ASSUME Inv, NEW k \in Keys, NEW b \in Blobs, AppendRecord(k, b)
  PROVE  Inv'
<1>1. pc = "idle" /\ UNCHANGED <<exists, header, crc, meta, map, copied, history>>
  BY DEF AppendRecord
<1>2. PICK ok \in BOOLEAN :
        /\ EnsureSpace(1, ok)
        /\ buffer' = IF ok THEN <<[key |-> k, blob |-> b]>> ELSE <<>>
        /\ pc' = IF ok THEN "append_write" ELSE "idle"
  BY DEF AppendRecord
<1>3. /\ data' \in Seq(Cell)
      /\ mapped' \in BOOLEAN
      /\ meta.actualSize <= Len(data')
      /\ ok => mapped' /\ meta.actualSize + 1 <= Len(data')
      /\ meta.lastConfirmedActualSize <= meta.actualSize
      /\ Verifies(data', meta.lastConfirmedActualSize,
                  meta.lastConfirmedCRCDigest)
  <2>1. 1 \in Nat \ {0}
    OBVIOUS
  <2> QED
    BY <1>1, <1>2, <2>1, EnsureSpaceInv
<1>4. buffer' \in Seq(Record) /\ (ok => Len(buffer') = 1)
  <2>1. [key |-> k, blob |-> b] \in Record
    BY DEF Record
  <2> QED
    BY <1>2, <2>1, EmptySeq
<1>5. TypeOK'
  BY <1>1, <1>2, <1>3, <1>4 DEF Inv, TypeOK, PCs, AppendPCs, history
<1>6. (\A i \in 1 .. Len(crc) : Extends(crc[i]))' /\ Extends(meta)'
  BY <1>1 DEF Inv, Extends
<1>7. Room'
  BY <1>1, <1>2, <1>3, <1>4 DEF Inv, Room, UpPCs, AppendPCs, RewritePCs
<1>8. RecoveryPoint'
  BY <1>1, <1>2, <1>3 DEF Inv, RecoveryPoint, UpPCs, AppendPCs, RewritePCs
<1> QED
  BY <1>5, <1>6, <1>7, <1>8 DEF Inv

LEMMA WriteRecordInv == Inv /\ WriteRecord => Inv'
<1> SUFFICES ASSUME Inv, WriteRecord PROVE Inv'
  OBVIOUS
<1>1. /\ pc = "append_write" /\ pc' = "append_meta"
      /\ UNCHANGED <<exists, header, crc, process, history>>
  BY DEF WriteRecord
<1>2. /\ data \in Seq(Cell) /\ buffer[1] \in Cell
      /\ meta.actualSize \in Nat /\ meta.lastConfirmedActualSize \in Nat
      /\ meta.actualSize + 1 \in Nat /\ meta.actualSize <= Len(data)
  <2>1. Len(buffer) = 1 /\ buffer \in Seq(Record)
    BY <1>1 DEF Inv, Room, AppendPCs, TypeOK
  <2>2. buffer[1] \in Record
    BY <2>1, ElementOfSeq
  <2>3. meta.actualSize <= Len(data)
    BY <1>1 DEF Inv, Room, UpPCs, AppendPCs
  <2> QED
    BY <2>2, <2>3, CellMembers DEF Inv, TypeOK, Meta
<1>3. /\ data' \in Seq(Cell) /\ Len(data') = Len(data)
      /\ \A i \in 1 .. meta.actualSize : data'[i] = data[i]
  <2>1. data' = [data EXCEPT ![meta.actualSize + 1] = buffer[1]]
    BY DEF WriteRecord
  <2> QED
    BY <1>2, <2>1, StoreCell, LenProperties
<1>4. /\ meta.lastConfirmedActualSize <= meta.actualSize
      /\ Verifies(data', meta.lastConfirmedActualSize,
                  meta.lastConfirmedCRCDigest)
  <2>1. /\ meta.lastConfirmedActualSize <= meta.actualSize
        /\ Verifies(data, meta.lastConfirmedActualSize,
                    meta.lastConfirmedCRCDigest)
    BY <1>1 DEF Inv, RecoveryPoint, AppendPCs
  <2> QED
    BY <1>2, <1>3, <2>1, VerifiesKept
<1>5. TypeOK'
  BY <1>1, <1>3 DEF Inv, TypeOK, PCs, AppendPCs, process, history
<1>6. (\A i \in 1 .. Len(crc) : Extends(crc[i]))' /\ Extends(meta)'
  BY <1>1 DEF Inv, Extends, process
<1>7. Room'
  BY <1>1, <1>3 DEF Inv, Room, UpPCs, AppendPCs, RewritePCs, process
<1>8. RecoveryPoint'
  BY <1>1, <1>4
     DEF Inv, RecoveryPoint, UpPCs, AppendPCs, RewritePCs, process
<1> QED
  BY <1>5, <1>6, <1>7, <1>8 DEF Inv

\* How an append updates a meta record.
LEMMA MetaUpdates ==
  ASSUME NEW m \in Meta, NEW d \in Seq(Cell), NEW n \in Nat
  PROVE  /\ [m EXCEPT !.crcDigest = d] \in Meta
         /\ [m EXCEPT !.crcDigest = d, !.actualSize = n] \in Meta
BY DEF Meta

LEMMA UpdateMetaInv == Inv /\ UpdateMeta => Inv'
<1> SUFFICES ASSUME Inv, UpdateMeta PROVE Inv'
  OBVIOUS
<1>1. /\ pc = "append_meta" /\ pc' = "append_digest"
      /\ header' = meta'.actualSize
      /\ meta' = [meta EXCEPT !.crcDigest  = Append(meta.crcDigest, buffer[1]),
                              !.actualSize = meta.actualSize + 1]
      /\ UNCHANGED <<exists, data, crc, mapped, map, buffer, copied, history>>
  BY DEF UpdateMeta, UpdateCRC
<1>2. meta \in Meta /\ Extends(meta) /\ buffer[1] \in Cell
  <2>1. Len(buffer) = 1 /\ buffer \in Seq(Record)
    BY <1>1 DEF Inv, Room, AppendPCs, TypeOK
  <2>2. buffer[1] \in Record
    BY <2>1, ElementOfSeq
  <2> QED
    BY <2>2, CellMembers DEF Inv, TypeOK
<1>3. /\ meta' \in Meta
      /\ meta'.actualSize = meta.actualSize + 1
      /\ meta'.version = meta.version
      /\ meta'.crcDigest = Append(meta.crcDigest, buffer[1])
      /\ meta'.lastConfirmedActualSize = meta.lastConfirmedActualSize
      /\ meta'.lastConfirmedCRCDigest = meta.lastConfirmedCRCDigest
  <2> DEFINE d == Append(meta.crcDigest, buffer[1])
             n == meta.actualSize + 1
  <2>1. d \in Seq(Cell) /\ n \in Nat
    BY <1>2 DEF Meta
  <2>2. meta' = [meta EXCEPT !.crcDigest = d, !.actualSize = n]
    BY <1>1
  <2> HIDE DEF d, n
  <2>3. meta' \in Meta
    BY <1>2, <2>1, <2>2, MetaUpdates
  <2>4. /\ meta'.actualSize = n /\ meta'.crcDigest = d
        /\ meta'.version = meta.version
        /\ meta'.lastConfirmedActualSize = meta.lastConfirmedActualSize
        /\ meta'.lastConfirmedCRCDigest = meta.lastConfirmedCRCDigest
    BY <1>2, <2>2 DEF Meta
  <2> QED
    BY <2>3, <2>4 DEF d, n
<1>4. Extends(meta)'
  BY <1>2, <1>3 DEF Extends, Meta
<1>5. TypeOK'
  BY <1>1, <1>3 DEF Inv, TypeOK, PCs, AppendPCs, history, Meta
<1>6. (\A i \in 1 .. Len(crc) : Extends(crc[i]))'
  BY <1>1 DEF Inv, Extends
<1>7. Room'
  BY <1>1, <1>3 DEF Inv, Room, UpPCs, AppendPCs, RewritePCs
<1>8. RecoveryPoint'
  BY <1>1, <1>2, <1>3
     DEF Inv, RecoveryPoint, UpPCs, AppendPCs, RewritePCs, Meta
<1> QED
  BY <1>4, <1>5, <1>6, <1>7, <1>8 DEF Inv

\* The meta record on disk, while the process is up.
LEMMA MetaOnDisk ==
  ASSUME TypeOK, Len(crc) = 1
  PROVE  crc[1] \in Meta
<1>1. crc \in Seq(Meta) /\ 1 \in 1 .. Len(crc)
  BY DEF TypeOK
<1> QED
  BY <1>1, ElementOfSeq

LEMMA WriteCrcDigestInv == Inv /\ WriteCrcDigest => Inv'
<1> SUFFICES ASSUME Inv, WriteCrcDigest PROVE Inv'
  OBVIOUS
<1>1. /\ pc = "append_digest" /\ pc' = "append_size"
      /\ crc' = <<[crc[1] EXCEPT !.crcDigest = meta.crcDigest]>>
      /\ UNCHANGED <<exists, data, header, process, history>>
  BY DEF WriteCrcDigest
<1>2. /\ meta \in Meta /\ Extends(meta)
      /\ Len(crc) = 1 /\ crc[1] \in Meta
      /\ crc[1].version = meta.version
      /\ crc[1].lastConfirmedActualSize = meta.lastConfirmedActualSize
      /\ crc[1].lastConfirmedCRCDigest = meta.lastConfirmedCRCDigest
  BY <1>1, MetaOnDisk DEF Inv, RecoveryPoint, TypeOK, UpPCs, AppendPCs
<1>3. /\ crc' \in Seq(Meta) /\ Len(crc') = 1
      /\ crc'[1].crcDigest = meta.crcDigest
      /\ crc'[1].version = meta.version
      /\ crc'[1].lastConfirmedActualSize = meta.lastConfirmedActualSize
      /\ crc'[1].lastConfirmedCRCDigest = meta.lastConfirmedCRCDigest
  <2> DEFINE m == crc[1]
             v == meta.crcDigest
  <2>1. m \in Meta /\ v \in Seq(Cell)
    BY <1>2 DEF Meta
  <2>2. crc' = <<[m EXCEPT !.crcDigest = v]>>
    BY <1>1
  <2>3. m.version = meta.version
        /\ m.lastConfirmedActualSize = meta.lastConfirmedActualSize
        /\ m.lastConfirmedCRCDigest = meta.lastConfirmedCRCDigest
    BY <1>2
  <2> HIDE DEF m, v
  <2>4. [m EXCEPT !.crcDigest = v] \in Meta
    BY <2>1, MetaUpdates
  <2>5. crc' \in Seq(Meta) /\ Len(crc') = 1 /\ crc'[1] = [m EXCEPT !.crcDigest = v]
    BY <2>2, <2>4
  <2>6. /\ crc'[1].crcDigest = v
        /\ crc'[1].version = m.version
        /\ crc'[1].lastConfirmedActualSize = m.lastConfirmedActualSize
        /\ crc'[1].lastConfirmedCRCDigest = m.lastConfirmedCRCDigest
    BY <2>1, <2>5 DEF Meta
  <2> QED
    BY <2>3, <2>5, <2>6 DEF m, v
<1>4. TypeOK'
  BY <1>1, <1>3 DEF Inv, TypeOK, PCs, AppendPCs, process, history
<1>5. (\A i \in 1 .. Len(crc) : Extends(crc[i]))' /\ Extends(meta)'
  BY <1>1, <1>2, <1>3 DEF Extends, process
<1>6. Room'
  BY <1>1 DEF Inv, Room, UpPCs, AppendPCs, RewritePCs, process
<1>7. RecoveryPoint'
  BY <1>1, <1>3
     DEF Inv, RecoveryPoint, UpPCs, AppendPCs, RewritePCs, process
<1> QED
  BY <1>4, <1>5, <1>6, <1>7 DEF Inv

LEMMA WriteActualSizeInv == Inv /\ WriteActualSize => Inv'
<1> SUFFICES ASSUME Inv, WriteActualSize PROVE Inv'
  OBVIOUS
<1>1. /\ pc = "append_size" /\ pc' = "append_index"
      /\ crc' = <<[crc[1] EXCEPT !.actualSize = meta.actualSize]>>
      /\ UNCHANGED <<exists, data, header, process, history>>
  BY DEF WriteActualSize
<1>2. /\ meta \in Meta
      /\ Len(crc) = 1 /\ crc[1] \in Meta /\ Extends(crc[1])
      /\ crc[1].version = meta.version
      /\ crc[1].lastConfirmedActualSize = meta.lastConfirmedActualSize
      /\ crc[1].lastConfirmedCRCDigest = meta.lastConfirmedCRCDigest
  <2>1. /\ Len(crc) = 1
        /\ crc[1].version = meta.version
        /\ crc[1].lastConfirmedActualSize = meta.lastConfirmedActualSize
        /\ crc[1].lastConfirmedCRCDigest = meta.lastConfirmedCRCDigest
    BY <1>1 DEF Inv, RecoveryPoint, UpPCs, AppendPCs
  <2>2. meta \in Meta /\ crc[1] \in Meta
    BY <2>1, MetaOnDisk DEF Inv, TypeOK
  <2>3. Extends(crc[1])
    BY <2>1 DEF Inv
  <2> QED
    BY <2>1, <2>2, <2>3
<1>3. /\ crc' \in Seq(Meta) /\ Len(crc') = 1
      /\ crc'[1].crcDigest = crc[1].crcDigest
      /\ crc'[1].version = meta.version
      /\ crc'[1].lastConfirmedActualSize = meta.lastConfirmedActualSize
      /\ crc'[1].lastConfirmedCRCDigest = meta.lastConfirmedCRCDigest
  <2> DEFINE m == crc[1]
             v == meta.actualSize
  <2>1. m \in Meta /\ v \in Nat
    BY <1>2 DEF Meta
  <2>2. crc' = <<[m EXCEPT !.actualSize = v]>>
    BY <1>1
  <2>3. m.version = meta.version
        /\ m.lastConfirmedActualSize = meta.lastConfirmedActualSize
        /\ m.lastConfirmedCRCDigest = meta.lastConfirmedCRCDigest
    BY <1>2
  <2> HIDE DEF m, v
  <2>4. [m EXCEPT !.actualSize = v] \in Meta
    BY <2>1 DEF Meta
  <2>5. crc' \in Seq(Meta) /\ Len(crc') = 1 /\ crc'[1] = [m EXCEPT !.actualSize = v]
    BY <2>2, <2>4
  <2>6. /\ crc'[1].crcDigest = m.crcDigest
        /\ crc'[1].version = m.version
        /\ crc'[1].lastConfirmedActualSize = m.lastConfirmedActualSize
        /\ crc'[1].lastConfirmedCRCDigest = m.lastConfirmedCRCDigest
    BY <2>1, <2>5 DEF Meta
  <2> QED
    BY <2>3, <2>5, <2>6 DEF m, v
<1>4. TypeOK'
  BY <1>1, <1>3 DEF Inv, TypeOK, PCs, AppendPCs, process, history
<1>5. (\A i \in 1 .. Len(crc) : Extends(crc[i]))' /\ Extends(meta)'
  BY <1>1, <1>2, <1>3 DEF Inv, Extends, process
<1>6. Room'
  BY <1>1 DEF Inv, Room, UpPCs, AppendPCs, RewritePCs, process
<1>7. RecoveryPoint'
  BY <1>1, <1>3
     DEF Inv, RecoveryPoint, UpPCs, AppendPCs, RewritePCs, process
<1> QED
  BY <1>4, <1>5, <1>6, <1>7 DEF Inv

LEMMA IndexRecordInv == Inv /\ IndexRecord => Inv'
<1> SUFFICES ASSUME Inv, IndexRecord PROVE Inv'
  OBVIOUS
<1> DEFINE r == buffer[1]
<1>1. /\ pc = "append_index" /\ pc' = "idle" /\ buffer' = <<>>
      /\ map' = [map EXCEPT ![r.key] =
                   IF r.blob = Empty THEN 0 ELSE meta.actualSize]
      /\ view' = [view EXCEPT ![r.key] = r.blob]
      /\ stored' = IF logged THEN [stored EXCEPT ![r.key] = r.blob] ELSE stored
      /\ UNCHANGED <<exists, data, header, crc, mapped, meta, copied, logged>>
  BY DEF IndexRecord, disk
<1>2. r \in Record
  <2>1. Len(buffer) = 1 /\ buffer \in Seq(Record)
    BY <1>1 DEF Inv, Room, AppendPCs, TypeOK
  <2> QED
    BY <2>1, ElementOfSeq
<1>3. TypeOK'
  <2>1. r.blob \in Blobs /\ meta.actualSize \in Nat
    BY <1>2 DEF Record, Inv, TypeOK, Meta
  <2>2. view' \in Contents /\ stored' \in Contents /\ map' \in [Keys -> Nat]
    BY <1>1, <2>1 DEF Inv, TypeOK, Contents
  <2> QED
    BY <1>1, <2>2, EmptySeq DEF Inv, TypeOK, PCs
<1>4. (\A i \in 1 .. Len(crc) : Extends(crc[i]))' /\ Extends(meta)'
  BY <1>1 DEF Inv, Extends
<1>5. Room'
  BY <1>1 DEF Inv, Room, UpPCs, AppendPCs, RewritePCs
<1>6. RecoveryPoint'
  BY <1>1 DEF Inv, RecoveryPoint, UpPCs, AppendPCs, RewritePCs
<1> QED
  BY <1>3, <1>4, <1>5, <1>6 DEF Inv

-----------------------------------------------------------------------------
(***************************************************************************)
(* Every action preserves the invariant: doFullWriteback.                  *)
(***************************************************************************)
LEMMA DoFullWritebackInv ==
  ASSUME Inv, pc = "idle", NEW index \in [Keys -> Nat], DoFullWriteback(index),
         view' \in Contents
  PROVE  Inv'
<1>1. /\ map' = index
      /\ UNCHANGED <<exists, header, crc, meta, copied, stored, logged>>
  BY DEF DoFullWriteback
<1>2. PICK ok \in BOOLEAN, s \in PreparedData(index) :
        /\ EnsureSpace(ItemSizeHolder + Len(s), ok)
        /\ buffer' = IF ok THEN s ELSE <<>>
        /\ pc' = IF ok THEN "rewrite_holder" ELSE "idle"
  BY DEF DoFullWriteback
<1>3. s \in Seq(Record) /\ Len(s) \in Nat
  BY PreparedDataType, LenProperties
<1>4. /\ data' \in Seq(Cell)
      /\ mapped' \in BOOLEAN
      /\ meta.actualSize <= Len(data')
      /\ ok => mapped' /\ meta.actualSize + ItemSizeHolder + Len(s) <= Len(data')
      /\ meta.lastConfirmedActualSize <= meta.actualSize
      /\ Verifies(data', meta.lastConfirmedActualSize,
                  meta.lastConfirmedCRCDigest)
  <2> DEFINE needed == ItemSizeHolder + Len(s)
  <2>1. needed \in Nat \ {0} /\ meta.actualSize \in Nat
    BY <1>3 DEF ItemSizeHolder, Inv, TypeOK, Meta
  <2>2. EnsureSpace(needed, ok)
    BY <1>2
  <2> HIDE DEF needed
  <2>3. /\ data' \in Seq(Cell)
        /\ mapped' \in BOOLEAN
        /\ meta.actualSize <= Len(data')
        /\ ok => mapped' /\ meta.actualSize + needed <= Len(data')
        /\ meta.lastConfirmedActualSize <= meta.actualSize
        /\ Verifies(data', meta.lastConfirmedActualSize,
                    meta.lastConfirmedCRCDigest)
    BY <2>1, <2>2, EnsureSpaceInv
  <2> QED
    BY <1>3, <2>1, <2>3 DEF needed, ItemSizeHolder
<1>5. buffer' \in Seq(Record) /\ (ok => buffer' = s)
  BY <1>2, <1>3, EmptySeq
<1>6. ok => ItemSizeHolder + Len(buffer') <= Len(data')
  <2>1. meta.actualSize \in Nat /\ Len(data') \in Nat
    BY <1>4, LenProperties DEF Inv, TypeOK, Meta
  <2> QED
    BY <1>3, <1>4, <1>5, <2>1 DEF ItemSizeHolder
<1>7. TypeOK'
  BY <1>1, <1>2, <1>4, <1>5 DEF Inv, TypeOK, PCs, RewritePCs
<1>8. (\A i \in 1 .. Len(crc) : Extends(crc[i]))' /\ Extends(meta)'
  BY <1>1 DEF Inv, Extends
<1>9. Room'
  BY <1>1, <1>2, <1>4, <1>6 DEF Inv, Room, UpPCs, AppendPCs, RewritePCs
<1>10. RecoveryPoint'
  BY <1>1, <1>2, <1>4 DEF Inv, RecoveryPoint, UpPCs, AppendPCs, RewritePCs
<1> QED
  BY <1>7, <1>8, <1>9, <1>10 DEF Inv

LEMMA CompactInv == Inv /\ Compact => Inv'
<1> SUFFICES ASSUME Inv, Compact PROVE Inv'
  OBVIOUS
<1>1. pc = "idle" /\ DoFullWriteback(map) /\ view' = view
  BY DEF Compact
<1>2. map \in [Keys -> Nat] /\ view \in Contents
  BY DEF Inv, TypeOK
<1> QED
  BY <1>1, <1>2, DoFullWritebackInv

LEMMA ClearAllInv == Inv /\ ClearAll => Inv'
<1> SUFFICES ASSUME Inv, ClearAll PROVE Inv'
  OBVIOUS
<1> DEFINE index == [k \in Keys |-> 0]
<1>1. pc = "idle" /\ DoFullWriteback(index) /\ view' = EmptyContents
  BY DEF ClearAll
<1>2. index \in [Keys -> Nat] /\ EmptyContents \in Contents
  BY DEF EmptyContents, Contents, Blobs
<1> HIDE DEF index
<1> QED
  BY <1>1, <1>2, DoFullWritebackInv

LEMMA CopyHolderInv == Inv /\ CopyHolder => Inv'
<1> SUFFICES ASSUME Inv, CopyHolder PROVE Inv'
  OBVIOUS
<1>1. /\ pc = "rewrite_holder"
      /\ pc' = IF buffer = <<>> THEN "rewrite_meta" ELSE "rewrite_copy"
      /\ UNCHANGED <<exists, header, crc, process, history>>
  BY DEF CopyHolder
<1>2. data' \in Seq(Cell) /\ Len(data') = Len(data)
  <2>1. PICK n \in {1, 2} : data' = [data EXCEPT ![1] = [seed |-> n]]
    BY DEF CopyHolder
  <2>2. [seed |-> n] \in Cell /\ data \in Seq(Cell)
    BY CellMembers DEF Inv, TypeOK
  <2> QED
    BY <2>1, <2>2, StoreCell
<1>3. TypeOK'
  BY <1>1, <1>2 DEF Inv, TypeOK, PCs, RewritePCs, process, history
<1>4. (\A i \in 1 .. Len(crc) : Extends(crc[i]))' /\ Extends(meta)'
  BY <1>1 DEF Inv, Extends, process
<1>5. buffer # <<>> => Len(buffer) \in Nat \ {0}
  BY EmptySeq DEF Inv, TypeOK
<1>6. Room'
  BY <1>1, <1>2, <1>5 DEF Inv, Room, UpPCs, AppendPCs, RewritePCs, process
<1>7. RecoveryPoint'
  BY <1>1 DEF Inv, RecoveryPoint, UpPCs, AppendPCs, RewritePCs, process
<1> QED
  BY <1>3, <1>4, <1>6, <1>7 DEF Inv

LEMMA CopyRecordInv == Inv /\ CopyRecord => Inv'
<1> SUFFICES ASSUME Inv, CopyRecord PROVE Inv'
  OBVIOUS
<1>1. /\ pc = "rewrite_copy"
      /\ copied' = copied + 1
      /\ pc' = IF copied' = Len(buffer) THEN "rewrite_meta" ELSE "rewrite_copy"
      /\ data' = [data EXCEPT ![ItemSizeHolder + copied + 1] = buffer[copied + 1]]
      /\ UNCHANGED <<exists, header, crc, mapped, meta, map, buffer, history>>
  BY DEF CopyRecord
<1>2. /\ copied \in Nat /\ buffer \in Seq(Record) /\ Len(buffer) \in Nat
      /\ copied < Len(buffer)
  BY <1>1, LenProperties DEF Inv, TypeOK, Room
<1>3. data' \in Seq(Cell) /\ Len(data') = Len(data)
  <2>1. copied + 1 \in 1 .. Len(buffer) /\ ItemSizeHolder + copied + 1 \in Nat
    BY <1>2 DEF ItemSizeHolder
  <2>2. buffer[copied + 1] \in Cell
    BY <1>2, <2>1, ElementOfSeq, CellMembers
  <2> QED
    BY <1>1, <2>1, <2>2, StoreCell DEF Inv, TypeOK
<1>4. TypeOK'
  BY <1>1, <1>2, <1>3 DEF Inv, TypeOK, PCs, RewritePCs, history
<1>5. (\A i \in 1 .. Len(crc) : Extends(crc[i]))' /\ Extends(meta)'
  BY <1>1 DEF Inv, Extends
<1>6. Room'
  BY <1>1, <1>2, <1>3 DEF Inv, Room, UpPCs, AppendPCs, RewritePCs
<1>7. RecoveryPoint'
  BY <1>1 DEF Inv, RecoveryPoint, UpPCs, AppendPCs, RewritePCs
<1> QED
  BY <1>4, <1>5, <1>6, <1>7 DEF Inv

LEMMA ConfirmMetaInv == Inv /\ ConfirmMeta => Inv'
<1> SUFFICES ASSUME Inv, ConfirmMeta PROVE Inv'
  OBVIOUS
<1> DEFINE size == ItemSizeHolder + Len(buffer)
<1>1. /\ pc = "rewrite_meta" /\ pc' = "rewrite_sync"
      /\ header' = meta'.actualSize
      /\ UNCHANGED <<exists, data, crc, mapped, map, buffer, copied, history>>
  BY DEF ConfirmMeta
<1>2. meta' = [ crcDigest               |-> ComputeCRC(data, size),
                version                 |-> meta.version,
                actualSize              |-> size,
                lastConfirmedActualSize |-> size,
                lastConfirmedCRCDigest  |-> ComputeCRC(data, size) ]
  BY DEF ConfirmMeta
<1>3. size \in Nat /\ size \in 0 .. Len(data) /\ data \in Seq(Cell)
  <2>1. size <= Len(data)
    BY <1>1 DEF Inv, Room
  <2>2. Len(buffer) \in Nat /\ Len(data) \in Nat /\ data \in Seq(Cell)
    BY LenProperties DEF Inv, TypeOK
  <2> QED
    BY <2>1, <2>2 DEF ItemSizeHolder
<1> HIDE DEF size
<1>4. /\ ComputeCRC(data, size) \in Seq(Cell)
      /\ Len(ComputeCRC(data, size)) = size
      /\ \A i \in 1 .. size : ComputeCRC(data, size)[i] = data[i]
  BY <1>3, ComputeCRCProperties
<1>5. meta' \in Meta /\ Extends(meta)'
  <2>1. meta.version \in 0 .. 4
    BY DEF Inv, TypeOK, Meta
  <2> QED
    BY <1>2, <1>3, <1>4, <2>1 DEF Meta, Extends
<1>6. TypeOK'
  BY <1>1, <1>2, <1>3, <1>5 DEF Inv, TypeOK, PCs, RewritePCs, history
<1>7. (\A i \in 1 .. Len(crc) : Extends(crc[i]))'
  BY <1>1 DEF Inv, Extends
<1>8. Room'
  BY <1>1, <1>2, <1>3 DEF Inv, Room, UpPCs, AppendPCs, RewritePCs
<1>9. Verifies(data', size, ComputeCRC(data, size))
  BY <1>1, <1>3, <1>4 DEF Verifies
<1>10. RecoveryPoint'
  BY <1>1, <1>2, <1>3, <1>9
     DEF Inv, RecoveryPoint, UpPCs, AppendPCs, RewritePCs
<1> QED
  BY <1>5, <1>6, <1>7, <1>8, <1>10 DEF Inv

LEMMA SyncMetaInv == Inv /\ SyncMeta => Inv'
<1> SUFFICES ASSUME Inv, SyncMeta PROVE Inv'
  OBVIOUS
<1>1. /\ pc = "rewrite_sync" /\ pc' = "idle"
      /\ crc' = <<meta>>
      /\ map' = DecodeMap(data, meta.actualSize)
      /\ stored' = view /\ logged' = TRUE /\ buffer' = <<>> /\ copied' = 0
      /\ UNCHANGED <<exists, data, header, mapped, meta, view>>
  BY DEF SyncMeta
<1>2. meta \in Meta /\ meta.actualSize \in Nat
  BY DEF Inv, TypeOK, Meta
<1>3. crc' \in Seq(Meta) /\ Len(crc') = 1 /\ crc'[1] = meta
  BY <1>1, <1>2
<1>4. map' \in [Keys -> Nat]
  BY <1>1, <1>2, DecodeMapType
<1>5. TypeOK'
  BY <1>1, <1>3, <1>4, EmptySeq DEF Inv, TypeOK, PCs
<1>6. (\A i \in 1 .. Len(crc) : Extends(crc[i]))' /\ Extends(meta)'
  BY <1>1, <1>3 DEF Inv, Extends
<1>7. Room'
  BY <1>1 DEF Inv, Room, UpPCs, AppendPCs, RewritePCs
<1>8. RecoveryPoint'
  BY <1>1, <1>3 DEF Inv, RecoveryPoint, UpPCs, AppendPCs, RewritePCs
<1> QED
  BY <1>5, <1>6, <1>7, <1>8 DEF Inv

LEMMA ForgetInv == Inv /\ Forget => Inv'
<1> SUFFICES ASSUME Inv, Forget PROVE Inv'
  OBVIOUS
<1>1. /\ pc' = "closed" /\ mapped' = FALSE /\ meta' = ZeroMeta
      /\ map' = [k \in Keys |-> 0] /\ buffer' = <<>> /\ copied' = 0
      /\ view' = EmptyContents /\ stored' = EmptyContents /\ logged' = TRUE
      /\ UNCHANGED <<exists, data, header, crc>>
  BY DEF Forget, disk
<1>2. EmptyContents \in Contents /\ map' \in [Keys -> Nat]
  BY <1>1 DEF EmptyContents, Contents, Blobs
<1>3. TypeOK'
  BY <1>1, <1>2, ZeroMetaProperties, EmptySeq DEF Inv, TypeOK, PCs
<1>4. (\A i \in 1 .. Len(crc) : Extends(crc[i]))' /\ Extends(meta)'
  BY <1>1, ZeroMetaProperties DEF Inv, Extends
<1>5. Room' /\ RecoveryPoint'
  BY <1>1 DEF Room, RecoveryPoint, UpPCs, AppendPCs, RewritePCs
<1> QED
  BY <1>3, <1>4, <1>5 DEF Inv

-----------------------------------------------------------------------------
(***************************************************************************)
(* The theorems.                                                           *)
(***************************************************************************)
LEMMA StutterInv == Inv /\ UNCHANGED vars => Inv'
BY DEF vars, disk, process, history,
       Inv, TypeOK, Extends, Room, RecoveryPoint, Verifies

LEMMA NextInv == Inv /\ [Next]_vars => Inv'
<1> SUFFICES ASSUME Inv, [Next]_vars PROVE Inv'
  OBVIOUS
<1>1. CASE \/ CreateData \/ TruncateData \/ InitData \/ CreateCrc
           \/ WriteInitialMeta \/ OpenExisting
  BY <1>1, CreateDataInv, TruncateDataInv, InitDataInv, CreateCrcInv,
     WriteInitialMetaInv, OpenExistingInv
<1>2. CASE OpenRefused
  BY <1>2, StutterInv DEF OpenRefused
<1>3. ASSUME NEW k \in Keys, NEW b \in Blobs, Set(k, b)
      PROVE  Inv'
  BY <1>3, AppendRecordInv DEF Set
<1>4. ASSUME NEW k \in Keys, Remove(k)
      PROVE  Inv'
  <2>1. Empty \in Blobs
    BY DEF Blobs
  <2> QED
    BY <1>4, <2>1, AppendRecordInv DEF Remove
<1>5. CASE WriteRecord \/ UpdateMeta \/ WriteCrcDigest \/ WriteActualSize
           \/ IndexRecord
  BY <1>5, WriteRecordInv, UpdateMetaInv, WriteCrcDigestInv,
     WriteActualSizeInv, IndexRecordInv
<1>6. CASE \/ Compact \/ ClearAll
           \/ CopyHolder \/ CopyRecord \/ ConfirmMeta \/ SyncMeta
  BY <1>6, CompactInv, ClearAllInv, CopyHolderInv, CopyRecordInv,
     ConfirmMetaInv, SyncMetaInv
<1>7. CASE Close \/ Crash
  BY <1>7, ForgetInv DEF Close, Crash
<1>8. CASE UNCHANGED vars
  BY <1>8, StutterInv
<1> QED
  BY <1>1, <1>2, <1>3, <1>4, <1>5, <1>6, <1>7, <1>8 DEF Next

LEMMA SpecInv == Spec => []Inv
BY InitInv, NextInv, PTL DEF Spec

\* Every variable keeps its type, and every size its place in the file: the
\* digest of a log is only ever computed over cells the file has.
THEOREM TypeCorrect == Spec => []TypeOK
<1>1. Inv => TypeOK
  BY DEF Inv
<1> QED
  BY <1>1, SpecInv, PTL

\* At whichever step of an append, a growth or a failed growth the process
\* dies, a store of format 2 or later can roll back to its recovery point.
THEOREM Recoverable == Spec => []RecoverableWhileUp
<1>1. Inv => RecoverableWhileUp
  <2> SUFFICES ASSUME Inv, pc \in {"idle"} \cup AppendPCs, meta.version >= 2
               PROVE  Len(crc) > 0 /\ ConfirmedValid(data, crc[1])
    BY DEF RecoverableWhileUp
  <2>1. /\ Len(crc) = 1
        /\ crc[1].version = meta.version
        /\ crc[1].lastConfirmedActualSize = meta.lastConfirmedActualSize
        /\ crc[1].lastConfirmedCRCDigest = meta.lastConfirmedCRCDigest
    BY DEF Inv, RecoveryPoint, UpPCs, AppendPCs, RewritePCs
  <2>2. Verifies(data, meta.lastConfirmedActualSize,
                 meta.lastConfirmedCRCDigest)
    BY DEF Inv, RecoveryPoint
  <2> QED
    BY <2>1, <2>2 DEF ConfirmedValid
<1> QED
  BY <1>1, SpecInv, PTL

\* The writer never stores through a null base or past the end of its mapping,
\* whatever growth has failed before.
THEOREM MemorySafe == Spec => []StoresInsideMapping
<1>1. Inv => StoresInsideMapping
  BY DEF Inv, Room, StoresInsideMapping
<1> QED
  BY <1>1, SpecInv, PTL

\* Outside a rewrite no step changes or cuts off what the log counts.
THEOREM LogKept == Spec => AppendOnly
<1> DEFINE n    == meta.actualSize
           Kept == Verifies(data', n, ComputeCRC(data, n))
<1>1. ASSUME Inv, [Next]_vars, pc \in {"idle"} \cup AppendPCs
      PROVE  Kept
  <2>1. /\ data \in Seq(Cell) /\ n \in Nat
        /\ n <= Len(data) /\ Len(data) \in Nat
    BY <1>1, LenProperties DEF Inv, TypeOK, Room, UpPCs, Meta
  <2> HIDE DEF n
  <2>2. SUFFICES n <= Len(data') /\ \A i \in 1 .. n : data'[i] = data[i]
    <3>1. /\ Len(ComputeCRC(data, n)) = n
          /\ \A i \in 1 .. n : ComputeCRC(data, n)[i] = data[i]
      BY <2>1, ComputeCRCProperties
    <3> QED
      BY <2>1, <2>2, <3>1 DEF Verifies
  <2>3. ASSUME NEW needed \in Nat \ {0}, NEW ok \in BOOLEAN,
               EnsureSpace(needed, ok)
        PROVE  n <= Len(data') /\ \A i \in 1 .. n : data'[i] = data[i]
    BY <1>1, <2>1, <2>3, EnsureSpaceProperties DEF Inv, n
  <2>4. ASSUME NEW k \in Keys, NEW b \in Blobs, AppendRecord(k, b)
        PROVE  n <= Len(data') /\ \A i \in 1 .. n : data'[i] = data[i]
    <3>1. \E ok \in BOOLEAN : EnsureSpace(1, ok)
      BY <2>4 DEF AppendRecord
    <3> QED
      BY <2>3, <3>1
  <2>5. ASSUME NEW index, DoFullWriteback(index)
        PROVE  n <= Len(data') /\ \A i \in 1 .. n : data'[i] = data[i]
    <3>1. PICK ok \in BOOLEAN, s \in PreparedData(index) :
            EnsureSpace(ItemSizeHolder + Len(s), ok)
      BY <2>5 DEF DoFullWriteback
    <3>2. ItemSizeHolder + Len(s) \in Nat \ {0}
      BY PreparedDataType, LenProperties DEF ItemSizeHolder
    <3> QED
      BY <2>3, <3>1, <3>2
  <2>6. CASE WriteRecord
    <3>1. Len(buffer) = 1 /\ buffer \in Seq(Record)
      BY <1>1, <2>6 DEF Inv, TypeOK, Room, AppendPCs, WriteRecord
    <3>2. buffer[1] \in Cell
      BY <3>1, ElementOfSeq, CellMembers
    <3>3. data' = [data EXCEPT ![n + 1] = buffer[1]]
      BY <2>6 DEF WriteRecord, n
    <3> QED
      BY <2>1, <3>2, <3>3, StoreCell
  <2>7. CASE \/ UpdateMeta \/ WriteCrcDigest \/ WriteActualSize
             \/ IndexRecord \/ Close \/ Crash \/ UNCHANGED vars
    BY <2>1, <2>7 DEF UpdateMeta, WriteCrcDigest, WriteActualSize,
         IndexRecord, Close, Crash, Forget, vars, disk
  <2>8. CASE \E k \in Keys, b \in Blobs : Set(k, b)
    BY <2>4, <2>8 DEF Set
  <2>9. CASE \E k \in Keys : Remove(k)
    BY <2>4, <2>9 DEF Remove, Blobs
  <2>10. CASE Compact \/ ClearAll
    BY <2>5, <2>10 DEF Compact, ClearAll
  <2>11. ~( \/ CreateData \/ TruncateData \/ InitData \/ CreateCrc
            \/ WriteInitialMeta \/ OpenExisting \/ OpenRefused
            \/ CopyHolder \/ CopyRecord \/ ConfirmMeta \/ SyncMeta )
    BY <1>1 DEF AppendPCs, CreateData, TruncateData, InitData, CreateCrc,
         WriteInitialMeta, OpenExisting, OpenRefused, CopyHolder, CopyRecord,
         ConfirmMeta, SyncMeta
  <2> QED
    BY <1>1, <2>6, <2>7, <2>8, <2>9, <2>10, <2>11 DEF Next
<1>2. Inv /\ [Next]_vars =>
        ((pc \in {"idle"} \cup AppendPCs) => Kept)
  BY <1>1
<1>3. Inv /\ [Next]_vars =>
        [(pc \in {"idle"} \cup AppendPCs) => Kept]_vars
  BY <1>2
<1> QED
  BY <1>3, SpecInv, PTL DEF Spec, AppendOnly

-----------------------------------------------------------------------------
(***************************************************************************)
(* Where mmap does not fail, m_map and the mapping serve every key's last  *)
(* value between two operations, and what the next open() reads after a    *)
(* crash between two operations is what the successful calls promised.     *)
(* (Where mmap may fail they do not: the run compact_after_mmap shows what *)
(* a compaction then drops.)                                               *)
(*                                                                         *)
(* The index.  IndexCorrect is not inductive.  What an append needs is     *)
(* that no offset lies behind the log it grows (Serves), and that the      *)
(* record it counts is the one it has copied (Copied).  What a rewrite     *)
(* needs is that the records it has encoded are the contents, each key     *)
(* once (Encodes), and that they are what it has copied (Copied): the new  *)
(* index is the old one in nothing but this.                               *)
(***************************************************************************)

\* The cells whose records the index knows of.
IndexedSize == IF pc \in {"append_digest", "append_size", "append_index"}
                 THEN meta.actualSize - 1 ELSE meta.actualSize

Mapped == pc \in UpPCs \cup {"new_init", "new_crc", "new_meta"} => mapped

\* Before there is a log nothing is indexed.
Unopened ==
  pc \in {"closed"} \cup OpenPCs =>
    map = [k \in Keys |-> 0] /\ view = EmptyContents

Serves ==
  /\ pc \in {"idle"} \cup AppendPCs => Yields(data, map, IndexedSize, view)
  /\ pc \in RewritePCs => Encodes(buffer, view)

Copied ==
  /\ pc = "append_meta" => data[meta.actualSize + 1] = buffer[1]
  /\ pc \in {"append_digest", "append_size", "append_index"} =>
       meta.actualSize \in Nat \ {0} /\ data[meta.actualSize] = buffer[1]
  /\ pc = "rewrite_copy" => InPlace(data, buffer, copied)
  /\ pc \in {"rewrite_meta", "rewrite_sync"} =>
       InPlace(data, buffer, Len(buffer))
  /\ pc = "rewrite_sync" => meta.actualSize = ItemSizeHolder + Len(buffer)

IndexInv == Mapped /\ Unopened /\ Serves /\ Copied

-----------------------------------------------------------------------------
\* The records that a rewrite encodes through an index are what it yields.
LEMMA PreparedEncodes ==
  ASSUME mapped, NEW index, NEW v \in Contents, Lookup(data, index) = v,
         NEW s \in PreparedData(index)
  PROVE  Encodes(s, v)
<1> DEFINE live == {k \in Keys : v[k] # Empty}
           n    == Cardinality(live)
<1>1. \A k \in Keys : v[k] = ValueBlob(data, index[k])
  BY DEF Lookup
<1>2. LiveKeys(index) = live
  BY <1>1 DEF LiveKeys
<1>3. PICK o \in Orderings(live) :
        s = [i \in 1 .. n |->
               [key |-> o[i], blob |-> ValueBlob(data, index[o[i]])]]
  BY <1>2 DEF PreparedData
<1>4. o \in [1 .. n -> live] /\ \A i, j \in 1 .. n : o[i] = o[j] => i = j
  BY <1>3 DEF Orderings
<1>5. \A i \in 1 .. n : o[i] \in Keys /\ v[o[i]] \in Blobs
  BY <1>4 DEF Contents
<1>6. /\ s \in [1 .. n -> Record]
      /\ \A i \in 1 .. n : s[i].key = o[i] /\ s[i].blob = v[o[i]]
  BY <1>1, <1>3, <1>5 DEF Record
<1>7. Enumerates(s, v)
  BY ONLY <1>4, <1>6 DEF Enumerates
<1> QED
  BY ONLY <1>7, v \in Contents, KeysAssumption, OrderedEncodes

-----------------------------------------------------------------------------
(***************************************************************************)
(* Every action preserves the invariant: open().                           *)
(***************************************************************************)
LEMMA InitIndexInv == Init => IndexInv
BY DEF Init, IndexInv, Mapped, Unopened, Serves, Copied, UpPCs, AppendPCs,
       RewritePCs

LEMMA CreateIndexInv ==
  ASSUME Inv, IndexInv,
         CreateData \/ TruncateData \/ InitData \/ CreateCrc
  PROVE  IndexInv'
<1>1. /\ pc' \in OpenPCs /\ UNCHANGED <<map, view>>
      /\ pc \in {"closed"} \cup OpenPCs
  BY DEF CreateData, TruncateData, InitData, CreateCrc, OpenPCs, process,
         history
<1>2. Mapped'
  BY DEF CreateData, TruncateData, InitData, CreateCrc, process, Mapped,
         UpPCs, AppendPCs, RewritePCs, IndexInv
<1>3. Unopened'
  BY <1>1 DEF Unopened, IndexInv
<1>4. Serves' /\ Copied'
  BY <1>1 DEF Serves, Copied, OpenPCs, AppendPCs, RewritePCs
<1> QED
  BY <1>2, <1>3, <1>4 DEF IndexInv

LEMMA WriteInitialMetaIndexInv ==
  ASSUME Inv, IndexInv, WriteInitialMeta
  PROVE  IndexInv'
<1>1. /\ pc = "new_meta" /\ pc' = "idle"
      /\ UNCHANGED <<data, meta, map, view, mapped>>
  BY DEF WriteInitialMeta, process, history
<1>2. /\ mapped /\ map = [k \in Keys |-> 0] /\ view = EmptyContents
  BY <1>1 DEF IndexInv, Mapped, Unopened, OpenPCs
<1>3. Yields(data, map, meta.actualSize, view)
  BY <1>2, EmptyIndex DEF Inv, TypeOK, Meta
<1>4. Serves'
  BY <1>1, <1>3 DEF Serves, IndexedSize, Yields, Lookup, RewritePCs
<1> QED
  BY <1>1, <1>2, <1>4 DEF IndexInv, Mapped, Unopened, Copied, OpenPCs

LEMMA OpenExistingIndexInv ==
  ASSUME Inv, Inv', OpenExisting
  PROVE  IndexInv'
<1> DEFINE size == CheckDataValid(data, header, crc[1]).effectiveActualSize
<1>1. /\ pc' = "idle" /\ mapped' = TRUE /\ data' = data
      /\ map' = DecodeMap(data, size) /\ view' = Lookup(data, map')
      /\ meta' = [crc[1] EXCEPT !.actualSize = size]
  BY DEF OpenExisting, disk
<1> HIDE DEF size
<1>2. crc[1] \in Meta
  <2>1. crc \in Seq(Meta) /\ Len(crc) > 0 /\ Len(crc) <= 1
    BY DEF OpenExisting, Openable, Inv, TypeOK
  <2> QED
    BY <2>1, LenProperties, ElementOfSeq
<1>3. meta'.actualSize = size /\ size \in Nat
  BY <1>1, <1>2 DEF Inv, TypeOK, Meta
<1>4. Yields(data, map', size, view')
  BY <1>1, <1>3, DecodeMapBound DEF Yields
<1>5. Serves'
  BY <1>1, <1>3, <1>4 DEF Serves, IndexedSize, Yields, Lookup, RewritePCs
<1> QED
  BY <1>1, <1>5 DEF IndexInv, Mapped, Unopened, Copied, OpenPCs

-----------------------------------------------------------------------------
(***************************************************************************)
(* Every action preserves the invariant: appendRecord.                     *)
(***************************************************************************)
\* Where mmap does not fail, ensureSpace leaves a mapping, and the log in it.
LEMMA EnsureSpaceYields ==
  ASSUME ~MmapMayFail, Inv, IndexInv, pc = "idle",
         NEW needed \in Nat \ {0}, NEW ok \in BOOLEAN,
         EnsureSpace(needed, ok)
  PROVE  /\ mapped /\ mapped'
         /\ Yields(data, map, meta.actualSize, view)
         /\ Yields(data', map, meta.actualSize, view)
         /\ ~ok => data' = data
<1>1. mapped /\ Yields(data, map, meta.actualSize, view)
  BY DEF IndexInv, Mapped, Serves, IndexedSize, UpPCs
<1>2. /\ TypeOK /\ meta.actualSize <= Len(data)
      /\ data \in Seq(Cell) /\ meta.actualSize \in Nat
      /\ map \in [Keys -> Nat]
  BY DEF Inv, Room, UpPCs, TypeOK, Meta
<1>3. /\ data' \in Seq(Cell)
      /\ meta.actualSize <= Len(data')
      /\ \A i \in 1 .. meta.actualSize : data'[i] = data[i]
      /\ ok => mapped'
  BY <1>2, EnsureSpaceProperties
<1>4. ~ok => UNCHANGED <<data, mapped>>
  BY DEF EnsureSpace, Grow
<1>5. Yields(data', map, meta.actualSize, view)
  BY <1>1, <1>2, <1>3, YieldsKept
<1> QED
  BY <1>1, <1>3, <1>4, <1>5

LEMMA AppendIndexInv ==
  ASSUME ~MmapMayFail, Inv, IndexInv, NEW k, NEW b, AppendRecord(k, b)
  PROVE  IndexInv'
<1>1. PICK ok \in BOOLEAN :
        EnsureSpace(1, ok) /\ pc' = IF ok THEN "append_write" ELSE "idle"
  BY DEF AppendRecord
<1>2. pc = "idle" /\ UNCHANGED <<meta, map, view>>
  BY DEF AppendRecord, history
<1>3. mapped' /\ Yields(data', map, meta.actualSize, view)
  <2>1. 1 \in Nat \ {0}
    OBVIOUS
  <2> QED
    BY <1>1, <1>2, <2>1, EnsureSpaceYields
<1>4. Serves'
  BY <1>1, <1>2, <1>3 DEF Serves, IndexedSize, Yields, Lookup, RewritePCs
<1> QED
  BY <1>1, <1>2, <1>3, <1>4
     DEF IndexInv, Mapped, Unopened, Copied, OpenPCs

LEMMA WriteRecordIndexInv ==
  ASSUME Inv, IndexInv, WriteRecord
  PROVE  IndexInv'
<1> DEFINE n == meta.actualSize
<1>1. /\ pc = "append_write" /\ pc' = "append_meta"
      /\ data' = [data EXCEPT ![n + 1] = buffer[1]]
      /\ UNCHANGED <<meta, map, buffer, view, mapped>>
  BY DEF WriteRecord, process, history
<1>2. /\ data \in Seq(Cell) /\ n \in Nat /\ map \in [Keys -> Nat]
      /\ n + 1 <= Len(data) /\ Len(data) \in Nat
      /\ buffer[1] \in Cell
  <2>1. Len(buffer) = 1 /\ buffer \in Seq(Record)
    BY <1>1 DEF Inv, Room, AppendPCs, TypeOK
  <2>2. buffer[1] \in Cell
    BY <2>1, ElementOfSeq, CellMembers
  <2> QED
    BY <1>1, <2>2, LenProperties DEF Inv, TypeOK, Meta, Room
<1>3. Yields(data, map, n, view) /\ mapped
  BY <1>1 DEF IndexInv, Serves, IndexedSize, Mapped, UpPCs, AppendPCs
<1> HIDE DEF n
<1>4. /\ data' \in Seq(Cell) /\ Len(data') = Len(data)
      /\ data'[n + 1] = buffer[1]
      /\ \A i \in 1 .. n : data'[i] = data[i]
  BY <1>1, <1>2, StoreCell
<1>5. Yields(data', map, n, view)
  <2>1. n <= Len(data) /\ n <= Len(data')
    BY <1>2, <1>4
  <2> QED
    BY ONLY <1>2, <1>3, <1>4, <2>1, YieldsKept
<1>6. Serves'
  BY <1>1, <1>5 DEF Serves, IndexedSize, Yields, Lookup, RewritePCs, n
<1>7. Copied'
  BY <1>1, <1>4 DEF Copied, n
<1> QED
  BY <1>1, <1>3, <1>6, <1>7 DEF IndexInv, Mapped, Unopened, OpenPCs

LEMMA UpdateMetaIndexInv ==
  ASSUME Inv, IndexInv, UpdateMeta
  PROVE  IndexInv'
<1> DEFINE n == meta.actualSize
<1>1. /\ pc = "append_meta" /\ pc' = "append_digest"
      /\ UNCHANGED <<data, map, buffer, view, mapped>>
  BY DEF UpdateMeta, history
<1>2. meta'.actualSize = n + 1 /\ n \in Nat
  BY DEF UpdateMeta, Inv, TypeOK, Meta
<1>3. /\ Yields(data, map, n, view) /\ mapped
      /\ data[n + 1] = buffer[1]
  BY <1>1 DEF IndexInv, Serves, Copied, IndexedSize, Mapped, UpPCs, AppendPCs
<1> HIDE DEF n
<1>4. Serves'
  <2>1. IndexedSize' = n
    BY <1>1, <1>2 DEF IndexedSize
  <2> QED
    BY <1>1, <1>3, <2>1 DEF Serves, Yields, Lookup, RewritePCs
<1> QED
  BY <1>1, <1>2, <1>3, <1>4 DEF IndexInv, Mapped, Unopened, Copied, OpenPCs

LEMMA WriteMetaIndexInv ==
  ASSUME IndexInv, WriteCrcDigest \/ WriteActualSize
  PROVE  IndexInv'
<1>1. /\ UNCHANGED <<data, meta, map, buffer, view, mapped>>
      /\ pc \in {"append_digest", "append_size"}
      /\ pc' \in {"append_size", "append_index"}
  BY DEF WriteCrcDigest, WriteActualSize, process, history
<1>2. Serves'
  BY <1>1 DEF IndexInv, Serves, IndexedSize, Yields, Lookup, AppendPCs,
              RewritePCs
<1> QED
  BY <1>1, <1>2 DEF IndexInv, Mapped, Unopened, Copied, OpenPCs, UpPCs,
                    AppendPCs

LEMMA IndexRecordIndexInv ==
  ASSUME Inv, IndexInv, IndexRecord
  PROVE  IndexInv'
<1> DEFINE r == buffer[1]
           n == meta.actualSize
<1>1. /\ pc = "append_index" /\ pc' = "idle"
      /\ map' = [map EXCEPT ![r.key] = IF r.blob = Empty THEN 0 ELSE n]
      /\ view' = [view EXCEPT ![r.key] = r.blob]
      /\ UNCHANGED <<data, meta, mapped>>
  BY DEF IndexRecord, disk
<1>2. /\ mapped /\ Yields(data, map, n - 1, view)
      /\ n \in Nat \ {0} /\ data[n] = r
  BY <1>1 DEF IndexInv, Mapped, Serves, Copied, IndexedSize, UpPCs, AppendPCs
<1>3. /\ r \in Record /\ n <= Len(data) /\ Len(data) \in Nat
      /\ map \in [Keys -> Nat] /\ view \in Contents
  <2>1. Len(buffer) = 1 /\ buffer \in Seq(Record)
    BY <1>1 DEF Inv, Room, AppendPCs, TypeOK
  <2>2. r \in Record
    BY <2>1, ElementOfSeq
  <2> QED
    BY <1>1, <2>2, LenProperties
       DEF Inv, TypeOK, Room, UpPCs, AppendPCs
<1> HIDE DEF r, n
<1>4. ASSUME NEW k \in Keys
      PROVE  map'[k] <= n /\ ValueBlob(data, map'[k]) = view'[k]
  <2>1. map[k] <= n - 1 /\ map[k] \in Nat /\ ValueBlob(data, map[k]) = view[k]
    BY <1>2, <1>3 DEF Yields, Lookup
  <2>2. CASE k # r.key
    BY <1>1, <1>2, <1>3, <2>1, <2>2 DEF Contents
  <2>3. CASE k = r.key /\ r.blob = Empty
    <3>1. map'[k] = 0 /\ view'[k] = Empty
      BY <1>1, <1>3, <2>3 DEF Contents
    <3> QED
      BY <1>2, <1>3, <3>1 DEF ValueBlob
  <2>4. CASE k = r.key /\ r.blob # Empty
    <3>1. map'[k] = n /\ view'[k] = r.blob
      BY <1>1, <1>3, <2>4 DEF Contents
    <3> QED
      BY <1>2, <1>3, <3>1 DEF ValueBlob
  <2> QED
    BY <2>2, <2>3, <2>4
<1>5. view' \in Contents
  BY <1>1, <1>3 DEF Contents, Record
<1>6. Yields(data, map', n, view')
  <2>1. Lookup(data, map') = view'
    BY <1>4, <1>5 DEF Lookup, Contents
  <2> QED
    BY <1>4, <2>1 DEF Yields
<1>7. Serves'
  BY <1>1, <1>6 DEF Serves, IndexedSize, Yields, Lookup, RewritePCs, n
<1> QED
  BY <1>1, <1>2, <1>7 DEF IndexInv, Mapped, Unopened, Copied, OpenPCs

-----------------------------------------------------------------------------
(***************************************************************************)
(* Every action preserves the invariant: doFullWriteback.                  *)
(***************************************************************************)
LEMMA DoFullWritebackIndexInv ==
  ASSUME ~MmapMayFail, Inv, Inv', IndexInv, pc = "idle",
         NEW index, DoFullWriteback(index),
         Yields(data, index, meta.actualSize, view')
  PROVE  IndexInv'
<1>1. PICK ok \in BOOLEAN, s \in PreparedData(index) :
        /\ EnsureSpace(ItemSizeHolder + Len(s), ok)
        /\ buffer' = IF ok THEN s ELSE <<>>
        /\ pc' = IF ok THEN "rewrite_holder" ELSE "idle"
  BY DEF DoFullWriteback
<1>2. map' = index /\ meta' = meta
  BY DEF DoFullWriteback
<1>3. mapped /\ mapped' /\ (~ok => data' = data)
  <2> DEFINE needed == ItemSizeHolder + Len(s)
  <2>1. needed \in Nat \ {0}
    BY PreparedDataType, LenProperties DEF ItemSizeHolder
  <2>2. EnsureSpace(needed, ok)
    BY <1>1
  <2> HIDE DEF needed
  <2> QED
    BY <2>1, <2>2, EnsureSpaceYields
<1>4. ok => Encodes(buffer', view')
  <2>1. Encodes(s, view')
    BY <1>3, PreparedEncodes DEF Yields, Inv, TypeOK
  <2> QED
    BY <1>1, <2>1
<1>5. Serves'
  BY <1>1, <1>2, <1>3, <1>4
     DEF Serves, IndexedSize, Yields, Lookup, Encodes, AppendPCs, RewritePCs
<1> QED
  BY <1>1, <1>3, <1>5 DEF IndexInv, Mapped, Unopened, Copied, OpenPCs

LEMMA RewriteIndexInv ==
  ASSUME ~MmapMayFail, Inv, Inv', IndexInv, Compact \/ ClearAll
  PROVE  IndexInv'
<1>1. pc = "idle" /\ meta.actualSize \in Nat /\ data \in Seq(Cell)
  BY DEF Compact, ClearAll, Inv, TypeOK, Meta
<1>2. CASE Compact
  <2>1. Yields(data, map, meta.actualSize, view)
    BY <1>1 DEF IndexInv, Serves, IndexedSize
  <2> QED
    BY <1>1, <1>2, <2>1, DoFullWritebackIndexInv DEF Compact
<1>3. CASE ClearAll
  <2> DEFINE index == [k \in Keys |-> 0]
  <2>1. DoFullWriteback(index) /\ view' = EmptyContents
    BY <1>3 DEF ClearAll
  <2>2. Yields(data, index, meta.actualSize, EmptyContents)
    BY <1>1, EmptyIndex
  <2> HIDE DEF index
  <2> QED
    BY <1>1, <2>1, <2>2, DoFullWritebackIndexInv
<1> QED
  BY <1>2, <1>3

LEMMA CopyHolderIndexInv ==
  ASSUME Inv, IndexInv, CopyHolder
  PROVE  IndexInv'
<1>1. /\ pc = "rewrite_holder"
      /\ pc' = IF buffer = <<>> THEN "rewrite_meta" ELSE "rewrite_copy"
      /\ UNCHANGED <<map, buffer, copied, view, mapped>>
  BY DEF CopyHolder, process, history
<1>2. mapped /\ Encodes(buffer, view) /\ copied = 0
  BY <1>1 DEF Inv, Room, IndexInv, Mapped, Serves, UpPCs, RewritePCs
<1>3. Copied'
  BY <1>1, <1>2, EmptySeq DEF Copied, InPlace
<1>4. Serves'
  BY <1>1, <1>2 DEF Serves, Encodes, AppendPCs, RewritePCs
<1> QED
  BY <1>1, <1>2, <1>3, <1>4 DEF IndexInv, Mapped, Unopened, OpenPCs

LEMMA CopyRecordIndexInv ==
  ASSUME Inv, IndexInv, CopyRecord
  PROVE  IndexInv'
<1>1. /\ pc = "rewrite_copy"
      /\ copied' = copied + 1
      /\ pc' = IF copied' = Len(buffer) THEN "rewrite_meta" ELSE "rewrite_copy"
      /\ data' = [data EXCEPT ![ItemSizeHolder + copied + 1] =
                                buffer[copied + 1]]
      /\ UNCHANGED <<map, buffer, view, mapped>>
  BY DEF CopyRecord, history
<1>2. /\ copied \in Nat /\ copied < Len(buffer) /\ Len(buffer) \in Nat
      /\ buffer \in Seq(Record) /\ data \in Seq(Cell)
      /\ ItemSizeHolder + Len(buffer) <= Len(data) /\ Len(data) \in Nat
  BY <1>1, LenProperties DEF Inv, TypeOK, Room
<1>3. mapped /\ Encodes(buffer, view) /\ InPlace(data, buffer, copied)
  BY <1>1 DEF IndexInv, Mapped, Serves, Copied, UpPCs, RewritePCs
<1>4. InPlace(data', buffer, copied + 1)
  <2>1. copied + 1 \in 1 .. Len(buffer)
        /\ ItemSizeHolder + copied + 1 \in 1 .. Len(data)
    BY <1>2 DEF ItemSizeHolder
  <2>2. buffer[copied + 1] \in Cell
    BY <1>2, <2>1, ElementOfSeq, CellMembers
  <2>3. \A j \in 1 .. Len(data) :
          data'[j] = IF j = ItemSizeHolder + copied + 1
                       THEN buffer[copied + 1] ELSE data[j]
    BY <1>1, <1>2, <2>1, <2>2, StoreCell
  <2> QED
    BY <1>2, <1>3, <2>1, <2>3 DEF InPlace, ItemSizeHolder
<1>5. Copied'
  BY <1>1, <1>4 DEF Copied, InPlace
<1>6. Serves'
  BY <1>1, <1>3 DEF Serves, Encodes, AppendPCs, RewritePCs
<1> QED
  BY <1>1, <1>3, <1>5, <1>6 DEF IndexInv, Mapped, Unopened, OpenPCs

LEMMA ConfirmMetaIndexInv ==
  ASSUME Inv, IndexInv, ConfirmMeta
  PROVE  IndexInv'
<1>1. /\ pc = "rewrite_meta" /\ pc' = "rewrite_sync"
      /\ meta'.actualSize = ItemSizeHolder + Len(buffer)
      /\ UNCHANGED <<data, map, buffer, view, mapped>>
  BY DEF ConfirmMeta, history
<1>2. mapped /\ Encodes(buffer, view) /\ InPlace(data, buffer, Len(buffer))
  BY <1>1 DEF IndexInv, Mapped, Serves, Copied, UpPCs, RewritePCs
<1>3. Serves' /\ Copied'
  BY <1>1, <1>2 DEF Serves, Copied, Encodes, InPlace, AppendPCs, RewritePCs
<1> QED
  BY <1>1, <1>2, <1>3 DEF IndexInv, Mapped, Unopened, OpenPCs

LEMMA SyncMetaIndexInv ==
  ASSUME Inv, IndexInv, SyncMeta
  PROVE  IndexInv'
<1> DEFINE n == meta.actualSize
<1>1. /\ pc = "rewrite_sync" /\ pc' = "idle" /\ map' = DecodeMap(data, n)
      /\ UNCHANGED <<data, meta, view, mapped>>
  BY DEF SyncMeta
<1>2. /\ mapped /\ Encodes(buffer, view)
      /\ InPlace(data, buffer, Len(buffer))
      /\ n = ItemSizeHolder + Len(buffer)
  BY <1>1 DEF IndexInv, Mapped, Serves, Copied, UpPCs, RewritePCs
<1>3. /\ data \in Seq(Cell) /\ buffer \in Seq(Record)
      /\ view \in Contents /\ n <= Len(data)
  BY <1>1 DEF Inv, TypeOK, Room, UpPCs, RewritePCs
<1> HIDE DEF n
<1>4. Yields(data, map', n, view)
  BY <1>1, <1>2, <1>3, DecodeEncoded
<1>5. Serves'
  BY <1>1, <1>4 DEF Serves, IndexedSize, Yields, Lookup, RewritePCs, n
<1> QED
  BY <1>1, <1>2, <1>5 DEF IndexInv, Mapped, Unopened, Copied, OpenPCs

-----------------------------------------------------------------------------
(***************************************************************************)
(* The theorem.                                                            *)
(***************************************************************************)
LEMMA ForgetIndexInv == Forget => IndexInv'
BY DEF Forget, IndexInv, Mapped, Unopened, Serves, Copied, UpPCs, AppendPCs,
       RewritePCs

LEMMA StutterIndexInv == IndexInv /\ UNCHANGED vars => IndexInv'
BY DEF vars, disk, process, history, IndexInv, Mapped, Unopened, Serves,
       Copied, Yields, Lookup, Encodes, InPlace, IndexedSize

LEMMA NextIndexInv ==
  ASSUME ~MmapMayFail, Inv, IndexInv, [Next]_vars
  PROVE  IndexInv'
<1>0. Inv'
  BY NextInv
<1>1. CASE \/ CreateData \/ TruncateData \/ InitData \/ CreateCrc
           \/ WriteInitialMeta \/ OpenExisting
  BY <1>0, <1>1, CreateIndexInv, WriteInitialMetaIndexInv,
     OpenExistingIndexInv
<1>2. CASE OpenRefused \/ UNCHANGED vars
  BY <1>2, StutterIndexInv DEF OpenRefused
<1>3. CASE \/ \E k \in Keys, b \in Blobs : Set(k, b)
           \/ \E k \in Keys : Remove(k)
  BY <1>3, AppendIndexInv DEF Set, Remove
<1>4. CASE WriteRecord \/ UpdateMeta \/ WriteCrcDigest \/ WriteActualSize
           \/ IndexRecord
  BY <1>4, WriteRecordIndexInv, UpdateMetaIndexInv, WriteMetaIndexInv,
     IndexRecordIndexInv
<1>5. CASE \/ Compact \/ ClearAll
           \/ CopyHolder \/ CopyRecord \/ ConfirmMeta \/ SyncMeta
  BY <1>0, <1>5, RewriteIndexInv, CopyHolderIndexInv, CopyRecordIndexInv,
     ConfirmMetaIndexInv, SyncMetaIndexInv
<1>6. CASE Close \/ Crash
  BY <1>6, ForgetIndexInv DEF Close, Crash
<1> QED
  BY <1>1, <1>2, <1>3, <1>4, <1>5, <1>6 DEF Next

\* Between two operations every key is read as its last value, through appends,
\* tombstones, growth, a rollback at open and rewrites in any order, with a
\* crash anywhere: as long as no mmap fails (writer.cpp:293-346, 358-442).
THEOREM IndexAlwaysCorrect ==
  ASSUME ~MmapMayFail
  PROVE  Spec => []IndexCorrect
<1>1. Init => Inv /\ IndexInv
  BY InitInv, InitIndexInv
<1>2. Inv /\ IndexInv /\ [Next]_vars => Inv' /\ IndexInv'
  BY NextInv, NextIndexInv
<1>3. IndexInv => IndexCorrect
  BY DEF IndexInv, Serves, Yields, IndexCorrect
<1> QED
  BY <1>1, <1>2, <1>3, PTL DEF Spec

-----------------------------------------------------------------------------
(***************************************************************************)
(* The disk.  StoredOnDisk is not inductive: it says nothing of the meta   *)
(* record in memory, from which the one on disk is written field by field  *)
(* (Digested, Counted), nor of why a log that was continued after a        *)
(* rollback never verifies by accident.  It does not, because its stale    *)
(* digest covers more cells than it has (the second part of Held), and     *)
(* that is so at the rollback because writeMetaInfoFast writes the digest  *)
(* before the size (Sized): the file cannot count cells its digest does    *)
(* not cover.                                                              *)
(***************************************************************************)
\* A meta record's sizes do not pass its digest, and what it can roll back to
\* is not empty.
Sized(m) == /\ m.version # 2
            /\ m.version >= 3 => 1 <= m.lastConfirmedActualSize
            /\ m.lastConfirmedActualSize <= m.actualSize
            /\ m.actualSize <= Len(m.crcDigest)

Sizes == /\ \A i \in 1 .. Len(crc) : Sized(crc[i])
         /\ Sized(meta)

\* There are files, and the log in them has its ItemSizeHolder.
Files == /\ pc # "closed" => exists
         /\ Len(crc) > 0 => 1 <= header
         /\ pc \in UpPCs => 1 <= meta.actualSize
         /\ pc \in {"append_digest", "append_size", "append_index"} =>
              2 <= meta.actualSize

Opening == /\ pc \in {"closed"} \cup OpenPCs => logged /\ stored = EmptyContents
           /\ pc \in {"new_crc", "new_meta"} =>
                meta.version = 4 /\ meta.actualSize = 1 /\ header = 1

\* Where the log is the one the last call left, or an append to it.
WorkingPCs == {"idle", "rewrite_holder"} \cup AppendPCs

\* The digest on disk is the one in memory, or on its way there; that one is
\* the digest of the log, unless there was a rollback.
Digested ==
  /\ pc \in WorkingPCs \ {"append_digest"} =>
       crc[1].crcDigest = meta.crcDigest
  /\ pc = "append_digest" => Len(crc[1].crcDigest) <= Len(meta.crcDigest)
  /\ pc \in WorkingPCs /\ logged =>
       Verifies(data, meta.actualSize, meta.crcDigest)
  /\ pc \in {"new_crc", "new_meta", "rewrite_sync"} =>
       Verifies(data, meta.actualSize, meta.crcDigest)

\* The size on disk, where the version keeps it.
Counted ==
  /\ pc \in WorkingPCs \ {"append_digest", "append_size", "append_index"}
       /\ logged => CandidateSize(crc[1], header) = meta.actualSize
  /\ pc \in {"append_digest", "append_size", "append_index", "rewrite_sync"} =>
       header = meta.actualSize
  /\ pc = "append_index" => crc[1].actualSize = meta.actualSize

\* The log, or after a rollback the part of it that is confirmed, holds what
\* was promised; the log after a rollback does not verify.
Held ==
  /\ pc \in WorkingPCs /\ logged => LogHolds(data, IndexedSize, stored)
  /\ pc \in WorkingPCs /\ ~logged =>
       /\ meta.version >= 3
       /\ meta.actualSize < Len(meta.crcDigest)
       /\ LogHolds(data, meta.lastConfirmedActualSize, stored)
  /\ pc = "idle" /\ ~logged => ~PrimaryValid(data, header, crc[1])

DiskInv == Sizes /\ Files /\ Opening /\ Digested /\ Counted /\ Held

-----------------------------------------------------------------------------
(***************************************************************************)
(* Every action preserves the invariant: open().                           *)
(***************************************************************************)
LEMMA InitDiskInv == Init => DiskInv
<1> SUFFICES ASSUME Init PROVE DiskInv
  OBVIOUS
<1>1. Sized(ZeroMeta)
  BY EmptySeq DEF Sized, ZeroMeta
<1>2. /\ \A i \in 1 .. Len(crc) : Sized(crc[i])
      /\ Len(crc) > 0 => 1 <= header
  <2>1. CASE NoFiles
    <3>1. crc = <<>> /\ Len(crc) = 0
      BY <2>1, EmptySeq DEF NoFiles
    <3> QED
      BY <3>1
  <2>2. CASE LegacyFiles
    <3>1. PICK v \in LegacyVersions, k \in Keys, b \in Values :
            LET cells == <<[seed |-> 1], [key |-> k, blob |-> b]>>
            IN  header = 2 /\ crc = <<LegacyMeta(v, cells)>>
      BY <2>2 DEF LegacyFiles
    <3> DEFINE cells == <<[seed |-> 1], [key |-> k, blob |-> b]>>
    <3>2. Len(cells) = 2
      OBVIOUS
    <3> HIDE DEF cells
    <3>3. Sized(LegacyMeta(v, cells))
      BY <3>2, LegacyAssumption DEF LegacyMeta, Sized
    <3> QED
      BY <3>1, <3>3 DEF cells
  <2> QED
    BY <2>1, <2>2 DEF Init
<1> QED
  BY <1>1, <1>2
     DEF Init, DiskInv, Sizes, Files, Opening, Digested, Counted, Held,
         UpPCs, WorkingPCs, AppendPCs, RewritePCs

LEMMA CreateDiskInv ==
  ASSUME Inv, DiskInv, CreateData \/ TruncateData
  PROVE  DiskInv'
<1>1. /\ pc' \in {"new_truncate", "new_init"} /\ exists' = TRUE
      /\ pc \in {"closed"} \cup OpenPCs
      /\ UNCHANGED <<header, crc, meta, stored, logged>>
  BY DEF CreateData, TruncateData, OpenPCs, process, history, DiskInv, Files
<1> QED
  BY <1>1
     DEF DiskInv, Sizes, Sized, Files, Opening, Digested, Counted, Held,
         UpPCs, WorkingPCs, AppendPCs, RewritePCs, OpenPCs

LEMMA InitDataDiskInv ==
  ASSUME Inv, DiskInv, InitData
  PROVE  DiskInv'
<1>1. /\ pc = "new_init" /\ pc' = "new_crc" /\ header' = 1
      /\ data' = [data EXCEPT ![1] = [seed |-> 1]]
      /\ UNCHANGED <<exists, crc, history>>
  BY DEF InitData
<1>2. /\ meta'.version = 4 /\ meta'.actualSize = 1
      /\ meta'.lastConfirmedActualSize = 1
      /\ meta'.crcDigest = ComputeCRC(data', 1)
  BY DEF InitData
<1>3. data' \in Seq(Cell) /\ 1 <= Len(data') /\ Len(data') \in Nat
  <2>1. data \in Seq(Cell) /\ 1 <= Len(data)
    BY <1>1 DEF Inv, TypeOK, Room
  <2> QED
    BY <1>1, <2>1, CellMembers, StoreCell, LenProperties
<1>4. /\ Len(ComputeCRC(data', 1)) = 1
      /\ \A i \in 1 .. 1 : ComputeCRC(data', 1)[i] = data'[i]
  <2>1. 1 \in 0 .. Len(data')
    BY <1>3
  <2> QED
    BY ONLY <1>3, <2>1, ComputeCRCProperties
<1>5. Sized(meta')
  BY <1>2, <1>4 DEF Sized
<1>6. Verifies(data', meta'.actualSize, meta'.crcDigest)
  BY <1>2, <1>3, <1>4 DEF Verifies
<1> QED
  BY <1>1, <1>2, <1>5, <1>6
     DEF DiskInv, Sizes, Sized, Files, Opening, Digested, Counted, Held,
         UpPCs, WorkingPCs, AppendPCs, RewritePCs, OpenPCs, history

LEMMA CreateCrcDiskInv ==
  ASSUME Inv, DiskInv, CreateCrc
  PROVE  DiskInv'
<1>1. /\ pc = "new_crc" /\ pc' = "new_meta" /\ crc' = <<ZeroMeta>>
      /\ UNCHANGED <<exists, data, header, meta, stored, logged>>
  BY DEF CreateCrc, process, history
<1>2. Sized(ZeroMeta)
  BY EmptySeq DEF Sized, ZeroMeta
<1>3. Len(crc') = 1 /\ crc'[1] = ZeroMeta
  BY <1>1
<1>4. Sizes'
  BY <1>1, <1>2, <1>3 DEF DiskInv, Sizes, Sized
<1> QED
  BY <1>1, <1>4
     DEF DiskInv, Files, Opening, Digested, Counted, Held,
         UpPCs, WorkingPCs, AppendPCs, RewritePCs, OpenPCs, Verifies

LEMMA WriteInitialMetaDiskInv ==
  ASSUME Inv, DiskInv, WriteInitialMeta
  PROVE  DiskInv'
<1>1. /\ pc = "new_meta" /\ pc' = "idle" /\ crc' = <<meta>>
      /\ UNCHANGED <<exists, data, header, meta, stored, logged>>
  BY DEF WriteInitialMeta, process, history
<1>2. Len(crc') = 1 /\ crc'[1] = meta
  BY <1>1
<1>3. /\ meta.version = 4 /\ meta.actualSize = 1 /\ header = 1
      /\ logged /\ stored = EmptyContents
      /\ Verifies(data, meta.actualSize, meta.crcDigest)
  BY <1>1 DEF DiskInv, Opening, OpenPCs, Digested
<1>4. Sizes'
  BY <1>1, <1>2 DEF DiskInv, Sizes, Sized
<1>5. Digested' /\ Counted'
  BY <1>1, <1>2, <1>3
     DEF Digested, Counted, WorkingPCs, AppendPCs, Verifies, CandidateSize
<1>6. Held'
  <2>1. IndexedSize' = 1
    BY <1>1, <1>3 DEF IndexedSize
  <2>2. LogHolds(data', 1, EmptyContents)
    BY LogHoldsNothing
  <2> QED
    BY <1>1, <1>3, <2>1, <2>2 DEF Held, WorkingPCs, AppendPCs
<1> QED
  BY <1>1, <1>3, <1>4, <1>5, <1>6
     DEF DiskInv, Files, Opening, UpPCs, RewritePCs, OpenPCs

LEMMA OpenExistingDiskInv ==
  ASSUME Inv, DiskInv, OpenExisting
  PROVE  DiskInv'
<1> DEFINE m    == crc[1]
           size == CheckDataValid(data, header, m).effectiveActualSize
<1>1. /\ pc = "closed" /\ pc' = "idle" /\ exists
      /\ meta' = [m EXCEPT !.actualSize = size]
      /\ stored' = Lookup(data, DecodeMap(data, size))
      /\ logged' = PrimaryValid(data, header, m)
      /\ CheckDataValid(data, header, m).loadFromFile
      /\ UNCHANGED <<exists, data, header, crc>>
  BY DEF OpenExisting, Openable, disk
<1> HIDE DEF size
<1>2. /\ Len(crc) = 1 /\ m \in Meta /\ Sized(m) /\ Extends(m)
      /\ data \in Seq(Cell) /\ header \in Nat /\ 1 <= header
  <2>1. crc \in Seq(Meta) /\ Len(crc) > 0 /\ Len(crc) <= 1
    BY DEF OpenExisting, Openable, Inv, TypeOK
  <2>2. Len(crc) \in Nat
    BY <2>1, LenProperties
  <2>3. Len(crc) = 1
    BY <2>1, <2>2
  <2>4. m \in Meta
    BY <2>1, <2>3, ElementOfSeq
  <2>5. Sized(m) /\ Extends(m)
    BY <2>3 DEF Inv, DiskInv, Sizes
  <2> QED
    BY <2>3, <2>4, <2>5 DEF Inv, TypeOK, DiskInv, Files
<1> HIDE DEF m
<1>3. size \in Nat /\ size <= Len(data)
  BY <1>1, <1>2, CheckDataValidBound DEF size
<1>4. /\ meta' \in Meta /\ meta'.actualSize = size
      /\ meta'.version = m.version /\ meta'.crcDigest = m.crcDigest
      /\ meta'.lastConfirmedActualSize = m.lastConfirmedActualSize
  BY <1>1, <1>2, <1>3 DEF Meta
<1>5. /\ Len(m.crcDigest) \in Nat /\ m.actualSize \in Nat
      /\ m.lastConfirmedActualSize \in Nat
  BY <1>2, LenProperties DEF Meta
<1>6. LogHolds(data, size, stored')
  BY <1>1, <1>2, <1>3, LookupLogHolds
<1>7. ASSUME logged'
      PROVE  /\ size = CandidateSize(m, header)
             /\ Verifies(data, size, m.crcDigest) /\ size = Len(m.crcDigest)
             /\ 1 <= size /\ m.lastConfirmedActualSize <= size
  <2>1. PrimaryValid(data, header, m)
    BY <1>1, <1>7
  <2>2. size = CandidateSize(m, header)
    BY <2>1 DEF CheckDataValid, size
  <2>3. Verifies(data, size, m.crcDigest) /\ size = Len(m.crcDigest)
    BY <2>1, <2>2 DEF PrimaryValid, Verifies
  <2>4. 1 <= size
    BY <1>2, <1>5, <2>2 DEF CandidateSize, Sized, Meta
  <2> QED
    BY <1>2, <2>2, <2>3, <2>4 DEF Extends
<1>8. ASSUME ~logged'
      PROVE  /\ size = m.lastConfirmedActualSize
             /\ m.version >= 3 /\ 1 <= size /\ size < Len(m.crcDigest)
             /\ ~PrimaryValid(data, header, m)
  <2>1. ~PrimaryValid(data, header, m) /\ ConfirmedValid(data, m)
    BY <1>1, <1>8 DEF CheckDataValid
  <2>2. size = m.lastConfirmedActualSize
    BY <2>1 DEF CheckDataValid, size
  <2>3. m.version >= 3 /\ 1 <= size
    BY <1>2, <2>1, <2>2 DEF ConfirmedValid, Sized, Meta
  <2>4. ASSUME size = Len(m.crcDigest)  PROVE FALSE
    <3>1. m.actualSize = size /\ CandidateSize(m, header) = size
      BY <1>2, <1>5, <2>2, <2>3, <2>4 DEF Sized, CandidateSize, Meta
    <3>2. Verifies(data, size, m.crcDigest)
      BY <1>2, <2>1, <2>2, <2>4 DEF ConfirmedValid, Verifies, Extends
    <3> QED
      BY <2>1, <3>1, <3>2 DEF PrimaryValid
  <2> QED
    BY <1>2, <1>5, <2>1, <2>2, <2>3, <2>4 DEF Extends
<1>9. Sized(meta')
  BY <1>2, <1>3, <1>4, <1>5, <1>7, <1>8 DEF Sized
<1>10. Sizes' /\ Files'
  BY <1>1, <1>2, <1>4, <1>7, <1>8, <1>9
     DEF DiskInv, Sizes, Sized, Files, UpPCs
<1>11. Digested' /\ Counted'
  BY <1>1, <1>4, <1>7
     DEF Digested, Counted, WorkingPCs, AppendPCs, Verifies, CandidateSize, m
<1>12. IndexedSize' = size
  BY <1>1, <1>4 DEF IndexedSize
<1>13. Held'
  BY <1>1, <1>4, <1>6, <1>8, <1>12 DEF Held, WorkingPCs, AppendPCs, m
<1> QED
  BY <1>1, <1>10, <1>11, <1>13 DEF DiskInv, Opening, OpenPCs

-----------------------------------------------------------------------------
(***************************************************************************)
(* Every action preserves the invariant: appendRecord.                     *)
(***************************************************************************)
\* The meta record on disk, while the store is open.
LEMMA MetaWhileUp ==
  ASSUME Inv, DiskInv, pc \in UpPCs
  PROVE  /\ Len(crc) = 1 /\ crc[1] \in Meta /\ Sized(crc[1])
         /\ meta \in Meta /\ Sized(meta) /\ 1 <= meta.actualSize
         /\ 1 <= header /\ exists /\ data \in Seq(Cell)
         /\ pc # "rewrite_sync" =>
              /\ crc[1].version = meta.version
              /\ crc[1].lastConfirmedActualSize = meta.lastConfirmedActualSize
<1>1. Len(crc) = 1 /\ crc \in Seq(Meta)
  BY DEF Inv, TypeOK, RecoveryPoint
<1>2. crc[1] \in Meta
  BY <1>1, ElementOfSeq
<1>3. Sized(crc[1]) /\ Sized(meta)
  BY <1>1 DEF DiskInv, Sizes
<1>4. 1 <= meta.actualSize /\ 1 <= header /\ exists
  <2>1. pc # "closed" /\ Len(crc) > 0
    BY <1>1 DEF UpPCs, AppendPCs, RewritePCs
  <2> QED
    BY <2>1 DEF DiskInv, Files
<1>5. meta \in Meta /\ data \in Seq(Cell)
  BY DEF Inv, TypeOK
<1>6. pc # "rewrite_sync" =>
        /\ crc[1].version = meta.version
        /\ crc[1].lastConfirmedActualSize = meta.lastConfirmedActualSize
  BY DEF Inv, RecoveryPoint
<1> QED
  BY <1>1, <1>2, <1>3, <1>4, <1>5, <1>6

\* What changes only the room behind the log, or nothing.
LEMMA RoomDiskInv ==
  ASSUME Inv, DiskInv, pc = "idle",
         UNCHANGED <<exists, header, crc, meta, stored, logged>>,
         data' \in Seq(Cell), meta.actualSize <= Len(data'),
         \A i \in 1 .. meta.actualSize : data'[i] = data[i],
         pc' = "idle" => data' = data,
         pc' \in {"idle", "append_write", "rewrite_holder"}
  PROVE  DiskInv'
<1>1. /\ meta.actualSize \in Nat /\ meta.lastConfirmedActualSize \in Nat
      /\ meta.lastConfirmedActualSize <= meta.actualSize
      /\ data \in Seq(Cell)
  BY DEF Inv, TypeOK, Meta, RecoveryPoint
<1>2. Sizes' /\ Files' /\ Opening'
  BY DEF DiskInv, Sizes, Sized, Files, Opening, UpPCs, OpenPCs
<1>3. ASSUME logged  PROVE Verifies(data', meta.actualSize, meta.crcDigest)
  <2> DEFINE n == meta.actualSize
             d == meta.crcDigest
  <2>1. Verifies(data, n, d)
    BY <1>3 DEF DiskInv, Digested, WorkingPCs
  <2>2. /\ n \in Nat /\ n <= n /\ data \in Seq(Cell) /\ data' \in Seq(Cell)
        /\ n <= Len(data') /\ \A i \in 1 .. n : data'[i] = data[i]
    BY <1>1
  <2> HIDE DEF n, d
  <2>3. Verifies(data', n, d)
    BY ONLY <2>1, <2>2, VerifiesKept
  <2> QED
    BY <2>3 DEF n, d
<1>4. Digested' /\ Counted'
  BY <1>3 DEF DiskInv, Digested, Counted, WorkingPCs, AppendPCs, CandidateSize
<1>5. IndexedSize = meta.actualSize /\ IndexedSize' = meta.actualSize
  BY DEF IndexedSize
<1>6. ASSUME logged  PROVE LogHolds(data', meta.actualSize, stored)
  <2>1. LogHolds(data, meta.actualSize, stored)
    BY <1>5, <1>6 DEF DiskInv, Held, WorkingPCs
  <2> QED
    BY <1>1, <2>1, LogHoldsKept
<1>7. ASSUME ~logged
      PROVE  LogHolds(data', meta.lastConfirmedActualSize, stored)
  <2>1. LogHolds(data, meta.lastConfirmedActualSize, stored)
    BY <1>7 DEF DiskInv, Held, WorkingPCs
  <2>2. \A i \in 1 .. meta.lastConfirmedActualSize : data'[i] = data[i]
    BY <1>1
  <2> QED
    BY <1>1, <2>1, <2>2, LogHoldsKept
<1>8. Held'
  BY <1>5, <1>6, <1>7 DEF DiskInv, Held, WorkingPCs, AppendPCs
<1> QED
  BY <1>2, <1>4, <1>8 DEF DiskInv

LEMMA AppendDiskInv ==
  ASSUME ~MmapMayFail, Inv, IndexInv, DiskInv, NEW k, NEW b,
         AppendRecord(k, b)
  PROVE  DiskInv'
<1>1. PICK ok \in BOOLEAN :
        EnsureSpace(1, ok) /\ pc' = IF ok THEN "append_write" ELSE "idle"
  BY DEF AppendRecord
<1>2. pc = "idle" /\ UNCHANGED <<exists, header, crc, meta, stored, logged>>
  BY DEF AppendRecord, history
<1>3. 1 \in Nat \ {0} /\ TypeOK /\ meta.actualSize <= Len(data)
  BY <1>2 DEF Inv, Room, UpPCs
<1>4. /\ data' \in Seq(Cell) /\ meta.actualSize <= Len(data')
      /\ \A i \in 1 .. meta.actualSize : data'[i] = data[i]
  BY <1>1, <1>3, EnsureSpaceProperties
<1>5. ~ok => data' = data
  BY <1>1, <1>2, <1>3, EnsureSpaceYields
<1> QED
  BY <1>1, <1>2, <1>4, <1>5, RoomDiskInv

LEMMA WriteRecordDiskInv ==
  ASSUME Inv, DiskInv, WriteRecord
  PROVE  DiskInv'
<1> DEFINE n == meta.actualSize
<1>1. /\ pc = "append_write" /\ pc' = "append_meta"
      /\ data' = [data EXCEPT ![n + 1] = buffer[1]]
      /\ UNCHANGED <<exists, header, crc, meta, stored, logged>>
  BY DEF WriteRecord, process, history
<1>2. /\ n \in Nat /\ meta.lastConfirmedActualSize \in Nat
      /\ meta.lastConfirmedActualSize <= n
      /\ n + 1 <= Len(data) /\ Len(data) \in Nat
      /\ data \in Seq(Cell) /\ buffer[1] \in Cell
  <2>1. Len(buffer) = 1 /\ buffer \in Seq(Record)
    BY <1>1 DEF Inv, Room, AppendPCs, TypeOK
  <2>2. buffer[1] \in Cell
    BY <2>1, ElementOfSeq, CellMembers
  <2> QED
    BY <1>1, <2>2, LenProperties
       DEF Inv, TypeOK, Meta, Room, RecoveryPoint, AppendPCs
<1> HIDE DEF n
<1>3. /\ data' \in Seq(Cell) /\ n <= Len(data')
      /\ \A i \in 1 .. n : data'[i] = data[i]
  BY <1>1, <1>2, StoreCell
<1>4. ASSUME logged  PROVE Verifies(data', n, meta.crcDigest)
  <2>1. Verifies(data, n, meta.crcDigest)
    BY <1>1, <1>4 DEF DiskInv, Digested, WorkingPCs, AppendPCs, n
  <2> QED
    BY <1>2, <1>3, <2>1, VerifiesKept
<1>5. IndexedSize = n /\ IndexedSize' = n
  BY <1>1 DEF IndexedSize, n
<1>6. ASSUME logged  PROVE LogHolds(data', n, stored)
  <2>1. LogHolds(data, n, stored)
    BY <1>1, <1>5, <1>6 DEF DiskInv, Held, WorkingPCs, AppendPCs
  <2> QED
    BY <1>2, <1>3, <2>1, LogHoldsKept
<1>7. ASSUME ~logged
      PROVE  LogHolds(data', meta.lastConfirmedActualSize, stored)
  <2>1. LogHolds(data, meta.lastConfirmedActualSize, stored)
    BY <1>1, <1>7 DEF DiskInv, Held, WorkingPCs, AppendPCs
  <2>2. \A i \in 1 .. meta.lastConfirmedActualSize : data'[i] = data[i]
    BY <1>2, <1>3
  <2> QED
    BY <1>2, <2>1, <2>2, LogHoldsKept
<1>8. Sizes' /\ Files' /\ Opening'
  BY <1>1 DEF DiskInv, Sizes, Sized, Files, Opening, UpPCs, AppendPCs, OpenPCs
<1>9. Digested' /\ Counted'
  BY <1>1, <1>4
     DEF DiskInv, Digested, Counted, WorkingPCs, AppendPCs, CandidateSize, n
<1>10. Held'
  BY <1>1, <1>5, <1>6, <1>7 DEF DiskInv, Held, WorkingPCs, AppendPCs
<1> QED
  BY <1>8, <1>9, <1>10 DEF DiskInv

LEMMA UpdateMetaDiskInv ==
  ASSUME Inv, IndexInv, DiskInv, UpdateMeta
  PROVE  DiskInv'
<1> DEFINE n == meta.actualSize
           r == buffer[1]
           d == meta.crcDigest
<1>1. /\ pc = "append_meta" /\ pc' = "append_digest"
      /\ header' = meta'.actualSize
      /\ UNCHANGED <<exists, data, crc, stored, logged>>
  BY DEF UpdateMeta, history
<1>2. /\ meta \in Meta /\ n \in Nat /\ 1 <= n /\ d \in Seq(Cell)
      /\ n + 1 <= Len(data) /\ data[n + 1] = r /\ r \in Cell
  <2>1. Len(buffer) = 1 /\ buffer \in Seq(Record)
    BY <1>1 DEF Inv, Room, AppendPCs, TypeOK
  <2>2. r \in Cell
    BY <2>1, ElementOfSeq, CellMembers
  <2> QED
    BY <1>1, <2>2
       DEF Inv, TypeOK, Meta, Room, IndexInv, Copied, DiskInv, Files, UpPCs,
           AppendPCs
<1>3. /\ meta'.actualSize = n + 1 /\ meta'.crcDigest = Append(d, r)
      /\ meta'.version = meta.version
      /\ meta'.lastConfirmedActualSize = meta.lastConfirmedActualSize
  BY <1>2 DEF UpdateMeta, UpdateCRC, Meta
<1> HIDE DEF n, r, d
<1>4. /\ Len(d) \in Nat /\ Len(Append(d, r)) = Len(d) + 1
      /\ Append(d, r)[Len(d) + 1] = r
      /\ \A i \in 1 .. Len(d) : Append(d, r)[i] = d[i]
  BY <1>2, AppendProperties, LenProperties
<1>5. Sized(meta) /\ crc[1].crcDigest = d
  BY <1>1 DEF DiskInv, Sizes, Digested, WorkingPCs, AppendPCs, d
<1>6. Sized(meta')
  <2>1. meta.lastConfirmedActualSize \in Nat
    BY <1>2 DEF Meta
  <2> QED
    BY <1>2, <1>3, <1>4, <1>5, <2>1 DEF Sized, n, d
<1>7. Sizes' /\ Files' /\ Opening'
  BY <1>1, <1>2, <1>3, <1>6
     DEF DiskInv, Sizes, Sized, Files, Opening, UpPCs, AppendPCs, OpenPCs
<1>8. ASSUME logged  PROVE Verifies(data, n + 1, Append(d, r))
  <2>1. Verifies(data, n, d)
    BY <1>1, <1>8 DEF DiskInv, Digested, WorkingPCs, AppendPCs, n, d
  <2> QED
    BY <1>2, <1>4, <2>1 DEF Verifies
<1>9. Digested' /\ Counted'
  BY <1>1, <1>3, <1>4, <1>5, <1>8
     DEF DiskInv, Digested, Counted, WorkingPCs, AppendPCs
<1>10. IndexedSize = n /\ IndexedSize' = n
  BY <1>1, <1>2, <1>3 DEF IndexedSize, n
<1>11. Held'
  BY <1>1, <1>2, <1>3, <1>4, <1>10
     DEF DiskInv, Held, WorkingPCs, AppendPCs, n, d
<1> QED
  BY <1>7, <1>9, <1>11 DEF DiskInv

\* One of the two pwrites of writeMetaInfoFast.
LEMMA WriteMetaDiskInv ==
  ASSUME Inv, DiskInv, WriteCrcDigest \/ WriteActualSize
  PROVE  DiskInv'
<1>1. /\ UNCHANGED <<exists, data, header, meta, stored, logged>>
      /\ pc \in {"append_digest", "append_size"}
  BY DEF WriteCrcDigest, WriteActualSize, process, history
<1>2. /\ Len(crc) = 1 /\ crc[1] \in Meta /\ Sized(crc[1])
      /\ meta \in Meta /\ Sized(meta)
      /\ crc[1].version = meta.version
      /\ crc[1].lastConfirmedActualSize = meta.lastConfirmedActualSize
  <2>1. pc \in UpPCs /\ pc # "rewrite_sync"
    BY <1>1 DEF UpPCs, AppendPCs
  <2> QED
    BY <2>1, MetaWhileUp
<1>3. /\ IndexedSize' = IndexedSize
      /\ pc' \in {"append_size", "append_index"}
  BY <1>1 DEF IndexedSize, WriteCrcDigest, WriteActualSize
<1>4. CASE WriteCrcDigest
  <2>1. /\ pc = "append_digest" /\ pc' = "append_size"
        /\ crc' = <<[crc[1] EXCEPT !.crcDigest = meta.crcDigest]>>
    BY <1>4 DEF WriteCrcDigest
  <2>2. /\ Len(crc') = 1 /\ crc'[1].crcDigest = meta.crcDigest
        /\ crc'[1].version = crc[1].version
        /\ crc'[1].actualSize = crc[1].actualSize
        /\ crc'[1].lastConfirmedActualSize = crc[1].lastConfirmedActualSize
    BY <1>2, <2>1 DEF Meta
  <2>3. Sized(crc'[1])
    <3>1. Len(crc[1].crcDigest) <= Len(meta.crcDigest)
      BY <2>1 DEF DiskInv, Digested
    <3>2. /\ Len(crc[1].crcDigest) \in Nat /\ Len(meta.crcDigest) \in Nat
          /\ crc[1].actualSize \in Nat
      BY <1>2, LenProperties DEF Meta
    <3> QED
      BY <1>2, <2>2, <3>1, <3>2 DEF Sized
  <2>4. Sizes'
    BY <1>1, <2>2, <2>3 DEF DiskInv, Sizes, Sized
  <2>5. Digested' /\ Counted' /\ Held'
    BY <1>1, <1>3, <2>1, <2>2
       DEF DiskInv, Digested, Counted, Held, WorkingPCs, AppendPCs
  <2> QED
    BY <1>1, <1>2, <2>1, <2>2, <2>4, <2>5
       DEF DiskInv, Files, Opening, UpPCs, AppendPCs, OpenPCs
<1>5. CASE WriteActualSize
  <2>1. /\ pc = "append_size" /\ pc' = "append_index"
        /\ crc' = <<[crc[1] EXCEPT !.actualSize = meta.actualSize]>>
    BY <1>5 DEF WriteActualSize
  <2>2. /\ Len(crc') = 1 /\ crc'[1].crcDigest = crc[1].crcDigest
        /\ crc'[1].version = crc[1].version
        /\ crc'[1].actualSize = meta.actualSize
        /\ crc'[1].lastConfirmedActualSize = crc[1].lastConfirmedActualSize
    BY <1>2, <2>1 DEF Meta
  <2>3. crc[1].crcDigest = meta.crcDigest
    BY <2>1 DEF DiskInv, Digested, WorkingPCs, AppendPCs
  <2>4. Sized(crc'[1])
    BY <1>2, <2>2, <2>3 DEF Sized
  <2>5. Sizes'
    BY <1>1, <2>2, <2>4 DEF DiskInv, Sizes, Sized
  <2>6. Digested' /\ Counted' /\ Held'
    BY <1>1, <1>3, <2>1, <2>2, <2>3
       DEF DiskInv, Digested, Counted, Held, WorkingPCs, AppendPCs
  <2> QED
    BY <1>1, <1>2, <2>1, <2>2, <2>5, <2>6
       DEF DiskInv, Files, Opening, UpPCs, AppendPCs, OpenPCs
<1> QED
  BY <1>4, <1>5

LEMMA IndexRecordDiskInv ==
  ASSUME Inv, IndexInv, DiskInv, IndexRecord
  PROVE  DiskInv'
<1> DEFINE r == buffer[1]
           n == meta.actualSize
<1>1. /\ pc = "append_index" /\ pc' = "idle"
      /\ stored' = IF logged THEN [stored EXCEPT ![r.key] = r.blob] ELSE stored
      /\ UNCHANGED <<exists, data, header, crc, meta, logged>>
  BY DEF IndexRecord, disk
<1>2. /\ n \in Nat /\ data[n] = r /\ r \in Record /\ stored \in Contents
  <2>1. Len(buffer) = 1 /\ buffer \in Seq(Record)
    BY <1>1 DEF Inv, Room, AppendPCs, TypeOK
  <2>2. r \in Record
    BY <2>1, ElementOfSeq
  <2> QED
    BY <1>1, <2>2 DEF Inv, TypeOK, Meta, IndexInv, Copied
<1>3. header = n /\ crc[1].actualSize = n /\ crc[1].crcDigest = meta.crcDigest
  BY <1>1 DEF DiskInv, Counted, Digested, WorkingPCs, AppendPCs
<1>4. crc[1].version = meta.version /\ ItemSizeHolder + 1 <= n
  <2>1. pc \in UpPCs /\ pc # "rewrite_sync" /\ 2 <= n
    BY <1>1 DEF UpPCs, AppendPCs, DiskInv, Files
  <2> QED
    BY <2>1, MetaWhileUp DEF ItemSizeHolder
<1>5. IndexedSize = n - 1 /\ IndexedSize' = n
  BY <1>1 DEF IndexedSize
<1> HIDE DEF r, n
<1>6. Sizes' /\ Files' /\ Opening'
  BY <1>1 DEF DiskInv, Sizes, Sized, Files, Opening, UpPCs, AppendPCs, OpenPCs
<1>7. Digested' /\ Counted'
  BY <1>1, <1>3
     DEF DiskInv, Digested, Counted, WorkingPCs, AppendPCs, CandidateSize, n
<1>8. ASSUME logged  PROVE LogHolds(data, n, [stored EXCEPT ![r.key] = r.blob])
  <2>1. LogHolds(data, n - 1, stored)
    BY <1>1, <1>5, <1>8 DEF DiskInv, Held, WorkingPCs, AppendPCs
  <2> QED
    BY <1>2, <1>4, <2>1, LogHoldsAppend
<1>9. ASSUME ~logged  PROVE ~PrimaryValid(data, header, crc[1])
  <2>1. meta.version >= 3 /\ n < Len(meta.crcDigest)
    BY <1>1, <1>9 DEF DiskInv, Held, WorkingPCs, AppendPCs, n
  <2>2. meta.version \in 0 .. 4 /\ Len(meta.crcDigest) \in Nat
    BY LenProperties DEF Inv, TypeOK, Meta
  <2>3. CandidateSize(crc[1], header) = n
    BY <1>3 DEF CandidateSize
  <2> QED
    BY <1>2, <1>3, <2>1, <2>2, <2>3 DEF PrimaryValid, Verifies
<1>10. Held'
  BY <1>1, <1>5, <1>8, <1>9 DEF DiskInv, Held, WorkingPCs, AppendPCs
<1> QED
  BY <1>6, <1>7, <1>10 DEF DiskInv

-----------------------------------------------------------------------------
(***************************************************************************)
(* Every action preserves the invariant: doFullWriteback.                  *)
(***************************************************************************)
LEMMA RewriteDiskInv ==
  ASSUME ~MmapMayFail, Inv, IndexInv, DiskInv, Compact \/ ClearAll
  PROVE  DiskInv'
<1>1. pc = "idle" /\ \E index : DoFullWriteback(index)
  BY DEF Compact, ClearAll
<1>2. PICK index : DoFullWriteback(index)
  BY <1>1
<1>3. PICK ok \in BOOLEAN, s \in PreparedData(index) :
        /\ EnsureSpace(ItemSizeHolder + Len(s), ok)
        /\ pc' = IF ok THEN "rewrite_holder" ELSE "idle"
  BY <1>2 DEF DoFullWriteback
<1>4. UNCHANGED <<exists, header, crc, meta, stored, logged>>
  BY <1>2 DEF DoFullWriteback
<1> DEFINE needed == ItemSizeHolder + Len(s)
<1>5. needed \in Nat \ {0} /\ EnsureSpace(needed, ok)
  BY <1>3, PreparedDataType, LenProperties DEF ItemSizeHolder
<1> HIDE DEF needed
<1>6. TypeOK /\ meta.actualSize <= Len(data)
  BY <1>1 DEF Inv, Room, UpPCs
<1>7. /\ data' \in Seq(Cell) /\ meta.actualSize <= Len(data')
      /\ \A i \in 1 .. meta.actualSize : data'[i] = data[i]
  BY <1>5, <1>6, EnsureSpaceProperties
<1>8. ~ok => data' = data
  BY <1>1, <1>5, EnsureSpaceYields
<1> QED
  BY <1>1, <1>3, <1>4, <1>7, <1>8, RoomDiskInv

\* While the records are copied only the sizes matter.
LEMMA CopyDiskInv ==
  ASSUME Inv, DiskInv, CopyHolder \/ CopyRecord
  PROVE  DiskInv'
<1>1. /\ pc \in {"rewrite_holder", "rewrite_copy"}
      /\ pc' \in {"rewrite_copy", "rewrite_meta"}
      /\ UNCHANGED <<exists, header, crc, meta, stored, logged>>
  BY DEF CopyHolder, CopyRecord, process, history
<1> QED
  BY <1>1
     DEF DiskInv, Sizes, Sized, Files, Opening, Digested, Counted, Held,
         UpPCs, WorkingPCs, AppendPCs, RewritePCs, OpenPCs

LEMMA ConfirmMetaDiskInv ==
  ASSUME Inv, DiskInv, ConfirmMeta
  PROVE  DiskInv'
<1> DEFINE size == ItemSizeHolder + Len(buffer)
           d    == ComputeCRC(data, size)
<1>1. /\ pc = "rewrite_meta" /\ pc' = "rewrite_sync"
      /\ header' = meta'.actualSize
      /\ meta'.crcDigest = d /\ meta'.version = meta.version
      /\ meta'.actualSize = size /\ meta'.lastConfirmedActualSize = size
      /\ UNCHANGED <<exists, data, crc, stored, logged>>
  BY DEF ConfirmMeta, history
<1>2. size \in Nat /\ 1 <= size
  BY LenProperties DEF Inv, TypeOK, ItemSizeHolder
<1>3. size <= Len(data) /\ data \in Seq(Cell)
  BY <1>1 DEF Inv, TypeOK, Room
<1> HIDE DEF size
<1>4. size \in 0 .. Len(data)
  BY <1>2, <1>3, LenProperties
<1>5. Len(d) = size /\ \A i \in 1 .. size : d[i] = data[i]
  BY <1>3, <1>4, ComputeCRCProperties
<1> HIDE DEF d
<1>6. Sized(meta) /\ exists
  BY <1>1 DEF DiskInv, Sizes, Files
<1>7. Sized(meta')
  BY <1>1, <1>2, <1>5, <1>6 DEF Sized
<1>8. Verifies(data, size, d)
  BY <1>3, <1>5 DEF Verifies
<1>9. Sizes' /\ Files' /\ Opening'
  BY <1>1, <1>2, <1>6, <1>7 DEF DiskInv, Sizes, Sized, Files, Opening, OpenPCs
<1>10. Digested' /\ Counted' /\ Held'
  BY <1>1, <1>8 DEF Digested, Counted, Held, WorkingPCs, AppendPCs
<1> QED
  BY <1>9, <1>10 DEF DiskInv

LEMMA SyncMetaDiskInv ==
  ASSUME Inv, IndexInv', DiskInv, SyncMeta
  PROVE  DiskInv'
<1> DEFINE n == meta.actualSize
<1>1. /\ pc = "rewrite_sync" /\ pc' = "idle" /\ crc' = <<meta>>
      /\ map' = DecodeMap(data, n) /\ stored' = view /\ logged'
      /\ UNCHANGED <<exists, data, header, meta, view>>
  BY DEF SyncMeta
<1>2. Len(crc') = 1 /\ crc'[1] = meta
  BY <1>1
<1>3. /\ n \in Nat /\ n <= Len(data) /\ data \in Seq(Cell)
      /\ 1 <= n /\ header = n /\ Sized(meta) /\ exists
      /\ Verifies(data, n, meta.crcDigest)
  BY <1>1 DEF Inv, TypeOK, Meta, Room, UpPCs, RewritePCs,
              DiskInv, Sizes, Files, Digested, Counted
<1>4. IndexedSize' = n
  BY <1>1 DEF IndexedSize
<1>5. Lookup(data, DecodeMap(data, n)) = view
  BY <1>1, <1>4 DEF IndexInv, Serves, Yields, Lookup
<1> HIDE DEF n
<1>6. LogHolds(data, n, view)
  BY <1>3, <1>5, LookupLogHolds
<1>7. Sizes' /\ Files' /\ Opening'
  BY <1>1, <1>2, <1>3 DEF Sizes, Sized, Files, Opening, OpenPCs, n
<1>8. Digested' /\ Counted'
  BY <1>1, <1>2, <1>3
     DEF Digested, Counted, Verifies, CandidateSize, WorkingPCs, AppendPCs, n
<1>9. Held'
  BY <1>1, <1>4, <1>6 DEF Held, WorkingPCs, AppendPCs
<1> QED
  BY <1>7, <1>8, <1>9 DEF DiskInv

-----------------------------------------------------------------------------
(***************************************************************************)
(* The theorem.                                                            *)
(***************************************************************************)
\* A process that ends leaves the files as they are.
LEMMA ForgetDiskInv ==
  ASSUME DiskInv, Forget
  PROVE  DiskInv'
<1>1. /\ pc' = "closed" /\ meta' = ZeroMeta /\ logged' = TRUE
      /\ stored' = EmptyContents /\ UNCHANGED <<exists, data, header, crc>>
  BY DEF Forget, disk
<1>2. Sized(ZeroMeta)
  BY EmptySeq DEF Sized, ZeroMeta
<1>3. Sizes'
  BY <1>1, <1>2 DEF DiskInv, Sizes, Sized
<1> QED
  BY <1>1, <1>3
     DEF DiskInv, Files, Opening, Digested, Counted, Held, UpPCs,
         WorkingPCs, AppendPCs, RewritePCs

LEMMA StutterDiskInv == DiskInv /\ UNCHANGED vars => DiskInv'
BY DEF vars, disk, process, history, DiskInv, Sizes, Sized, Files, Opening,
       Digested, Counted, Held, LogHolds, IndexedSize, Verifies, PrimaryValid

LEMMA NextDiskInv ==
  ASSUME ~MmapMayFail, Inv, IndexInv, DiskInv, [Next]_vars
  PROVE  DiskInv'
<1>0. IndexInv'
  BY NextIndexInv
<1>1. CASE \/ CreateData \/ TruncateData \/ InitData \/ CreateCrc
           \/ WriteInitialMeta \/ OpenExisting
  BY <1>1, CreateDiskInv, InitDataDiskInv, CreateCrcDiskInv,
     WriteInitialMetaDiskInv, OpenExistingDiskInv
<1>2. CASE OpenRefused \/ UNCHANGED vars
  BY <1>2, StutterDiskInv DEF OpenRefused
<1>3. CASE \/ \E k \in Keys, b \in Blobs : Set(k, b)
           \/ \E k \in Keys : Remove(k)
  BY <1>3, AppendDiskInv DEF Set, Remove
<1>4. CASE WriteRecord \/ UpdateMeta \/ WriteCrcDigest \/ WriteActualSize
           \/ IndexRecord
  BY <1>4, WriteRecordDiskInv, UpdateMetaDiskInv, WriteMetaDiskInv,
     IndexRecordDiskInv
<1>5. CASE \/ Compact \/ ClearAll
           \/ CopyHolder \/ CopyRecord \/ ConfirmMeta \/ SyncMeta
  BY <1>0, <1>5, RewriteDiskInv, CopyDiskInv, ConfirmMetaDiskInv,
     SyncMetaDiskInv
<1>6. CASE Close \/ Crash
  BY <1>6, ForgetDiskInv DEF Close, Crash
<1> QED
  BY <1>1, <1>2, <1>3, <1>4, <1>5, <1>6 DEF Next

\* What the next open() makes of the files between two operations.
LEMMA DiskInvStored ==
  ASSUME Inv, DiskInv, pc = "idle"
  PROVE  DiskContents = stored
<1> DEFINE m == crc[1]
           n == meta.actualSize
           c == meta.lastConfirmedActualSize
<1>1. pc \in UpPCs /\ pc # "rewrite_sync"
  BY DEF UpPCs
<1>2. /\ Len(crc) = 1 /\ m \in Meta /\ Sized(meta) /\ exists /\ 1 <= n
      /\ m.version = meta.version /\ m.lastConfirmedActualSize = c
      /\ data \in Seq(Cell) /\ meta \in Meta
  BY <1>1, MetaWhileUp
<1>3. /\ n \in Nat /\ c \in Nat /\ c <= n /\ n <= Len(data)
      /\ Len(data) \in Nat /\ stored \in Contents
  BY <1>1, <1>2, LenProperties DEF Inv, TypeOK, Room, Sized, Meta
<1>4. /\ m.crcDigest = meta.crcDigest
      /\ logged => /\ Verifies(data, n, meta.crcDigest)
                   /\ CandidateSize(m, header) = n
                   /\ LogHolds(data, n, stored)
      /\ ~logged => /\ m.version >= 3 /\ LogHolds(data, c, stored)
                    /\ ~PrimaryValid(data, header, m)
  BY <1>2 DEF DiskInv, Digested, Counted, Held, IndexedSize, WorkingPCs,
              AppendPCs
<1>5. m.version >= 2 => ConfirmedValid(data, m)
  <2>1. /\ m.lastConfirmedCRCDigest = meta.lastConfirmedCRCDigest
        /\ Verifies(data, c, meta.lastConfirmedCRCDigest)
    BY <1>1 DEF Inv, RecoveryPoint
  <2> QED
    BY <1>2, <2>1 DEF ConfirmedValid
<1> DEFINE size == CheckDataValid(data, header, m).effectiveActualSize
<1>6. /\ CheckDataValid(data, header, m).loadFromFile
      /\ size = IF logged THEN n ELSE c
  <2>1. CASE logged
    BY <1>4, <2>1 DEF CheckDataValid, PrimaryValid
  <2>2. CASE ~logged
    <3>1. ConfirmedValid(data, m)
      BY <1>2, <1>4, <1>5, <2>2 DEF Meta
    <3> QED
      BY <1>2, <1>4, <2>2, <3>1 DEF CheckDataValid
  <2> QED
    BY <2>1, <2>2
<1>7. Openable
  BY <1>2, <1>3, <1>6 DEF Openable
<1>8. Lookup(data, DecodeMap(data, size)) = stored
  <2>1. size \in Nat /\ size <= Len(data) /\ LogHolds(data, size, stored)
    BY <1>3, <1>4, <1>6
  <2> HIDE DEF size
  <2> QED
    BY <1>2, <1>3, <2>1, LogHoldsLookup
<1> QED
  BY <1>7, <1>8 DEF DiskContents

\* After a crash between two operations the next open() reads what the
\* successful calls promised: digest, size, header and records agree on disk
\* through appends, growth, rewrites and rollbacks, whatever version the files
\* had, as long as no mmap fails (writer.cpp:293-346, 358-442).
THEOREM StoredAlwaysOnDisk ==
  ASSUME ~MmapMayFail
  PROVE  Spec => []StoredOnDisk
<1>1. Init => Inv /\ IndexInv /\ DiskInv
  BY InitInv, InitIndexInv, InitDiskInv
<1>2. Inv /\ IndexInv /\ DiskInv /\ [Next]_vars =>
        Inv' /\ IndexInv' /\ DiskInv'
  BY NextInv, NextIndexInv, NextDiskInv
<1>3. Inv /\ DiskInv => StoredOnDisk
  BY DiskInvStored DEF StoredOnDisk
<1> QED
  BY <1>1, <1>2, <1>3, PTL DEF Spec
=============================================================================
