--------------------------- MODULE DataFileProofs ---------------------------
(***************************************************************************)
(* Lemmas about the operators of DataFile: what ftruncate, a copy, the     *)
(* digest, the index and the log of a data file keep and yield.  The       *)
(* proofs about QuickStoreWriter and about MultiProcess rest on them.      *)
(***************************************************************************)
EXTENDS DataFile, FiniteSetTheorems, SequenceTheorems, TLAPS

\* The recovery digest of a meta record is a prefix of its current digest.
Extends(m) ==
  /\ m.lastConfirmedActualSize = Len(m.lastConfirmedCRCDigest)
  /\ m.lastConfirmedActualSize <= Len(m.crcDigest)
  /\ \A i \in 1 .. m.lastConfirmedActualSize :
       m.lastConfirmedCRCDigest[i] = m.crcDigest[i]

\* An index whose offsets lie in the first n cells yields the contents v.
Yields(cells, index, n, v) ==
  /\ \A k \in Keys : index[k] <= n
  /\ Lookup(cells, index) = v

\* The records are the contents v, each key of them once.
Encodes(records, v) ==
  /\ \A i, j \in 1 .. Len(records) :
       records[i].key = records[j].key => i = j
  /\ \A i \in 1 .. Len(records) :
       records[i].blob \in Values /\ v[records[i].key] = records[i].blob
  /\ \A k \in Keys : v[k] # Empty =>
       \E i \in 1 .. Len(records) : records[i].key = k

\* The records list the contents in some order of the keys.
Enumerates(s, v) ==
  LET live == {k \in Keys : v[k] # Empty}
      n    == Cardinality(live)
  IN  \E o \in [1 .. n -> live] :
        /\ \A i, j \in 1 .. n : o[i] = o[j] => i = j
        /\ s \in [1 .. n -> Record]
        /\ \A i \in 1 .. n : s[i].key = o[i] /\ s[i].blob = v[o[i]]

\* The first n records are where the rewrite puts them.
InPlace(cells, records, n) ==
  \A i \in 1 .. n : cells[ItemSizeHolder + i] = records[i]

\* The first n cells hold the contents v: what DecodeMap and Lookup make of
\* them, with no index.
LogHolds(cells, n, v) ==
  \A k \in Keys :
    IF v[k] = Empty
      THEN \A i \in (ItemSizeHolder + 1) .. n : ~LiveAt(cells, n, k, i)
      ELSE \E i \in (ItemSizeHolder + 1) .. n :
             LiveAt(cells, n, k, i) /\ cells[i].blob = v[k]

-----------------------------------------------------------------------------
(***************************************************************************)
(* The files: cells, digests and sizes.                                    *)
(***************************************************************************)
\* What a cell of the data file may be.
LEMMA CellMembers ==
  /\ Zero \in Cell
  /\ [seed |-> 1] \in Cell
  /\ [seed |-> 2] \in Cell
  /\ Record \subseteq Cell
BY DEF Zero, Cell, Holder

\* ftruncate keeps the cells that stay inside the file.
LEMMA ResizeProperties ==
  ASSUME NEW cells \in Seq(Cell), NEW n \in Nat
  PROVE  /\ Resize(cells, n) \in Seq(Cell)
         /\ Len(Resize(cells, n)) = n
         /\ \A i \in 1 .. n : i <= Len(cells) => Resize(cells, n)[i] = cells[i]
<1>1. \A i \in 1 .. n : (IF i <= Len(cells) THEN cells[i] ELSE Zero) \in Cell
  BY CellMembers
<1>2. Resize(cells, n) \in [1 .. n -> Cell]
  BY <1>1 DEF Resize
<1>3. Resize(cells, n) \in Seq(Cell)
  BY <1>2, SeqDef
<1>4. Len(Resize(cells, n)) = n
  BY <1>2, <1>3, LenProperties
<1> QED
  BY <1>3, <1>4 DEF Resize

\* The digest of a log that fits the file.
LEMMA ComputeCRCProperties ==
  ASSUME NEW cells \in Seq(Cell), NEW n \in 0 .. Len(cells)
  PROVE  /\ ComputeCRC(cells, n) \in Seq(Cell)
         /\ Len(ComputeCRC(cells, n)) = n
         /\ \A i \in 1 .. n : ComputeCRC(cells, n)[i] = cells[i]
<1>1. \A i \in 1 .. n : cells[i] \in Cell
  BY LenProperties, ElementOfSeq
<1> QED
  BY <1>1, SubSeqProperties, LenProperties DEF ComputeCRC

\* Overwriting one cell.
LEMMA StoreCell ==
  ASSUME NEW cells \in Seq(Cell), NEW i \in Nat, NEW c \in Cell
  PROVE  /\ [cells EXCEPT ![i] = c] \in Seq(Cell)
         /\ Len([cells EXCEPT ![i] = c]) = Len(cells)
         /\ \A j \in 1 .. Len(cells) :
              [cells EXCEPT ![i] = c][j] = IF j = i THEN c ELSE cells[j]
<1>1. CASE i \in 1 .. Len(cells)
  BY <1>1, ExceptSeq
<1>2. CASE i \notin 1 .. Len(cells)
  BY <1>2, LenProperties
<1> QED
  BY <1>1, <1>2

\* The index decodeMap builds holds positions.
LEMMA DecodeMapType ==
  ASSUME NEW cells, NEW n \in Nat
  PROVE  DecodeMap(cells, n) \in [Keys -> Nat]
<1> SUFFICES ASSUME NEW k \in Keys
             PROVE  DecodeMap(cells, n)[k] \in Nat
  BY DEF DecodeMap
<1>1. CASE \E i \in (ItemSizeHolder + 1) .. n : LiveAt(cells, n, k, i)
  <2>1. DecodeMap(cells, n)[k] \in (ItemSizeHolder + 1) .. n
    BY <1>1 DEF DecodeMap
  <2> QED
    BY <2>1 DEF ItemSizeHolder
<1>2. CASE ~\E i \in (ItemSizeHolder + 1) .. n : LiveAt(cells, n, k, i)
  BY <1>2 DEF DecodeMap
<1> QED
  BY <1>1, <1>2

\* A lookup yields a blob, whatever lies at the position.
LEMMA ValueBlobType ==
  ASSUME NEW cells, NEW i
  PROVE  ValueBlob(cells, i) \in Blobs
<1>1. CASE i \in 1 .. Len(cells) /\ cells[i] \in Record
  BY <1>1 DEF ValueBlob, Record
<1>2. CASE ~(i \in 1 .. Len(cells) /\ cells[i] \in Record)
  BY <1>2 DEF ValueBlob, Blobs
<1> QED
  BY <1>1, <1>2

LEMMA LookupType ==
  ASSUME NEW cells, NEW m
  PROVE  Lookup(cells, m) \in Contents
BY ValueBlobType DEF Lookup, Contents

\* A file that checkDataValid accepts holds the size it reports.
LEMMA CheckDataValidBound ==
  ASSUME NEW cells \in Seq(Cell), NEW h \in Nat, NEW m \in Meta,
         CheckDataValid(cells, h, m).loadFromFile
  PROVE  LET size == CheckDataValid(cells, h, m).effectiveActualSize
         IN  size \in Nat /\ size <= Len(cells)
<1>1. CASE PrimaryValid(cells, h, m)
  BY <1>1 DEF CheckDataValid, PrimaryValid, Verifies, CandidateSize, Meta
<1>2. CASE ~PrimaryValid(cells, h, m) /\ ConfirmedValid(cells, m)
  BY <1>2 DEF CheckDataValid, ConfirmedValid, Verifies, Meta
<1>3. CASE ~PrimaryValid(cells, h, m) /\ ~ConfirmedValid(cells, m)
  BY <1>3 DEF CheckDataValid
<1> QED
  BY <1>1, <1>2, <1>3

\* The loop of ensureSpace ends at a capacity that holds what is wanted.
LEMMA GrownCapacitiesBound ==
  ASSUME NEW start \in Nat, NEW wanted \in Nat, NEW limit \in Nat,
         NEW c \in GrownCapacities(start, wanted, limit)
  PROVE  c \in Nat /\ c - HeaderSize >= wanted
BY DEF GrownCapacities, Doublings, HeaderSize

\* What verifies by a prefix of the log still does when the log is kept.
LEMMA VerifiesKept ==
  ASSUME NEW a \in Seq(Cell), NEW b \in Seq(Cell), NEW size \in Nat,
         size <= Len(b), \A i \in 1 .. size : b[i] = a[i],
         NEW n \in Nat, NEW digest, n <= size, Verifies(a, n, digest)
  PROVE  Verifies(b, n, digest)
BY LenProperties DEF Verifies

\* A file that verifies by its current size verifies by its recovery point.
LEMMA PrimaryExtends ==
  ASSUME NEW cells \in Seq(Cell), NEW m \in Meta, Extends(m),
         NEW n \in Nat, Verifies(cells, n, m.crcDigest)
  PROVE  /\ m.lastConfirmedActualSize <= n
         /\ Verifies(cells, m.lastConfirmedActualSize, m.lastConfirmedCRCDigest)
BY LenProperties DEF Verifies, Extends, Meta

LEMMA ZeroMetaProperties == ZeroMeta \in Meta /\ Extends(ZeroMeta)
<1>1. <<>> \in Seq(Cell) /\ Len(<<>>) = 0
  BY EmptySeq
<1> QED
  BY <1>1 DEF ZeroMeta, Meta, Extends

-----------------------------------------------------------------------------
(***************************************************************************)
(* The index.                                                              *)
(***************************************************************************)
\* What is kept of the log keeps what an index yields.
LEMMA YieldsKept ==
  ASSUME NEW a \in Seq(Cell), NEW b \in Seq(Cell), NEW n \in Nat,
         n <= Len(a), n <= Len(b), \A i \in 1 .. n : b[i] = a[i],
         NEW index \in [Keys -> Nat], NEW v, Yields(a, index, n, v)
  PROVE  Yields(b, index, n, v)
<1>1. ASSUME NEW k \in Keys
      PROVE  ValueBlob(a, index[k]) = ValueBlob(b, index[k])
  BY LenProperties DEF ValueBlob, Yields
<1> QED
  BY <1>1 DEF Yields, Lookup

\* The offsets decodeMap yields lie in the log.
LEMMA DecodeMapBound ==
  ASSUME NEW cells, NEW n \in Nat, NEW k \in Keys
  PROVE  DecodeMap(cells, n)[k] <= n
<1>1. CASE \E i \in (ItemSizeHolder + 1) .. n : LiveAt(cells, n, k, i)
  <2>1. DecodeMap(cells, n)[k] \in (ItemSizeHolder + 1) .. n
    BY <1>1 DEF DecodeMap
  <2> QED
    BY <2>1 DEF ItemSizeHolder
<1>2. CASE ~\E i \in (ItemSizeHolder + 1) .. n : LiveAt(cells, n, k, i)
  BY <1>2 DEF DecodeMap
<1> QED
  BY <1>1, <1>2

\* decodeMap of a log that has been rewritten finds every record.
LEMMA DecodeEncoded ==
  ASSUME NEW cells \in Seq(Cell), NEW records \in Seq(Record),
         NEW v \in Contents, Encodes(records, v),
         InPlace(cells, records, Len(records)),
         ItemSizeHolder + Len(records) <= Len(cells)
  PROVE  LET n == ItemSizeHolder + Len(records)
         IN  Yields(cells, DecodeMap(cells, n), n, v)
<1> DEFINE n     == ItemSizeHolder + Len(records)
           index == DecodeMap(cells, n)
<1>1. Len(records) \in Nat /\ Len(cells) \in Nat /\ n \in Nat
  BY LenProperties DEF ItemSizeHolder
<1>2. ASSUME NEW i \in (ItemSizeHolder + 1) .. n
      PROVE  /\ i - ItemSizeHolder \in 1 .. Len(records)
             /\ cells[i] = records[i - ItemSizeHolder]
             /\ cells[i] \in [key : Keys, blob : Values]
             /\ v[cells[i].key] = cells[i].blob
  <2>1. i - ItemSizeHolder \in 1 .. Len(records)
        /\ ItemSizeHolder + (i - ItemSizeHolder) = i
    BY <1>1 DEF ItemSizeHolder
  <2>2. cells[i] = records[i - ItemSizeHolder]
    BY <2>1 DEF InPlace
  <2>3. records[i - ItemSizeHolder] \in Record
    BY <2>1, ElementOfSeq
  <2> QED
    BY <2>1, <2>2, <2>3 DEF Encodes, Record
<1>3. ASSUME NEW k \in Keys
      PROVE  ValueBlob(cells, index[k]) = v[k]
  <2>1. CASE \E i \in (ItemSizeHolder + 1) .. n : LiveAt(cells, n, k, i)
    <3>1. index[k] \in (ItemSizeHolder + 1) .. n
          /\ LiveAt(cells, n, k, index[k])
      BY <2>1 DEF DecodeMap
    <3>2. cells[index[k]].key = k /\ cells[index[k]] \in Record
          /\ index[k] \in 1 .. Len(cells)
      BY <1>1, <1>2, <3>1 DEF LiveAt, ItemSizeHolder, Record, Blobs
    <3> HIDE DEF index
    <3> QED
      BY <1>2, <3>1, <3>2 DEF ValueBlob
  <2>2. CASE ~\E i \in (ItemSizeHolder + 1) .. n : LiveAt(cells, n, k, i)
    <3>1. index[k] = 0
      BY <2>2 DEF DecodeMap
    <3>2. ASSUME v[k] # Empty  PROVE FALSE
      <4>1. PICK i \in 1 .. Len(records) : records[i].key = k
        BY <3>2 DEF Encodes
      <4> DEFINE at == ItemSizeHolder + i
      <4>2. at \in (ItemSizeHolder + 1) .. n /\ at - ItemSizeHolder = i
        BY <1>1 DEF ItemSizeHolder
      <4>3. cells[at].key = k /\ cells[at] \in [key : {k}, blob : Values]
        BY <1>2, <4>1, <4>2
      <4>4. ASSUME NEW j \in (at + 1) .. n,
                   cells[j] \in [key : {k}, blob : Blobs]
            PROVE  FALSE
        <5>1. j \in (ItemSizeHolder + 1) .. n /\ j # at
              /\ j - ItemSizeHolder # i
          BY <1>1, <4>2 DEF ItemSizeHolder
        <5>2. /\ j - ItemSizeHolder \in 1 .. Len(records)
              /\ records[j - ItemSizeHolder].key = k
          BY <1>2, <4>4, <5>1
        <5> QED
          BY <4>1, <5>1, <5>2 DEF Encodes
      <4> HIDE DEF at
      <4>5. LiveAt(cells, n, k, at)
        BY <4>3, <4>4 DEF LiveAt
      <4> QED
        BY <2>2, <4>2, <4>5
    <3> QED
      BY <1>1, <3>1, <3>2 DEF ValueBlob
  <2> QED
    BY <2>1, <2>2
<1>4. Lookup(cells, index) = v
  BY <1>3 DEF Lookup, Contents
<1>5. \A k \in Keys : index[k] <= n
  BY <1>1, DecodeMapBound
<1> QED
  BY <1>4, <1>5 DEF Yields

\* The records that a rewrite encodes, in whatever order it finds the keys,
\* are the contents.
LEMMA OrderedEncodes ==
  ASSUME NEW v \in Contents, IsFiniteSet(Keys),
         NEW s, Enumerates(s, v)
  PROVE  /\ s \in Seq(Record) /\ Encodes(s, v)
         /\ Len(s) = Cardinality({k \in Keys : v[k] # Empty})
<1> DEFINE live == {k \in Keys : v[k] # Empty}
           n    == Cardinality(live)
<1>1. PICK o \in [1 .. n -> live] :
        /\ \A i, j \in 1 .. n : o[i] = o[j] => i = j
        /\ s \in [1 .. n -> Record]
        /\ \A i \in 1 .. n : s[i].key = o[i] /\ s[i].blob = v[o[i]]
  BY DEF Enumerates
<1>2. \A k \in Keys : v[k] # Empty <=> k \in live
  OBVIOUS
<1>3. IsFiniteSet(live)
  BY FS_Subset
<1> HIDE DEF live
<1>4. n \in Nat
  BY <1>3, FS_CardinalityType
<1>5. ASSUME NEW i \in 1 .. n
      PROVE  /\ s[i].key = o[i] /\ o[i] \in live
             /\ s[i].blob = v[o[i]] /\ v[o[i]] \in Values
  <2>1. s[i].key = o[i] /\ s[i].blob = v[o[i]] /\ o[i] \in live
    BY <1>1
  <2>2. o[i] \in Keys /\ v[o[i]] # Empty
    BY <2>1 DEF live
  <2>3. v[o[i]] \in Values
    BY ONLY <2>2, v \in Contents DEF Contents, Blobs
  <2> QED
    BY ONLY <2>1, <2>3
<1>6. s \in Seq(Record) /\ Len(s) = n
  <2>1. s \in Seq(Record) /\ DOMAIN s = 1 .. n
    BY ONLY <1>1, <1>4, SeqDef
  <2> QED
    BY ONLY <1>4, <2>1, LenProperties
<1>7. \A k \in live : \E i \in 1 .. n : o[i] = k
  <2>1. o \in Injection(1 .. n, live)
    BY <1>1 DEF Injection, IsInjective
  <2>2. Cardinality(1 .. n) = n
    BY ONLY <1>4, FS_Interval
  <2>3. o \in Surjection(1 .. n, live)
    BY ONLY <1>4, <2>1, <2>2, <1>3, FS_Injection DEF n
  <2> QED
    BY <2>3 DEF Surjection
<1> QED
  <2>1. Encodes(s, v)
    BY ONLY <1>1, <1>5, <1>6, <1>7, <1>2 DEF Encodes
  <2> QED
    BY <1>6, <2>1 DEF live

\* One more record gives its key its value, or takes it away, where the index
\* takes its position.
LEMMA YieldsAppend ==
  ASSUME NEW cells \in Seq(Cell), NEW n \in Nat, n + 1 <= Len(cells),
         NEW index \in [Keys -> Nat], NEW v \in Contents,
         Yields(cells, index, n, v), NEW r \in Record, cells[n + 1] = r
  PROVE  Yields(cells,
                [index EXCEPT ![r.key] = IF r.blob = Empty THEN 0 ELSE n + 1],
                n + 1, [v EXCEPT ![r.key] = r.blob])
<1> DEFINE at == IF r.blob = Empty THEN 0 ELSE n + 1
           w  == [v EXCEPT ![r.key] = r.blob]
           j  == [index EXCEPT ![r.key] = at]
<1>1. at \in Nat /\ at <= n + 1 /\ r.key \in Keys /\ r.blob \in Blobs
      /\ n + 1 \in 1 .. Len(cells)
  BY LenProperties DEF Record
<1>2. w \in Contents /\ ValueBlob(cells, at) = r.blob
  <2>1. ValueBlob(cells, at) = r.blob
    <3>1. 0 \notin 1 .. Len(cells)
      BY LenProperties
    <3> QED
      BY <1>1, <3>1 DEF ValueBlob
  <2> QED
    BY <1>1, <2>1 DEF Contents
<1> HIDE DEF at
<1>3. /\ j[r.key] = at /\ w[r.key] = r.blob
      /\ \A k \in Keys : k # r.key => j[k] = index[k] /\ w[k] = v[k]
  BY <1>1 DEF Contents
<1> HIDE DEF j, w
<1>4. ASSUME NEW k \in Keys
      PROVE  ValueBlob(cells, j[k]) = w[k] /\ j[k] <= n + 1
  <2>1. ValueBlob(cells, index[k]) = v[k] /\ index[k] <= n /\ index[k] \in Nat
    BY DEF Yields, Lookup
  <2>2. CASE k = r.key
    BY <1>1, <1>2, <1>3, <2>2
  <2>3. CASE k # r.key
    <3>1. j[k] = index[k] /\ w[k] = v[k]
      BY <1>3, <2>3
    <3> QED
      BY ONLY <2>1, <3>1, n \in Nat
  <2> QED
    BY <2>2, <2>3
<1>5. Lookup(cells, j) = w
  BY <1>2, <1>4 DEF Lookup, Contents
<1> QED
  BY <1>4, <1>5 DEF Yields, j, w, at

\* An empty index yields nothing.
LEMMA EmptyIndex ==
  ASSUME NEW cells \in Seq(Cell), NEW n \in Nat
  PROVE  Yields(cells, [k \in Keys |-> 0], n, EmptyContents)
BY LenProperties DEF Yields, Lookup, ValueBlob, EmptyContents

-----------------------------------------------------------------------------
(***************************************************************************)
(* The log.                                                                *)
(***************************************************************************)
\* What is kept of the log keeps what it holds.
LEMMA LogHoldsKept ==
  ASSUME NEW a, NEW b, NEW n \in Nat, \A i \in 1 .. n : b[i] = a[i],
         NEW v, LogHolds(a, n, v)
  PROVE  LogHolds(b, n, v)
<1>1. ASSUME NEW k \in Keys, NEW i \in (ItemSizeHolder + 1) .. n
      PROVE  /\ LiveAt(b, n, k, i) <=> LiveAt(a, n, k, i)
             /\ b[i] = a[i]
  <2>1. i \in 1 .. n /\ \A j \in (i + 1) .. n : j \in 1 .. n
    BY DEF ItemSizeHolder
  <2> QED
    BY <2>1 DEF LiveAt
<1> QED
  BY <1>1 DEF LogHolds

\* Only one record counts for a key.
LEMMA LiveAtUnique ==
  ASSUME NEW cells, NEW n \in Nat, NEW k \in Keys,
         NEW i \in 1 .. n, NEW j \in 1 .. n,
         LiveAt(cells, n, k, i), LiveAt(cells, n, k, j)
  PROVE  i = j
<1>1. /\ cells[i] \in [key : {k}, blob : Blobs]
      /\ cells[j] \in [key : {k}, blob : Blobs]
  BY DEF LiveAt, Blobs
<1>2. j \notin (i + 1) .. n /\ i \notin (j + 1) .. n
  BY <1>1 DEF LiveAt
<1> QED
  BY <1>2

\* Through the index that decodeMap builds, a log yields what it holds.
LEMMA LogHoldsLookup ==
  ASSUME NEW cells \in Seq(Cell), NEW n \in Nat, n <= Len(cells),
         NEW v \in Contents, LogHolds(cells, n, v)
  PROVE  Lookup(cells, DecodeMap(cells, n)) = v
<1>1. ASSUME NEW k \in Keys
      PROVE  ValueBlob(cells, DecodeMap(cells, n)[k]) = v[k]
  <2>1. CASE v[k] = Empty
    <3>1. DecodeMap(cells, n)[k] = 0
      BY <2>1 DEF LogHolds, DecodeMap
    <3> QED
      BY <2>1, <3>1, LenProperties DEF ValueBlob
  <2>2. CASE v[k] # Empty
    <3>1. PICK i \in (ItemSizeHolder + 1) .. n :
            LiveAt(cells, n, k, i) /\ cells[i].blob = v[k]
      BY <2>2 DEF LogHolds
    <3> DEFINE at == DecodeMap(cells, n)[k]
    <3>2. at \in (ItemSizeHolder + 1) .. n /\ LiveAt(cells, n, k, at)
      BY <3>1 DEF DecodeMap
    <3> HIDE DEF at
    <3>3. at = i
      BY <3>1, <3>2, LiveAtUnique DEF ItemSizeHolder
    <3>4. cells[i] \in Record
      BY <3>1 DEF LiveAt, Record, Blobs
    <3>5. i \in 1 .. Len(cells)
      BY LenProperties DEF ItemSizeHolder
    <3> QED
      BY <3>1, <3>3, <3>4, <3>5 DEF ValueBlob, at
  <2> QED
    BY <2>1, <2>2
<1> QED
  BY <1>1 DEF Lookup, Contents

\* And it holds what it yields.
LEMMA LookupLogHolds ==
  ASSUME NEW cells \in Seq(Cell), NEW n \in Nat, n <= Len(cells)
  PROVE  LogHolds(cells, n, Lookup(cells, DecodeMap(cells, n)))
<1> DEFINE v == Lookup(cells, DecodeMap(cells, n))
<1> SUFFICES ASSUME NEW k \in Keys
             PROVE  IF v[k] = Empty
                      THEN \A i \in (ItemSizeHolder + 1) .. n :
                             ~LiveAt(cells, n, k, i)
                      ELSE \E i \in (ItemSizeHolder + 1) .. n :
                             LiveAt(cells, n, k, i) /\ cells[i].blob = v[k]
  BY DEF LogHolds
<1>1. CASE \E i \in (ItemSizeHolder + 1) .. n : LiveAt(cells, n, k, i)
  <2> DEFINE at == DecodeMap(cells, n)[k]
  <2>1. at \in (ItemSizeHolder + 1) .. n /\ LiveAt(cells, n, k, at)
    BY <1>1 DEF DecodeMap
  <2>2. v[k] = ValueBlob(cells, at)
    BY DEF Lookup
  <2> HIDE DEF at
  <2>3. cells[at] \in [key : {k}, blob : Values]
    BY <2>1 DEF LiveAt
  <2>4. cells[at] \in Record /\ cells[at].blob \in Values
    BY <2>3 DEF Record, Blobs
  <2>5. at \in 1 .. Len(cells)
    BY <2>1, LenProperties DEF ItemSizeHolder
  <2>6. v[k] = cells[at].blob /\ v[k] # Empty
    BY <2>2, <2>4, <2>5, EmptyAssumption DEF ValueBlob
  <2> HIDE DEF v
  <2> QED
    BY <2>1, <2>6
<1>2. CASE ~\E i \in (ItemSizeHolder + 1) .. n : LiveAt(cells, n, k, i)
  <2>1. DecodeMap(cells, n)[k] = 0
    BY <1>2 DEF DecodeMap
  <2>2. v[k] = Empty
    BY <2>1, LenProperties DEF Lookup, ValueBlob
  <2> HIDE DEF v
  <2> QED
    BY <1>2, <2>2
<1> QED
  BY <1>1, <1>2

\* One more record gives its key its value, or takes it away.
LEMMA LogHoldsAppend ==
  ASSUME NEW cells, NEW n \in Nat, ItemSizeHolder + 1 <= n,
         NEW v \in Contents, LogHolds(cells, n - 1, v),
         NEW r \in Record, cells[n] = r
  PROVE  LogHolds(cells, n, [v EXCEPT ![r.key] = r.blob])
<1> DEFINE w == [v EXCEPT ![r.key] = r.blob]
<1> SUFFICES ASSUME NEW k \in Keys
             PROVE  IF w[k] = Empty
                      THEN \A i \in (ItemSizeHolder + 1) .. n :
                             ~LiveAt(cells, n, k, i)
                      ELSE \E i \in (ItemSizeHolder + 1) .. n :
                             LiveAt(cells, n, k, i) /\ cells[i].blob = w[k]
  BY DEF LogHolds
<1>1. CASE k = r.key
  <2>1. w[k] = r.blob
    BY <1>1 DEF Contents
  <2>2. r \in [key : {k}, blob : Blobs] /\ r.blob \in Values \cup {Empty}
    BY <1>1 DEF Record, Blobs
  <2>3. ASSUME NEW i \in (ItemSizeHolder + 1) .. n, LiveAt(cells, n, k, i)
        PROVE  i = n
    <3>1. n \notin (i + 1) .. n
      BY <2>2, <2>3 DEF LiveAt
    <3> QED
      BY <3>1 DEF ItemSizeHolder
  <2>4. CASE r.blob = Empty
    <3>1. ~LiveAt(cells, n, k, n)
      BY <2>4, EmptyAssumption DEF LiveAt
    <3> HIDE DEF w
    <3> QED
      BY <2>1, <2>3, <2>4, <3>1
  <2>5. CASE r.blob # Empty
    <3>1. r \in [key : {k}, blob : Values]
      BY <2>2, <2>5
    <3>2. LiveAt(cells, n, k, n)
      BY <3>1 DEF LiveAt
    <3>3. n \in (ItemSizeHolder + 1) .. n
      BY DEF ItemSizeHolder
    <3> HIDE DEF w
    <3> QED
      BY <2>1, <2>5, <3>2, <3>3
  <2> QED
    BY <2>4, <2>5
<1>2. CASE k # r.key
  <2>1. w[k] = v[k]
    BY <1>2 DEF Contents
  <2>2. cells[n] \notin [key : {k}, blob : Blobs]
    BY <1>2 DEF Record
  <2>3. ~LiveAt(cells, n, k, n)
    BY <2>2 DEF LiveAt, Blobs
  <2>4. ASSUME NEW i \in (ItemSizeHolder + 1) .. (n - 1)
        PROVE  LiveAt(cells, n, k, i) <=> LiveAt(cells, n - 1, k, i)
    <3>1. \A j \in (i + 1) .. n : j = n \/ j \in (i + 1) .. (n - 1)
      BY DEF ItemSizeHolder
    <3>2. \A j \in (i + 1) .. (n - 1) : j \in (i + 1) .. n
      BY DEF ItemSizeHolder
    <3> QED
      BY <2>2, <3>1, <3>2 DEF LiveAt
  <2>5. \A i \in (ItemSizeHolder + 1) .. n :
          i = n \/ i \in (ItemSizeHolder + 1) .. (n - 1)
    BY DEF ItemSizeHolder
  <2>6. \A i \in (ItemSizeHolder + 1) .. (n - 1) :
          i \in (ItemSizeHolder + 1) .. n
    BY DEF ItemSizeHolder
  <2> HIDE DEF w
  <2>7. IF v[k] = Empty
          THEN \A i \in (ItemSizeHolder + 1) .. (n - 1) :
                 ~LiveAt(cells, n - 1, k, i)
          ELSE \E i \in (ItemSizeHolder + 1) .. (n - 1) :
                 LiveAt(cells, n - 1, k, i) /\ cells[i].blob = v[k]
    BY DEF LogHolds
  <2>8. CASE v[k] = Empty
    BY <2>1, <2>3, <2>4, <2>5, <2>7, <2>8
  <2>9. CASE v[k] # Empty
    BY <2>1, <2>4, <2>6, <2>7, <2>9
  <2> QED
    BY <2>8, <2>9
<1> QED
  BY <1>1, <1>2

\* A log of the ItemSizeHolder alone holds nothing.
LEMMA LogHoldsNothing ==
  ASSUME NEW cells
  PROVE  LogHolds(cells, 1, EmptyContents)
BY DEF LogHolds, EmptyContents, ItemSizeHolder

\* Cells that agree on a log yield the same contents.
LEMMA LookupKept ==
  ASSUME NEW a \in Seq(Cell), NEW b \in Seq(Cell), NEW n \in Nat,
         n <= Len(a), n <= Len(b), \A i \in 1 .. n : b[i] = a[i]
  PROVE  Lookup(b, DecodeMap(b, n)) = Lookup(a, DecodeMap(a, n))
<1> DEFINE v == Lookup(a, DecodeMap(a, n))
<1>1. v \in Contents
  BY LookupType
<1>2. LogHolds(a, n, v)
  BY LookupLogHolds
<1> HIDE DEF v
<1>3. LogHolds(b, n, v)
  BY <1>2, LogHoldsKept
<1> QED
  BY <1>1, <1>3, LogHoldsLookup DEF v
=============================================================================
