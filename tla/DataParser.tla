----------------------------- MODULE DataParser -----------------------------
(***************************************************************************)
(* The records of the data file byte by byte, core/src/data_parser.cpp and *)
(* value_blob.h, and what appendRecord writes for them to read.  DataFile  *)
(* has the same log in cells of one whole record: what it takes of them is *)
(* what the bytes yield (LogScanned).                                      *)
(*                                                                         *)
(* `bytes' is the mapping from base+4 on, and n how many of them a size    *)
(* counts.  Offsets count from base+4; bytes[1] is at offset 0.  An index  *)
(* takes each key to the offset of its record.                             *)
(***************************************************************************)
EXTENDS Codec

CONSTANTS
  LogKeys, LogBlobs,  \* what the records of a log are made of
  MaxRecords,         \* of a log
  MaxTail             \* the length of arbitrary bytes behind the ItemSizeHolder

\* The size of each is written as a uint32_t.
ASSUME LogAssumption ==
  /\ \A b \in LogKeys \cup LogBlobs : b \in Seq(Byte) /\ Len(b) < 2 ^ Bits32
  /\ {MaxRecords, MaxTail} \subseteq Nat

ItemSizeHolderSize == 4

\* A record as appendRecord encodes it.
EncodeRecord(key, blob) ==
  WriteUInt(Len(key)) \o key \o WriteUInt(Len(blob)) \o blob

\* Mutant: the value may end anywhere.
RecordAt_Unbounded(bytes, n, p) ==
  LET keyLen   == ReadUInt(Bits32, SubSeq(bytes, p, n))
      key      == p + keyLen.consumed
      valueLen == ReadUInt(Bits32, SubSeq(bytes, key + keyLen.value, n))
      value    == key + keyLen.value + valueLen.consumed
  IN  IF \/ keyLen.error \/ key + keyLen.value > n + 1
         \/ valueLen.error
        THEN None
        ELSE Some([offset   |-> p - 1,
                   key      |-> SubSeq(bytes, key, key + keyLen.value - 1),
                   valueLen |-> valueLen.value,
                   next     |-> value + valueLen.value])

\* The record that begins at position p, if there is one and it ends within n.
RecordAt(bytes, n, p) ==
  LET keyLen   == ReadUInt(Bits32, SubSeq(bytes, p, n))
      key      == p + keyLen.consumed
      valueLen == ReadUInt(Bits32, SubSeq(bytes, key + keyLen.value, n))
      value    == key + keyLen.value + valueLen.consumed
  IN  IF \/ keyLen.error \/ key + keyLen.value > n + 1
         \/ valueLen.error \/ value + valueLen.value > n + 1
        THEN None
        ELSE Some([offset   |-> p - 1,
                   key      |-> SubSeq(bytes, key, key + keyLen.value - 1),
                   valueLen |-> valueLen.value,
                   next     |-> value + valueLen.value])

\* The records decodeMap comes to from p on.  At one that is malformed it
\* stops, or, where it is greedy, it goes on at the next byte.
Scan(bytes, n, greedy) ==
  LET scan[p \in Nat \ {0}] ==
        LET here == RecordAt(bytes, n, p)
            r    == CHOOSE x \in here : TRUE
        IN  IF p > n THEN <<>>
            ELSE IF here # None THEN <<r>> \o scan[r.next]
            ELSE IF greedy THEN scan[p + 1] ELSE <<>>
  IN  scan

Scanned(bytes, n, greedy) ==
  IF n < ItemSizeHolderSize THEN <<>>
  ELSE Scan(bytes, n, greedy)[ItemSizeHolderSize + 1]

\* Mutant: a tombstone leaves the key's older record in the index.
Indexed_KeepsRemoved(index, r) ==
  IF r.valueLen = 0 THEN index
  ELSE [k \in DOMAIN index \cup {r.key} |->
          IF k = r.key THEN r.offset ELSE index[k]]

\* map.erase(key), or map[key] = holder.
Indexed(index, r) ==
  IF r.valueLen = 0 THEN [k \in DOMAIN index \ {r.key} |-> index[k]]
  ELSE [k \in DOMAIN index \cup {r.key} |->
          IF k = r.key THEN r.offset ELSE index[k]]

\* The index after each of some records.
Indexes(records) ==
  LET index[i \in 0 .. Len(records)] ==
        IF i = 0 THEN [k \in {} |-> 0] ELSE Indexed(index[i - 1], records[i])
  IN  index

Index(records) == Indexes(records)[Len(records)]

DecodeMap(bytes, n, greedy) == Index(Scanned(bytes, n, greedy))

\* getValueBlob: where the value of the record at an offset is, by the two
\* lengths in front of it.  It may read as far as the file is mapped.
GetValueBlob(bytes, offset) ==
  LET keyLen   == ReadUInt(Bits32, SubSeq(bytes, offset + 1, Len(bytes)))
      at       == offset + 1 + keyLen.consumed + keyLen.value
      valueLen == ReadUInt(Bits32, SubSeq(bytes, at, Len(bytes)))
  IN  IF keyLen.error \/ valueLen.error THEN [first |-> 0, len |-> 0]
      ELSE [first |-> at + valueLen.consumed, len |-> valueLen.value]

-----------------------------------------------------------------------------
(***************************************************************************)
(* Logs, in cells and in bytes.                                            *)
(***************************************************************************)
Logs ==
  UNION {[1 .. n -> [key : LogKeys, blob : LogBlobs]] : n \in 0 .. MaxRecords}

InCells == INSTANCE DataFile WITH Keys   <- LogKeys,
                                  Values <- LogBlobs \ {<<>>},
                                  Empty  <- <<>>

ItemSizeHolderBytes == [i \in 1 .. ItemSizeHolderSize |-> Group + 1]

\* What appendRecord has written after each record of a log.
Bytes(log) ==
  Appended(ItemSizeHolderBytes,
           [i \in 1 .. Len(log) |-> EncodeRecord(log[i].key, log[i].blob)])

\* m_actualSize after i records.
ActualSize(log, i) == Len(Bytes(log)[i])

\* The index that appendRecord keeps as it writes the log.
WriterIndex(log) ==
  Index([i \in 1 .. Len(log) |-> [offset   |-> ActualSize(log, i - 1),
                                  key      |-> log[i].key,
                                  valueLen |-> Len(log[i].blob)]])

\* The sizes at which a log may be cut so that i of its records are whole.
Cuts(log, i) ==
  ActualSize(log, i) ..
    IF i = Len(log) THEN ActualSize(log, i) ELSE ActualSize(log, i + 1) - 1

\* decodeMap of a log that is cut anywhere finds the records that are whole,
\* and takes of them each key's last one that is no tombstone; of a log that
\* is not cut it finds, greedy or not, the index the writer keeps.  Through
\* the index getValueBlob finds the values (data_parser.cpp:13-80,
\* value_blob.h:14-30, writer.cpp:331-342).
LogScanned ==
  \A log \in Logs :
    LET bytes == Bytes(log)[Len(log)]
        cells == <<[seed |-> 1]>> \o log
    IN  /\ \A whole \in 0 .. Len(log) : \A n \in Cuts(log, whole) :
             LET at    == InCells!DecodeMap(cells, whole + 1)
                 index == DecodeMap(bytes, n, FALSE)
             IN  /\ DOMAIN index = {k \in LogKeys : at[k] # 0}
                 /\ \A k \in DOMAIN index :
                      LET value == GetValueBlob(bytes, index[k])
                      IN  /\ index[k] = ActualSize(log, at[k] - 2)
                          /\ SubSeq(bytes, value.first,
                                    value.first + value.len - 1)
                               = InCells!ValueBlob(cells, at[k])
        /\ \A greedy \in BOOLEAN :
             DecodeMap(bytes, Len(bytes), greedy) = WriterIndex(log)

\* Whatever the bytes are, and however many of them the size counts, an index
\* leads to values that are inside the size and not empty, though the reader
\* of a value looks as far as the file is mapped; and a greedy scan begins
\* with what the other one finds (data_parser.cpp:39-63, data_parser.h:16-17,
\* value_blob.h:16).
ScanInside ==
  \A len \in 0 .. MaxTail : \A tail \in [1 .. len -> Byte] :
    LET bytes == ItemSizeHolderBytes \o tail
    IN  \A n \in 0 .. Len(bytes) :
          /\ LET found == Scanned(bytes, n, FALSE)
             IN  found = SubSeq(Scanned(bytes, n, TRUE), 1, Len(found))
          /\ \A greedy \in BOOLEAN :
               LET index == DecodeMap(bytes, n, greedy)
               IN  \A k \in DOMAIN index :
                     LET value == GetValueBlob(bytes, index[k])
                     IN  /\ index[k] >= ItemSizeHolderSize
                         /\ value.len > 0 /\ value.first + value.len <= n + 1
=============================================================================
