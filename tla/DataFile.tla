------------------------------ MODULE DataFile ------------------------------
(***************************************************************************)
(* The pair of files of a store, "<id>" and "<id>.crc", as values, and the *)
(* pure functions of core/src that read them.  No state.                   *)
(*                                                                         *)
(* The data file is a 4-byte header followed by the region the CRC covers: *)
(* the ItemSizeHolder, then one record after another, then bytes that no   *)
(* size counts (zeroes, or what a longer log left behind).  Here a cell is *)
(* one whole unit of that region, so sizes and offsets count cells: cell 1 *)
(* is the ItemSizeHolder, and a file of capacity c has c - HeaderSize      *)
(* cells.                                                                  *)
(*                                                                         *)
(* CRC-32 is abstracted as the sequence of cells it was computed over: two *)
(* contents have the same digest exactly when they are equal.  What this   *)
(* leaves out is an accidental collision (chance 2^-32), no more.          *)
(***************************************************************************)
EXTENDS Integers, Sequences

CONSTANTS
  Keys,    \* the keys a client may use
  Values,  \* the encoded values that are not empty
  Empty    \* the empty blob: a record that carries it is a tombstone

ASSUME EmptyAssumption == Empty \notin Values

Blobs  == Values \cup {Empty}
Record == [key : Keys, blob : Blobs]

\* The ItemSizeHolder is four random bytes.  Seed 0 stands for bytes nobody
\* has written since ftruncate extended the file.
Holder == [seed : 0 .. 2]
Zero   == [seed |-> 0]
Cell   == Record \cup Holder

HeaderSize     == 1   \* base[0,4), oldStyleActualSize
ItemSizeHolder == 1   \* the index of the ItemSizeHolder, and its size

Contents == [Keys -> Blobs]   \* what a client sees; Empty: no such key
EmptyContents == [k \in Keys |-> Empty]

-----------------------------------------------------------------------------
(***************************************************************************)
(* The meta record of the .crc file, without the fields no code reads (the *)
(* vector and the flags) and without the sequence number, which only peers *)
(* of a multi-process store read.                                          *)
(***************************************************************************)
Meta == [ crcDigest               : Seq(Cell),
          version                 : 0 .. 4,
          actualSize              : Nat,
          lastConfirmedActualSize : Nat,
          lastConfirmedCRCDigest  : Seq(Cell) ]

\* 112 bytes of zeroes, as ftruncate leaves a new .crc file.
ZeroMeta == [ crcDigest               |-> <<>>,
              version                 |-> 0,
              actualSize              |-> 0,
              lastConfirmedActualSize |-> 0,
              lastConfirmedCRCDigest  |-> <<>> ]

\* computeCRC: the digest of the first n cells.
ComputeCRC(cells, n) == SubSeq(cells, 1, n)

\* Mutant: the rolling digest takes in the blob, without its key.
UpdateCRC_BlobOnly(digest, r) == Append(digest, r.blob)

\* updateCRC: the rolling digest after one more record.
UpdateCRC(digest, r) == Append(digest, r)

\* The truncation test and validateCRC: the file holds n cells, and they are
\* the cells the digest was computed over.
Verifies(cells, n, digest) ==
  /\ n <= Len(cells)
  /\ n = Len(digest)
  /\ \A i \in 1 .. n : cells[i] = digest[i]

-----------------------------------------------------------------------------
\* Files older than version 3 keep their size in the header of the data file.
CandidateSize(m, header) == IF m.version < 3 THEN header ELSE m.actualSize

PrimaryValid(cells, header, m) ==
  Verifies(cells, CandidateSize(m, header), m.crcDigest)

ConfirmedValid(cells, m) ==
  /\ m.version >= 2
  /\ Verifies(cells, m.lastConfirmedActualSize, m.lastConfirmedCRCDigest)

\* Every caller in core/src passes RecoverStrategy::Discard, so that a file
\* with neither size verified is refused.
CheckDataValid(cells, header, m) ==
  IF PrimaryValid(cells, header, m)
    THEN [ loadFromFile        |-> TRUE,
           needFullWriteback   |-> FALSE,
           effectiveActualSize |-> CandidateSize(m, header) ]
  ELSE IF ConfirmedValid(cells, m)
    THEN [ loadFromFile        |-> TRUE,
           needFullWriteback   |-> TRUE,
           effectiveActualSize |-> m.lastConfirmedActualSize ]
  ELSE   [ loadFromFile        |-> FALSE,
           needFullWriteback   |-> FALSE,
           effectiveActualSize |-> 0 ]

-----------------------------------------------------------------------------
\* Mutant: whichever record of the key comes first counts.
LiveAt_FirstWins(cells, n, k, i) == cells[i] \in [key : {k}, blob : Values]

\* Cell i is the record that counts for key k among the first n cells: k's
\* last record, and not a tombstone.
LiveAt(cells, n, k, i) ==
  /\ cells[i] \in [key : {k}, blob : Values]
  /\ \A j \in (i + 1) .. n : cells[j] \notin [key : {k}, blob : Blobs]

\* decodeMap: the index of the live keys.  0 is "not in the map".
DecodeMap(cells, n) ==
  [k \in Keys |->
     IF \E i \in (ItemSizeHolder + 1) .. n : LiveAt(cells, n, k, i)
       THEN CHOOSE i \in (ItemSizeHolder + 1) .. n : LiveAt(cells, n, k, i)
       ELSE 0]

\* getValueBlob: the blob of the record at position i of a mapping.
ValueBlob(cells, i) ==
  IF i \in 1 .. Len(cells) /\ cells[i] \in Record THEN cells[i].blob ELSE Empty

\* What a client reads through an index.
Lookup(cells, map) == [k \in Keys |-> ValueBlob(cells, map[k])]

-----------------------------------------------------------------------------
\* ftruncate to n cells: a longer file is filled with zero bytes.
Resize(cells, n) ==
  [i \in 1 .. n |-> IF i <= Len(cells) THEN cells[i] ELSE Zero]

\* The capacities a mapping that starts at `start` goes through as it doubles.
Doublings(start, limit) ==
  {c \in start .. limit : \E i \in 0 .. limit : c = start * 2 ^ i}

\* The first of them that leaves room for `wanted` cells, if the file may
\* become that large.
GrownCapacities(start, wanted, limit) ==
  {c \in Doublings(start, limit) :
     /\ c - HeaderSize >= wanted
     /\ \A d \in Doublings(start, c - 1) : d - HeaderSize < wanted}
=============================================================================
