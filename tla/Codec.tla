------------------------------- MODULE Codec -------------------------------
(***************************************************************************)
(* The encoding of values, core/src/varint.cpp and codec.cpp, as functions *)
(* between integers and sequences of bytes.  No tag is stored: the reader  *)
(* of a type is given whatever bytes are there.                            *)
(*                                                                         *)
(* The widths are parameters (7, 32, 64, 4 and 8 in the code), so that TLC *)
(* can go through every value of a type.  A byte is a number below         *)
(* 2 * Group: GroupBits of data and the bit that says that more follow.  A *)
(* value is a tuple of numbers: of one, for a bool or an integer, and of   *)
(* its bytes, which memcpy moves as they are, for any other.               *)
(***************************************************************************)
EXTENDS Integers, Sequences, FiniteSets, FiniteSetsExt

CONSTANTS GroupBits, Bits32, Bits64, FloatBytes, DoubleBytes

ASSUME WidthAssumption ==
  /\ {GroupBits, Bits32, Bits64, FloatBytes, DoubleBytes} \subseteq Nat \ {0}
  /\ Bits32 < Bits64

Group == 2 ^ GroupBits
Byte == 0 .. 2 * Group - 1

\* std::optional.
None == {}
Some(v) == {v}

Unsigned(bits) == 0 .. 2 ^ bits - 1
Signed(bits) == -(2 ^ (bits - 1)) .. 2 ^ (bits - 1) - 1

\* static_cast between the unsigned and the signed integers of a width.
ToUnsigned(bits, v) == v % 2 ^ bits
ToSigned(bits, v) == LET u == ToUnsigned(bits, v)
                     IN  IF u >= 2 ^ (bits - 1) THEN u - 2 ^ bits ELSE u

\* memcpy of one part after another: what a buffer holds after each of them.
Appended(first, parts) ==
  LET bytes[i \in 0 .. Len(parts)] ==
        IF i = 0 THEN first ELSE bytes[i - 1] \o parts[i]
  IN  bytes

-----------------------------------------------------------------------------
\* Mutant: a value of exactly one group's size is written without the bit
\* that another byte follows.
WriteUInt_Boundary(v) ==
  LET write[x \in Nat] == IF x <= Group
                            THEN <<x>>
                            ELSE <<Group + (x % Group)>> \o write[x \div Group]
  IN  write[v]

\* writeUInt32, writeUInt64.
Varint[x \in Nat] ==
  IF x < Group THEN <<x>> ELSE <<Group + (x % Group)>> \o Varint[x \div Group]

WriteUInt(v) == Varint[v]

\* varIntSize.
Groups[x \in Nat] == IF x < Group THEN 1 ELSE 1 + Groups[x \div Group]

VarIntSize(v) == Groups[v]

\* Mutant: the last, shorter group is not counted.
MaxGroups_Whole(bits) == bits \div GroupBits

\* The most bytes a reader takes: 5 of 7 bits for 32, 10 for 64.
MaxGroups(bits) == (bits + GroupBits - 1) \div GroupBits

\* What the groups of the first n bytes add up to, each shifted to its place.
GroupSum(bytes) ==
  LET sum[n \in 0 .. Len(bytes)] ==
        IF n = 0 THEN 0
        ELSE sum[n - 1] + (bytes[n] % Group) * 2 ^ (GroupBits * (n - 1))
  IN  sum

\* readUInt32, readUInt64: the bytes up to the first that no other follows,
\* and an error where the input or the width ends before.  What is shifted
\* past the width is lost.
ReadUInt(bits, bytes) ==
  LET last == {i \in DOMAIN bytes : i <= MaxGroups(bits) /\ bytes[i] < Group}
  IN  IF last = {} THEN [error |-> TRUE, consumed |-> 0, value |-> 0]
      ELSE [error    |-> FALSE,
            consumed |-> Min(last),
            value    |-> GroupSum(bytes)[Min(last)] % 2 ^ bits]

\* An integer is decoded only from bytes it takes up whole.
DecodeVarint(bits, bytes) ==
  LET r == ReadUInt(bits, bytes)
  IN  IF r.error \/ r.consumed # Len(bytes) THEN None ELSE Some(r.value)

Integer(Cast(_), option) == {<<Cast(v)>> : v \in option}

-----------------------------------------------------------------------------
(***************************************************************************)
(* codec.cpp.  A bool is 0 or 1.                                           *)
(***************************************************************************)
\* Mutant: any byte but 0 is true.
DecodeBool_NonZero(bytes) ==
  IF Len(bytes) # 1 THEN None ELSE Some(IF bytes[1] = 0 THEN <<0>> ELSE <<1>>)

DecodeBool(bytes) == IF bytes \in {<<0>>, <<1>>} THEN Some(bytes) ELSE None

\* Mutant: an int32 is read as 32 bits.
DecodeInt32_Narrow(bytes) ==
  Integer(LAMBDA u : ToSigned(Bits32, u), DecodeVarint(Bits32, bytes))

\* An int32 is read as 64 bits, and cut.
DecodeInt32(bytes) ==
  Integer(LAMBDA u : ToSigned(Bits32, u), DecodeVarint(Bits64, bytes))

DecodeInt64(bytes) ==
  Integer(LAMBDA u : ToSigned(Bits64, u), DecodeVarint(Bits64, bytes))

DecodeUInt(bits, bytes) == Integer(LAMBDA u : u, DecodeVarint(bits, bytes))

\* memcpy of as many bytes as the type has.
DecodeFixed(size, bytes) == IF Len(bytes) = size THEN Some(bytes) ELSE None

\* Strings and bytes, of any length.
DecodeBytes(bytes) == Some(bytes)

Types == {"bool", "int32", "int64", "uint32", "uint64", "float", "double",
          "bytes"}

Decode(type, bytes) ==
  CASE type = "bool"   -> DecodeBool(bytes)
    [] type = "int32"  -> DecodeInt32(bytes)
    [] type = "int64"  -> DecodeInt64(bytes)
    [] type = "uint32" -> DecodeUInt(Bits32, bytes)
    [] type = "uint64" -> DecodeUInt(Bits64, bytes)
    [] type = "float"  -> DecodeFixed(FloatBytes, bytes)
    [] type = "double" -> DecodeFixed(DoubleBytes, bytes)
    [] type = "bytes"  -> DecodeBytes(bytes)

\* A negative int32 is extended to 64 bits first.  There is no encodeUInt32.
Encode(type, v) ==
  CASE type \in {"int32", "int64"}   -> WriteUInt(ToUnsigned(Bits64, v[1]))
    [] type \in {"uint32", "uint64"} -> WriteUInt(v[1])
    [] type \in {"bool", "float", "double", "bytes"} -> v

-----------------------------------------------------------------------------
(***************************************************************************)
(* What the encoding promises, for every value and for every input.        *)
(***************************************************************************)
Fixed(size) == [1 .. size -> Byte]

Domain(type) ==
  CASE type = "bool"   -> {<<0>>, <<1>>}
    [] type = "int32"  -> {<<i>> : i \in Signed(Bits32)}
    [] type = "int64"  -> {<<i>> : i \in Signed(Bits64)}
    [] type = "uint32" -> {<<i>> : i \in Unsigned(Bits32)}
    [] type = "uint64" -> {<<i>> : i \in Unsigned(Bits64)}
    [] type = "float"  -> Fixed(FloatBytes)
    [] type = "double" -> Fixed(DoubleBytes)
    [] type = "bytes"  -> Fixed(0) \cup Fixed(1)

\* A varint ends where it says it does, whatever bytes follow it in the log,
\* and one that is cut short is an error: the sizes of keys and values are
\* read with it from a mapping that goes on (varint.cpp:5-122).
VarintSelfDelimiting ==
  \A v \in Unsigned(Bits64), next \in Byte :
    LET w == WriteUInt(v)
    IN  /\ Len(w) = VarIntSize(v) /\ Len(w) <= MaxGroups(Bits64)
        /\ ReadUInt(Bits64, w \o <<next>>)
             = [error |-> FALSE, consumed |-> Len(w), value |-> v]
        /\ \A n \in 0 .. Len(w) - 1 : ReadUInt(Bits64, SubSeq(w, 1, n)).error

\* What is encoded as a type and decoded as the same type is the value, the
\* negative int32 and the widest integers included (codec.cpp:7-125).
RoundTrip ==
  \A type \in Types : \A v \in Domain(type) :
    Decode(type, Encode(type, v)) = Some(v)

\* What the getters of the C interface make of another type's bytes
\* (kv_store.cpp:116-144): they do not all refuse them.  A bool is read from
\* the integers 0 and 1 and no other; an integer from every bool, and from the
\* doubles whose bytes happen to be one varint; a double from the integers
\* whose varint happens to have the size of one.
Misreads ==
  /\ \A i \in Signed(Bits64) :
       /\ DecodeBool(Encode("int64", <<i>>)) =
            IF i \in {0, 1} THEN Some(<<i>>) ELSE None
       /\ Decode("double", Encode("int64", <<i>>)) # None
            <=> VarIntSize(ToUnsigned(Bits64, i)) = DoubleBytes
       /\ DecodeInt32(Encode("int64", <<i>>)) = Some(<<ToSigned(Bits32, i)>>)
  /\ \A b \in Domain("bool") : DecodeInt64(Encode("bool", b)) = Some(b)
  /\ \A d \in Fixed(DoubleBytes) :
       /\ DecodeBool(Encode("double", d)) = None
       /\ DecodeInt64(Encode("double", d)) # None
            <=> \A i \in 1 .. DoubleBytes : d[i] < Group <=> i = DoubleBytes
=============================================================================
