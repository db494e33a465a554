-------------------------- MODULE DataParserProofs --------------------------
(***************************************************************************)
(* What decodeMap finds, for any log and any bytes: of a log that is cut   *)
(* anywhere, the records that are whole, as DataFile has them in its cells *)
(* (LogScanned), and of bytes nobody wrote, nothing that leads out of them *)
(* (ScanInside).                                                           *)
(*                                                                         *)
(* What the bytes are is said by what they hold at which place (Holds): a  *)
(* varint, a record, the records of a log.  A record is then read where it *)
(* is held, unless the size ends before it (RecordRead); the scan is       *)
(* followed from the last record that is whole back to the first           *)
(* (ScanOfLog); and what decodeMap takes of the records it found are each  *)
(* key's last (IndexIs), of which LiveAt says the same in cells            *)
(* (CountsInCells).                                                        *)
(***************************************************************************)
EXTENDS DataParser, CodecProofs

-----------------------------------------------------------------------------
\* w is in bytes from p on.
Holds(bytes, p, w) ==
  /\ bytes \in Seq(Nat) /\ w \in Seq(Nat) /\ p \in Nat \ {0}
  /\ p + Len(w) <= Len(bytes) + 1
  /\ \A i \in 1 .. Len(w) : bytes[p - 1 + i] = w[i]

LEMMA HoldsBoth ==
  ASSUME NEW u \in Seq(Nat), NEW v \in Seq(Nat), NEW bytes, NEW p,
         Holds(bytes, p, u \o v)
  PROVE  /\ Holds(bytes, p, u) /\ Holds(bytes, p + Len(u), v)
         /\ Len(u \o v) = Len(u) + Len(v)
<1>1. /\ u \o v \in Seq(Nat) /\ Len(u \o v) = Len(u) + Len(v)
      /\ \A i \in 1 .. Len(u) + Len(v) :
           (u \o v)[i] = IF i <= Len(u) THEN u[i] ELSE v[i - Len(u)]
  BY ConcatProperties
<1>2. Len(u) \in Nat /\ Len(v) \in Nat /\ Len(bytes) \in Nat /\ p \in Nat \ {0}
  BY LenProperties DEF Holds
<1> DEFINE w == u \o v
<1>3. /\ w \in Seq(Nat) /\ Len(w) = Len(u) + Len(v)
      /\ \A i \in 1 .. Len(u) + Len(v) :
           w[i] = IF i <= Len(u) THEN u[i] ELSE v[i - Len(u)]
  BY <1>1
<1>4. Holds(bytes, p, w)
  OBVIOUS
<1> HIDE DEF w
<1>5. \A i \in 1 .. Len(u) : bytes[p - 1 + i] = u[i]
  <2> SUFFICES ASSUME NEW i \in 1 .. Len(u)  PROVE bytes[p - 1 + i] = u[i]
    OBVIOUS
  <2>1. i \in 1 .. Len(w) /\ w[i] = u[i]
    BY <1>2, <1>3
  <2> QED
    BY <1>4, <2>1 DEF Holds
<1>6. \A i \in 1 .. Len(v) : bytes[(p + Len(u)) - 1 + i] = v[i]
  <2> SUFFICES ASSUME NEW i \in 1 .. Len(v)
               PROVE  bytes[(p + Len(u)) - 1 + i] = v[i]
    OBVIOUS
  <2>1. /\ Len(u) + i \in 1 .. Len(w) /\ ~(Len(u) + i <= Len(u))
        /\ (Len(u) + i) - Len(u) = i
        /\ p - 1 + (Len(u) + i) = (p + Len(u)) - 1 + i
    BY <1>2, <1>3
  <2>2. w[Len(u) + i] = v[i]
    BY <1>3, <2>1
  <2> QED
    BY <1>4, <2>1, <2>2 DEF Holds
<1> QED
  BY <1>2, <1>3, <1>4, <1>5, <1>6 DEF Holds, w

LEMMA HoldsLonger ==
  ASSUME NEW u \in Seq(Nat), NEW v \in Seq(Nat)
  PROVE  /\ u \o v \in Seq(Nat) /\ Len(u \o v) = Len(u) + Len(v)
         /\ Holds(u \o v, Len(u) + 1, v)
         /\ \A p, w : Holds(u, p, w) => Holds(u \o v, p, w)
<1>1. /\ u \o v \in Seq(Nat) /\ Len(u \o v) = Len(u) + Len(v)
      /\ \A i \in 1 .. Len(u) + Len(v) :
           (u \o v)[i] = IF i <= Len(u) THEN u[i] ELSE v[i - Len(u)]
  BY ConcatProperties
<1>2. Len(u) \in Nat /\ Len(v) \in Nat
  BY LenProperties
<1> DEFINE b == u \o v
<1>3. /\ b \in Seq(Nat) /\ Len(b) = Len(u) + Len(v)
      /\ \A i \in 1 .. Len(u) + Len(v) :
           b[i] = IF i <= Len(u) THEN u[i] ELSE v[i - Len(u)]
  BY <1>1
<1> HIDE DEF b
<1>4. Holds(b, Len(u) + 1, v)
  <2>1. ASSUME NEW i \in 1 .. Len(v)  PROVE b[(Len(u) + 1) - 1 + i] = v[i]
    <3>1. /\ Len(u) + i \in 1 .. Len(u) + Len(v) /\ ~(Len(u) + i <= Len(u))
          /\ (Len(u) + i) - Len(u) = i /\ (Len(u) + 1) - 1 + i = Len(u) + i
      BY <1>2
    <3> QED
      BY <1>3, <3>1
  <2> QED
    BY <1>2, <1>3, <2>1 DEF Holds
<1>5. ASSUME NEW p, NEW w, Holds(u, p, w)  PROVE Holds(b, p, w)
  <2>0. p \in Nat \ {0} /\ Len(w) \in Nat /\ p + Len(w) <= Len(u) + 1
    BY <1>5, LenProperties DEF Holds
  <2>1. ASSUME NEW i \in 1 .. Len(w)  PROVE b[p - 1 + i] = w[i]
    <3>1. /\ p - 1 + i \in 1 .. Len(u) + Len(v) /\ p - 1 + i <= Len(u)
      BY <1>2, <2>0
    <3>2. b[p - 1 + i] = u[p - 1 + i]
      BY <1>3, <3>1
    <3> QED
      BY <1>5, <3>2 DEF Holds
  <2>2. p + Len(w) <= Len(b) + 1
    BY <1>2, <1>3, <2>0
  <2> QED
    BY <1>3, <1>5, <2>1, <2>2 DEF Holds
<1> QED
  BY <1>3, <1>4, <1>5 DEF b

LEMMA AppendedEquation ==
  ASSUME NEW first \in Seq(Nat), NEW parts \in Seq(Seq(Nat))
  PROVE  /\ Appended(first, parts)[0] = first
         /\ \A i \in 0 .. Len(parts) : Appended(first, parts)[i] \in Seq(Nat)
         /\ \A i \in 1 .. Len(parts) :
              Appended(first, parts)[i] = Appended(first, parts)[i - 1] \o parts[i]
<1> DEFINE D == 0 .. Len(parts)
           S == Seq(Nat)
           B == {0}
           a == [i \in D |-> first]
           d == [i \in D |-> i - 1]
           h == [i \in D |-> [s \in S |-> s \o parts[i]]]
           Right(f) == f = [i \in D |->
             IF i = 0 THEN first ELSE f[i - 1] \o parts[i]]
<1>0. Len(parts) \in Nat /\ \A i \in 1 .. Len(parts) : parts[i] \in Seq(Nat)
  <2> DEFINE E == Seq(Nat)
  <2>1. parts \in Seq(E)
    OBVIOUS
  <2> HIDE DEF E
  <2>2. Len(parts) \in Nat /\ \A i \in 1 .. Len(parts) : parts[i] \in E
    BY <2>1, LenProperties, ElementOfSeq
  <2> QED
    BY <2>2 DEF E
<1>1. Recursion(D, S, B, a, d, h)
  <2>1. D \in SUBSET Nat /\ a \in [D -> S]
    BY <1>0
  <2>2. \A i \in D \ B : d[i] \in D /\ d[i] < i
    BY <1>0
  <2>3. ASSUME NEW i \in D \ B, NEW s \in S  PROVE h[i][s] \in S
    <3>1. i \in 1 .. Len(parts)
      BY <1>0
    <3>2. s \o parts[i] \in Seq(Nat)
      BY <1>0, <3>1, ConcatProperties
    <3> QED
      BY <3>2
  <2> HIDE DEF D, S, B, a, d, h
  <2> QED
    BY <2>1, <2>2, <2>3 DEF Recursion
<1>2. PICK f \in [D -> S] : \A i \in D : f[i] = StepAt(f, i, B, a, d, h)
  <2> HIDE DEF D, S, B, a, d, h
  <2> QED
    BY <1>1, RecursiveFunction
<1>3. ASSUME NEW i \in D
      PROVE  f[i] = IF i = 0 THEN first ELSE f[i - 1] \o parts[i]
  <2>1. i # 0 => i - 1 \in D /\ f[i - 1] \in S
    <3>1. i # 0 => i - 1 \in D
      BY <1>0
    <3> HIDE DEF D, S
    <3> QED
      BY <3>1
  <2>2. i # 0 => h[i][f[i - 1]] = f[i - 1] \o parts[i]
    <3> HIDE DEF S
    <3> QED
      BY <2>1
  <2> QED
    BY <1>2, <2>1, <2>2 DEF StepAt
<1>4. Right(f)
  BY <1>3
<1>5. Right(Appended(first, parts))
  BY <1>4 DEF Appended
<1> DEFINE g == Appended(first, parts)
<1>6. \A i \in D : g[i] = IF i = 0 THEN first ELSE g[i - 1] \o parts[i]
  BY <1>5
<1> HIDE DEF g, Right
<1> DEFINE T == {i \in Nat : i \in D => g[i] \in Seq(Nat)}
<1>7. 0 \in T
  BY <1>6
<1>8. ASSUME NEW i \in Nat, i \in T  PROVE i + 1 \in T
  <2> SUFFICES ASSUME i + 1 \in D  PROVE g[i + 1] \in Seq(Nat)
    OBVIOUS
  <2>1. i \in D /\ (i + 1) - 1 = i /\ i + 1 # 0 /\ i + 1 \in 1 .. Len(parts)
    BY <1>0
  <2>2. g[i + 1] = g[i] \o parts[i + 1] /\ g[i] \in Seq(Nat)
    BY <1>6, <1>8, <2>1
  <2>3. parts[i + 1] \in Seq(Nat)
    BY <1>0, <2>1
  <2> QED
    BY <2>2, <2>3, ConcatProperties
<1>9. Nat \subseteq T
  <2> HIDE DEF T
  <2> QED
    BY <1>7, <1>8, NatInduct
<1>10. \A i \in D : g[i] \in Seq(Nat)
  BY <1>0, <1>9
<1>11. 0 \in D /\ \A i \in 1 .. Len(parts) : i \in D /\ i # 0
  BY <1>0
<1>12. g[0] = first /\ \A i \in 1 .. Len(parts) : g[i] = g[i - 1] \o parts[i]
  BY <1>6, <1>11
<1> QED
  BY <1>10, <1>12 DEF g

LEMMA AppendedHolds ==
  ASSUME NEW first \in Seq(Nat), NEW parts \in Seq(Seq(Nat)),
         NEW i \in 1 .. Len(parts)
  PROVE  /\ Len(Appended(first, parts)[i])
              = Len(Appended(first, parts)[i - 1]) + Len(parts[i])
         /\ Holds(Appended(first, parts)[Len(parts)],
                  Len(Appended(first, parts)[i - 1]) + 1, parts[i])
<1> DEFINE g == Appended(first, parts)
           at == Len(g[i - 1]) + 1
           T == {m \in Nat : i <= m /\ m <= Len(parts) => Holds(g[m], at, parts[i])}
<1>0. Len(parts) \in Nat /\ \A j \in 1 .. Len(parts) : parts[j] \in Seq(Nat)
  <2> DEFINE E == Seq(Nat)
  <2>1. parts \in Seq(E)
    OBVIOUS
  <2> HIDE DEF E
  <2>2. Len(parts) \in Nat /\ \A j \in 1 .. Len(parts) : parts[j] \in E
    BY <2>1, LenProperties, ElementOfSeq
  <2> QED
    BY <2>2 DEF E
<1>1. /\ \A j \in 0 .. Len(parts) : g[j] \in Seq(Nat)
      /\ \A j \in 1 .. Len(parts) : g[j] = g[j - 1] \o parts[j]
  BY AppendedEquation
<1> HIDE DEF g
<1>2. ASSUME NEW j \in 1 .. Len(parts)
      PROVE  /\ Len(g[j]) = Len(g[j - 1]) + Len(parts[j])
             /\ Holds(g[j], Len(g[j - 1]) + 1, parts[j])
             /\ \A p, w : Holds(g[j - 1], p, w) => Holds(g[j], p, w)
  <2>1. g[j - 1] \in Seq(Nat) /\ parts[j] \in Seq(Nat)
    <3>1. j - 1 \in 0 .. Len(parts)
      BY <1>0
    <3> QED
      BY <1>0, <1>1, <3>1
  <2> DEFINE u == g[j - 1]
             v == parts[j]
  <2>2. u \in Seq(Nat) /\ v \in Seq(Nat) /\ g[j] = u \o v
    BY <1>1, <2>1
  <2> HIDE DEF u, v
  <2>3. /\ Len(u \o v) = Len(u) + Len(v) /\ Holds(u \o v, Len(u) + 1, v)
        /\ \A p, w : Holds(u, p, w) => Holds(u \o v, p, w)
    BY <2>2, HoldsLonger
  <2> QED
    BY <2>2, <2>3 DEF u, v
<1>3. 0 \in T
  OBVIOUS
<1>4. ASSUME NEW m \in Nat, m \in T  PROVE m + 1 \in T
  <2> SUFFICES ASSUME i <= m + 1, m + 1 <= Len(parts)
               PROVE  Holds(g[m + 1], at, parts[i])
    OBVIOUS
  <2>1. m + 1 \in 1 .. Len(parts) /\ (m + 1) - 1 = m /\ m <= Len(parts)
    BY <1>0
  <2>2. CASE i = m + 1
    BY <1>2, <2>2
  <2>3. CASE i # m + 1
    <3>1. Holds(g[m], at, parts[i])
      BY <1>4, <2>1, <2>3
    <3> HIDE DEF at
    <3> QED
      BY <1>2, <2>1, <3>1
  <2> QED
    BY <2>2, <2>3
<1>5. Nat \subseteq T
  <2> HIDE DEF T
  <2> QED
    BY <1>3, <1>4, NatInduct
<1>6. Holds(g[Len(parts)], at, parts[i])
  BY <1>0, <1>5
<1> QED
  BY <1>2, <1>6 DEF g

\* A varint that the bytes hold at p is read from any of them that do not end
\* before it does; from fewer it is an error.
LEMMA ReadHeld ==
  ASSUME NEW bits \in Nat \ {0}, NEW x \in Nat, x < 2 ^ bits,
         NEW bytes, NEW p, Holds(bytes, p, Varint[x]),
         NEW m \in p - 1 .. Len(bytes)
  PROVE  /\ p + Len(Varint[x]) <= m + 1 =>
              ReadUInt(bits, SubSeq(bytes, p, m))
                = [error |-> FALSE, consumed |-> Len(Varint[x]), value |-> x]
         /\ p + Len(Varint[x]) > m + 1 =>
              ReadUInt(bits, SubSeq(bytes, p, m)).error
<1> DEFINE w == Varint[x]
           s == SubSeq(bytes, p, m)
<1>1. /\ w \in Seq(Nat) /\ Len(w) \in Nat /\ Len(w) > 0
      /\ \A i \in 1 .. Len(w) : w[i] < Group <=> i = Len(w)
  BY VarintWrites DEF Writes
<1> HIDE DEF w
<1>2. /\ bytes \in Seq(Nat) /\ Len(bytes) \in Nat /\ p \in Nat \ {0} /\ m \in Nat
      /\ m <= Len(bytes) /\ p <= m + 1
      /\ \A i \in 1 .. Len(w) : bytes[p - 1 + i] = w[i]
  <2>1. Holds(bytes, p, w)
    BY DEF w
  <2>2. /\ bytes \in Seq(Nat) /\ p \in Nat \ {0}
        /\ \A i \in 1 .. Len(w) : bytes[p - 1 + i] = w[i]
    BY <2>1 DEF Holds
  <2>3. Len(bytes) \in Nat
    BY <2>2, LenProperties
  <2> QED
    BY <2>2, <2>3
<1>3. /\ s \in Seq(Nat) /\ Len(s) = m - p + 1 /\ DOMAIN s = 1 .. m - p + 1
      /\ \A i \in 1 .. m - p + 1 : s[i] = bytes[p - 1 + i]
  <2>1. \A i \in p .. m : bytes[i] \in Nat
    BY <1>2, ElementOfSeq
  <2>2. /\ s \in Seq(Nat) /\ Len(s) = IF p <= m THEN m - p + 1 ELSE 0
        /\ \A i \in 1 .. m - p + 1 : s[i] = bytes[p + i - 1]
    BY <1>2, <2>1, SubSeqProperties
  <2>3. \A i \in 1 .. m - p + 1 : p + i - 1 = p - 1 + i
    BY <1>2
  <2>4. Len(s) = m - p + 1
    BY <1>2, <2>2
  <2> HIDE DEF s
  <2> QED
    BY <2>2, <2>3, <2>4, LenProperties
<1> HIDE DEF s
<1>4. ASSUME p + Len(w) <= m + 1
      PROVE  ReadUInt(bits, s) = [error |-> FALSE, consumed |-> Len(w), value |-> x]
  <2>1. ASSUME NEW i \in 1 .. Len(w)  PROVE s[i] = w[i]
    <3>1. i \in 1 .. m - p + 1
      BY <1>1, <1>2, <1>4
    <3> QED
      BY <1>2, <1>3, <3>1
  <2>2. Len(w) <= Len(s)
    BY <1>1, <1>2, <1>3, <1>4
  <2>3. Begins(s, w)
    BY <1>1, <1>3, <2>1, <2>2 DEF Begins
  <2> QED
    BY <2>3, ReadWritten DEF w
<1>5. ASSUME p + Len(w) > m + 1
      PROVE  ReadUInt(bits, s).error
  <2>1. ASSUME NEW i \in DOMAIN s  PROVE ~(s[i] < Group)
    <3>0. i \in 1 .. m - p + 1
      BY <1>3
    <3>1. i \in 1 .. Len(w) /\ i # Len(w)
      BY <1>1, <1>2, <1>5, <3>0
    <3>2. s[i] = w[i]
      BY <1>2, <1>3, <3>0, <3>1
    <3> QED
      BY <1>1, <3>1, <3>2
  <2>2. {i \in DOMAIN s : i <= MaxGroups(bits) /\ s[i] < Group} = {}
    BY <2>1
  <2> QED
    BY <2>2 DEF ReadUInt
<1> QED
  BY <1>4, <1>5 DEF w, s
LEMMA HeldIs ==
  ASSUME NEW bytes, NEW p, NEW w, Holds(bytes, p, w)
  PROVE  SubSeq(bytes, p, p + Len(w) - 1) = w
<1> DEFINE s == SubSeq(bytes, p, p + Len(w) - 1)
<1>1. /\ bytes \in Seq(Nat) /\ Len(bytes) \in Nat /\ w \in Seq(Nat)
      /\ Len(w) \in Nat /\ p \in Nat \ {0} /\ p + Len(w) <= Len(bytes) + 1
      /\ \A i \in 1 .. Len(w) : bytes[p - 1 + i] = w[i]
  BY LenProperties DEF Holds
<1>2. \A i \in p .. p + Len(w) - 1 : bytes[i] \in Nat
  <2>1. \A i \in p .. p + Len(w) - 1 : i \in 1 .. Len(bytes)
    BY <1>1
  <2> QED
    BY <1>1, <2>1, ElementOfSeq
<1>3. /\ s \in Seq(Nat)
      /\ Len(s) = IF p <= p + Len(w) - 1 THEN (p + Len(w) - 1) - p + 1 ELSE 0
      /\ \A i \in 1 .. (p + Len(w) - 1) - p + 1 : s[i] = bytes[p + i - 1]
  <2> DEFINE q == p + Len(w) - 1
  <2>1. q \in Int /\ p \in Int /\ \A i \in p .. q : bytes[i] \in Nat
    BY <1>1, <1>2
  <2> HIDE DEF q
  <2>2. /\ SubSeq(bytes, p, q) \in Seq(Nat)
        /\ Len(SubSeq(bytes, p, q)) = IF p <= q THEN q - p + 1 ELSE 0
        /\ \A i \in 1 .. q - p + 1 : SubSeq(bytes, p, q)[i] = bytes[p + i - 1]
    BY <2>1, SubSeqProperties
  <2> QED
    BY <2>2 DEF q
<1> HIDE DEF s
<1>4. Len(s) = Len(w)
  BY <1>1, <1>3
<1>5. ASSUME NEW i \in 1 .. Len(w)  PROVE s[i] = w[i]
  <2>1. i \in 1 .. (p + Len(w) - 1) - p + 1 /\ p + i - 1 = p - 1 + i
    BY <1>1
  <2> QED
    BY <1>1, <1>3, <2>1
<1>6. s = w
  BY <1>1, <1>3, <1>4, <1>5, SeqEqual
<1> QED
  BY <1>6 DEF s

-----------------------------------------------------------------------------
(***************************************************************************)
(* One record.                                                             *)
(***************************************************************************)
Fits(b) == b \in Seq(Nat) /\ Len(b) < 2 ^ Bits32

KeyPlace(p, key) == p + Len(Varint[Len(key)])
BlobLenPlace(p, key) == KeyPlace(p, key) + Len(key)
BlobPlace(p, key, blob) == BlobLenPlace(p, key) + Len(Varint[Len(blob)])

\* Where the parts of a record are.
LEMMA RecordHeld ==
  ASSUME NEW key, NEW blob, Fits(key), Fits(blob),
         NEW bytes, NEW p, Holds(bytes, p, EncodeRecord(key, blob))
  PROVE  /\ Len(key) \in Nat /\ Len(blob) \in Nat /\ p \in Nat \ {0}
         /\ Len(Varint[Len(key)]) \in Nat \ {0}
         /\ Len(Varint[Len(blob)]) \in Nat \ {0}
         /\ Holds(bytes, p, Varint[Len(key)])
         /\ Holds(bytes, KeyPlace(p, key), key)
         /\ Holds(bytes, BlobLenPlace(p, key), Varint[Len(blob)])
         /\ Holds(bytes, BlobPlace(p, key, blob), blob)
         /\ p + Len(EncodeRecord(key, blob)) = BlobPlace(p, key, blob) + Len(blob)
         /\ EncodeRecord(key, blob) \in Seq(Nat)
<1> DEFINE a == Varint[Len(key)]
           c == Varint[Len(blob)]
           ab == a \o key
           abc == ab \o c
<1>1. key \in Seq(Nat) /\ blob \in Seq(Nat) /\ Len(key) \in Nat /\ Len(blob) \in Nat
  BY LenProperties DEF Fits
<1>2. /\ a \in Seq(Nat) /\ Len(a) \in Nat \ {0}
      /\ c \in Seq(Nat) /\ Len(c) \in Nat \ {0}
  <2>1. \A x \in Nat : Varint[x] \in Seq(Nat) /\ Len(Varint[x]) \in Nat \ {0}
    BY VarintWrites DEF Writes
  <2> QED
    BY <1>1, <2>1
<1>3. EncodeRecord(key, blob) = abc \o blob
  BY DEF EncodeRecord, WriteUInt
<1> HIDE DEF a, c
<1>4. ab \in Seq(Nat) /\ Len(ab) = Len(a) + Len(key)
  BY <1>1, <1>2, ConcatProperties
<1>5. /\ abc \in Seq(Nat) /\ abc \o blob \in Seq(Nat)
      /\ Len(abc \o blob) = Len(abc) + Len(blob)
  <2> HIDE DEF ab
  <2>1. abc \in Seq(Nat)
    BY <1>2, <1>4, ConcatProperties
  <2> HIDE DEF abc
  <2> QED
    BY <1>1, <2>1, ConcatProperties
<1>6. Holds(bytes, p, abc \o blob)
  BY <1>3
<1>7. Holds(bytes, p, abc) /\ Holds(bytes, p + Len(abc), blob)
  <2> HIDE DEF abc
  <2> QED
    BY <1>1, <1>5, <1>6, HoldsBoth
<1>8. /\ Holds(bytes, p, ab) /\ Holds(bytes, p + Len(ab), c)
      /\ Len(abc) = Len(ab) + Len(c)
  <2> HIDE DEF ab
  <2> QED
    BY <1>2, <1>4, <1>7, HoldsBoth
<1>9. Holds(bytes, p, a) /\ Holds(bytes, p + Len(a), key)
  BY <1>1, <1>2, <1>8, HoldsBoth
<1>10. p \in Nat \ {0}
  BY <1>9 DEF Holds
<1> DEFINE p1 == p + Len(a)
           p2 == p1 + Len(key)
           p3 == p2 + Len(c)
<1>11. p + Len(ab) = p2 /\ p + Len(abc) = p3 /\ p + Len(abc \o blob) = p3 + Len(blob)
  BY <1>1, <1>2, <1>4, <1>5, <1>8, <1>10
<1>12. /\ KeyPlace(p, key) = p1 /\ BlobLenPlace(p, key) = p2
       /\ BlobPlace(p, key, blob) = p3
  BY DEF KeyPlace, BlobLenPlace, BlobPlace, a, c
<1> HIDE DEF p1, p2, p3, ab, abc
<1>13. /\ Holds(bytes, p1, key) /\ Holds(bytes, p2, c) /\ Holds(bytes, p3, blob)
  BY <1>7, <1>8, <1>9, <1>11 DEF p1
<1> QED
  BY <1>1, <1>2, <1>3, <1>5, <1>9, <1>10, <1>11, <1>12, <1>13 DEF a, c

\* It is found where it ends within n, and nothing is found where it does not.
LEMMA RecordRead ==
  ASSUME NEW key, NEW blob, Fits(key), Fits(blob),
         NEW bytes, NEW p, Holds(bytes, p, EncodeRecord(key, blob)),
         NEW n \in p - 1 .. Len(bytes)
  PROVE  RecordAt(bytes, n, p) =
           IF p + Len(EncodeRecord(key, blob)) <= n + 1
             THEN Some([offset |-> p - 1, key |-> key, valueLen |-> Len(blob),
                        next |-> p + Len(EncodeRecord(key, blob))])
             ELSE None
<1> DEFINE a == Len(Varint[Len(key)])
           c == Len(Varint[Len(blob)])
           p1 == KeyPlace(p, key)
           p2 == BlobLenPlace(p, key)
           p3 == BlobPlace(p, key, blob)
           p4 == p + Len(EncodeRecord(key, blob))
           kl == ReadUInt(Bits32, SubSeq(bytes, p, n))
           vl == ReadUInt(Bits32, SubSeq(bytes, p + kl.consumed + kl.value, n))
<1>1. /\ Len(key) \in Nat /\ Len(blob) \in Nat /\ p \in Nat \ {0}
      /\ a \in Nat \ {0} /\ c \in Nat \ {0}
      /\ Holds(bytes, p, Varint[Len(key)]) /\ Holds(bytes, p1, key)
      /\ Holds(bytes, p2, Varint[Len(blob)]) /\ Holds(bytes, p3, blob)
      /\ p4 = p3 + Len(blob)
  BY RecordHeld
<1>2. p1 = p + a /\ p2 = p1 + Len(key) /\ p3 = p2 + c
  BY DEF KeyPlace, BlobLenPlace, BlobPlace
<1>3. /\ Bits32 \in Nat \ {0} /\ Len(key) < 2 ^ Bits32 /\ Len(blob) < 2 ^ Bits32
      /\ n \in Nat /\ n <= Len(bytes) /\ Len(bytes) \in Nat
  <2>1. Len(bytes) \in Nat /\ p - 1 \in Nat
    BY <1>1, LenProperties DEF Holds
  <2> QED
    BY <2>1, WidthAssumption DEF Fits
<1>4. RecordAt(bytes, n, p) =
        IF \/ kl.error \/ p + kl.consumed + kl.value > n + 1
           \/ vl.error \/ p + kl.consumed + kl.value + vl.consumed + vl.value > n + 1
          THEN None
          ELSE Some([offset |-> p - 1,
                     key |-> SubSeq(bytes, p + kl.consumed,
                                    p + kl.consumed + kl.value - 1),
                     valueLen |-> vl.value,
                     next |-> p + kl.consumed + kl.value + vl.consumed + vl.value])
  BY DEF RecordAt
<1>5. /\ p1 <= n + 1 => kl = [error |-> FALSE, consumed |-> a, value |-> Len(key)]
      /\ p1 > n + 1 => kl.error
  <2> HIDE DEF p1, p2, p3, p4
  <2> DEFINE x == Len(key)
  <2>1. x \in Nat /\ x < 2 ^ Bits32 /\ Holds(bytes, p, Varint[x])
    BY <1>1, <1>3
  <2> HIDE DEF x
  <2>2. /\ p + Len(Varint[x]) <= n + 1 =>
             ReadUInt(Bits32, SubSeq(bytes, p, n))
               = [error |-> FALSE, consumed |-> Len(Varint[x]), value |-> x]
        /\ p + Len(Varint[x]) > n + 1 => ReadUInt(Bits32, SubSeq(bytes, p, n)).error
    BY <1>3, <2>1, ReadHeld
  <2> QED
    BY <1>2, <2>2 DEF x
<1>6. ASSUME p2 <= n + 1
      PROVE  /\ p3 <= n + 1 =>
                  ReadUInt(Bits32, SubSeq(bytes, p2, n))
                    = [error |-> FALSE, consumed |-> c, value |-> Len(blob)]
             /\ p3 > n + 1 => ReadUInt(Bits32, SubSeq(bytes, p2, n)).error
  <2> DEFINE x == Len(blob)
  <2>1. x \in Nat /\ x < 2 ^ Bits32 /\ Holds(bytes, p2, Varint[x])
    BY <1>1, <1>3
  <2>2. n \in p2 - 1 .. Len(bytes)
    <3> HIDE DEF p1, p2, p3, p4, a, c
    <3>1. p2 \in Nat
      BY <1>1, <1>2
    <3> QED
      BY <1>3, <1>6, <3>1
  <2> HIDE DEF x, p1, p2, p3, p4
  <2>3. /\ p2 + Len(Varint[x]) <= n + 1 =>
             ReadUInt(Bits32, SubSeq(bytes, p2, n))
               = [error |-> FALSE, consumed |-> Len(Varint[x]), value |-> x]
        /\ p2 + Len(Varint[x]) > n + 1 => ReadUInt(Bits32, SubSeq(bytes, p2, n)).error
    BY <1>3, <2>1, <2>2, ReadHeld
  <2> QED
    BY <1>2, <2>3 DEF x
<1>7. SubSeq(bytes, p1, p2 - 1) = key
  <2>1. SubSeq(bytes, p1, p1 + Len(key) - 1) = key
    <3> HIDE DEF p1
    <3> QED
      BY <1>1, HeldIs
  <2>2. p1 + Len(key) - 1 = p2 - 1
    <3>1. p1 = p + a /\ p2 = p1 + Len(key)
      BY <1>2
    <3> HIDE DEF p1, p2, a
    <3> QED
      BY <1>1, <3>1
  <2> HIDE DEF p1, p2
  <2> QED
    BY <2>1, <2>2, Zenon
<1> HIDE DEF a, c, p1, p2, p3, p4, kl
<1>8. p1 \in Nat /\ p2 \in Nat /\ p3 \in Nat /\ p4 \in Nat
      /\ p1 <= p2 /\ p2 <= p3 /\ p3 <= p4
  BY <1>1, <1>2
<1>9. CASE p1 > n + 1
  <2>1. ~(p4 <= n + 1)
    BY <1>3, <1>8, <1>9
  <2>2. kl.error
    BY <1>5, <1>9
  <2> HIDE DEF vl
  <2>3. RecordAt(bytes, n, p) = None
    BY <1>4, <2>2
  <2> QED
    BY <2>1, <2>3 DEF p4
<1>10. CASE p1 <= n + 1
  <2>1. /\ kl.error = FALSE /\ kl.value = Len(key) /\ kl.consumed = a
        /\ p + kl.consumed = p1 /\ p + kl.consumed + kl.value = p2
    BY <1>2, <1>5, <1>10
  <2>2. vl = ReadUInt(Bits32, SubSeq(bytes, p2, n))
    BY <2>1
  <2> HIDE DEF vl
  <2>3. CASE p2 > n + 1
    <3>1. ~(p4 <= n + 1)
      BY <1>3, <1>8, <2>3
    <3>2. RecordAt(bytes, n, p) = None
      BY <1>4, <2>1, <2>3
    <3> QED
      BY <3>1, <3>2 DEF p4
  <2>4. CASE p2 <= n + 1 /\ p3 > n + 1
    <3>1. ~(p4 <= n + 1)
      BY <1>3, <1>8, <2>4
    <3>2. vl.error
      BY <1>6, <2>2, <2>4
    <3>3. RecordAt(bytes, n, p) = None
      BY <1>4, <3>2
    <3> QED
      BY <3>1, <3>3 DEF p4
  <2>5. CASE p2 <= n + 1 /\ p3 <= n + 1
    <3>0. vl = [error |-> FALSE, consumed |-> c, value |-> Len(blob)]
      BY <1>6, <2>2, <2>5
    <3>1. /\ vl.error = FALSE /\ vl.value = Len(blob) /\ vl.consumed = c
          /\ p2 + vl.consumed = p3 /\ p3 + vl.value = p4
      BY <1>1, <1>2, <3>0
    <3>2. /\ p + kl.consumed + kl.value + vl.consumed + vl.value = p4
          /\ ~(p + kl.consumed + kl.value > n + 1)
      BY <1>3, <1>8, <2>1, <2>5, <3>1
    <3>3. RecordAt(bytes, n, p) =
            IF p4 > n + 1 THEN None
            ELSE Some([offset |-> p - 1, key |-> key, valueLen |-> Len(blob),
                       next |-> p4])
      <4>1. (\/ kl.error \/ p + kl.consumed + kl.value > n + 1
             \/ vl.error
             \/ p + kl.consumed + kl.value + vl.consumed + vl.value > n + 1)
              <=> p4 > n + 1
        BY <2>1, <3>1, <3>2
      <4>2. SubSeq(bytes, p + kl.consumed, p + kl.consumed + kl.value - 1) = key
        <5>1. p + kl.consumed + kl.value - 1 = p2 - 1
          BY <1>1, <1>8, <2>1
        <5> QED
          BY <1>7, <2>1, <5>1, Zenon
      <4> QED
        BY <1>4, <3>1, <3>2, <4>1, <4>2
    <3>4. p4 > n + 1 <=> ~(p4 <= n + 1)
      BY <1>3, <1>8
    <3> QED
      BY <3>3, <3>4 DEF p4
  <2> QED
    BY <1>3, <1>8, <2>3, <2>4, <2>5
<1> QED
  BY <1>3, <1>8, <1>9, <1>10

\* Through its offset its value is found.
LEMMA ValueFound ==
  ASSUME NEW key, NEW blob, Fits(key), Fits(blob),
         NEW bytes, NEW p, Holds(bytes, p, EncodeRecord(key, blob))
  PROVE  LET value == GetValueBlob(bytes, p - 1)
         IN  SubSeq(bytes, value.first, value.first + value.len - 1) = blob
<1> DEFINE a == Len(Varint[Len(key)])
           c == Len(Varint[Len(blob)])
           p1 == KeyPlace(p, key)
           p2 == BlobLenPlace(p, key)
           p3 == BlobPlace(p, key, blob)
           m == Len(bytes)
           kl == ReadUInt(Bits32, SubSeq(bytes, p, m))
           vl == ReadUInt(Bits32, SubSeq(bytes, p2, m))
<1>1. /\ Len(key) \in Nat /\ Len(blob) \in Nat /\ p \in Nat \ {0}
      /\ a \in Nat \ {0} /\ c \in Nat \ {0}
      /\ Holds(bytes, p, Varint[Len(key)])
      /\ Holds(bytes, p2, Varint[Len(blob)]) /\ Holds(bytes, p3, blob)
  BY RecordHeld
<1>2. p1 = p + a /\ p2 = p1 + Len(key) /\ p3 = p2 + c
  BY DEF KeyPlace, BlobLenPlace, BlobPlace
<1>3. /\ Bits32 \in Nat \ {0} /\ Len(key) < 2 ^ Bits32 /\ Len(blob) < 2 ^ Bits32
  BY WidthAssumption DEF Fits
<1>4. /\ m \in Nat /\ p2 + c <= m + 1 /\ p + a <= m + 1 /\ p2 \in Nat \ {0}
  BY <1>1, LenProperties DEF Holds
<1>5. kl = [error |-> FALSE, consumed |-> a, value |-> Len(key)]
  <2> DEFINE x == Len(key)
  <2>1. x \in Nat /\ x < 2 ^ Bits32 /\ Holds(bytes, p, Varint[x])
        /\ p + Len(Varint[x]) <= m + 1
    BY <1>1, <1>3, <1>4
  <2>2. m \in p - 1 .. Len(bytes)
    BY <1>1, <1>4
  <2> HIDE DEF x, p1, p2, p3, m
  <2>3. ReadUInt(Bits32, SubSeq(bytes, p, m))
          = [error |-> FALSE, consumed |-> Len(Varint[x]), value |-> x]
    BY <1>3, <2>1, <2>2, ReadHeld
  <2> QED
    BY <2>3 DEF x
<1>6. vl = [error |-> FALSE, consumed |-> c, value |-> Len(blob)]
  <2> DEFINE x == Len(blob)
  <2>1. x \in Nat /\ x < 2 ^ Bits32 /\ Holds(bytes, p2, Varint[x])
        /\ p2 + Len(Varint[x]) <= m + 1
    BY <1>1, <1>3, <1>4
  <2>2. m \in p2 - 1 .. Len(bytes)
    <3> HIDE DEF p2
    <3> QED
      BY <1>1, <1>4
  <2> HIDE DEF x, p1, p2, p3, m
  <2>3. ReadUInt(Bits32, SubSeq(bytes, p2, m))
          = [error |-> FALSE, consumed |-> Len(Varint[x]), value |-> x]
    BY <1>3, <2>1, <2>2, ReadHeld
  <2> QED
    BY <2>3 DEF x
<1>7. (p - 1) + 1 = p /\ (p - 1) + 1 + kl.consumed + kl.value = p2
  <2> HIDE DEF a, p1, p2, kl
  <2> QED
    BY <1>1, <1>2, <1>5
<1>8. GetValueBlob(bytes, p - 1) = [first |-> p3, len |-> Len(blob)]
  <2> DEFINE kk == ReadUInt(Bits32, SubSeq(bytes, (p - 1) + 1, m))
             at == (p - 1) + 1 + kk.consumed + kk.value
             vv == ReadUInt(Bits32, SubSeq(bytes, at, m))
  <2>1. GetValueBlob(bytes, p - 1) =
          IF kk.error \/ vv.error THEN [first |-> 0, len |-> 0]
          ELSE [first |-> at + vv.consumed, len |-> vv.value]
    BY DEF GetValueBlob
  <2>2. kk = kl
    BY <1>7
  <2> HIDE DEF kk
  <2>3. at = p2
    BY <1>7, <2>2
  <2> HIDE DEF at
  <2>4. vv = vl
    BY <2>3
  <2> HIDE DEF vv, vl, kl, p2, p3
  <2> QED
    BY <1>2, <1>5, <1>6, <2>1, <2>2, <2>3, <2>4
<1>9. SubSeq(bytes, p3, p3 + Len(blob) - 1) = blob
  <2> HIDE DEF p3
  <2> QED
    BY <1>1, HeldIs
<1> QED
  BY <1>8, <1>9

-----------------------------------------------------------------------------
(***************************************************************************)
(* Arbitrary bytes.                                                        *)
(***************************************************************************)
Last(bits, bytes) ==
  {i \in DOMAIN bytes : i <= MaxGroups(bits) /\ bytes[i] < Group}

LEMMA ReadIs ==
  ASSUME NEW bits \in Nat \ {0}, NEW bytes \in Seq(Nat)
  PROVE  /\ Last(bits, bytes) = {} <=> ReadUInt(bits, bytes).error
         /\ Last(bits, bytes) # {} =>
              \E m \in Last(bits, bytes) :
                /\ \A i \in Last(bits, bytes) : m <= i
                /\ m \in 1 .. Len(bytes)
                /\ ReadUInt(bits, bytes) =
                     [error |-> FALSE, consumed |-> m,
                      value |-> GroupSum(bytes)[m] % 2 ^ bits]
                /\ GroupSum(bytes)[m] % 2 ^ bits \in Nat
<1> DEFINE last == Last(bits, bytes)
<1>1. DOMAIN bytes = 1 .. Len(bytes) /\ Len(bytes) \in Nat
  BY LenProperties
<1>2. ReadUInt(bits, bytes) =
        IF last = {} THEN [error |-> TRUE, consumed |-> 0, value |-> 0]
        ELSE [error |-> FALSE, consumed |-> Min(last),
              value |-> GroupSum(bytes)[Min(last)] % 2 ^ bits]
  BY DEF ReadUInt, Last
<1>3. last \subseteq 1 .. Len(bytes) /\ last \in SUBSET Nat
  BY <1>1 DEF Last
<1> HIDE DEF last
<1>4. ASSUME last # {}
      PROVE  \E m \in last :
                /\ \A i \in last : m <= i
                /\ m \in 1 .. Len(bytes)
                /\ ReadUInt(bits, bytes) =
                     [error |-> FALSE, consumed |-> m,
                      value |-> GroupSum(bytes)[m] % 2 ^ bits]
                /\ GroupSum(bytes)[m] % 2 ^ bits \in Nat
  <2>1. PICK m \in last : \A i \in last : m <= i
    BY <1>3, <1>4, LeastOf
  <2>2. Min(last) = m
    <3>1. \A j \in last : (\A y \in last : j =< y) => j = m
      BY <1>3, <2>1
    <3> QED
      BY <2>1, <3>1 DEF Min
  <2>3. m \in 1 .. Len(bytes) /\ m \in 0 .. Len(bytes)
    BY <1>1, <1>3
  <2>4. GroupSum(bytes)[m] \in Nat
    BY <2>3, GroupSumEquation
  <2>5. GroupSum(bytes)[m] % 2 ^ bits \in Nat
    <3> DEFINE s == GroupSum(bytes)[m]
               q == 2 ^ bits
    <3>1. s \in Nat /\ q \in Nat /\ q > 0
      BY <2>4, PowerPositive
    <3> HIDE DEF s, q
    <3>2. s % q \in 0 .. q - 1
      BY <3>1, Division
    <3>3. s % q \in Nat
      BY <3>1, <3>2
    <3> QED
      BY <3>3 DEF s, q
  <2> QED
    BY <1>2, <1>4, <2>1, <2>2, <2>3, <2>5
<1>5. last = {} <=> ReadUInt(bits, bytes).error
  <2>1. CASE last = {}
    BY <1>2, <2>1
  <2>2. CASE last # {}
    BY <1>2, <2>2
  <2> QED
    BY <2>1, <2>2
<1> QED
  BY <1>4, <1>5 DEF last

LEMMA ReadBounds ==
  ASSUME NEW bits \in Nat \ {0}, NEW bytes \in Seq(Nat),
         ~ReadUInt(bits, bytes).error
  PROVE  /\ ReadUInt(bits, bytes).error = FALSE
         /\ ReadUInt(bits, bytes).consumed \in 1 .. Len(bytes)
         /\ ReadUInt(bits, bytes).value \in Nat
<1>1. Last(bits, bytes) # {}
  BY ReadIs
<1>2. PICK m \in Last(bits, bytes) :
        /\ m \in 1 .. Len(bytes)
        /\ ReadUInt(bits, bytes) =
             [error |-> FALSE, consumed |-> m,
              value |-> GroupSum(bytes)[m] % 2 ^ bits]
        /\ GroupSum(bytes)[m] % 2 ^ bits \in Nat
  BY <1>1, ReadIs
<1> DEFINE v == GroupSum(bytes)[m] % 2 ^ bits
<1>3. ReadUInt(bits, bytes) = [error |-> FALSE, consumed |-> m, value |-> v]
  BY <1>2
<1> HIDE DEF v
<1>4. /\ ReadUInt(bits, bytes).error = FALSE /\ ReadUInt(bits, bytes).consumed = m
      /\ ReadUInt(bits, bytes).value = v
  BY <1>3
<1> QED
  BY <1>2, <1>4 DEF v

\* What is read does not depend on what follows.
LEMMA ReadExtends ==
  ASSUME NEW bits \in Nat \ {0}, NEW s, NEW t, Begins(t, s),
         ~ReadUInt(bits, s).error
  PROVE  ReadUInt(bits, t) = ReadUInt(bits, s)
<1>1. /\ s \in Seq(Nat) /\ t \in Seq(Nat) /\ Len(s) \in Nat /\ Len(t) \in Nat
      /\ Len(s) <= Len(t) /\ DOMAIN s = 1 .. Len(s) /\ DOMAIN t = 1 .. Len(t)
      /\ \A i \in 1 .. Len(s) : t[i] = s[i]
  BY LenProperties DEF Begins
<1>2. \A i \in 1 .. Len(s) : i \in Last(bits, t) <=> i \in Last(bits, s)
  BY <1>1 DEF Last
<1>3. Last(bits, s) # {}
  BY <1>1, ReadIs
<1>4. PICK m \in Last(bits, s) :
        /\ \A i \in Last(bits, s) : m <= i
        /\ m \in 1 .. Len(s)
        /\ ReadUInt(bits, s) = [error |-> FALSE, consumed |-> m,
                                value |-> GroupSum(s)[m] % 2 ^ bits]
  BY <1>1, <1>3, ReadIs
<1>5. m \in Last(bits, t)
  BY <1>2, <1>4
<1>6. PICK l \in Last(bits, t) :
        /\ \A i \in Last(bits, t) : l <= i
        /\ l \in 1 .. Len(t)
        /\ ReadUInt(bits, t) = [error |-> FALSE, consumed |-> l,
                                value |-> GroupSum(t)[l] % 2 ^ bits]
  BY <1>1, <1>5, ReadIs
<1>7. l = m
  <2>1. l <= m
    BY <1>5, <1>6
  <2>2. l \in 1 .. Len(s)
    BY <1>1, <1>4, <1>6, <2>1
  <2>3. m <= l
    BY <1>2, <1>4, <1>6, <2>2
  <2> QED
    BY <1>1, <1>4, <2>1, <2>2, <2>3
<1>8. GroupSum(t)[m] = GroupSum(s)[m]
  <2>1. m \in 0 .. Len(s)
    BY <1>1, <1>4
  <2> QED
    BY <1>1, <2>1, GroupSumPrefix
<1> QED
  BY <1>4, <1>6, <1>7, <1>8

\* The bytes from p to m begin with the bytes from p to n.
LEMMA PartBegins ==
  ASSUME NEW bytes \in Seq(Nat), NEW p \in Nat \ {0}, NEW n \in p - 1 .. Len(bytes),
         NEW m \in n .. Len(bytes)
  PROVE  /\ SubSeq(bytes, p, n) \in Seq(Nat)
         /\ Len(SubSeq(bytes, p, n)) = n - p + 1
         /\ Begins(SubSeq(bytes, p, m), SubSeq(bytes, p, n))
<1>0. Len(bytes) \in Nat /\ n \in Nat /\ m \in Nat /\ n <= m /\ p - 1 <= n
      /\ n <= Len(bytes) /\ m <= Len(bytes)
  BY LenProperties
<1>1. ASSUME NEW l \in Nat, p - 1 <= l, l <= Len(bytes)
      PROVE  /\ SubSeq(bytes, p, l) \in Seq(Nat)
             /\ Len(SubSeq(bytes, p, l)) = l - p + 1
             /\ \A i \in 1 .. l - p + 1 : SubSeq(bytes, p, l)[i] = bytes[p + i - 1]
  <2>1. \A i \in p .. l : bytes[i] \in Nat
    <3>1. \A i \in p .. l : i \in 1 .. Len(bytes)
      BY <1>0, <1>1
    <3> QED
      BY <3>1, ElementOfSeq
  <2>2. /\ SubSeq(bytes, p, l) \in Seq(Nat)
        /\ Len(SubSeq(bytes, p, l)) = IF p <= l THEN l - p + 1 ELSE 0
        /\ \A i \in 1 .. l - p + 1 : SubSeq(bytes, p, l)[i] = bytes[p + i - 1]
    BY <2>1, SubSeqProperties
  <2>3. (IF p <= l THEN l - p + 1 ELSE 0) = l - p + 1
    BY <1>1
  <2> QED
    BY <2>2, <2>3
<1> DEFINE s == SubSeq(bytes, p, n)
           t == SubSeq(bytes, p, m)
<1>2. /\ s \in Seq(Nat) /\ Len(s) = n - p + 1
      /\ \A i \in 1 .. n - p + 1 : s[i] = bytes[p + i - 1]
  BY <1>0, <1>1
<1>3. /\ t \in Seq(Nat) /\ Len(t) = m - p + 1
      /\ \A i \in 1 .. m - p + 1 : t[i] = bytes[p + i - 1]
  BY <1>0, <1>1
<1> HIDE DEF s, t
<1>4. Len(s) <= Len(t)
  BY <1>0, <1>2, <1>3
<1>5. \A i \in 1 .. n - p + 1 : i \in 1 .. m - p + 1
  BY <1>0
<1>6. Begins(t, s)
  BY <1>2, <1>3, <1>4, <1>5 DEF Begins
<1> QED
  BY <1>2, <1>6 DEF s, t

FoundAt(bytes, n, p) == CHOOSE x \in RecordAt(bytes, n, p) : TRUE

\* A record that is found, whatever the bytes are, is inside the size, and
\* through its offset the value it was found with is found.
LEMMA RecordInside ==
  ASSUME NEW bytes \in Seq(Nat), NEW n \in 0 .. Len(bytes), NEW p \in 1 .. n,
         RecordAt(bytes, n, p) # None
  PROVE  /\ RecordAt(bytes, n, p) = Some(FoundAt(bytes, n, p))
         /\ FoundAt(bytes, n, p).offset = p - 1
         /\ FoundAt(bytes, n, p).next \in p + 1 .. n + 1
         /\ FoundAt(bytes, n, p).valueLen \in Nat
         /\ LET value == GetValueBlob(bytes, p - 1)
            IN  /\ value.len = FoundAt(bytes, n, p).valueLen
                /\ value.first + value.len = FoundAt(bytes, n, p).next
<1> DEFINE m == Len(bytes)
           kl == ReadUInt(Bits32, SubSeq(bytes, p, n))
           q == p + kl.consumed + kl.value
           vl == ReadUInt(Bits32, SubSeq(bytes, q, n))
           v == q + vl.consumed
           r == [offset |-> p - 1,
                 key |-> SubSeq(bytes, p + kl.consumed,
                                (p + kl.consumed) + kl.value - 1),
                 valueLen |-> vl.value, next |-> v + vl.value]
<1>0. m \in Nat /\ n \in Nat /\ p \in Nat \ {0} /\ p <= n /\ n <= m
      /\ Bits32 \in Nat \ {0}
  BY LenProperties, WidthAssumption
<1>1. RecordAt(bytes, n, p) =
        IF \/ kl.error \/ q > n + 1 \/ vl.error \/ v + vl.value > n + 1
          THEN None ELSE Some(r)
  BY DEF RecordAt
<1>2. ~kl.error /\ ~(q > n + 1) /\ ~vl.error /\ ~(v + vl.value > n + 1)
  <2> HIDE DEF kl, vl, q, v, r
  <2> QED
    BY <1>1
<1>3. RecordAt(bytes, n, p) = Some(r)
  <2> HIDE DEF kl, vl, q, v, r
  <2> QED
    BY <1>1, <1>2
<1>4. FoundAt(bytes, n, p) = r
  <2> HIDE DEF r
  <2> QED
    BY <1>3 DEF FoundAt, Some
<1>5. /\ kl.error = FALSE /\ kl.consumed \in 1 .. n - p + 1 /\ kl.value \in Nat
      /\ ReadUInt(Bits32, SubSeq(bytes, p, m)) = kl
  <2> DEFINE s == SubSeq(bytes, p, n)
             t == SubSeq(bytes, p, m)
  <2>1. s \in Seq(Nat) /\ Len(s) = n - p + 1 /\ Begins(t, s)
    <3>1. n \in p - 1 .. Len(bytes) /\ m \in n .. Len(bytes)
      BY <1>0
    <3> HIDE DEF m
    <3> QED
      BY <1>0, <3>1, PartBegins
  <2>2. ~ReadUInt(Bits32, s).error
    BY <1>2
  <2> HIDE DEF s, t
  <2>3. /\ ReadUInt(Bits32, s).error = FALSE
        /\ ReadUInt(Bits32, s).consumed \in 1 .. Len(s)
        /\ ReadUInt(Bits32, s).value \in Nat
        /\ ReadUInt(Bits32, t) = ReadUInt(Bits32, s)
    BY <1>0, <2>1, <2>2, ReadBounds, ReadExtends
  <2> QED
    BY <2>1, <2>3 DEF s, t
<1>6. q \in Nat \ {0} /\ q <= n + 1 /\ p + 1 <= q
  <2> DEFINE kc == kl.consumed
             kv == kl.value
  <2>1. kc \in 1 .. n - p + 1 /\ kv \in Nat /\ ~(q > n + 1) /\ q = p + kc + kv
    BY <1>2, <1>5
  <2> HIDE DEF kc, kv, q
  <2> QED
    BY <1>0, <2>1
<1>7. /\ vl.error = FALSE /\ vl.consumed \in 1 .. n - q + 1 /\ vl.value \in Nat
      /\ ReadUInt(Bits32, SubSeq(bytes, q, m)) = vl
  <2> DEFINE s == SubSeq(bytes, q, n)
             t == SubSeq(bytes, q, m)
  <2>1. s \in Seq(Nat) /\ Len(s) = n - q + 1 /\ Begins(t, s)
    <3> HIDE DEF q
    <3>1. n \in q - 1 .. Len(bytes) /\ m \in n .. Len(bytes)
      BY <1>0, <1>6
    <3> HIDE DEF m
    <3> QED
      BY <1>0, <1>6, <3>1, PartBegins
  <2>2. ~ReadUInt(Bits32, s).error
    BY <1>2
  <2> HIDE DEF s, t, q
  <2>3. /\ ReadUInt(Bits32, s).error = FALSE
        /\ ReadUInt(Bits32, s).consumed \in 1 .. Len(s)
        /\ ReadUInt(Bits32, s).value \in Nat
        /\ ReadUInt(Bits32, t) = ReadUInt(Bits32, s)
    BY <1>0, <2>1, <2>2, ReadBounds, ReadExtends
  <2> QED
    BY <2>1, <2>3 DEF s, t
<1>8. v \in Nat /\ p + 1 <= v /\ v + vl.value \in p + 1 .. n + 1
  <2> DEFINE vc == vl.consumed
             vx == vl.value
  <2>1. vc \in 1 .. n - q + 1 /\ vx \in Nat /\ ~(v + vx > n + 1) /\ v = q + vc
    BY <1>2, <1>7
  <2> HIDE DEF vc, vx, q, v
  <2>2. v \in Nat /\ p + 1 <= v /\ v + vx \in p + 1 .. n + 1
    BY <1>0, <1>6, <2>1
  <2> QED
    BY <2>2 DEF vx
<1>9. GetValueBlob(bytes, p - 1) = [first |-> v, len |-> vl.value]
  <2> DEFINE kk == ReadUInt(Bits32, SubSeq(bytes, (p - 1) + 1, m))
             at == (p - 1) + 1 + kk.consumed + kk.value
             vv == ReadUInt(Bits32, SubSeq(bytes, at, m))
  <2>1. GetValueBlob(bytes, p - 1) =
          IF kk.error \/ vv.error THEN [first |-> 0, len |-> 0]
          ELSE [first |-> at + vv.consumed, len |-> vv.value]
    BY DEF GetValueBlob
  <2>2. (p - 1) + 1 = p
    BY <1>0
  <2>3. kk = kl
    BY <1>5, <2>2
  <2> HIDE DEF kk
  <2>4. at = q
    <3> HIDE DEF kl
    <3> QED
      BY <2>2, <2>3
  <2> HIDE DEF at
  <2>5. vv = vl
    <3> HIDE DEF q
    <3> QED
      BY <1>7, <2>4
  <2> HIDE DEF vv, vl, kl, q
  <2> QED
    BY <1>5, <1>7, <2>1, <2>3, <2>4, <2>5
<1>10. /\ r.offset = p - 1 /\ r.next = v + vl.value /\ r.valueLen = vl.value
  <2> HIDE DEF kl, vl, q, v
  <2> QED
    OBVIOUS
<1> HIDE DEF r, v, vl
<1> QED
  BY <1>3, <1>4, <1>7, <1>8, <1>9, <1>10

-----------------------------------------------------------------------------
(***************************************************************************)
(* The scan.                                                               *)
(***************************************************************************)
Found(bytes, n, p) == UNION {RecordAt(bytes, n, q) : q \in p .. n}

LEMMA ScanEquation ==
  ASSUME NEW bytes \in Seq(Nat), NEW n \in 0 .. Len(bytes), NEW greedy
  PROVE  \A p \in Nat \ {0} :
           Scan(bytes, n, greedy)[p] =
             IF p > n THEN <<>>
             ELSE IF RecordAt(bytes, n, p) # None
               THEN <<FoundAt(bytes, n, p)>>
                      \o Scan(bytes, n, greedy)[FoundAt(bytes, n, p).next]
             ELSE IF greedy THEN Scan(bytes, n, greedy)[p + 1] ELSE <<>>
<1> DEFINE At(p) == RecordAt(bytes, n, p)
           Is(p) == FoundAt(bytes, n, p)
           S == Seq(Found(bytes, n, 1))
           D == 0 .. n
           B == {m \in D : m = 0 \/ (At(n + 1 - m) = None /\ ~greedy)}
           a == [m \in D |-> <<>>]
           d == [m \in D |-> IF At(n + 1 - m) # None THEN n + 1 - Is(n + 1 - m).next
                             ELSE m - 1]
           h == [m \in D |-> [s \in S |-> IF At(n + 1 - m) # None
                                            THEN <<Is(n + 1 - m)>> \o s ELSE s]]
           Right(f) == f = [p \in Nat \ {0} |->
             IF p > n THEN <<>>
             ELSE IF At(p) # None THEN <<Is(p)>> \o f[Is(p).next]
             ELSE IF greedy THEN f[p + 1] ELSE <<>>]
<1>0. n \in Nat /\ Len(bytes) \in Nat
  BY LenProperties
<1>1. ASSUME NEW p \in 1 .. n, At(p) # None
      PROVE  /\ Is(p) \in Found(bytes, n, 1) /\ Is(p).next \in p + 1 .. n + 1
             /\ Is(p).next \in Nat
  <2>1. At(p) = Some(Is(p)) /\ Is(p).next \in p + 1 .. n + 1
    BY <1>0, <1>1, RecordInside
  <2> HIDE DEF Is
  <2>2. Is(p) \in Found(bytes, n, 1)
    BY <2>1 DEF Found, Some
  <2> QED
    BY <1>0, <2>1, <2>2
<1>2. \A m \in D \ B : /\ m # 0 /\ n + 1 - m \in 1 .. n
                        /\ (n + 1 - m) + 1 = n + 1 - (m - 1)
                       /\ m \in Nat
                       /\ At(n + 1 - m) = None => greedy
  <2> HIDE DEF At
  <2> QED
    BY <1>0
<1> HIDE DEF At, Is
<1>3. Recursion(D, S, B, a, d, h)
  <2>1. D \in SUBSET Nat /\ a \in [D -> S]
    <3>1. <<>> \in S
      BY EmptySeq
    <3> HIDE DEF S
    <3> QED
      BY <1>0, <3>1
  <2>2. ASSUME NEW m \in D \ B  PROVE d[m] \in D /\ d[m] < m
    <3> DEFINE p == n + 1 - m
    <3>1. p \in 1 .. n /\ m \in Nat /\ m \in D /\ m # 0
      BY <1>2
    <3>2. CASE At(p) # None
      <4>1. d[m] = n + 1 - Is(p).next
        BY <3>1, <3>2
      <4>2. Is(p).next \in p + 1 .. n + 1 /\ Is(p).next \in Nat
        BY <1>1, <3>1, <3>2
      <4> HIDE DEF d, B
      <4> QED
        BY <1>0, <3>1, <4>1, <4>2
    <3>3. CASE At(p) = None
      <4>1. d[m] = m - 1
        BY <3>1, <3>3
      <4> HIDE DEF d, B
      <4> QED
        BY <1>0, <3>1, <4>1
    <3> QED
      BY <3>2, <3>3
  <2>3. ASSUME NEW m \in D \ B, NEW s \in S  PROVE h[m][s] \in S
    <3> DEFINE p == n + 1 - m
    <3>1. p \in 1 .. n /\ m \in D
      BY <1>2
    <3>2. CASE At(p) # None
      <4>1. h[m][s] = <<Is(p)>> \o s
        BY <3>1, <3>2
      <4>2. Is(p) \in Found(bytes, n, 1)
        BY <1>1, <3>1, <3>2
      <4>3. <<Is(p)>> \in S
        BY <4>2
      <4>4. <<Is(p)>> \o s \in S
        BY <4>3, ConcatProperties
      <4> HIDE DEF h
      <4> QED
        BY <4>1, <4>4
    <3>3. CASE At(p) = None
      <4>1. h[m][s] = s
        BY <3>1, <3>3
      <4> QED
        BY <4>1
    <3> QED
      BY <3>2, <3>3
  <2> HIDE DEF D, S, B, a, d, h
  <2> QED
    BY <2>1, <2>2, <2>3 DEF Recursion
<1>4. PICK f \in [D -> S] : \A m \in D : f[m] = StepAt(f, m, B, a, d, h)
  <2> HIDE DEF D, S, B, a, d, h
  <2> QED
    BY <1>3, RecursiveFunction
<1> DEFINE g == [p \in Nat \ {0} |-> IF p > n THEN <<>> ELSE f[n + 1 - p]]
<1>5. ASSUME NEW p \in Nat \ {0}
      PROVE  g[p] = IF p > n THEN <<>>
                    ELSE IF At(p) # None THEN <<Is(p)>> \o g[Is(p).next]
                    ELSE IF greedy THEN g[p + 1] ELSE <<>>
  <2>1. CASE p > n
    BY <2>1
  <2>2. CASE ~(p > n)
    <3> DEFINE m == n + 1 - p
    <3>1. p \in 1 .. n /\ m \in D /\ m \in 1 .. n /\ n + 1 - m = p
      BY <1>0, <2>2
    <3>2. g[p] = f[m] /\ f[m] = StepAt(f, m, B, a, d, h)
      BY <1>4, <2>2, <3>1
    <3>3. ASSUME NEW q \in p + 1 .. n + 1  PROVE g[q] = f[n + 1 - q]
      <4>1. q \in Nat \ {0}
        BY <3>1
      <4>2. CASE q > n
        <5>1. q = n + 1 /\ n + 1 - q = 0
          BY <1>0, <3>3, <4>2
        <5>2. 0 \in D /\ 0 \in B
          BY <1>0
        <5>3. f[0] = <<>>
          <6>1. f[0] = a[0]
            BY <1>4, <5>2 DEF StepAt
          <6> QED
            BY <5>2, <6>1
        <5>4. g[q] = <<>>
          BY <4>1, <4>2
        <5> HIDE DEF g
        <5> QED
          BY <5>1, <5>3, <5>4
      <4>3. CASE ~(q > n)
        BY <4>1, <4>3
      <4> QED
        BY <4>2, <4>3
    <3> HIDE DEF g
    <3>4. CASE At(p) # None
      <4>1. m \notin B /\ d[m] = n + 1 - Is(p).next
        <5>1. m # 0 /\ At(n + 1 - m) # None /\ n + 1 - m = p
          BY <3>1, <3>4
        <5> HIDE DEF m
        <5> QED
          BY <3>1, <5>1
      <4>2. Is(p).next \in p + 1 .. n + 1
        BY <1>1, <3>1, <3>4
      <4>3. f[d[m]] = g[Is(p).next] /\ f[d[m]] \in S
        <5>1. f[d[m]] = g[Is(p).next]
          BY <3>3, <4>1, <4>2
        <5>2. d[m] \in D
          <6> DEFINE e == Is(p).next
          <6>1. e \in p + 1 .. n + 1 /\ d[m] = n + 1 - e /\ p \in 1 .. n
            BY <3>1, <4>1, <4>2
          <6> HIDE DEF d, m, e
          <6>2. n + 1 - e \in 0 .. n
            BY <1>0, <6>1
          <6> QED
            BY <6>1, <6>2
        <5> HIDE DEF d, m, D, S
        <5> QED
          BY <5>1, <5>2
      <4>4. h[m][f[d[m]]] = <<Is(p)>> \o f[d[m]]
        <5> DEFINE s == f[d[m]]
        <5>1. s \in S
          BY <4>3
        <5>2. At(n + 1 - m) # None /\ n + 1 - m = p
          BY <3>1, <3>4
        <5> HIDE DEF s, m, S
        <5>3. h[m][s] = <<Is(p)>> \o s
          BY <3>1, <5>1, <5>2
        <5> QED
          BY <5>3 DEF s
      <4>5. g[p] = h[m][f[d[m]]]
        <5> HIDE DEF h, d, B, a, m
        <5> QED
          BY <3>2, <4>1 DEF StepAt
      <4> HIDE DEF h, d, B, a, m
      <4>6. g[p] = <<Is(p)>> \o g[Is(p).next]
        BY <4>3, <4>4, <4>5
      <4> QED
        BY <2>2, <3>4, <4>6
    <3>5. CASE At(p) = None /\ greedy
      <4>0. At(n + 1 - m) = None /\ n + 1 - m = p /\ m # 0
        BY <3>1, <3>5
      <4>1. m \notin B /\ d[m] = m - 1
        <5> HIDE DEF m
        <5> QED
          BY <3>1, <3>5, <4>0
      <4>2. p + 1 \in p + 1 .. n + 1 /\ n + 1 - (p + 1) = m - 1 /\ m - 1 \in D
        BY <1>0, <3>1
      <4>3. f[d[m]] = g[p + 1] /\ f[d[m]] \in S
        <5> HIDE DEF m, D, S, d
        <5> QED
          BY <3>3, <4>1, <4>2
      <4>4. h[m][f[d[m]]] = f[d[m]]
        <5> DEFINE s == f[d[m]]
        <5>1. s \in S
          BY <4>3
        <5> HIDE DEF s, m, S
        <5>2. h[m][s] = s
          BY <3>1, <4>0, <5>1
        <5> QED
          BY <5>2 DEF s
      <4>5. g[p] = h[m][f[d[m]]]
        <5> HIDE DEF h, d, B, a, m
        <5> QED
          BY <3>2, <4>1 DEF StepAt
      <4> HIDE DEF h, d, B, a, m
      <4> QED
        BY <2>2, <3>5, <4>3, <4>4, <4>5
    <3>6. CASE At(p) = None /\ ~greedy
      <4>1. m \in B /\ a[m] = <<>>
        BY <3>1, <3>6
      <4> HIDE DEF h, d, B, a, m
      <4>2. g[p] = <<>>
        BY <3>2, <4>1 DEF StepAt
      <4> QED
        BY <2>2, <3>6, <4>2
    <3> QED
      BY <3>4, <3>5, <3>6
  <2> QED
    BY <2>1, <2>2
<1>6. Right(g)
  <2> DEFINE H(p) == IF p > n THEN <<>>
                     ELSE IF At(p) # None THEN <<Is(p)>> \o g[Is(p).next]
                     ELSE IF greedy THEN g[p + 1] ELSE <<>>
  <2>1. \A p \in Nat \ {0} : g[p] = H(p)
    BY <1>5
  <2>2. g = [p \in Nat \ {0} |-> g[p]]
    OBVIOUS
  <2> HIDE DEF g, H
  <2>3. g = [p \in Nat \ {0} |-> H(p)]
    BY <2>1, <2>2
  <2> QED
    BY <2>3 DEF H
<1>7. Right(Scan(bytes, n, greedy))
  <2>1. Scan(bytes, n, greedy) = CHOOSE x : Right(x)
    BY DEF Scan, At, Is, FoundAt
  <2> HIDE DEF Right, g
  <2> QED
    BY <1>6, <2>1
<1> DEFINE k == Scan(bytes, n, greedy)
<1>8. \A p \in Nat \ {0} :
        k[p] = IF p > n THEN <<>>
               ELSE IF At(p) # None THEN <<Is(p)>> \o k[Is(p).next]
               ELSE IF greedy THEN k[p + 1] ELSE <<>>
  <2>1. Right(k)
    BY <1>7
  <2> HIDE DEF k
  <2> QED
    BY <2>1
<1> QED
  BY <1>8 DEF At, Is, k

\* What is found from p on begins there, or later.
LEMMA ScanFinds ==
  ASSUME NEW bytes \in Seq(Nat), NEW n \in 0 .. Len(bytes), NEW greedy,
         NEW p \in Nat \ {0}
  PROVE  Scan(bytes, n, greedy)[p] \in Seq(Found(bytes, n, p))
<1> DEFINE scan == Scan(bytes, n, greedy)
           T == {j \in Nat : \A q \in Nat \ {0} :
                   q + j > n => scan[q] \in Seq(Found(bytes, n, q))}
<1>0. n \in Nat
  BY LenProperties
<1>1. \A q \in Nat \ {0} :
        scan[q] = IF q > n THEN <<>>
                  ELSE IF RecordAt(bytes, n, q) # None
                    THEN <<FoundAt(bytes, n, q)>> \o scan[FoundAt(bytes, n, q).next]
                  ELSE IF greedy THEN scan[q + 1] ELSE <<>>
  BY ScanEquation
<1> HIDE DEF scan
<1>2. \A q \in Nat \ {0} : <<>> \in Seq(Found(bytes, n, q))
  BY EmptySeq
<1>3. 0 \in T
  <2>1. \A q \in Nat \ {0} : q + 0 > n => q > n
    BY <1>0
  <2>2. \A q \in Nat \ {0} : q > n => scan[q] = <<>>
    BY <1>1
  <2> QED
    BY <1>2, <2>1, <2>2
<1>4. ASSUME NEW j \in Nat, j \in T  PROVE j + 1 \in T
  <2> SUFFICES ASSUME NEW q \in Nat \ {0}, q + (j + 1) > n
               PROVE  scan[q] \in Seq(Found(bytes, n, q))
    OBVIOUS
  <2>1. CASE q > n
    BY <1>1, <1>2, <2>1
  <2>2. ASSUME NEW r \in Nat \ {0}, r >= q + 1
        PROVE  scan[r] \in Seq(Found(bytes, n, q))
    <3>1. r + j > n
      BY <1>0, <2>2
    <3>2. scan[r] \in Seq(Found(bytes, n, r))
      BY <1>4, <3>1
    <3>3. Found(bytes, n, r) \subseteq Found(bytes, n, q)
      <4>1. r .. n \subseteq q .. n
        BY <1>0, <2>2
      <4> QED
        BY <4>1 DEF Found
    <3> QED
      BY <3>2, <3>3, SeqMonotonic
  <2>3. CASE ~(q > n) /\ RecordAt(bytes, n, q) # None
    <3> DEFINE x == FoundAt(bytes, n, q)
    <3>1. q \in 1 .. n
      BY <1>0, <2>3
    <3>2. RecordAt(bytes, n, q) = Some(x) /\ x.next \in q + 1 .. n + 1
      BY <2>3, <3>1, RecordInside
    <3>3. scan[q] = <<x>> \o scan[x.next]
      BY <1>1, <2>3
    <3> HIDE DEF x
    <3>4. x.next \in Nat \ {0} /\ x.next >= q + 1
      BY <1>0, <3>2
    <3>5. scan[x.next] \in Seq(Found(bytes, n, q))
      BY <2>2, <3>4
    <3>6. x \in Found(bytes, n, q)
      <4>1. q \in q .. n
        BY <1>0, <3>1
      <4> QED
        BY <3>2, <4>1 DEF Found, Some
    <3>7. <<x>> \in Seq(Found(bytes, n, q))
      BY <3>6
    <3> QED
      BY <3>3, <3>5, <3>7, ConcatProperties
  <2>4. CASE ~(q > n) /\ RecordAt(bytes, n, q) = None /\ greedy
    <3>1. scan[q] = scan[q + 1]
      BY <1>1, <2>4
    <3>2. q + 1 \in Nat \ {0} /\ q + 1 >= q + 1
      OBVIOUS
    <3> QED
      BY <2>2, <3>1, <3>2
  <2>5. CASE ~(q > n) /\ RecordAt(bytes, n, q) = None /\ ~greedy
    BY <1>1, <1>2, <2>5
  <2> QED
    BY <2>1, <2>3, <2>4, <2>5
<1>5. Nat \subseteq T
  <2> HIDE DEF T
  <2> QED
    BY <1>3, <1>4, NatInduct
<1>6. n + 1 \in T
  <2>1. n + 1 \in Nat
    BY <1>0
  <2> HIDE DEF T
  <2> QED
    BY <1>5, <2>1
<1>7. p + (n + 1) > n
  BY <1>0
<1> QED
  BY <1>6, <1>7 DEF scan

\* A greedy scan begins with what the other one finds.
Leads(t, s) == Len(s) <= Len(t) /\ \A i \in 1 .. Len(s) : t[i] = s[i]

LEMMA ScanLeads ==
  ASSUME NEW bytes \in Seq(Nat), NEW n \in 0 .. Len(bytes), NEW p \in Nat \ {0}
  PROVE  Leads(Scan(bytes, n, TRUE)[p], Scan(bytes, n, FALSE)[p])
<1> DEFINE s == Scan(bytes, n, FALSE)
           t == Scan(bytes, n, TRUE)
           T == {j \in Nat : \A q \in Nat \ {0} : q + j > n => Leads(t[q], s[q])}
<1>0. n \in Nat
  BY LenProperties
<1>1. \A q \in Nat \ {0} :
        s[q] = IF q > n THEN <<>>
               ELSE IF RecordAt(bytes, n, q) # None
                 THEN <<FoundAt(bytes, n, q)>> \o s[FoundAt(bytes, n, q).next]
               ELSE <<>>
  <2>1. \A q \in Nat \ {0} :
          s[q] = IF q > n THEN <<>>
                 ELSE IF RecordAt(bytes, n, q) # None
                   THEN <<FoundAt(bytes, n, q)>> \o s[FoundAt(bytes, n, q).next]
                 ELSE IF FALSE THEN s[q + 1] ELSE <<>>
    BY ScanEquation
  <2> HIDE DEF s
  <2> QED
    BY <2>1
<1>2. \A q \in Nat \ {0} :
        t[q] = IF q > n THEN <<>>
               ELSE IF RecordAt(bytes, n, q) # None
                 THEN <<FoundAt(bytes, n, q)>> \o t[FoundAt(bytes, n, q).next]
               ELSE t[q + 1]
  <2>1. \A q \in Nat \ {0} :
          t[q] = IF q > n THEN <<>>
                 ELSE IF RecordAt(bytes, n, q) # None
                   THEN <<FoundAt(bytes, n, q)>> \o t[FoundAt(bytes, n, q).next]
                 ELSE IF TRUE THEN t[q + 1] ELSE <<>>
    BY ScanEquation
  <2> HIDE DEF t
  <2> QED
    BY <2>1
<1>3. \A q \in Nat \ {0} : /\ t[q] \in Seq(Found(bytes, n, q))
                           /\ s[q] \in Seq(Found(bytes, n, q))
  BY ScanFinds
<1>4. \A q \in Nat \ {0} : Len(t[q]) \in Nat /\ Len(s[q]) \in Nat
  BY <1>3, LenProperties
<1> HIDE DEF s, t
<1>5. \A q \in Nat \ {0} : s[q] = <<>> => Leads(t[q], s[q])
  <2> SUFFICES ASSUME NEW q \in Nat \ {0}, s[q] = <<>>  PROVE Leads(t[q], s[q])
    OBVIOUS
  <2>1. Len(s[q]) = 0 /\ Len(t[q]) \in Nat
    BY <1>4
  <2> QED
    BY <2>1 DEF Leads
<1>6. 0 \in T
  <2>1. \A q \in Nat \ {0} : q + 0 > n => q > n
    BY <1>0
  <2>2. \A q \in Nat \ {0} : q > n => s[q] = <<>>
    BY <1>1
  <2> QED
    BY <1>5, <2>1, <2>2
<1>7. ASSUME NEW j \in Nat, j \in T  PROVE j + 1 \in T
  <2> SUFFICES ASSUME NEW q \in Nat \ {0}, q + (j + 1) > n  PROVE Leads(t[q], s[q])
    OBVIOUS
  <2>1. CASE q > n \/ RecordAt(bytes, n, q) = None
    BY <1>1, <1>5, <2>1
  <2>2. CASE ~(q > n) /\ RecordAt(bytes, n, q) # None
    <3> DEFINE x == FoundAt(bytes, n, q)
               u == s[x.next]
               v == t[x.next]
               G == Found(bytes, n, q) \cup Found(bytes, n, x.next)
    <3>1. q \in 1 .. n
      BY <1>0, <2>2
    <3>2. RecordAt(bytes, n, q) = Some(x) /\ x.next \in q + 1 .. n + 1
      BY <2>2, <3>1, RecordInside
    <3>3. s[q] = <<x>> \o u /\ t[q] = <<x>> \o v
      BY <1>1, <1>2, <2>2
    <3>4. x.next \in Nat \ {0} /\ x.next + j > n
      <4> HIDE DEF x
      <4> QED
        BY <1>0, <3>2
    <3>5. Leads(v, u)
      <4> HIDE DEF x
      <4> QED
        BY <1>7, <3>4
    <3>6. u \in Seq(G) /\ v \in Seq(G) /\ Len(u) \in Nat /\ Len(v) \in Nat
      <4>1. /\ u \in Seq(Found(bytes, n, x.next)) /\ v \in Seq(Found(bytes, n, x.next))
        <5> HIDE DEF x
        <5> QED
          BY <1>3, <3>4
      <4>2. Found(bytes, n, x.next) \subseteq G
        OBVIOUS
      <4> HIDE DEF G, u, v
      <4> QED
        BY <4>1, <4>2, SeqMonotonic, LenProperties
    <3>7. x \in G
      <4>1. q \in q .. n
        BY <1>0, <3>1
      <4> HIDE DEF x
      <4> QED
        BY <3>2, <4>1 DEF Found, Some
    <3> HIDE DEF x, u, v, G
    <3>8. ASSUME NEW w \in Seq(G)
          PROVE  /\ Len(<<x>> \o w) = 1 + Len(w)
                 /\ \A i \in 1 .. 1 + Len(w) :
                      (<<x>> \o w)[i] = IF i <= 1 THEN x ELSE w[i - 1]
      <4> DEFINE e == <<x>>
      <4>1. e \in Seq(G) /\ Len(e) = 1 /\ e[1] = x
        BY <3>7
      <4> HIDE DEF e
      <4>2. /\ Len(e \o w) = Len(e) + Len(w)
            /\ \A i \in 1 .. Len(e) + Len(w) :
                 (e \o w)[i] = IF i <= Len(e) THEN e[i] ELSE w[i - Len(e)]
        BY <4>1, ConcatProperties
      <4>3. \A i \in 1 .. 1 + Len(w) : i <= 1 => i = 1
        BY LenProperties
      <4>4. \A i \in 1 .. 1 + Len(w) : (e \o w)[i] = IF i <= 1 THEN x ELSE w[i - 1]
        BY <4>1, <4>2, <4>3
      <4> QED
        BY <4>1, <4>2, <4>4 DEF e
    <3>9. /\ Len(s[q]) = 1 + Len(u) /\ Len(t[q]) = 1 + Len(v)
          /\ \A i \in 1 .. 1 + Len(u) : s[q][i] = IF i <= 1 THEN x ELSE u[i - 1]
          /\ \A i \in 1 .. 1 + Len(v) : t[q][i] = IF i <= 1 THEN x ELSE v[i - 1]
      BY <3>3, <3>6, <3>8
    <3>10. Len(u) <= Len(v) /\ \A i \in 1 .. Len(u) : v[i] = u[i]
      BY <3>5 DEF Leads
    <3>11. ASSUME NEW i \in 1 .. 1 + Len(u)  PROVE t[q][i] = s[q][i]
      <4>1. i \in 1 .. 1 + Len(v)
        BY <3>6, <3>10
      <4>2. CASE i <= 1
        BY <3>9, <4>1, <4>2
      <4>3. CASE ~(i <= 1)
        <5>1. i - 1 \in 1 .. Len(u)
          BY <3>6, <4>3
        <5> QED
          BY <3>9, <3>10, <4>1, <4>3, <5>1
      <4> QED
        BY <4>2, <4>3
    <3>12. Len(s[q]) <= Len(t[q])
      BY <3>6, <3>9, <3>10
    <3> QED
      BY <3>9, <3>11, <3>12 DEF Leads
  <2> QED
    BY <2>1, <2>2
<1>8. Nat \subseteq T
  <2> HIDE DEF T
  <2> QED
    BY <1>6, <1>7, NatInduct
<1>9. n + 1 \in T
  <2>1. n + 1 \in Nat
    BY <1>0
  <2> HIDE DEF T
  <2> QED
    BY <1>8, <2>1
<1>10. p + (n + 1) > n
  BY <1>0
<1> QED
  BY <1>9, <1>10 DEF s, t

-----------------------------------------------------------------------------
(***************************************************************************)
(* The index.                                                              *)
(***************************************************************************)
\* The j-th of i records is the last one of key k, and no tombstone.
Counts(records, i, k, j) ==
  /\ j \in 1 .. i /\ records[j].key = k /\ records[j].valueLen # 0
  /\ \A l \in j + 1 .. i : records[l].key # k

LEMMA IndexesEquation ==
  ASSUME NEW records, Len(records) \in Nat
  PROVE  /\ Indexes(records)[0] = [k \in {} |-> 0]
         /\ \A i \in 1 .. Len(records) :
              Indexes(records)[i] = Indexed(Indexes(records)[i - 1], records[i])
<1> DEFINE D == 0 .. Len(records)
           K == {records[i].key : i \in 1 .. Len(records)}
           O == {records[i].offset : i \in 1 .. Len(records)}
           S == UNION {[X -> O] : X \in SUBSET K}
           B == {0}
           none == [k \in {} |-> 0]
           a == [i \in D |-> none]
           d == [i \in D |-> i - 1]
           h == [i \in D |-> [s \in S |-> Indexed(s, records[i])]]
           Right(f) == f = [i \in D |->
             IF i = 0 THEN none ELSE Indexed(f[i - 1], records[i])]
<1>1. none \in S
  <2>1. none \in [{} -> O] /\ {} \in SUBSET K
    OBVIOUS
  <2> HIDE DEF none, O, K
  <2> QED
    BY <2>1
<1>2. ASSUME NEW i \in 1 .. Len(records), NEW s \in S
      PROVE  Indexed(s, records[i]) \in S
  <2> DEFINE key == records[i].key
             offset == records[i].offset
  <2>1. key \in K /\ offset \in O
    OBVIOUS
  <2>2. PICK X \in SUBSET K : s \in [X -> O]
    OBVIOUS
  <2>3. CASE records[i].valueLen = 0
    <3>1. Indexed(s, records[i]) = [k \in X \ {key} |-> s[k]]
      BY <2>2, <2>3 DEF Indexed
    <3>2. [k \in X \ {key} |-> s[k]] \in [X \ {key} -> O] /\ X \ {key} \in SUBSET K
      BY <2>2
    <3> HIDE DEF O, K, key
    <3> QED
      BY <3>1, <3>2
  <2>4. CASE records[i].valueLen # 0
    <3> DEFINE r == [k \in X \cup {key} |-> IF k = key THEN offset ELSE s[k]]
    <3>1. Indexed(s, records[i]) = r
      BY <2>2, <2>4 DEF Indexed
    <3>2. r \in [X \cup {key} -> O] /\ X \cup {key} \in SUBSET K
      <4> HIDE DEF O, K, key, offset
      <4> QED
        BY <2>1, <2>2
    <3> HIDE DEF O, K, key, r
    <3> QED
      BY <3>1, <3>2
  <2> QED
    BY <2>3, <2>4
<1> HIDE DEF S, none
<1>3. Recursion(D, S, B, a, d, h)
  <2>1. D \in SUBSET Nat /\ a \in [D -> S]
    BY <1>1
  <2>2. \A i \in D \ B : d[i] \in D /\ d[i] < i
    OBVIOUS
  <2>3. ASSUME NEW i \in D \ B, NEW s \in S  PROVE h[i][s] \in S
    <3>1. i \in 1 .. Len(records) /\ i \in D
      OBVIOUS
    <3>2. h[i][s] = Indexed(s, records[i])
      OBVIOUS
    <3> QED
      BY <1>2, <3>1, <3>2
  <2> HIDE DEF D, B, a, d, h
  <2> QED
    BY <2>1, <2>2, <2>3 DEF Recursion
<1>4. PICK f \in [D -> S] : \A i \in D : f[i] = StepAt(f, i, B, a, d, h)
  <2> HIDE DEF D, B, a, d, h
  <2> QED
    BY <1>3, RecursiveFunction
<1>5. ASSUME NEW i \in D
      PROVE  f[i] = IF i = 0 THEN none ELSE Indexed(f[i - 1], records[i])
  <2>1. i # 0 => i - 1 \in D /\ f[i - 1] \in S
    <3>1. i # 0 => i - 1 \in D
      OBVIOUS
    <3> HIDE DEF D
    <3> QED
      BY <3>1
  <2>2. i # 0 => h[i][f[i - 1]] = Indexed(f[i - 1], records[i])
    BY <2>1
  <2> QED
    BY <1>4, <2>1, <2>2 DEF StepAt
<1>6. Right(f)
  BY <1>5
<1>7. Right(Indexes(records))
  BY <1>6 DEF Indexes, none
<1> DEFINE g == Indexes(records)
<1>8. \A i \in D : g[i] = IF i = 0 THEN none ELSE Indexed(g[i - 1], records[i])
  BY <1>7
<1> HIDE DEF g, Right
<1>9. 0 \in D /\ \A i \in 1 .. Len(records) : i \in D /\ i # 0
  OBVIOUS
<1>10. g[0] = none /\ \A i \in 1 .. Len(records) : g[i] = Indexed(g[i - 1], records[i])
  BY <1>8, <1>9
<1> QED
  BY <1>10 DEF g, none

LEMMA IndexIs ==
  ASSUME NEW records, Len(records) \in Nat
  PROVE  /\ Index(records) = [k \in DOMAIN Index(records) |-> Index(records)[k]]
         /\ \A k : k \in DOMAIN Index(records) <=>
              \E j \in 1 .. Len(records) : Counts(records, Len(records), k, j)
         /\ \A k : \A j \in 1 .. Len(records) :
              Counts(records, Len(records), k, j) =>
                Index(records)[k] = records[j].offset
<1> DEFINE g == Indexes(records)
           Holding(i) ==
             /\ g[i] = [k \in DOMAIN g[i] |-> g[i][k]]
             /\ \A k : k \in DOMAIN g[i] <=> \E j \in 1 .. i : Counts(records, i, k, j)
             /\ \A k : \A j \in 1 .. i : Counts(records, i, k, j) =>
                                           g[i][k] = records[j].offset
           T == {i \in Nat : i <= Len(records) => Holding(i)}
<1>1. /\ g[0] = [k \in {} |-> 0]
      /\ \A i \in 1 .. Len(records) : g[i] = Indexed(g[i - 1], records[i])
  BY IndexesEquation
<1> HIDE DEF g
<1>2. Holding(0)
  <2>1. DOMAIN g[0] = {}
    BY <1>1
  <2>2. \A j : ~(j \in 1 .. 0)
    OBVIOUS
  <2>3. g[0] = [k \in DOMAIN g[0] |-> g[0][k]]
    BY <1>1
  <2> QED
    BY <2>1, <2>2, <2>3
<1>3. ASSUME NEW i \in Nat, i \in T  PROVE i + 1 \in T
  <2> DEFINE m == i + 1
             key == records[m].key
             o == records[m].offset
  <2> SUFFICES ASSUME m <= Len(records)  PROVE Holding(m)
    OBVIOUS
  <2>1. /\ g[i] = [k \in DOMAIN g[i] |-> g[i][k]]
        /\ \A k : k \in DOMAIN g[i] <=> \E j \in 1 .. i : Counts(records, i, k, j)
        /\ \A k : \A j \in 1 .. i : Counts(records, i, k, j) =>
                                      g[i][k] = records[j].offset
    BY <1>3
  <2>2. m \in 1 .. Len(records) /\ m - 1 = i /\ m \in Nat
    OBVIOUS
  <2>3. g[m] = Indexed(g[i], records[m])
    BY <1>1, <2>2
  <2>4. ASSUME NEW k, NEW j \in 1 .. m
        PROVE  Counts(records, m, k, j) <=>
                 \/ j = m /\ k = key /\ records[m].valueLen # 0
                 \/ j \in 1 .. i /\ k # key /\ Counts(records, i, k, j)
    <3>1. CASE j = m
      <4>1. ~(j \in 1 .. i) /\ \A l : ~(l \in j + 1 .. m)
        BY <2>2, <3>1
      <4> QED
        BY <3>1, <4>1 DEF Counts
    <3>2. CASE j # m
      <4>1. j \in 1 .. i /\ m \in j + 1 .. m
            /\ \A l : l \in j + 1 .. m <=> l = m \/ l \in j + 1 .. i
        BY <2>2, <3>2
      <4> HIDE DEF m
      <4> QED
        BY <3>2, <4>1 DEF Counts
    <3> QED
      BY <3>1, <3>2
  <2>5. \A j : j \in 1 .. i => j \in 1 .. m /\ j # m
    BY <2>2
  <2>6. m \in 1 .. m
    BY <2>2
  <2> HIDE DEF m
  <2>7. CASE records[m].valueLen = 0
    <3>1. g[m] = [k \in DOMAIN g[i] \ {key} |-> g[i][k]]
      BY <2>3, <2>7 DEF Indexed
    <3>2. g[m] = [k \in DOMAIN g[m] |-> g[m][k]]
      BY <3>1
    <3>3. /\ \A k : k \in DOMAIN g[m] <=> k \in DOMAIN g[i] /\ k # key
          /\ \A k : k \in DOMAIN g[i] /\ k # key => g[m][k] = g[i][k]
      BY <3>1
    <3>4. \A k : \A j \in 1 .. m :
            Counts(records, m, k, j) <=>
              j \in 1 .. i /\ k # key /\ Counts(records, i, k, j)
      BY <2>4, <2>7
    <3> HIDE DEF key
    <3>5. \A k : k \in DOMAIN g[m] <=> \E j \in 1 .. m : Counts(records, m, k, j)
      BY <2>1, <2>5, <3>3, <3>4
    <3>6. \A k : \A j \in 1 .. m :
            Counts(records, m, k, j) => g[m][k] = records[j].offset
      BY <2>1, <3>3, <3>4
    <3> QED
      BY <3>2, <3>5, <3>6
  <2>8. CASE records[m].valueLen # 0
    <3>1. g[m] = [k \in DOMAIN g[i] \cup {key} |-> IF k = key THEN o ELSE g[i][k]]
      BY <2>3, <2>8 DEF Indexed
    <3>2. g[m] = [k \in DOMAIN g[m] |-> g[m][k]]
      BY <3>1
    <3>3. /\ \A k : k \in DOMAIN g[m] <=> k \in DOMAIN g[i] \/ k = key
          /\ g[m][key] = o
          /\ \A k : k \in DOMAIN g[i] /\ k # key => g[m][k] = g[i][k]
      BY <3>1
    <3>4. \A k : \A j \in 1 .. m :
            Counts(records, m, k, j) <=>
              \/ j = m /\ k = key
              \/ j \in 1 .. i /\ k # key /\ Counts(records, i, k, j)
      BY <2>4, <2>8
    <3>5. ASSUME NEW k
          PROVE  k \in DOMAIN g[m] <=> \E j \in 1 .. m : Counts(records, m, k, j)
      <4> HIDE DEF key
      <4>1. CASE k = key
        BY <2>6, <3>3, <3>4, <4>1
      <4>2. CASE k # key
        BY <2>1, <2>5, <3>3, <3>4, <4>2
      <4> QED
        BY <4>1, <4>2
    <3>6. ASSUME NEW k, NEW j \in 1 .. m, Counts(records, m, k, j)
          PROVE  g[m][k] = records[j].offset
      <4>1. CASE j = m /\ k = key
        BY <3>3, <4>1
      <4>2. CASE j \in 1 .. i /\ k # key /\ Counts(records, i, k, j)
        BY <2>1, <3>3, <4>2
      <4> QED
        BY <3>4, <3>6, <4>1, <4>2
    <3> QED
      BY <3>2, <3>5, <3>6
  <2> QED
    BY <2>7, <2>8
<1>4. 0 \in T
  BY <1>2
<1>5. Nat \subseteq T
  <2> HIDE DEF T
  <2> QED
    BY <1>3, <1>4, NatInduct
<1>6. Holding(Len(records))
  BY <1>5
<1> QED
  BY <1>6 DEF Index, g

\* The index looks at three parts of each record.
LEMMA IndexSame ==
  ASSUME NEW r, NEW s, Len(r) \in Nat, Len(s) = Len(r),
         \A i \in 1 .. Len(r) : /\ r[i].key = s[i].key
                                /\ r[i].valueLen = s[i].valueLen
                                /\ r[i].offset = s[i].offset
  PROVE  Index(r) = Index(s)
<1> DEFINE n == Len(r)
           a == Index(r)
           b == Index(s)
<1>1. \A k : \A j \in 1 .. n : Counts(r, n, k, j) <=> Counts(s, n, k, j)
  <2> SUFFICES ASSUME NEW k, NEW j \in 1 .. n
               PROVE  Counts(r, n, k, j) <=> Counts(s, n, k, j)
    OBVIOUS
  <2>1. \A l \in j + 1 .. n : l \in 1 .. n
    OBVIOUS
  <2>2. \A l \in j + 1 .. n : r[l].key = s[l].key
    BY <2>1
  <2> QED
    BY <2>2 DEF Counts
<1>2. /\ a = [k \in DOMAIN a |-> a[k]]
      /\ \A k : k \in DOMAIN a <=> \E j \in 1 .. n : Counts(r, n, k, j)
      /\ \A k : \A j \in 1 .. n : Counts(r, n, k, j) => a[k] = r[j].offset
  BY IndexIs
<1>3. /\ b = [k \in DOMAIN b |-> b[k]]
      /\ \A k : k \in DOMAIN b <=> \E j \in 1 .. n : Counts(s, n, k, j)
      /\ \A k : \A j \in 1 .. n : Counts(s, n, k, j) => b[k] = s[j].offset
  BY IndexIs
<1>4. \A j \in 1 .. n : r[j].offset = s[j].offset
  OBVIOUS
<1> HIDE DEF a, b, n
<1>5. DOMAIN a = DOMAIN b
  BY <1>1, <1>2, <1>3
<1>6. ASSUME NEW k \in DOMAIN a  PROVE a[k] = b[k]
  <2>1. PICK j \in 1 .. n : Counts(r, n, k, j)
    BY <1>2
  <2> QED
    BY <1>1, <1>2, <1>3, <1>4, <2>1
<1>7. a = b
  BY <1>2, <1>3, <1>5, <1>6
<1> QED
  BY <1>7 DEF a, b

-----------------------------------------------------------------------------
(***************************************************************************)
(* Whatever the bytes are.                                                 *)
(***************************************************************************)
LEMMA ByteIsNat == Byte \subseteq Nat
BY GroupFacts DEF Byte

LEMMA HolderBytes ==
  ItemSizeHolderBytes \in Seq(Nat) /\ Len(ItemSizeHolderBytes) = 4
<1>1. Group + 1 \in Nat
  BY GroupFacts
<1> QED
  BY <1>1 DEF ItemSizeHolderBytes, ItemSizeHolderSize

LEMMA LeadsIs ==
  ASSUME NEW F, NEW t \in Seq(F), NEW s \in Seq(F), Leads(t, s)
  PROVE  s = SubSeq(t, 1, Len(s))
<1> DEFINE u == SubSeq(t, 1, Len(s))
<1>1. Len(s) \in Nat /\ Len(t) \in Nat /\ Len(s) <= Len(t)
  BY LenProperties DEF Leads
<1>2. \A i \in 1 .. Len(s) : t[i] \in F
  BY <1>1, ElementOfSeq
<1>3. /\ u \in Seq(F) /\ Len(u) = IF 1 <= Len(s) THEN Len(s) - 1 + 1 ELSE 0
      /\ \A i \in 1 .. Len(s) - 1 + 1 : u[i] = t[1 + i - 1]
  <2> DEFINE l == Len(s)
  <2>1. l \in Int /\ 1 \in Int /\ \A i \in 1 .. l : t[i] \in F
    BY <1>1, <1>2
  <2> HIDE DEF l
  <2>2. /\ SubSeq(t, 1, l) \in Seq(F)
        /\ Len(SubSeq(t, 1, l)) = IF 1 <= l THEN l - 1 + 1 ELSE 0
        /\ \A i \in 1 .. l - 1 + 1 : SubSeq(t, 1, l)[i] = t[1 + i - 1]
    BY <2>1, SubSeqProperties
  <2> QED
    BY <2>2 DEF l
<1> HIDE DEF u
<1>4. Len(u) = Len(s)
  BY <1>1, <1>3
<1>5. ASSUME NEW i \in 1 .. Len(s)  PROVE u[i] = s[i]
  <2>1. i \in 1 .. Len(s) - 1 + 1 /\ 1 + i - 1 = i
    BY <1>1
  <2>2. t[i] = s[i]
    BY DEF Leads
  <2> QED
    BY <1>3, <2>1, <2>2
<1>6. u = s
  BY <1>3, <1>4, <1>5, SeqEqual
<1> QED
  BY <1>6 DEF u

LEMMA FoundInside ==
  ASSUME NEW bytes \in Seq(Nat), NEW n \in 0 .. Len(bytes), NEW p \in Nat \ {0},
         NEW r \in Found(bytes, n, p)
  PROVE  /\ r.offset \in Nat /\ r.offset >= p - 1 /\ r.valueLen \in Nat
         /\ LET value == GetValueBlob(bytes, r.offset)
            IN  value.len = r.valueLen /\ value.first + value.len <= n + 1
<1>0. n \in Nat
  BY LenProperties
<1>1. PICK q \in p .. n : r \in RecordAt(bytes, n, q)
  BY DEF Found
<1> DEFINE x == FoundAt(bytes, n, q)
           value == GetValueBlob(bytes, q - 1)
<1>2. q \in 1 .. n /\ RecordAt(bytes, n, q) # None
  BY <1>0, <1>1 DEF None
<1>3. /\ RecordAt(bytes, n, q) = Some(x) /\ x.offset = q - 1
      /\ x.next \in q + 1 .. n + 1 /\ x.valueLen \in Nat
      /\ value.len = x.valueLen /\ value.first + value.len = x.next
  BY <1>2, RecordInside
<1> HIDE DEF x
<1>4. r = x
  BY <1>1, <1>3 DEF Some
<1>5. q - 1 \in Nat /\ q - 1 >= p - 1
  BY <1>0, <1>1
<1>6. GetValueBlob(bytes, r.offset) = value
  BY <1>3, <1>4
<1> HIDE DEF value
<1>7. value.first + value.len <= n + 1
  BY <1>0, <1>2, <1>3
<1> QED
  BY <1>3, <1>4, <1>5, <1>6, <1>7

\* Whatever the bytes are, and however many of them the size counts, the index
\* leads to values inside the size that are not empty, and a greedy scan begins
\* with what the other one finds (data_parser.cpp:39-63, value_blob.h:14-30).
THEOREM ScansEndInside == ScanInside
<1> SUFFICES ASSUME NEW len \in 0 .. MaxTail, NEW tail \in [1 .. len -> Byte],
                    NEW n \in 0 .. Len(ItemSizeHolderBytes \o tail)
             PROVE  LET bytes == ItemSizeHolderBytes \o tail
                        found == Scanned(bytes, n, FALSE)
                    IN  /\ found = SubSeq(Scanned(bytes, n, TRUE), 1, Len(found))
                        /\ \A greedy \in BOOLEAN :
                             LET index == DecodeMap(bytes, n, greedy)
                             IN  \A k \in DOMAIN index :
                                   LET value == GetValueBlob(bytes, index[k])
                                   IN  /\ index[k] >= ItemSizeHolderSize
                                       /\ value.len > 0
                                       /\ value.first + value.len <= n + 1
  BY DEF ScanInside
<1> DEFINE bytes == ItemSizeHolderBytes \o tail
           scanned(greedy) == Scanned(bytes, n, greedy)
           F == Found(bytes, n, 5)
<1>1. bytes \in Seq(Nat) /\ n \in 0 .. Len(bytes) /\ n \in Nat
  <2>1. tail \in Seq(Nat)
    <3>1. len \in Nat
      BY LogAssumption
    <3>2. tail \in [1 .. len -> Nat]
      BY ByteIsNat
    <3> HIDE DEF bytes, scanned, F
    <3> QED
      BY <3>1, <3>2, SeqDef
  <2>2. bytes \in Seq(Nat)
    BY <2>1, HolderBytes, ConcatProperties
  <2>3. Len(bytes) \in Nat
    BY <2>2, LenProperties
  <2> QED
    BY <2>2, <2>3
<1> HIDE DEF bytes
<1>2. ASSUME NEW greedy
      PROVE  /\ scanned(greedy) \in Seq(F) /\ Len(scanned(greedy)) \in Nat
             /\ n < 4 => scanned(greedy) = <<>>
             /\ ~(n < 4) => scanned(greedy) = Scan(bytes, n, greedy)[5]
  <2>1. 5 \in Nat \ {0} /\ ItemSizeHolderSize + 1 = 5 /\ ItemSizeHolderSize = 4
    BY DEF ItemSizeHolderSize
  <2>2. /\ n < 4 => scanned(greedy) = <<>>
        /\ ~(n < 4) => scanned(greedy) = Scan(bytes, n, greedy)[5]
    BY <2>1 DEF Scanned
  <2>3. Scan(bytes, n, greedy)[5] \in Seq(F)
    BY <1>1, <2>1, ScanFinds
  <2>4. scanned(greedy) \in Seq(F)
    <3> HIDE DEF F
    <3>1. <<>> \in Seq(F)
      BY EmptySeq
    <3> HIDE DEF scanned
    <3> QED
      BY <2>2, <2>3, <3>1
  <2> HIDE DEF scanned, F
  <2> QED
    BY <2>2, <2>4, LenProperties
<1>3. scanned(FALSE) = SubSeq(scanned(TRUE), 1, Len(scanned(FALSE)))
  <2>1. Leads(scanned(TRUE), scanned(FALSE))
    <3>1. CASE n < 4
      <4>1. scanned(TRUE) = <<>> /\ scanned(FALSE) = <<>>
        BY <1>2, <3>1
      <4> HIDE DEF scanned
      <4>2. Leads(<<>>, <<>>)
        <5>1. Len(<<>>) = 0
          BY EmptySeq
        <5> QED
          BY <5>1 DEF Leads
      <4> QED
        BY <4>1, <4>2
    <3>2. CASE ~(n < 4)
      <4>1. /\ scanned(TRUE) = Scan(bytes, n, TRUE)[5]
            /\ scanned(FALSE) = Scan(bytes, n, FALSE)[5]
        BY <1>2, <3>2
      <4>2. Leads(Scan(bytes, n, TRUE)[5], Scan(bytes, n, FALSE)[5])
        <5>1. 5 \in Nat \ {0}
          OBVIOUS
        <5> QED
          BY <1>1, <5>1, ScanLeads
      <4> HIDE DEF scanned
      <4> QED
        BY <4>1, <4>2
    <3> QED
      BY <3>1, <3>2
  <2>2. scanned(TRUE) \in Seq(F) /\ scanned(FALSE) \in Seq(F)
    BY <1>2
  <2> HIDE DEF scanned, F
  <2> QED
    BY <2>1, <2>2, LeadsIs
<1>4. ASSUME NEW greedy \in BOOLEAN, NEW k \in DOMAIN Index(scanned(greedy))
      PROVE  LET at    == Index(scanned(greedy))[k]
                 value == GetValueBlob(bytes, at)
             IN  at >= 4 /\ value.len > 0 /\ value.first + value.len <= n + 1
  <2> DEFINE rs == scanned(greedy)
             at == Index(rs)[k]
             value == GetValueBlob(bytes, at)
  <2>1. rs \in Seq(F) /\ Len(rs) \in Nat
    BY <1>2
  <2>2. k \in DOMAIN Index(rs)
    OBVIOUS
  <2> HIDE DEF rs, F
  <2>3. PICK j \in 1 .. Len(rs) : Counts(rs, Len(rs), k, j)
    BY <2>1, <2>2, IndexIs
  <2>4. at = rs[j].offset /\ rs[j].valueLen # 0
    <3>1. at = rs[j].offset
      BY <2>1, <2>3, IndexIs
    <3> HIDE DEF at
    <3>2. rs[j].valueLen # 0
      BY <2>3 DEF Counts
    <3> QED
      BY <3>1, <3>2
  <2>5. rs[j] \in F
    BY <2>1, ElementOfSeq
  <2> DEFINE r == rs[j]
  <2>6. /\ r.offset \in Nat /\ r.offset >= 4 /\ r.valueLen \in Nat
        /\ GetValueBlob(bytes, r.offset).len = r.valueLen
        /\ GetValueBlob(bytes, r.offset).first + GetValueBlob(bytes, r.offset).len
             <= n + 1
    <3>1. r \in Found(bytes, n, 5) /\ 5 \in Nat \ {0} /\ 5 - 1 = 4
      BY <2>5 DEF F
    <3> HIDE DEF r
    <3> QED
      BY <1>1, <3>1, FoundInside
  <2>7. at >= 4 /\ value.len = r.valueLen /\ value.first + value.len <= n + 1
    BY <2>4, <2>6
  <2>8. value.len > 0
    <3> HIDE DEF value
    <3> QED
      BY <2>4, <2>6, <2>7
  <2> QED
    BY <2>7, <2>8 DEF rs
<1> HIDE DEF scanned
<1>5. ItemSizeHolderSize = 4
  BY DEF ItemSizeHolderSize
<1> QED
  BY <1>3, <1>4, <1>5 DEF DecodeMap, scanned, bytes

-----------------------------------------------------------------------------
(***************************************************************************)
(* A log that is cut.                                                      *)
(***************************************************************************)
LEMMA LogIs ==
  ASSUME NEW log \in Logs
  PROVE  /\ Len(log) \in Nat /\ DOMAIN log = 1 .. Len(log)
         /\ \A i \in 1 .. Len(log) :
              /\ log[i] \in [key : LogKeys, blob : LogBlobs]
              /\ Fits(log[i].key) /\ Fits(log[i].blob)
<1>1. PICK n \in 0 .. MaxRecords : log \in [1 .. n -> [key : LogKeys, blob : LogBlobs]]
  BY DEF Logs
<1>2. n \in Nat
  BY LogAssumption
<1>3. log \in Seq([key : LogKeys, blob : LogBlobs])
  <2> DEFINE R == [key : LogKeys, blob : LogBlobs]
  <2>1. log \in [1 .. n -> R]
    BY <1>1
  <2> HIDE DEF R
  <2>2. log \in Seq(R)
    BY <1>2, <2>1, IsASeq
  <2> QED
    BY <2>2 DEF R
<1>4. Len(log) \in Nat /\ DOMAIN log = 1 .. Len(log)
  BY <1>3, LenProperties
<1>5. ASSUME NEW i \in 1 .. Len(log)
      PROVE  /\ log[i] \in [key : LogKeys, blob : LogBlobs]
             /\ Fits(log[i].key) /\ Fits(log[i].blob)
  <2>1. log[i] \in [key : LogKeys, blob : LogBlobs]
    BY <1>3, ElementOfSeq
  <2>2. \A b \in LogKeys \cup LogBlobs : b \in Seq(Byte) /\ Len(b) < 2 ^ Bits32
    BY LogAssumption
  <2>3. Seq(Byte) \subseteq Seq(Nat)
    BY ByteIsNat, SeqMonotonic
  <2>4. log[i].key \in LogKeys /\ log[i].blob \in LogBlobs
    BY <2>1
  <2> QED
    BY <2>1, <2>2, <2>3, <2>4 DEF Fits
<1> QED
  BY <1>4, <1>5

LEMMA RecordIsBytes ==
  ASSUME NEW key, NEW blob, Fits(key), Fits(blob)
  PROVE  /\ EncodeRecord(key, blob) \in Seq(Nat)
         /\ Len(EncodeRecord(key, blob)) \in Nat \ {0}
<1> DEFINE a == Varint[Len(key)]
           c == Varint[Len(blob)]
           ab == a \o key
           abc == ab \o c
<1>1. key \in Seq(Nat) /\ blob \in Seq(Nat) /\ Len(key) \in Nat /\ Len(blob) \in Nat
  BY LenProperties DEF Fits
<1>2. /\ a \in Seq(Nat) /\ Len(a) \in Nat \ {0}
      /\ c \in Seq(Nat) /\ Len(c) \in Nat
  <2>1. \A x \in Nat : Varint[x] \in Seq(Nat) /\ Len(Varint[x]) \in Nat \ {0}
    BY VarintWrites DEF Writes
  <2> QED
    BY <1>1, <2>1
<1>3. EncodeRecord(key, blob) = abc \o blob
  BY DEF EncodeRecord, WriteUInt
<1> HIDE DEF a, c
<1>4. ab \in Seq(Nat) /\ Len(ab) = Len(a) + Len(key)
  BY <1>1, <1>2, ConcatProperties
<1> HIDE DEF ab
<1>5. abc \in Seq(Nat) /\ Len(abc) = Len(ab) + Len(c)
  BY <1>2, <1>4, ConcatProperties
<1> HIDE DEF abc
<1>6. abc \o blob \in Seq(Nat) /\ Len(abc \o blob) = Len(abc) + Len(blob)
  BY <1>1, <1>5, ConcatProperties
<1>7. Len(abc \o blob) = Len(a) + Len(key) + Len(c) + Len(blob)
  BY <1>4, <1>5, <1>6
<1>8. Len(abc \o blob) \in Nat \ {0}
  <2> HIDE DEF Fits
  <2>1. Len(a) \in Nat \ {0} /\ Len(key) \in Nat /\ Len(c) \in Nat /\ Len(blob) \in Nat
    BY <1>1, <1>2
  <2> QED
    BY <1>7, <2>1
<1> QED
  BY <1>3, <1>6, <1>8

Encoded(log, i) == EncodeRecord(log[i].key, log[i].blob)

\* The sizes of a log are where its records are.
LEMMA BytesHold ==
  ASSUME NEW log \in Logs
  PROVE  /\ ActualSize(log, 0) = 4
         /\ \A i \in 0 .. Len(log) : ActualSize(log, i) \in Nat
         /\ Bytes(log)[Len(log)] \in Seq(Nat)
         /\ Len(Bytes(log)[Len(log)]) = ActualSize(log, Len(log))
         /\ \A i \in 1 .. Len(log) :
              /\ Len(Encoded(log, i)) \in Nat \ {0}
              /\ ActualSize(log, i) = ActualSize(log, i - 1) + Len(Encoded(log, i))
              /\ Holds(Bytes(log)[Len(log)], ActualSize(log, i - 1) + 1,
                       Encoded(log, i))
<1> DEFINE E     == Seq(Nat)
           parts == [i \in 1 .. Len(log) |-> EncodeRecord(log[i].key, log[i].blob)]
<1>1. Len(log) \in Nat
  BY LogIs
<1>2. ASSUME NEW i \in 1 .. Len(log)
      PROVE  Encoded(log, i) \in E /\ Len(Encoded(log, i)) \in Nat \ {0}
  BY LogIs, RecordIsBytes DEF Encoded
<1>3. \A i \in 1 .. Len(log) : parts[i] = Encoded(log, i)
  BY DEF Encoded
<1>4. parts \in Seq(E) /\ Len(parts) = Len(log)
  <2> DEFINE l == Len(log)
  <2>1. parts = [i \in 1 .. l |-> Encoded(log, i)]
    BY DEF Encoded
  <2>2. l \in Nat /\ \A i \in 1 .. l : Encoded(log, i) \in E
    BY <1>1, <1>2
  <2> HIDE DEF E, l, parts
  <2> QED
    BY <2>1, <2>2 DEF l
<1>5. Bytes(log) = Appended(ItemSizeHolderBytes, parts)
  BY DEF Bytes
<1> DEFINE app == Appended(ItemSizeHolderBytes, parts)
<1>6. /\ ItemSizeHolderBytes \in Seq(Nat) /\ Len(ItemSizeHolderBytes) = 4
      /\ parts \in Seq(Seq(Nat))
  BY <1>4, HolderBytes
<1> HIDE DEF parts
<1>7. /\ app[0] = ItemSizeHolderBytes
      /\ \A i \in 0 .. Len(parts) : app[i] \in Seq(Nat)
  BY <1>6, AppendedEquation
<1>8. \A i \in 1 .. Len(parts) :
        /\ Len(app[i]) = Len(app[i - 1]) + Len(parts[i])
        /\ Holds(app[Len(parts)], Len(app[i - 1]) + 1, parts[i])
  BY <1>6, AppendedHolds
<1> HIDE DEF app
<1>9. \A i : ActualSize(log, i) = Len(app[i])
  BY <1>5 DEF ActualSize, app
<1>10. Bytes(log)[Len(log)] = app[Len(log)]
  BY <1>5 DEF app
<1>11. \A i \in 0 .. Len(log) : app[i] \in Seq(Nat) /\ Len(app[i]) \in Nat
  BY <1>4, <1>7, LenProperties
<1>12. app[Len(log)] \in Seq(Nat)
  BY <1>1, <1>11
<1>13. ASSUME NEW i \in 1 .. Len(log)
       PROVE  /\ Len(Encoded(log, i)) \in Nat \ {0}
              /\ ActualSize(log, i) = ActualSize(log, i - 1) + Len(Encoded(log, i))
              /\ Holds(Bytes(log)[Len(log)], ActualSize(log, i - 1) + 1,
                       Encoded(log, i))
  <2>1. i \in 1 .. Len(parts)
    BY <1>4
  <2>2. /\ Len(app[i]) = Len(app[i - 1]) + Len(parts[i])
        /\ Holds(app[Len(parts)], Len(app[i - 1]) + 1, parts[i])
    BY <1>8, <2>1
  <2> QED
    BY <1>2, <1>3, <1>4, <1>9, <1>10, <2>2
<1> QED
  BY <1>6, <1>7, <1>9, <1>10, <1>11, <1>12, <1>13

LEMMA SizesGrow ==
  ASSUME NEW log \in Logs
  PROVE  \A j \in 0 .. Len(log) : \A i \in 0 .. j :
           ActualSize(log, i) <= ActualSize(log, j)
<1> DEFINE T == {j \in Nat : j <= Len(log) =>
                   \A i \in 0 .. j : ActualSize(log, i) <= ActualSize(log, j)}
<1>1. /\ Len(log) \in Nat
      /\ \A i \in 0 .. Len(log) : ActualSize(log, i) \in Nat
      /\ \A i \in 1 .. Len(log) : /\ Len(Encoded(log, i)) \in Nat
                                  /\ ActualSize(log, i)
                                       = ActualSize(log, i - 1) + Len(Encoded(log, i))
  BY LogIs, BytesHold
<1>2. 0 \in T
  BY <1>1
<1>3. ASSUME NEW j \in T  PROVE j + 1 \in T
  <2> SUFFICES ASSUME j + 1 <= Len(log), NEW i \in 0 .. j + 1
               PROVE  ActualSize(log, i) <= ActualSize(log, j + 1)
    OBVIOUS
  <2>1. j \in Nat /\ j <= Len(log)
    BY <1>1
  <2>2. ActualSize(log, j) <= ActualSize(log, j + 1)
    <3>1. j + 1 \in 1 .. Len(log) /\ (j + 1) - 1 = j /\ j \in 0 .. Len(log)
      BY <1>1, <2>1
    <3>2. ActualSize(log, j + 1) = ActualSize(log, j) + Len(Encoded(log, j + 1))
      BY <1>1, <3>1
    <3> DEFINE a == ActualSize(log, j)
               b == ActualSize(log, j + 1)
               l == Len(Encoded(log, j + 1))
    <3>3. a \in Nat /\ l \in Nat /\ b = a + l
      BY <1>1, <3>1, <3>2
    <3> HIDE DEF a, b, l
    <3>4. a <= b
      BY <3>3
    <3> QED
      BY <3>4 DEF a, b
  <2>3. CASE i = j + 1
    <3>1. ActualSize(log, i) \in Nat
      BY <1>1, <2>1
    <3> QED
      BY <2>3, <3>1
  <2>4. CASE i \in 0 .. j
    <3> DEFINE a == ActualSize(log, i)
               b == ActualSize(log, j)
               c == ActualSize(log, j + 1)
    <3>1. a \in Nat /\ b \in Nat /\ c \in Nat /\ a <= b /\ b <= c
      BY <1>1, <2>1, <2>2, <2>4
    <3> HIDE DEF a, b, c
    <3>2. a <= c
      BY <3>1
    <3> QED
      BY <3>2 DEF a, c
  <2> QED
    BY <2>1, <2>3, <2>4
<1> HIDE DEF T
<1>4. \A j \in Nat : j \in T
  BY <1>2, <1>3, NatInduct
<1> QED
  BY <1>1, <1>4 DEF T

\* What decodeMap takes of the i-th record of a log.
RecordOf(log, i) ==
  [offset   |-> ActualSize(log, i - 1),
   key      |-> log[i].key,
   valueLen |-> Len(log[i].blob),
   next     |-> ActualSize(log, i) + 1]

\* A cut inside a record leaves nothing of it to be found.
LEMMA CutRecord ==
  ASSUME NEW log \in Logs, NEW whole \in 0 .. Len(log), NEW n \in Cuts(log, whole)
  PROVE  /\ n \in Nat /\ n <= ActualSize(log, Len(log))
         /\ ActualSize(log, whole) <= n
         /\ \A i \in 1 .. Len(log) :
              LET p == ActualSize(log, i - 1) + 1
              IN  /\ p \in Nat \ {0}
                  /\ i <= whole => /\ p <= n
                                   /\ RecordAt(Bytes(log)[Len(log)], n, p)
                                        = Some(RecordOf(log, i))
                  /\ i = whole + 1 /\ p <= n =>
                       RecordAt(Bytes(log)[Len(log)], n, p) = None
<1> DEFINE bytes == Bytes(log)[Len(log)]
           l == Len(log)
<1>1. l \in Nat /\ whole \in 0 .. l /\ \A i \in 0 .. l : ActualSize(log, i) \in Nat
  BY LogIs, BytesHold
<1>2. bytes \in Seq(Nat) /\ Len(bytes) = ActualSize(log, l)
  BY BytesHold
<1>3. \A j \in 0 .. l : \A i \in 0 .. j : ActualSize(log, i) <= ActualSize(log, j)
  BY SizesGrow
<1>4. /\ n \in ActualSize(log, whole) ..
                 IF whole = l THEN ActualSize(log, whole)
                 ELSE ActualSize(log, whole + 1) - 1
  BY DEF Cuts
<1>5. ASSUME NEW i \in 1 .. l
      PROVE  /\ Len(Encoded(log, i)) \in Nat \ {0}
             /\ ActualSize(log, i) = ActualSize(log, i - 1) + Len(Encoded(log, i))
             /\ Holds(bytes, ActualSize(log, i - 1) + 1, Encoded(log, i))
             /\ Fits(log[i].key) /\ Fits(log[i].blob)
  BY BytesHold, LogIs
<1> HIDE DEF bytes
<1>6. /\ n \in Nat /\ n <= ActualSize(log, l) /\ ActualSize(log, whole) <= n
      /\ whole # l => n < ActualSize(log, whole + 1)
  <2> DEFINE a == ActualSize(log, whole)
             b == ActualSize(log, whole + 1)
             c == ActualSize(log, l)
  <2>1. a \in Nat /\ c \in Nat /\ a <= c
    BY <1>1, <1>3
  <2>2. CASE whole = l
    <3>1. n \in a .. a /\ a = c
      BY <1>4, <2>2
    <3> HIDE DEF a, b, c
    <3>2. n \in Nat /\ n <= c /\ a <= n
      BY <2>1, <3>1
    <3> QED
      BY <2>2, <3>2 DEF a, c
  <2>3. CASE whole # l
    <3>1. n \in a .. b - 1
      BY <1>4, <2>3
    <3>2. whole + 1 \in 0 .. l
      BY <1>1, <2>3
    <3>3. b \in Nat /\ b <= c
      BY <1>1, <1>3, <3>2
    <3> HIDE DEF a, b, c
    <3>4. n \in Nat /\ n <= c /\ a <= n /\ n < b
      BY <2>1, <3>1, <3>3
    <3> QED
      BY <2>3, <3>4 DEF a, b, c
  <2> QED
    BY <2>2, <2>3
<1>7. ASSUME NEW i \in 1 .. l
      PROVE  LET p == ActualSize(log, i - 1) + 1
             IN  /\ p \in Nat \ {0}
                 /\ i <= whole => /\ p <= n
                                  /\ RecordAt(bytes, n, p) = Some(RecordOf(log, i))
                 /\ i = whole + 1 /\ p <= n => RecordAt(bytes, n, p) = None
  <2> DEFINE key  == log[i].key
             blob == log[i].blob
             a    == ActualSize(log, i - 1)
             b    == ActualSize(log, i)
             w    == Len(Encoded(log, i))
             p    == a + 1
             rec  == [offset |-> p - 1, key |-> key, valueLen |-> Len(blob),
                      next |-> p + w]
  <2>1. i - 1 \in 0 .. l /\ i \in 0 .. l
    BY <1>1
  <2>2. a \in Nat /\ b \in Nat
    BY <1>1, <2>1
  <2>3. w \in Nat \ {0} /\ b = a + w /\ Holds(bytes, p, EncodeRecord(key, blob))
        /\ Fits(key) /\ Fits(blob)
    BY <1>5 DEF Encoded
  <2>4. w = Len(EncodeRecord(key, blob))
    BY DEF Encoded
  <2>5. RecordOf(log, i) = [offset |-> a, key |-> key, valueLen |-> Len(blob),
                        next |-> b + 1]
    BY DEF RecordOf
  <2>6. b <= ActualSize(log, whole) \/ ~(i <= whole)
    BY <1>1, <1>3, <2>1
  <2> HIDE DEF key, blob, a, w, b
  <2>7. p \in Nat \ {0} /\ p - 1 = a /\ p + w = b + 1
    BY <2>2, <2>3
  <2>8. ASSUME p - 1 <= n
        PROVE  RecordAt(bytes, n, p) = IF p + w <= n + 1 THEN Some(rec) ELSE None
    <3>1. n \in p - 1 .. Len(bytes)
      BY <1>2, <1>6, <2>2, <2>7, <2>8
    <3> HIDE DEF p
    <3> QED
      BY <2>3, <2>4, <3>1, RecordRead
  <2>9. rec = RecordOf(log, i)
    BY <2>5, <2>7
  <2> HIDE DEF rec
  <2>10. ASSUME i <= whole
         PROVE  p <= n /\ RecordAt(bytes, n, p) = Some(RecordOf(log, i))
    <3> DEFINE c == ActualSize(log, whole)
    <3>1. c \in Nat /\ b <= c /\ c <= n
      BY <1>1, <1>6, <2>6, <2>10
    <3> HIDE DEF c
    <3>2. b <= n
      BY <1>6, <2>2, <3>1
    <3>3. p <= n /\ p - 1 <= n /\ p + w <= n + 1
      BY <1>6, <2>2, <2>3, <2>7, <3>2
    <3> HIDE DEF p
    <3> QED
      BY <2>8, <2>9, <3>3
  <2>11. ASSUME i = whole + 1, p <= n  PROVE RecordAt(bytes, n, p) = None
    <3>1. whole # l
      BY <1>1, <2>11
    <3>2. n < b
      BY <1>6, <2>11, <3>1 DEF b
    <3>3. p - 1 <= n /\ ~(p + w <= n + 1)
      BY <1>6, <2>2, <2>3, <2>7, <2>11, <3>2
    <3> HIDE DEF p
    <3> QED
      BY <2>8, <3>3
  <2>12. p = ActualSize(log, i - 1) + 1
    BY DEF p, a
  <2> HIDE DEF p
  <2> QED
    BY <2>7, <2>10, <2>11, <2>12
<1> QED
  BY <1>6, <1>7 DEF bytes

\* The scan of a cut log finds the records that are whole.
LEMMA ScanOfLog ==
  ASSUME NEW log \in Logs, NEW whole \in 0 .. Len(log), NEW n \in Cuts(log, whole),
         NEW greedy \in BOOLEAN, greedy => n = Len(Bytes(log)[Len(log)])
  PROVE  LET found == Scanned(Bytes(log)[Len(log)], n, greedy)
         IN  Len(found) = whole /\ \A j \in 1 .. whole : found[j] = RecordOf(log, j)
<1> DEFINE bytes   == Bytes(log)[Len(log)]
           l       == Len(log)
           Place(i) == ActualSize(log, i) + 1
           s(i)    == Scan(bytes, n, greedy)[Place(i)]
           Good(i) == /\ Len(s(i)) = whole - i
                      /\ \A j \in 1 .. whole - i : s(i)[j] = RecordOf(log, i + j)
           T       == {d \in Nat : d <= whole => Good(whole - d)}
<1>1. /\ l \in Nat /\ whole \in Nat /\ whole <= l
      /\ \A i \in 0 .. l : ActualSize(log, i) \in Nat
  BY LogIs, BytesHold
<1>2. /\ bytes \in Seq(Nat) /\ Len(bytes) = ActualSize(log, l)
      /\ ActualSize(log, 0) = 4
  BY BytesHold
<1>3. /\ n \in Nat /\ n <= ActualSize(log, l) /\ ActualSize(log, whole) <= n
      /\ n \in 0 .. Len(bytes)
  <2>1. n \in Nat /\ n <= ActualSize(log, l) /\ ActualSize(log, whole) <= n
    BY CutRecord
  <2> HIDE DEF bytes
  <2> QED
    BY <1>1, <1>2, <2>1
<1>4. \A i \in 1 .. l :
        LET p == ActualSize(log, i - 1) + 1
        IN  /\ p \in Nat \ {0}
            /\ i <= whole => p <= n /\ RecordAt(bytes, n, p) = Some(RecordOf(log, i))
            /\ i = whole + 1 /\ p <= n => RecordAt(bytes, n, p) = None
  BY CutRecord
<1>5. greedy => n = ActualSize(log, l)
  BY <1>2
<1> HIDE DEF bytes
<1>6. \A p \in Nat \ {0} :
        Scan(bytes, n, greedy)[p] =
          IF p > n THEN <<>>
          ELSE IF RecordAt(bytes, n, p) # None
            THEN <<FoundAt(bytes, n, p)>>
                   \o Scan(bytes, n, greedy)[FoundAt(bytes, n, p).next]
          ELSE IF greedy THEN Scan(bytes, n, greedy)[p + 1] ELSE <<>>
  BY <1>2, <1>3, ScanEquation
<1>7. \A i \in 0 .. l : Place(i) \in Nat \ {0}
  BY <1>1
<1>8. 0 \in T
  <2>1. s(whole) = <<>>
    <3> DEFINE p == Place(whole)
    <3>1. p \in Nat \ {0}
      BY <1>1, <1>7
    <3>2. CASE p > n
      BY <1>6, <3>1, <3>2
    <3>3. CASE ~(p > n)
      <4>1. whole # l
        <5>1. whole = l => p = ActualSize(log, l) + 1
          OBVIOUS
        <5> HIDE DEF p
        <5> QED
          BY <1>1, <1>3, <3>3, <5>1
      <4>2. whole + 1 \in 1 .. l /\ (whole + 1) - 1 = whole
        BY <1>1, <4>1
      <4>3. p <= n
        BY <1>3, <3>1, <3>3
      <4>4. RecordAt(bytes, n, p) = None
        BY <1>4, <4>2, <4>3
      <4>5. ~greedy
        <5>1. ActualSize(log, whole + 1) <= ActualSize(log, l)
          BY <1>1, <4>2, SizesGrow
        <5>2. n < ActualSize(log, whole + 1)
          <6> DEFINE b == ActualSize(log, whole + 1)
          <6>1. n \in ActualSize(log, whole) .. b - 1
            BY <4>1 DEF Cuts
          <6>2. b \in Nat /\ ActualSize(log, whole) \in Nat
            BY <1>1, <4>2
          <6> HIDE DEF b
          <6>3. n < b
            BY <6>1, <6>2
          <6> QED
            BY <6>3 DEF b
        <5> DEFINE b == ActualSize(log, whole + 1)
                   c == ActualSize(log, l)
        <5>3. b \in Nat /\ c \in Nat /\ b <= c /\ n < b
          BY <1>1, <4>2, <5>1, <5>2
        <5> HIDE DEF b, c
        <5>4. n # c
          BY <1>3, <5>3
        <5> QED
          BY <1>5, <5>4 DEF c
      <4> QED
        BY <1>6, <3>1, <3>3, <4>4, <4>5
    <3> QED
      BY <3>2, <3>3
  <2> HIDE DEF s
  <2>2. whole - 0 = whole /\ whole - whole = 0 /\ Len(<<>>) = 0 /\ 1 .. 0 = {}
    BY <1>1, EmptySeq
  <2>3. Good(whole)
    BY <2>1, <2>2
  <2> HIDE DEF Good
  <2> QED
    BY <2>2, <2>3
<1>9. ASSUME NEW d \in Nat, d \in T  PROVE d + 1 \in T
  <2> HIDE DEF Good
  <2> SUFFICES ASSUME d + 1 <= whole  PROVE Good(whole - (d + 1))
    <3>1. d + 1 \in Nat
      OBVIOUS
    <3> QED
      BY <3>1
  <2>0. Good(whole - d)
    BY <1>1, <1>9
  <2> DEFINE i == whole - (d + 1)
             p == Place(i)
             r == RecordOf(log, i + 1)
             t == s(i + 1)
  <2>1. /\ i \in Nat /\ i + 1 = whole - d /\ i + 1 \in 1 .. l /\ i \in 0 .. l
        /\ i + 1 <= whole /\ (i + 1) - 1 = i /\ i < whole
    BY <1>1
  <2>2. Good(i + 1)
    BY <2>0, <2>1
  <2> USE DEF Good
  <2> HIDE DEF i, T
  <2>3. p <= n /\ p \in Nat \ {0} /\ RecordAt(bytes, n, p) = Some(r)
    BY <1>4, <2>1
  <2>4. FoundAt(bytes, n, p) = r /\ RecordAt(bytes, n, p) # None
    BY <2>3 DEF FoundAt, Some, None
  <2>5. r.next = Place(i + 1)
    BY DEF RecordOf
  <2>6. s(i) = <<r>> \o t
    <3>1. ~(p > n)
      BY <1>3, <2>3
    <3>2. Scan(bytes, n, greedy)[p] = <<r>> \o Scan(bytes, n, greedy)[r.next]
      <4> HIDE DEF p, r
      <4> QED
        BY <1>6, <2>3, <2>4, <3>1
    <3> QED
      BY <2>5, <3>2
  <2>7. t \in Seq(Found(bytes, n, Place(i + 1)))
    BY <1>2, <1>3, <1>7, <2>1, ScanFinds
  <2>8. /\ Len(t) = whole - (i + 1)
        /\ \A j \in 1 .. whole - (i + 1) : t[j] = RecordOf(log, i + 1 + j)
    BY <2>2
  <2> DEFINE F == Found(bytes, n, Place(i + 1)) \cup {r}
             u == <<r>> \o t
  <2>9. /\ Len(u) = 1 + Len(t) /\ u[1] = r
        /\ \A j \in 1 .. Len(t) : u[1 + j] = t[j]
    <3>1. t \in Seq(F)
      BY <2>7, SeqMonotonic
    <3>2. <<r>> \in Seq(F) /\ Len(<<r>>) = 1 /\ <<r>>[1] = r
      <4>1. r \in F
        OBVIOUS
      <4> HIDE DEF F, r
      <4> QED
        BY <4>1
    <3> HIDE DEF F, r, t
    <3>3. /\ Len(u) = Len(<<r>>) + Len(t)
          /\ \A j \in 1 .. Len(<<r>>) + Len(t) :
               u[j] = IF j <= Len(<<r>>) THEN <<r>>[j] ELSE t[j - Len(<<r>>)]
      BY <3>1, <3>2, ConcatProperties
    <3> DEFINE m == Len(t)
    <3>4. m \in Nat
      BY <3>1, LenProperties
    <3> HIDE DEF u, m
    <3>5. Len(u) = 1 + m /\ \A j \in 1 .. 1 + m : u[j] = IF j <= 1 THEN r ELSE t[j - 1]
      BY <3>2, <3>3 DEF m
    <3>6. u[1] = r
      BY <3>4, <3>5
    <3>7. ASSUME NEW j \in 1 .. m  PROVE u[1 + j] = t[j]
      <4>1. 1 + j \in 1 .. 1 + m /\ ~(1 + j <= 1) /\ (1 + j) - 1 = j
        BY <3>4
      <4> QED
        BY <3>5, <4>1
    <3> QED
      BY <3>5, <3>6, <3>7 DEF m
  <2> HIDE DEF u, t
  <2>10. Len(u) = whole - i
    BY <1>1, <2>1, <2>8, <2>9
  <2>11. ASSUME NEW j \in 1 .. whole - i  PROVE u[j] = RecordOf(log, i + j)
    <3>1. CASE j = 1
      BY <2>9, <3>1
    <3>2. CASE j # 1
      <4>1. /\ j - 1 \in 1 .. whole - (i + 1) /\ 1 + (j - 1) = j
            /\ i + 1 + (j - 1) = i + j
        BY <1>1, <2>1, <3>2
      <4>2. u[1 + (j - 1)] = t[j - 1] /\ t[j - 1] = RecordOf(log, i + 1 + (j - 1))
        BY <2>8, <2>9, <4>1
      <4> QED
        BY <4>1, <4>2
    <3> QED
      BY <3>1, <3>2
  <2>12. s(i) = u
    BY <2>6 DEF u
  <2> HIDE DEF s
  <2>13. Good(i)
    BY <2>10, <2>11, <2>12
  <2> HIDE DEF Good
  <2> QED
    BY <2>13 DEF i
<1> HIDE DEF T
<1>10. whole \in T
  BY <1>1, <1>8, <1>9, NatInduct
<1>11. Good(0)
  <2>1. whole <= whole /\ whole - whole = 0
    BY <1>1
  <2>2. Good(whole - whole)
    BY <1>1, <1>10, <2>1 DEF T
  <2> HIDE DEF Good
  <2> QED
    BY <2>1, <2>2
<1>12. Scanned(bytes, n, greedy) = s(0)
  <2>1. ActualSize(log, 0) <= ActualSize(log, whole)
    BY <1>1, SizesGrow
  <2>2. ItemSizeHolderSize = 4
    BY DEF ItemSizeHolderSize
  <2> DEFINE c == ActualSize(log, whole)
  <2>3. c \in Nat /\ 4 <= c /\ c <= n
    BY <1>1, <1>2, <1>3, <2>1
  <2> HIDE DEF c
  <2>4. ~(n < ItemSizeHolderSize)
    BY <1>3, <2>2, <2>3
  <2>5. Place(0) = ItemSizeHolderSize + 1
    BY <1>2, <2>2
  <2> QED
    BY <2>4, <2>5 DEF Scanned
<1> HIDE DEF s
<1>13. whole - 0 = whole /\ \A j \in 1 .. whole : 0 + j = j
  BY <1>1
<1>14. Len(s(0)) = whole /\ \A j \in 1 .. whole : s(0)[j] = RecordOf(log, j)
  BY <1>11, <1>13
<1> QED
  BY <1>12, <1>14 DEF bytes

\* The record that counts in the cells is the one that counts in the bytes.
LEMMA CountsInCells ==
  ASSUME NEW log \in Logs, NEW whole \in 0 .. Len(log), NEW found,
         \A j \in 1 .. whole : found[j] = RecordOf(log, j),
         NEW k, NEW i \in 2 .. whole + 1
  PROVE  /\ InCells!LiveAt(<<[seed |-> 1]>> \o log, whole + 1, k, i)
              <=> Counts(found, whole, k, i - 1)
         /\ (<<[seed |-> 1]>> \o log)[i] = log[i - 1]
         /\ i \in 1 .. Len(<<[seed |-> 1]>> \o log)
<1> DEFINE l     == Len(log)
           cells == <<[seed |-> 1]>> \o log
           Full  == [key : {k}, blob : LogBlobs \ {<<>>}]
           Any   == [key : {k}, blob : (LogBlobs \ {<<>>}) \cup {<<>>}]
<1>1. l \in Nat /\ whole \in 0 .. l /\ i \in 2 .. whole + 1 /\ i \in Nat
  BY LogIs
<1>2. Len(cells) = l + 1 /\ \A j \in 2 .. l + 1 : cells[j] = log[j - 1]
  <2> DEFINE R == [key : LogKeys, blob : LogBlobs] \cup {[seed |-> 1]}
             h == [seed |-> 1]
  <2>1. log \in Seq(R)
    <3>1. DOMAIN log = 1 .. l /\ \A j \in 1 .. l : log[j] \in R
      BY LogIs
    <3>2. log = [j \in 1 .. l |-> log[j]]
      <4>1. PICK n \in 0 .. MaxRecords :
              log \in [1 .. n -> [key : LogKeys, blob : LogBlobs]]
        BY DEF Logs
      <4> DEFINE Rec == [key : LogKeys, blob : LogBlobs]
      <4>2. log \in [1 .. n -> Rec]
        BY <4>1
      <4> HIDE DEF Rec, l
      <4> QED
        BY <3>1, <4>2
    <3> HIDE DEF R, l
    <3> QED
      BY <1>1, <3>1, <3>2, IsASeq
  <2>2. <<h>> \in Seq(R) /\ Len(<<h>>) = 1
    <3>1. h \in R
      OBVIOUS
    <3> HIDE DEF R, h
    <3> QED
      BY <3>1
  <2> HIDE DEF R, h
  <2>3. /\ Len(<<h>> \o log) = Len(<<h>>) + Len(log)
        /\ \A j \in 1 .. Len(<<h>>) + Len(log) :
             (<<h>> \o log)[j] = IF j <= Len(<<h>>) THEN <<h>>[j]
                                 ELSE log[j - Len(<<h>>)]
    BY <2>1, <2>2, ConcatProperties
  <2>4. cells = <<h>> \o log
    BY DEF h
  <2> HIDE DEF cells
  <2>5. Len(cells) = 1 + l
    BY <2>2, <2>3, <2>4
  <2>6. ASSUME NEW j \in 2 .. l + 1  PROVE cells[j] = log[j - 1]
    <3>1. j \in 1 .. 1 + l /\ ~(j <= 1)
      BY <1>1
    <3> QED
      BY <2>2, <2>3, <2>4, <3>1
  <2> QED
    BY <1>1, <2>5, <2>6
<1> HIDE DEF cells, l
<1>3. ASSUME NEW j \in 1 .. whole
      PROVE  /\ cells[j + 1] = log[j] /\ j \in 1 .. l
             /\ cells[j + 1] \in Full
                  <=> found[j].key = k /\ found[j].valueLen # 0
             /\ cells[j + 1] \in Any <=> found[j].key = k
  <2>1. j + 1 \in 2 .. l + 1 /\ (j + 1) - 1 = j /\ j \in 1 .. l
    BY <1>1
  <2>2. cells[j + 1] = log[j]
    BY <1>2, <2>1
  <2> DEFINE r == log[j]
  <2>3. r \in [key : LogKeys, blob : LogBlobs] /\ Fits(r.blob)
    BY <2>1, LogIs DEF l
  <2>4. found[j].key = r.key /\ found[j].valueLen = Len(r.blob)
    <3>1. found[j] = RecordOf(log, j)
      OBVIOUS
    <3>2. RecordOf(log, j).key = r.key /\ RecordOf(log, j).valueLen = Len(r.blob)
      BY DEF RecordOf
    <3> QED
      BY <3>1, <3>2
  <2> HIDE DEF r
  <2>5. r.blob # <<>> <=> Len(r.blob) # 0
    <3>1. r.blob \in Seq(Nat)
      BY <2>3 DEF Fits
    <3> QED
      BY <3>1, EmptySeq
  <2>6. /\ r \in Full <=> r.key = k /\ r.blob # <<>>
        /\ r \in Any <=> r.key = k
    BY <2>3
  <2> QED
    BY <2>1, <2>2, <2>4, <2>5, <2>6 DEF r
<1> DEFINE m == i - 1
<1>4. m \in 1 .. whole /\ i = m + 1
  BY <1>1
<1>5. cells[i] \in Full <=> found[m].key = k /\ found[m].valueLen # 0
  <2> HIDE DEF Full, Any, m
  <2> QED
    BY <1>3, <1>4
<1>6. (\A j \in (i + 1) .. whole + 1 : cells[j] \notin Any)
        <=> \A j \in m + 1 .. whole : found[j].key # k
  <2> HIDE DEF Full, Any
  <2>1. ASSUME \A j \in (i + 1) .. whole + 1 : cells[j] \notin Any,
               NEW j \in m + 1 .. whole
        PROVE  found[j].key # k
    <3>1. j + 1 \in (i + 1) .. whole + 1 /\ j \in 1 .. whole
      BY <1>1, <1>4
    <3> QED
      BY <1>3, <2>1, <3>1
  <2>2. ASSUME \A j \in m + 1 .. whole : found[j].key # k,
               NEW j \in (i + 1) .. whole + 1
        PROVE  cells[j] \notin Any
    <3>1. j - 1 \in m + 1 .. whole /\ j - 1 \in 1 .. whole /\ (j - 1) + 1 = j
      BY <1>1, <1>4
    <3> QED
      BY <1>3, <2>2, <3>1
  <2> QED
    BY <2>1, <2>2
<1>7. InCells!LiveAt(cells, whole + 1, k, i)
        <=> cells[i] \in Full /\ \A j \in (i + 1) .. whole + 1 : cells[j] \notin Any
  BY DEF InCells!LiveAt, InCells!Blobs
<1>8. Counts(found, whole, k, m)
        <=> /\ found[m].key = k /\ found[m].valueLen # 0
            /\ \A j \in m + 1 .. whole : found[j].key # k
  BY <1>4 DEF Counts
<1> HIDE DEF Full, Any
<1>9. /\ InCells!LiveAt(cells, whole + 1, k, i) <=> Counts(found, whole, k, m)
      /\ cells[i] = log[m] /\ i \in 1 .. Len(cells)
  <2>1. cells[i] = log[m]
    BY <1>3, <1>4
  <2>2. i \in 1 .. Len(cells)
    BY <1>1, <1>2
  <2> QED
    BY <1>5, <1>6, <1>7, <1>8, <2>1, <2>2
<1> QED
  BY <1>9 DEF cells

\* The part of LogScanned that is about one cut.
LEMMA CutScanned ==
  ASSUME NEW log \in Logs, NEW whole \in 0 .. Len(log), NEW n \in Cuts(log, whole)
  PROVE  LET bytes == Bytes(log)[Len(log)]
             cells == <<[seed |-> 1]>> \o log
             at    == InCells!DecodeMap(cells, whole + 1)
             index == DecodeMap(bytes, n, FALSE)
         IN  /\ DOMAIN index = {k \in LogKeys : at[k] # 0}
             /\ \A k \in DOMAIN index :
                  LET value == GetValueBlob(bytes, index[k])
                  IN  /\ index[k] = ActualSize(log, at[k] - 2)
                      /\ SubSeq(bytes, value.first, value.first + value.len - 1)
                           = InCells!ValueBlob(cells, at[k])
<1> DEFINE bytes == Bytes(log)[Len(log)]
           cells == <<[seed |-> 1]>> \o log
           at    == InCells!DecodeMap(cells, whole + 1)
           found == Scanned(bytes, n, FALSE)
           index == Index(found)
           Live(k, i) == InCells!LiveAt(cells, whole + 1, k, i)
<1>1. Len(found) = whole /\ \A j \in 1 .. whole : found[j] = RecordOf(log, j)
  BY ScanOfLog
<1>2. whole \in Nat /\ whole <= Len(log) /\ Len(log) \in Nat
  BY LogIs
<1>3. index = DecodeMap(bytes, n, FALSE)
  BY DEF DecodeMap
<1> HIDE DEF found
<1>4. \A k : k \in DOMAIN index <=> \E j \in 1 .. whole : Counts(found, whole, k, j)
  BY <1>1, <1>2, IndexIs
<1>5. ASSUME NEW k, NEW j \in 1 .. whole, Counts(found, whole, k, j)
      PROVE  index[k] = ActualSize(log, j - 1)
  <2>1. index[k] = found[j].offset
    BY <1>1, <1>2, <1>5, IndexIs
  <2>2. found[j] = RecordOf(log, j) /\ RecordOf(log, j).offset = ActualSize(log, j - 1)
    BY <1>1 DEF RecordOf
  <2> HIDE DEF index
  <2> QED
    BY <2>1, <2>2
<1> HIDE DEF index, bytes
<1>6. ASSUME NEW k, NEW i \in 2 .. whole + 1
      PROVE  /\ Live(k, i) <=> Counts(found, whole, k, i - 1)
             /\ cells[i] = log[i - 1] /\ i \in 1 .. Len(cells)
  BY <1>1, CountsInCells
<1> HIDE DEF cells
<1>7. ASSUME NEW k \in LogKeys
      PROVE  /\ at[k] # 0 <=> \E i \in 2 .. whole + 1 : Live(k, i)
             /\ at[k] # 0 => at[k] \in 2 .. whole + 1 /\ Live(k, at[k])
  <2> HIDE DEF Live
  <2>1. at[k] = IF \E i \in 2 .. whole + 1 : Live(k, i)
                  THEN CHOOSE i \in 2 .. whole + 1 : Live(k, i) ELSE 0
    BY DEF InCells!DecodeMap, InCells!ItemSizeHolder, Live
  <2> HIDE DEF at
  <2>2. CASE \E i \in 2 .. whole + 1 : Live(k, i)
    <3> DEFINE c == CHOOSE i \in 2 .. whole + 1 : Live(k, i)
    <3>1. c \in 2 .. whole + 1 /\ Live(k, c)
      BY <2>2
    <3>2. at[k] = c
      BY <2>1, <2>2
    <3> HIDE DEF c
    <3>3. c # 0
      BY <1>2, <3>1
    <3> QED
      BY <2>2, <3>1, <3>2, <3>3
  <2>3. CASE ~\E i \in 2 .. whole + 1 : Live(k, i)
    BY <2>1, <2>3
  <2> QED
    BY <2>2, <2>3
<1> HIDE DEF at
<1>8. ASSUME NEW k, \E j \in 1 .. whole : Counts(found, whole, k, j)
      PROVE  k \in LogKeys /\ \E i \in 2 .. whole + 1 : Live(k, i)
  <2>1. PICK j \in 1 .. whole : Counts(found, whole, k, j)
    BY <1>8
  <2>2. j + 1 \in 2 .. whole + 1 /\ (j + 1) - 1 = j /\ j \in 1 .. Len(log)
    BY <1>2
  <2>3. Live(k, j + 1)
    <3> HIDE DEF Live
    <3> QED
      BY <1>6, <2>1, <2>2
  <2>4. log[j].key \in LogKeys
    BY <2>2, LogIs
  <2>5. found[j].key = k
    BY <2>1 DEF Counts
  <2>6. found[j] = RecordOf(log, j) /\ RecordOf(log, j).key = log[j].key
    BY <1>1 DEF RecordOf
  <2> HIDE DEF Live
  <2> QED
    BY <2>2, <2>3, <2>4, <2>5, <2>6
<1>9. DOMAIN index = {k \in LogKeys : at[k] # 0}
  <2>1. ASSUME NEW k \in DOMAIN index  PROVE k \in LogKeys /\ at[k] # 0
    BY <1>4, <1>7, <1>8
  <2>2. ASSUME NEW k \in LogKeys, at[k] # 0  PROVE k \in DOMAIN index
    <3>1. at[k] \in 2 .. whole + 1 /\ Live(k, at[k])
      BY <1>7, <2>2
    <3>2. Counts(found, whole, k, at[k] - 1)
      BY <1>6, <3>1
    <3>3. at[k] - 1 \in 1 .. whole
      BY <1>2, <3>1
    <3> QED
      BY <1>4, <3>2, <3>3
  <2> QED
    BY <2>1, <2>2
<1>10. ASSUME NEW k \in DOMAIN index
       PROVE  LET value == GetValueBlob(bytes, index[k])
              IN  /\ index[k] = ActualSize(log, at[k] - 2)
                  /\ SubSeq(bytes, value.first, value.first + value.len - 1)
                       = InCells!ValueBlob(cells, at[k])
  <2> DEFINE i == at[k]
             j == i - 1
  <2>1. k \in LogKeys /\ at[k] # 0
    BY <1>9
  <2>2. i \in 2 .. whole + 1 /\ Live(k, i)
    BY <1>7, <2>1
  <2>3. /\ Counts(found, whole, k, j) /\ cells[i] = log[j] /\ i \in 1 .. Len(cells)
    BY <1>6, <2>2
  <2> HIDE DEF Live, i
  <2>4. j \in 1 .. whole /\ j - 1 = i - 2 /\ j \in 1 .. Len(log)
    BY <1>2, <2>2
  <2>5. index[k] = ActualSize(log, j - 1)
    BY <1>5, <2>3, <2>4
  <2> DEFINE key  == log[j].key
             blob == log[j].blob
             p    == ActualSize(log, j - 1) + 1
  <2>6. /\ Fits(key) /\ Fits(blob) /\ Holds(bytes, p, EncodeRecord(key, blob))
    BY <2>4, LogIs, BytesHold DEF bytes, Encoded
  <2>7. log[j] \in [key : LogKeys, blob : LogBlobs]
    BY <2>4, LogIs
  <2>8. InCells!ValueBlob(cells, i) = blob
    <3>1. cells[i] \in InCells!Record
      BY <2>3, <2>7 DEF InCells!Record, InCells!Blobs
    <3> QED
      BY <2>3, <3>1 DEF InCells!ValueBlob
  <2>9. p - 1 = ActualSize(log, j - 1)
    <3>1. ActualSize(log, j - 1) \in Nat
      <4>1. j - 1 \in 0 .. Len(log)
        BY <1>2, <2>4
      <4> QED
        BY <4>1, BytesHold
    <3> QED
      BY <3>1
  <2> HIDE DEF key, blob, p, j
  <2>10. LET value == GetValueBlob(bytes, p - 1)
         IN  SubSeq(bytes, value.first, value.first + value.len - 1) = blob
    BY <2>6, ValueFound
  <2>11. index[k] = ActualSize(log, i - 2)
    BY <2>4, <2>5
  <2>12. LET value == GetValueBlob(bytes, index[k])
         IN  SubSeq(bytes, value.first, value.first + value.len - 1)
               = InCells!ValueBlob(cells, i)
    BY <2>5, <2>8, <2>9, <2>10
  <2> QED
    BY <2>11, <2>12 DEF i
<1> QED
  BY <1>3, <1>9, <1>10 DEF at, bytes, cells

\* A log that is cut anywhere yields what its cells yield, and one that is
\* not yields the index its writer keeps (data_parser.cpp:13-80).
THEOREM LogsScanWhole == LogScanned
<1>1. ASSUME NEW log \in Logs, NEW greedy \in BOOLEAN
      PROVE  LET bytes == Bytes(log)[Len(log)]
             IN  DecodeMap(bytes, Len(bytes), greedy) = WriterIndex(log)
  <2> DEFINE bytes   == Bytes(log)[Len(log)]
             l       == Len(log)
             found   == Scanned(bytes, Len(bytes), greedy)
             written == [i \in 1 .. l |-> [offset   |-> ActualSize(log, i - 1),
                                           key      |-> log[i].key,
                                           valueLen |-> Len(log[i].blob)]]
  <2>1. l \in Nat /\ l \in 0 .. l
    BY LogIs
  <2>2. Len(bytes) \in Cuts(log, l)
    <3>1. Len(bytes) = ActualSize(log, l) /\ ActualSize(log, l) \in Nat
      BY <2>1, BytesHold
    <3> HIDE DEF bytes
    <3> QED
      BY <3>1 DEF Cuts
  <2>3. Len(found) = l /\ \A j \in 1 .. l : found[j] = RecordOf(log, j)
    BY <2>1, <2>2, ScanOfLog
  <2>4. Len(written) = l /\ DOMAIN written = 1 .. l
    <3> HIDE DEF l
    <3>1. DOMAIN written = 1 .. l
      OBVIOUS
    <3>2. written \in Seq({written[i] : i \in 1 .. l})
      <4> DEFINE R == {written[i] : i \in 1 .. l}
      <4>1. \A i \in 1 .. l : written[i] \in R
        OBVIOUS
      <4>2. written = [i \in 1 .. l |-> written[i]]
        OBVIOUS
      <4> HIDE DEF written, R
      <4> QED
        BY <2>1, <4>1, <4>2, IsASeq
    <3>3. Len(written) \in Nat /\ DOMAIN written = 1 .. Len(written)
      <4> HIDE DEF written
      <4> QED
        BY <3>2, LenProperties
    <3> HIDE DEF written
    <3> QED
      BY <2>1, <3>1, <3>3
  <2>5. \A i \in 1 .. l : /\ found[i].key = written[i].key
                          /\ found[i].valueLen = written[i].valueLen
                          /\ found[i].offset = written[i].offset
    <3> SUFFICES ASSUME NEW i \in 1 .. l
                 PROVE  /\ found[i].key = written[i].key
                        /\ found[i].valueLen = written[i].valueLen
                        /\ found[i].offset = written[i].offset
      OBVIOUS
    <3> DEFINE offset   == ActualSize(log, i - 1)
               key      == log[i].key
               valueLen == Len(log[i].blob)
    <3>1. written[i] = [offset |-> offset, key |-> key, valueLen |-> valueLen]
      OBVIOUS
    <3>2. RecordOf(log, i) = [offset |-> offset, key |-> key, valueLen |-> valueLen,
                          next |-> ActualSize(log, i) + 1]
      BY DEF RecordOf
    <3>3. found[i] = RecordOf(log, i)
      BY <2>3
    <3> HIDE DEF offset, key, valueLen, written, found
    <3> QED
      BY <3>1, <3>2, <3>3
  <2>6. WriterIndex(log) = Index(written)
    BY DEF WriterIndex
  <2>7. DecodeMap(bytes, Len(bytes), greedy) = Index(found)
    BY DEF DecodeMap
  <2> HIDE DEF found, written, bytes
  <2>8. Index(found) = Index(written)
    BY <2>1, <2>3, <2>4, <2>5, IndexSame
  <2> QED
    BY <2>6, <2>7, <2>8 DEF bytes
<1> QED
  BY <1>1, CutScanned DEF LogScanned
=============================================================================
