-------------------------- MODULE HealthCodecProofs --------------------------
(***************************************************************************)
(* Proofs about the health messages on the wire: what this codec writes it *)
(* reads back, and what a peer writes, any number of fields cut anywhere,  *)
(* is read for what it says or refused.                                    *)
(***************************************************************************)
EXTENDS HealthCodec, FiniteSets, FiniteSetTheorems, FunctionTheorems, SequenceTheorems, TLAPS

-----------------------------------------------------------------------------
(***************************************************************************)
(* Least and greatest.                                                     *)
(***************************************************************************)
LEMMA MinIs ==
    ASSUME NEW S, S \subseteq Nat, NEW m \in S, \A x \in S : m <= x
    PROVE  Min(S) = m
<1>1. \A x \in S : (\A y \in S : x =< y) => x = m
  OBVIOUS
<1>2. \E x \in S : \A y \in S : x =< y
  OBVIOUS
<1> QED
  BY <1>1, <1>2 DEF Min

LEMMA MaxIs ==
    ASSUME NEW S, S \subseteq Nat, NEW m \in S, \A x \in S : x <= m
    PROVE  Max(S) = m
<1>1. \A x \in S : (\A y \in S : x >= y) => x = m
  OBVIOUS
<1>2. \E x \in S : \A y \in S : x >= y
  OBVIOUS
<1> QED
  BY <1>1, <1>2 DEF Max

-----------------------------------------------------------------------------
(***************************************************************************)
(* read_varint, on a payload of bytes.                                     *)
(***************************************************************************)
Bytes == 0 .. 255

LEMMA Typed ==
    ASSUME NEW b \in Seq(Bytes)
    PROVE  /\ Len(b) \in Nat
           /\ \A i \in 1 .. Len(b) : b[i] \in Nat /\ b[i] <= 255
<1>1. Len(b) \in Nat /\ \A i \in 1 .. Len(b) : b[i] \in Bytes
  BY ElementOfSeq, LenProperties
<1>2. \A x \in Bytes : x \in Nat /\ x <= 255
  BY DEF Bytes
<1> QED
  BY <1>1, <1>2

\* Where read_varint stops.
LEMMA Stops ==
    ASSUME bytes \in Seq(Bytes), NEW off \in Nat, NEW m \in Groups,
           \A i \in 0 .. m - 1 : off + i < Len(bytes) /\ bytes[off + i + 1] >= 128,
           off + m >= Len(bytes) \/ bytes[off + m + 1] < 128 \/ m = 9
    PROVE  Min({i \in Groups : off + i >= Len(bytes) \/ bytes[off + i + 1] < 128 \/ i = 9}) = m
<1> DEFINE S == {i \in Groups : off + i >= Len(bytes) \/ bytes[off + i + 1] < 128 \/ i = 9}
<1>1. S \subseteq Nat
  BY DEF Groups
<1>2. m \in S
  OBVIOUS
<1>3. \A x \in S : m <= x
  <2> SUFFICES ASSUME NEW x \in S, x < m PROVE FALSE
    BY <1>1 DEF Groups
  <2>1. x \in 0 .. m - 1 /\ x # 9
    BY DEF Groups
  <2>2. off + x + 1 \in 1 .. Len(bytes) /\ bytes[off + x + 1] \in Nat
    <3>1. x \in Nat /\ m \in Nat /\ off + x < Len(bytes)
      BY <2>1 DEF Groups
    <3> QED
      BY <3>1, Typed
  <2>3. x \in Nat /\ off + x < Len(bytes) /\ bytes[off + x + 1] >= 128
    BY <2>1 DEF Groups
  <2> QED
    BY <2>1, <2>2, <2>3, Typed
<1> HIDE DEF S
<1>4. Min(S) = m
  BY <1>1, <1>2, <1>3, MinIs
<1> QED
  BY <1>4 DEF S

\* A varint is read for its value, and to its end.
LEMMA VarintIsRead ==
    ASSUME bytes \in Seq(Bytes), NEW off \in Nat, NEW to, IsVarint(bytes, off, to)
    PROVE  read_varint(off) = [ok |-> TRUE, offset |-> to, value |-> VarintAt(bytes, off, to)]
<1> DEFINE m == to - off - 1
           last == Min({i \in Groups : off + i >= Len(bytes) \/ bytes[off + i + 1] < 128 \/ i = 9})
<1>1. /\ to \in off + 1 .. Len(bytes) /\ to <= off + 10
      /\ \A i \in off + 1 .. to - 1 : bytes[i] >= 128
      /\ bytes[to] < 128 /\ (to = off + 10 => bytes[to] <= 1)
  BY DEF IsVarint
<1>2. m \in Groups /\ off + m + 1 = to
  BY <1>1 DEF Groups
<1>3. \A i \in 0 .. m - 1 : off + i < Len(bytes) /\ bytes[off + i + 1] >= 128
  BY <1>1
<1>4. last = m
  <2>1. bytes[off + m + 1] < 128
    BY <1>1, <1>2
  <2> HIDE DEF m
  <2> QED
    BY <1>2, <1>3, <2>1, Stops
<1> HIDE DEF last
<1>5. ~(off + last >= Len(bytes) \/ (last = 9 /\ bytes[off + 9 + 1] > 1))
  <2>1. bytes[to] \in Nat
    BY <1>1, Typed
  <2>2. off + last < Len(bytes)
    BY <1>1, <1>2, <1>4, Typed
  <2>3. last = 9 => off + 9 + 1 = to
    BY <1>2, <1>4
  <2>4. to \in Nat /\ last \in Nat /\ Len(bytes) \in Nat
    BY <1>1, <1>2, <1>4, Typed DEF Groups
  <2> HIDE DEF m
  <2>5. last = 9 => to = off + 10
    BY <2>3, <2>4
  <2>6. last = 9 => ~(bytes[off + 9 + 1] > 1)
    BY <1>1, <2>1, <2>3, <2>5
  <2> QED
    BY <2>2, <2>4, <2>6
<1>6. read_varint(off) = [ok |-> TRUE, offset |-> off + last + 1,
                          value |-> [g \in Groups |-> IF g > last THEN 0 ELSE bytes[off + g + 1] % 128]]
  BY <1>5 DEF read_varint, last
<1>7. [g \in Groups |-> IF g > last THEN 0 ELSE bytes[off + g + 1] % 128] = VarintAt(bytes, off, to)
  BY <1>1, <1>4 DEF VarintAt, Groups
<1> QED
  BY <1>2, <1>4, <1>6, <1>7

\* Ten bytes that are more than 64 bits are refused.
LEMMA TooLongIsRefused ==
    ASSUME bytes \in Seq(Bytes), NEW off \in Nat, IsTooLong(bytes, off)
    PROVE  read_varint(off) = Failed
<1> DEFINE last == Min({i \in Groups : off + i >= Len(bytes) \/ bytes[off + i + 1] < 128 \/ i = 9})
<1>1. last = 9
  <2>1. \A i \in 0 .. 9 - 1 : off + i < Len(bytes) /\ bytes[off + i + 1] >= 128
    BY Typed DEF IsTooLong
  <2>2. 9 \in Groups
    BY DEF Groups
  <2> QED
    BY <2>1, <2>2, Stops
<1> HIDE DEF last
<1>2. last = 9 /\ bytes[off + 9 + 1] > 1
  BY <1>1 DEF IsTooLong
<1> QED
  BY <1>2 DEF read_varint, last

\* A varint that is cut is refused.
LEMMA CutVarintIsRefused ==
    ASSUME bytes \in Seq(Bytes), NEW off \in Nat, off <= Len(bytes), Len(bytes) < off + 10,
           \A i \in off + 1 .. Len(bytes) : bytes[i] >= 128
    PROVE  read_varint(off) = Failed
<1> DEFINE m == Len(bytes) - off
           last == Min({i \in Groups : off + i >= Len(bytes) \/ bytes[off + i + 1] < 128 \/ i = 9})
<1>1. m \in Groups /\ off + m = Len(bytes)
  BY DEF Groups
<1>2. \A i \in 0 .. m - 1 : off + i < Len(bytes) /\ bytes[off + i + 1] >= 128
  OBVIOUS
<1>3. last = m
  <2> HIDE DEF m
  <2> QED
    BY <1>1, <1>2, Stops
<1> HIDE DEF last, m
<1>4. off + last >= Len(bytes)
  BY <1>1, <1>3
<1> QED
  BY <1>4 DEF read_varint, last

-----------------------------------------------------------------------------
(***************************************************************************)
(* A field, somewhere in the payload.                                      *)
(***************************************************************************)

\* The first r bytes of b are in the payload, after an offset.
Holds(b, off, r) ==
    /\ r \in 0 .. Len(b) /\ off + r <= Len(bytes)
    /\ \A i \in 1 .. r : bytes[off + i] = b[i]

\* A varint is one wherever it is.
LEMMA VarintMoves ==
    ASSUME bytes \in Seq(Bytes), NEW b \in Seq(Bytes), NEW off \in Nat, NEW r, Holds(b, off, r),
           NEW from \in Nat, NEW to, IsVarint(b, from, to), to <= r
    PROVE  /\ IsVarint(bytes, off + from, off + to)
           /\ VarintAt(bytes, off + from, off + to) = VarintAt(b, from, to)
<1>1. /\ to \in Nat /\ r \in Nat /\ Len(b) \in Nat /\ Len(bytes) \in Nat
      /\ from < to /\ to <= from + 10 /\ r <= Len(b) /\ off + r <= Len(bytes)
  BY Typed DEF IsVarint, Holds
<1>2. \A i \in 1 .. r : bytes[off + i] = b[i]
  BY DEF Holds
<1>3. ASSUME NEW i \in off + from + 1 .. off + to PROVE bytes[i] = b[i - off]
  <2>1. i - off \in 1 .. r /\ off + (i - off) = i
    BY <1>1, <1>3
  <2> QED
    BY <1>2, <2>1
<1>4. IsVarint(bytes, off + from, off + to)
  <2>1. off + to \in off + from + 1 .. Len(bytes) /\ off + to <= off + from + 10
    BY <1>1
  <2>2. ASSUME NEW i \in off + from + 1 .. off + to - 1 PROVE bytes[i] >= 128
    <3>1. i - off \in from + 1 .. to - 1 /\ i \in off + from + 1 .. off + to
      BY <1>1, <2>2
    <3> QED
      BY <1>3, <3>1 DEF IsVarint
  <2>3. bytes[off + to] = b[to]
    BY <1>1, <1>2
  <2>4. off + to = off + from + 10 => to = from + 10
    BY <1>1
  <2> QED
    BY <2>1, <2>2, <2>3, <2>4 DEF IsVarint
<1>5. VarintAt(bytes, off + from, off + to) = VarintAt(b, from, to)
  <2>1. (off + to) - (off + from) = to - from
    BY <1>1
  <2>2. \A g \in Groups : g < to - from => bytes[off + from + g + 1] = b[from + g + 1]
    <3> SUFFICES ASSUME NEW g \in Groups, g < to - from PROVE bytes[off + from + g + 1] = b[from + g + 1]
      OBVIOUS
    <3>1. from + g + 1 \in 1 .. r /\ off + from + g + 1 = off + (from + g + 1)
      BY <1>1 DEF Groups
    <3> QED
      BY <1>2, <3>1
  <2> DEFINE F(g) == IF g < (off + to) - (off + from) THEN bytes[off + from + g + 1] % 128 ELSE 0
             G(g) == IF g < to - from THEN b[from + g + 1] % 128 ELSE 0
  <2>3. \A g \in Groups : F(g) = G(g)
    BY <2>1, <2>2
  <2>4. VarintAt(bytes, off + from, off + to) = [g \in Groups |-> F(g)]
    BY Zenon DEF VarintAt
  <2>5. VarintAt(b, from, to) = [g \in Groups |-> G(g)]
    BY Zenon DEF VarintAt
  <2> HIDE DEF F, G
  <2> QED
    BY <2>3, <2>4, <2>5
<1> QED
  BY <1>4, <1>5

\* A varint that is there is read.
LEMMA VarintHeldIsRead ==
    ASSUME bytes \in Seq(Bytes), NEW b \in Seq(Bytes), NEW off \in Nat, NEW r, Holds(b, off, r),
           NEW from \in Nat, NEW to, IsVarint(b, from, to), to <= r
    PROVE  /\ read_varint(off + from).ok /\ read_varint(off + from).offset = off + to
           /\ read_varint(off + from).value = VarintAt(b, from, to)
<1>1. off + from \in Nat
  OBVIOUS
<1>2. /\ IsVarint(bytes, off + from, off + to)
      /\ VarintAt(bytes, off + from, off + to) = VarintAt(b, from, to)
  BY VarintMoves
<1>3. read_varint(off + from) = [ok |-> TRUE, offset |-> off + to,
                                 value |-> VarintAt(bytes, off + from, off + to)]
  BY <1>1, <1>2, VarintIsRead
<1> QED
  BY <1>2, <1>3

\* A varint of which the end is not there is refused.
LEMMA VarintCutIsRefused ==
    ASSUME bytes \in Seq(Bytes), NEW b \in Seq(Bytes), NEW off \in Nat, NEW r, Holds(b, off, r),
           off + r = Len(bytes), NEW from \in Nat, from <= r, NEW to, IsVarint(b, from, to), r < to
    PROVE  read_varint(off + from) = Failed
<1>1. /\ to \in Nat /\ r \in Nat /\ Len(b) \in Nat /\ Len(bytes) \in Nat /\ to <= from + 10
  BY Typed DEF IsVarint, Holds
<1>2. off + from <= Len(bytes) /\ Len(bytes) < off + from + 10
  BY <1>1
<1>3. ASSUME NEW i \in off + from + 1 .. Len(bytes) PROVE bytes[i] >= 128
  <2>1. i - off \in from + 1 .. to - 1 /\ i - off \in 1 .. r /\ off + (i - off) = i
    BY <1>1, <1>3
  <2>2. bytes[i] = b[i - off]
    BY <2>1 DEF Holds
  <2> QED
    BY <2>1, <2>2 DEF IsVarint
<1> QED
  BY <1>1, <1>2, <1>3, CutVarintIsRefused

\* Ten bytes that are more than 64 bits are refused, cut or not.
LEMMA TooLongHeldIsRefused ==
    ASSUME bytes \in Seq(Bytes), NEW b \in Seq(Bytes), NEW off \in Nat, NEW r, Holds(b, off, r),
           r = Len(b) \/ off + r = Len(bytes), NEW from \in Nat, from <= r, IsTooLong(b, from)
    PROVE  read_varint(off + from) = Failed
<1>1. r \in Nat /\ Len(b) \in Nat /\ Len(bytes) \in Nat /\ r <= Len(b) /\ off + r <= Len(bytes)
  BY Typed DEF Holds
<1>2. from + 10 <= Len(b)
  BY DEF IsTooLong
<1>3. \A i \in 1 .. r : bytes[off + i] = b[i]
  BY DEF Holds
<1>4. ASSUME NEW i \in off + from + 1 .. off + r, i <= off + from + 9 PROVE bytes[i] >= 128
  <2>1. i - off \in from + 1 .. from + 9 /\ i - off \in 1 .. r /\ off + (i - off) = i
    BY <1>1, <1>4
  <2> QED
    BY <1>3, <2>1 DEF IsTooLong
<1>5. CASE r >= from + 10
  <2>1. off + from + 10 <= Len(bytes)
    BY <1>1, <1>5
  <2>2. \A i \in off + from + 1 .. off + from + 9 : bytes[i] >= 128
    BY <1>1, <1>4, <1>5
  <2>3. bytes[off + from + 10] = b[from + 10]
    <3>1. from + 10 \in 1 .. r /\ off + from + 10 = off + (from + 10)
      BY <1>1, <1>5
    <3> QED
      BY <1>3, <3>1
  <2>4. IsTooLong(bytes, off + from)
    BY <2>1, <2>2, <2>3 DEF IsTooLong
  <2> QED
    BY <2>4, TooLongIsRefused
<1>6. CASE r < from + 10
  <2>1. off + r = Len(bytes) /\ off + from <= Len(bytes) /\ Len(bytes) < off + from + 10
    BY <1>1, <1>2, <1>6
  <2>2. \A i \in off + from + 1 .. Len(bytes) : bytes[i] >= 128
    BY <1>1, <1>4, <2>1
  <2> QED
    BY <2>1, <2>2, CutVarintIsRefused
<1> QED
  BY <1>1, <1>5, <1>6

\* What next_field and then decode read at an offset.
ReadAt(off) ==
    LET key == read_varint(off)
    IN  IF key.ok /\ ValidKey(key.value) THEN skip(key.offset, key.value[0] % 8) ELSE Failed

KnownAt(off) == Known(read_varint(off).value)

ContentAt(off) == Content(read_varint(off).offset, ReadAt(off))

\* The keys of the two known fields have the wire types 0 and 2.
LEMMA FirstKeys == U64(8)[0] = 8 /\ U64(10)[0] = 10
BY DEF U64, Groups, Weight

LEMMA KnownKeys ==
    ASSUME message \in Messages, NEW key
    PROVE  Known(key) <=> key = U64(IF message = "request" THEN 10 ELSE 8)
BY DEF Known, IsFirst, Messages

\* With its key there, what is read of a field.
LEMMA KeyIsRead ==
    ASSUME bytes \in Seq(Bytes), NEW b \in Seq(Bytes), NEW off \in Nat, NEW r, Holds(b, off, r),
           NEW k, IsVarint(b, 0, k), k <= r
    PROVE  /\ read_varint(off).offset = off + k
           /\ KnownAt(off) <=> Known(VarintAt(b, 0, k))
           /\ ValidKey(VarintAt(b, 0, k)) => ReadAt(off) = skip(off + k, VarintAt(b, 0, k)[0] % 8)
           /\ ~ValidKey(VarintAt(b, 0, k)) => ReadAt(off) = Failed
<1>1. off + 0 = off /\ 0 \in Nat
  OBVIOUS
<1> DEFINE key == VarintAt(b, 0, k)
<1>2. /\ read_varint(off + 0).ok /\ read_varint(off + 0).offset = off + k
      /\ read_varint(off + 0).value = key
  BY <1>1, VarintHeldIsRead
<1> HIDE DEF key
<1>3. read_varint(off).ok /\ read_varint(off).offset = off + k /\ read_varint(off).value = key
  BY <1>1, <1>2, Zenon
<1>4. KnownAt(off) <=> Known(key)
  BY <1>3, Zenon DEF KnownAt
<1>5. ValidKey(key) => ReadAt(off) = skip(off + k, key[0] % 8)
  BY <1>3, Zenon DEF ReadAt
<1>6. ~ValidKey(key) => ReadAt(off) = Failed
  BY <1>3, Zenon DEF ReadAt
<1> QED
  BY <1>3, <1>4, <1>5, <1>6 DEF key

LEMMA SkippedTo ==
    ASSUME NEW to
    PROVE  (Skipped(to).ok <=> to <= Len(bytes)) /\ Skipped(to).offset = to
<1>1. Skipped(to).ok = (to <= Len(bytes))
  BY Zenon DEF Skipped
<1>2. Skipped(to).offset = to
  BY Zenon DEF Skipped
<1> QED
  BY <1>1, <1>2, Zenon

\* A text wherever it is.
LEMMA TextMoves ==
    ASSUME bytes \in Seq(Bytes), NEW b \in Seq(Bytes), NEW off \in Nat, Holds(b, off, Len(b)),
           NEW l \in 0 .. Len(b)
    PROVE  SubSeq(bytes, off + l + 1, off + Len(b)) = SubSeq(b, l + 1, Len(b))
<1>1. Len(b) \in Nat /\ Len(bytes) \in Nat /\ l \in Nat /\ off + Len(b) <= Len(bytes)
  BY Typed DEF Holds
<1> DEFINE s == SubSeq(bytes, off + l + 1, off + Len(b))
           t == SubSeq(b, l + 1, Len(b))
<1>2. s \in Seq(Bytes) /\ t \in Seq(Bytes)
  <2>1. \A i \in l + 1 .. Len(b) : b[i] \in Bytes
    BY <1>1, ElementOfSeq
  <2>2. \A i \in off + l + 1 .. off + Len(b) : bytes[i] \in Bytes
    BY <1>1, ElementOfSeq
  <2> QED
    BY <1>1, <2>1, <2>2, SubSeqProperties
<1>3. Len(s) = Len(b) - l /\ Len(t) = Len(b) - l
  BY <1>1, SubSeqProperties
<1>4. ASSUME NEW i \in 1 .. Len(b) - l PROVE s[i] = t[i]
  <2>1. s[i] = bytes[off + l + 1 + i - 1] /\ t[i] = b[l + 1 + i - 1]
    BY <1>1, <1>3, SubSeqProperties
  <2>2. l + i \in 1 .. Len(b) /\ off + l + 1 + i - 1 = off + (l + i) /\ l + 1 + i - 1 = l + i
    BY <1>1
  <2> QED
    BY <2>1, <2>2 DEF Holds
<1> HIDE DEF s, t
<1>5. s = t
  BY <1>2, <1>3, <1>4, SeqEqual
<1> QED
  BY <1>5 DEF s, t

\* A field that is there is read to its end.  If it is the field the message
\* has, it is kept when it is valid in the message and refused when it is not;
\* any other says nothing of the value and is left.
LEMMA FieldIsRead ==
    ASSUME bytes \in Seq(Bytes), message \in Messages, NEW f, f.bytes \in Seq(Bytes), WireField(f),
           NEW off \in Nat, Holds(f.bytes, off, Len(f.bytes))
    PROVE  /\ ReadAt(off).ok /\ ReadAt(off).offset = off + Len(f.bytes)
           /\ \/ /\ message \in f.valid /\ ~KnownAt(off) /\ Told(f) = {}
              \/ /\ message \in f.valid /\ KnownAt(off) /\ Told(f) = {ContentAt(off)}
                 /\ message = "request" => IsUtf8(ContentAt(off))
              \/ /\ message \notin f.valid /\ KnownAt(off)
                 /\ message = "request" /\ ~IsUtf8(ContentAt(off))
<1> DEFINE b == f.bytes
           size == Len(b)
           Text(l) == SubSeq(b, l + 1, size)
<1>1. PICK k \in 1 .. size :
            /\ IsVarint(b, 0, k) /\ ValidKey(VarintAt(b, 0, k))
            /\ \/ /\ VarintAt(b, 0, k)[0] % 8 = 0 /\ IsVarint(b, k, size)
                  /\ f.status = (IF VarintAt(b, 0, k) = U64(8) THEN {AsI32(VarintAt(b, k, size))} ELSE {})
                  /\ f.service = {} /\ f.valid = Messages
               \/ /\ VarintAt(b, 0, k)[0] % 8 \in {1, 5}
                  /\ size = k + (IF VarintAt(b, 0, k)[0] % 8 = 1 THEN 8 ELSE 4)
                  /\ f.status = {} /\ f.service = {} /\ f.valid = Messages
               \/ /\ VarintAt(b, 0, k)[0] % 8 = 2 /\ f.status = {}
                  /\ \E l \in k + 1 .. size :
                        /\ IsDelimited(b, k, l)
                        /\ f.service = (IF VarintAt(b, 0, k) = U64(10) /\ IsUtf8(Text(l)) THEN {Text(l)} ELSE {})
                        /\ f.valid = (IF VarintAt(b, 0, k) = U64(10) /\ ~IsUtf8(Text(l))
                                      THEN {"response"} ELSE Messages)
  BY DEF WireField
<1> DEFINE key == VarintAt(b, 0, k)
<1>2. size \in Nat /\ Len(bytes) \in Nat /\ k \in Nat /\ k <= size /\ b \in Seq(Bytes)
      /\ off + size <= Len(bytes)
  BY Typed DEF Holds
<1> HIDE DEF b, size, key
<1>3. Holds(b, off, size)
  BY DEF b, size
<1>4. /\ read_varint(off).offset = off + k
      /\ KnownAt(off) <=> Known(key)
      /\ ReadAt(off) = skip(off + k, key[0] % 8)
  BY <1>1, <1>2, <1>3, KeyIsRead DEF key
<1>5. /\ KnownAt(off) <=> key = U64(IF message = "request" THEN 10 ELSE 8)
      /\ U64(8)[0] % 8 = 0 /\ U64(10)[0] % 8 = 2
  BY <1>4, KnownKeys, FirstKeys
<1>6. CASE /\ key[0] % 8 = 0 /\ IsVarint(b, k, size)
           /\ f.status = (IF key = U64(8) THEN {AsI32(VarintAt(b, k, size))} ELSE {})
           /\ f.service = {} /\ f.valid = Messages
  <2>1. ReadAt(off).ok /\ ReadAt(off).offset = off + size /\ ReadAt(off).value = VarintAt(b, k, size)
    <3>1. ReadAt(off) = read_varint(off + k)
      BY <1>4, <1>6 DEF skip
    <3> QED
      BY <1>2, <1>3, <1>6, <3>1, VarintHeldIsRead
  <2>2. key # U64(10)
    BY <1>5, <1>6
  <2>3. CASE message = "request"
    <3>1. ~KnownAt(off) /\ Told(f) = {}
      BY <1>5, <1>6, <2>2, <2>3 DEF Told
    <3> QED
      BY <1>6, <2>1, <3>1 DEF size, b
  <2>4. CASE message = "response"
    <3>1. ContentAt(off) = AsI32(VarintAt(b, k, size))
      BY <2>1, <2>4 DEF ContentAt, Content
    <3>2. Told(f) = f.status
      BY <2>4 DEF Told
    <3>3. KnownAt(off) <=> key = U64(8)
      BY <1>5, <2>4
    <3> QED
      BY <1>6, <2>1, <2>4, <3>1, <3>2, <3>3 DEF size, b
  <2> QED
    BY <2>3, <2>4 DEF Messages
<1>7. CASE /\ key[0] % 8 \in {1, 5}
           /\ size = k + (IF key[0] % 8 = 1 THEN 8 ELSE 4)
           /\ f.status = {} /\ f.service = {} /\ f.valid = Messages
  <2>1. ReadAt(off) = Skipped(off + k + (IF key[0] % 8 = 1 THEN 8 ELSE 4))
    BY <1>4, <1>7 DEF skip, skip_bytes
  <2>2. off + k + (IF key[0] % 8 = 1 THEN 8 ELSE 4) = off + size
    BY <1>2, <1>7
  <2>3. ReadAt(off).ok /\ ReadAt(off).offset = off + size
    BY <1>2, <2>1, <2>2, SkippedTo
  <2>4. ~KnownAt(off) /\ Told(f) = {}
    BY <1>5, <1>7 DEF Told
  <2> QED
    BY <1>7, <2>3, <2>4 DEF size, b
<1>8. ASSUME key[0] % 8 = 2, f.status = {}, NEW l \in k + 1 .. size, IsDelimited(b, k, l),
             f.service = (IF key = U64(10) /\ IsUtf8(Text(l)) THEN {Text(l)} ELSE {}),
             f.valid = (IF key = U64(10) /\ ~IsUtf8(Text(l)) THEN {"response"} ELSE Messages)
      PROVE  /\ ReadAt(off).ok /\ ReadAt(off).offset = off + size
             /\ \/ /\ message \in f.valid /\ ~KnownAt(off) /\ Told(f) = {}
                \/ /\ message \in f.valid /\ KnownAt(off) /\ Told(f) = {ContentAt(off)}
                   /\ message = "request" => IsUtf8(ContentAt(off))
                \/ /\ message \notin f.valid /\ KnownAt(off)
                   /\ message = "request" /\ ~IsUtf8(ContentAt(off))
  <2>1. l \in Nat /\ l <= size
    BY <1>2, <1>8
  <2>2. /\ read_varint(off + k).ok /\ read_varint(off + k).offset = off + l
        /\ read_varint(off + k).value = VarintAt(b, k, l)
    BY <1>2, <1>3, <1>8, <2>1, VarintHeldIsRead DEF IsDelimited
  <2>3. ReadAt(off) = Skipped(off + size)
    <3>1. ReadAt(off) = read_length_delimited(off + k)
      BY <1>4, <1>8 DEF skip
    <3>2. Small(VarintAt(b, k, l)) /\ Number(VarintAt(b, k, l)) = size - l
      BY <1>8 DEF IsDelimited, size
    <3>3. read_length_delimited(off + k) = Skipped(off + l + Number(VarintAt(b, k, l)))
      BY <2>2, <3>2 DEF read_length_delimited
    <3>4. off + l + (size - l) = off + size
      BY <1>2, <2>1
    <3> QED
      BY <3>1, <3>2, <3>3, <3>4
  <2>4. ReadAt(off).ok /\ ReadAt(off).offset = off + size
    BY <1>2, <2>3, SkippedTo
  <2>5. CASE message = "response"
    <3>1. ~KnownAt(off) /\ Told(f) = {} /\ message \in f.valid
      BY <1>5, <1>8, <2>5 DEF Told, Messages
    <3> QED
      BY <2>4, <3>1
  <2>6. CASE message = "request"
    <3>1. KnownAt(off) <=> key = U64(10)
      BY <1>5, <2>6
    <3>2. Told(f) = f.service
      BY <2>6 DEF Told
    <3>3. KnownAt(off) => ContentAt(off) = Text(l)
      <4>1. ASSUME KnownAt(off) PROVE ContentAt(off) = SubSeq(bytes, read_varint(off + k).offset + 1, ReadAt(off).offset)
        BY <1>4, <2>6, Zenon DEF ContentAt, Content
      <4>2. read_varint(off + k).offset + 1 = off + l + 1
        BY <2>2
      <4>3. Holds(b, off, Len(b)) /\ l \in 0 .. Len(b)
        BY <1>3, <2>1, <1>2 DEF size
      <4>4. SubSeq(bytes, off + l + 1, off + size) = Text(l)
        BY <1>2, <4>3, TextMoves DEF size
      <4> QED
        BY <2>4, <4>1, <4>2, <4>4
    <3>4. message \in f.valid <=> ~(key = U64(10) /\ ~IsUtf8(Text(l)))
      BY <1>8, <2>6 DEF Messages
    <3> HIDE DEF Text
    <3>5. CASE key # U64(10)
      BY <1>8, <2>4, <3>1, <3>2, <3>4, <3>5
    <3>6. CASE key = U64(10) /\ IsUtf8(Text(l))
      BY <1>8, <2>4, <3>1, <3>2, <3>3, <3>4, <3>6
    <3>7. CASE key = U64(10) /\ ~IsUtf8(Text(l))
      BY <2>4, <2>6, <3>1, <3>3, <3>4, <3>7
    <3> QED
      BY <3>5, <3>6, <3>7
  <2> QED
    BY <2>5, <2>6 DEF Messages
<1>9. \/ /\ key[0] % 8 = 0 /\ IsVarint(b, k, size)
         /\ f.status = (IF key = U64(8) THEN {AsI32(VarintAt(b, k, size))} ELSE {})
         /\ f.service = {} /\ f.valid = Messages
      \/ /\ key[0] % 8 \in {1, 5}
         /\ size = k + (IF key[0] % 8 = 1 THEN 8 ELSE 4)
         /\ f.status = {} /\ f.service = {} /\ f.valid = Messages
      \/ /\ key[0] % 8 = 2 /\ f.status = {}
         /\ \E l \in k + 1 .. size :
               /\ IsDelimited(b, k, l)
               /\ f.service = (IF key = U64(10) /\ IsUtf8(Text(l)) THEN {Text(l)} ELSE {})
               /\ f.valid = (IF key = U64(10) /\ ~IsUtf8(Text(l)) THEN {"response"} ELSE Messages)
  BY <1>1, Zenon DEF key
<1> HIDE DEF Text
<1> QED
  BY <1>6, <1>7, <1>8, <1>9 DEF size, b

LEMMA FailedIsNotOk == ~Failed.ok
<1>1. Failed.ok = FALSE
  BY Zenon DEF Failed
<1> QED
  BY <1>1

\* Without a key there is nothing to read.
LEMMA NoKey ==
    ASSUME NEW off \in Nat, read_varint(off + 0) = Failed
    PROVE  ~ReadAt(off).ok
<1>1. off + 0 = off
  OBVIOUS
<1>2. ~read_varint(off).ok
  BY <1>1, FailedIsNotOk
<1>3. ReadAt(off) = Failed
  BY <1>2, Zenon DEF ReadAt
<1> QED
  BY <1>3, FailedIsNotOk

\* A field that is cut is refused.
LEMMA CutIsRefused ==
    ASSUME bytes \in Seq(Bytes), NEW f, f.bytes \in Seq(Bytes), WireField(f),
           NEW off \in Nat, NEW r, Holds(f.bytes, off, r), off + r = Len(bytes), r < Len(f.bytes)
    PROVE  ~ReadAt(off).ok
<1> DEFINE b == f.bytes
           size == Len(b)
<1>1. PICK k \in 1 .. size :
            /\ IsVarint(b, 0, k) /\ ValidKey(VarintAt(b, 0, k))
            /\ \/ VarintAt(b, 0, k)[0] % 8 = 0 /\ IsVarint(b, k, size)
               \/ /\ VarintAt(b, 0, k)[0] % 8 \in {1, 5}
                  /\ size = k + (IF VarintAt(b, 0, k)[0] % 8 = 1 THEN 8 ELSE 4)
               \/ /\ VarintAt(b, 0, k)[0] % 8 = 2
                  /\ \E l \in k + 1 .. size : IsDelimited(b, k, l)
  BY DEF WireField
<1> DEFINE key == VarintAt(b, 0, k)
<1>2. /\ size \in Nat /\ Len(bytes) \in Nat /\ k \in Nat /\ k <= size /\ b \in Seq(Bytes)
      /\ r \in Nat /\ r < size /\ Holds(b, off, r)
  BY Typed DEF Holds
<1> HIDE DEF b, size, key
<1>3. CASE r < k
  <2>1. IsVarint(b, 0, k) /\ 0 \in Nat /\ 0 <= r
    BY <1>1, <1>2
  <2>2. read_varint(off + 0) = Failed
    BY <1>2, <1>3, <2>1, VarintCutIsRefused
  <2> QED
    BY <2>2, NoKey
<1>4. CASE k <= r
  <2>1. ReadAt(off) = skip(off + k, key[0] % 8)
    BY <1>1, <1>2, <1>4, KeyIsRead DEF key
  <2>2. CASE key[0] % 8 = 0 /\ IsVarint(b, k, size)
    <3>1. ReadAt(off) = read_varint(off + k)
      BY <2>1, <2>2 DEF skip
    <3>2. read_varint(off + k) = Failed
      BY <1>2, <1>4, <2>2, VarintCutIsRefused
    <3> QED
      BY <3>1, <3>2, FailedIsNotOk
  <2>3. CASE key[0] % 8 \in {1, 5} /\ size = k + (IF key[0] % 8 = 1 THEN 8 ELSE 4)
    <3>1. ReadAt(off) = Skipped(off + k + (IF key[0] % 8 = 1 THEN 8 ELSE 4))
      BY <2>1, <2>3 DEF skip, skip_bytes
    <3>2. off + k + (IF key[0] % 8 = 1 THEN 8 ELSE 4) = off + size
      BY <1>2, <2>3
    <3> QED
      BY <1>2, <3>1, <3>2, SkippedTo
  <2>4. ASSUME key[0] % 8 = 2, NEW l \in k + 1 .. size, IsDelimited(b, k, l)
        PROVE  ~ReadAt(off).ok
    <3>1. ReadAt(off) = read_length_delimited(off + k)
      BY <2>1, <2>4 DEF skip
    <3>2. IsVarint(b, k, l) /\ Small(VarintAt(b, k, l)) /\ Number(VarintAt(b, k, l)) = size - l
      BY <2>4 DEF IsDelimited, size
    <3>3. CASE r < l
      <4>1. read_varint(off + k) = Failed
        BY <1>2, <1>4, <3>2, <3>3, VarintCutIsRefused
      <4>2. ReadAt(off) = Failed
        BY <3>1, <4>1, FailedIsNotOk DEF read_length_delimited
      <4> QED
        BY <4>2, FailedIsNotOk
    <3>4. CASE l <= r
      <4>1. /\ read_varint(off + k).ok /\ read_varint(off + k).offset = off + l
            /\ read_varint(off + k).value = VarintAt(b, k, l)
        BY <1>2, <3>2, <3>4, VarintHeldIsRead
      <4>2. ReadAt(off) = Skipped(off + l + (size - l))
        BY <3>1, <3>2, <4>1 DEF read_length_delimited
      <4>3. ~(off + l + (size - l) <= Len(bytes))
        BY <1>2, <2>4
      <4> QED
        BY <4>2, <4>3, SkippedTo
    <3> QED
      BY <1>2, <2>4, <3>3, <3>4
  <2> QED
    BY <1>1, <2>2, <2>3, <2>4 DEF key
<1> QED
  BY <1>2, <1>3, <1>4

\* What is no field is refused, cut or not.
LEMMA BrokenIsRefused ==
    ASSUME bytes \in Seq(Bytes), NEW f, f.bytes \in Seq(Bytes), BrokenField(f),
           NEW off \in Nat, NEW r, Holds(f.bytes, off, r),
           r = Len(f.bytes) \/ off + r = Len(bytes)
    PROVE  ~ReadAt(off).ok
<1> DEFINE b == f.bytes
           size == Len(b)
<1>1. \/ IsTooLong(b, 0)
      \/ \E k \in 1 .. size :
            /\ IsVarint(b, 0, k)
            /\ \/ ~ValidKey(VarintAt(b, 0, k))
               \/ VarintAt(b, 0, k)[0] % 8 \in {0, 2} /\ IsTooLong(b, k)
               \/ /\ VarintAt(b, 0, k)[0] % 8 = 2
                  /\ \E l \in k + 1 .. size : IsVarint(b, k, l) /\ ~Small(VarintAt(b, k, l))
  BY DEF BrokenField
<1>2. /\ size \in Nat /\ Len(bytes) \in Nat /\ b \in Seq(Bytes)
      /\ r \in Nat /\ r <= size /\ Holds(b, off, r) /\ (r = size \/ off + r = Len(bytes))
  BY Typed DEF Holds
<1> HIDE DEF b, size
<1>3. CASE IsTooLong(b, 0)
  <2>1. read_varint(off + 0) = Failed
    BY <1>2, <1>3, TooLongHeldIsRefused DEF size
  <2> QED
    BY <2>1, NoKey
<1>4. ASSUME NEW k \in 1 .. size, IsVarint(b, 0, k),
             \/ ~ValidKey(VarintAt(b, 0, k))
             \/ VarintAt(b, 0, k)[0] % 8 \in {0, 2} /\ IsTooLong(b, k)
             \/ /\ VarintAt(b, 0, k)[0] % 8 = 2
                /\ \E l \in k + 1 .. size : IsVarint(b, k, l) /\ ~Small(VarintAt(b, k, l))
      PROVE  ~ReadAt(off).ok
  <2> DEFINE key == VarintAt(b, 0, k)
  <2>1. k \in Nat
    BY <1>2, <1>4
  <2>2. CASE r < k
    <3>1. off + r = Len(bytes)
      BY <1>2, <1>4, <2>1, <2>2
    <3>2. read_varint(off + 0) = Failed
      <4>1. IsVarint(b, 0, k) /\ 0 \in Nat /\ 0 <= r
        BY <1>2, <1>4
      <4> HIDE DEF key
      <4> QED
        BY <1>2, <2>2, <3>1, <4>1, VarintCutIsRefused
    <3> QED
      BY <3>2, NoKey
  <2>3. CASE k <= r /\ ~ValidKey(key)
    <3>1. ReadAt(off) = Failed
      BY <1>2, <1>4, <2>3, KeyIsRead
    <3> QED
      BY <3>1, FailedIsNotOk
  <2>4. CASE k <= r /\ ValidKey(key) /\ key[0] % 8 \in {0, 2} /\ IsTooLong(b, k)
    <3>1. ReadAt(off) = skip(off + k, key[0] % 8)
      BY <1>2, <1>4, <2>4, KeyIsRead
    <3>2. read_varint(off + k) = Failed
      BY <1>2, <2>1, <2>4, TooLongHeldIsRefused DEF size
    <3> HIDE DEF key
    <3>3. CASE key[0] % 8 = 0
      <4>1. ReadAt(off) = read_varint(off + k)
        BY <3>1, <3>3 DEF skip
      <4> QED
        BY <3>2, <4>1, FailedIsNotOk
    <3>4. CASE key[0] % 8 = 2
      <4>1. ReadAt(off) = read_length_delimited(off + k)
        BY <3>1, <3>4 DEF skip
      <4>2. ReadAt(off) = Failed
        BY <3>2, <4>1, FailedIsNotOk DEF read_length_delimited
      <4> QED
        BY <4>2, FailedIsNotOk
    <3> QED
      BY <2>4, <3>3, <3>4
  <2>5. ASSUME k <= r, ValidKey(key), key[0] % 8 = 2,
               NEW l \in k + 1 .. size, IsVarint(b, k, l), ~Small(VarintAt(b, k, l))
        PROVE  ~ReadAt(off).ok
    <3>1. ReadAt(off) = skip(off + k, key[0] % 8)
      BY <1>2, <1>4, <2>5, KeyIsRead
    <3>2. l \in Nat
      BY <1>2, <2>1
    <3>3. ReadAt(off) = read_length_delimited(off + k)
      BY <2>5, <3>1 DEF skip
    <3>4. CASE l <= r
      <4>1. /\ read_varint(off + k).ok /\ read_varint(off + k).offset = off + l
            /\ read_varint(off + k).value = VarintAt(b, k, l)
        BY <1>2, <2>1, <2>5, <3>4, VarintHeldIsRead
      <4>2. ReadAt(off) = Failed
        BY <2>5, <3>3, <4>1 DEF read_length_delimited
      <4> QED
        BY <4>2, FailedIsNotOk
    <3>5. CASE r < l
      <4>1. off + r = Len(bytes)
        BY <1>2, <2>5, <3>2, <3>5
      <4>2. read_varint(off + k) = Failed
        BY <1>2, <2>1, <2>5, <3>5, <4>1, VarintCutIsRefused
      <4>3. ReadAt(off) = Failed
        BY <3>3, <4>2, FailedIsNotOk DEF read_length_delimited
      <4> QED
        BY <4>3, FailedIsNotOk
    <3> QED
      BY <1>2, <3>2, <3>4, <3>5
  <2> HIDE DEF key
  <2>6. r < k \/ k <= r
    BY <1>2, <2>1
  <2> QED
    BY <1>4, <2>2, <2>3, <2>4, <2>5, <2>6 DEF key
<1> QED
  BY <1>1, <1>3, <1>4

-----------------------------------------------------------------------------
(***************************************************************************)
(* Induction up to a bound, for a set of numbers.                          *)
(***************************************************************************)

\* A set that has 0, and with a number below n the next one, has 0 to n: else
\* the numbers up to a missing one that are missing would map one to one into
\* themselves, by i - 1, and yet miss the greatest.
LEMMA SetInduction ==
    ASSUME NEW n \in Nat, NEW T, 0 \in T, \A i \in 0 .. n - 1 : i \in T => i + 1 \in T
    PROVE  0 .. n \subseteq T
<1> SUFFICES ASSUME NEW c \in 0 .. n, c \notin T PROVE FALSE
  OBVIOUS
<1> DEFINE E == {i \in 0 .. c : i \notin T}
           f == [i \in E |-> i - 1]
<1>1. \A i \in E : i # 0 /\ i - 1 \in E
  OBVIOUS
<1>2. f \in Injection(E, E)
  BY <1>1 DEF Injection, IsInjective
<1>3. IsFiniteSet(E)
  <2>1. IsFiniteSet(0 .. c)
    BY FS_Interval
  <2> QED
    BY <2>1, FS_Subset
<1>4. f \in Surjection(E, E)
  <2> HIDE DEF E, f
  <2> QED
    BY <1>2, <1>3, FS_Injection
<1>5. c \in E /\ \A i \in E : f[i] # c
  OBVIOUS
<1> HIDE DEF E, f
<1> QED
  BY <1>4, <1>5 DEF Surjection

\* A set of numbers that has a bound has a greatest.
LEMMA MaxExists ==
    ASSUME NEW n \in Nat, NEW S, S \subseteq 0 .. n, NEW a \in S
    PROVE  Max(S) \in S /\ \A x \in S : x <= Max(S)
<1>1. \E m \in S : \A x \in S : x <= m
  <2> SUFFICES ASSUME \A m \in S : \E x \in S : x > m PROVE FALSE
    <3>1. S \subseteq Nat
      OBVIOUS
    <3> QED
      BY <3>1
  <2> DEFINE T == {k \in 0 .. n : \E x \in S : x >= k}
  <2>1. 0 \in T
    OBVIOUS
  <2>2. \A i \in 0 .. n - 1 : i \in T => i + 1 \in T
    <3> SUFFICES ASSUME NEW i \in 0 .. n - 1, NEW y \in S, y >= i PROVE \E x \in S : x >= i + 1
      OBVIOUS
    <3>1. PICK x \in S : x > y
      OBVIOUS
    <3>2. x \in Nat /\ y \in Nat
      OBVIOUS
    <3> QED
      BY <3>1, <3>2
  <2> HIDE DEF T
  <2>3. n \in T
    <3>1. 0 .. n \subseteq T
      BY <2>1, <2>2, SetInduction
    <3> QED
      BY <3>1
  <2>4. PICK x \in S : x >= n
    BY <2>3 DEF T
  <2>5. PICK y \in S : y > x
    OBVIOUS
  <2>6. x \in 0 .. n /\ y \in 0 .. n
    OBVIOUS
  <2> QED
    BY <2>4, <2>5, <2>6
<1>2. PICK m \in S : \A x \in S : x <= m
  BY <1>1
<1>3. Max(S) = m
  <2>1. S \subseteq Nat
    OBVIOUS
  <2> QED
    BY <1>2, <2>1, MaxIs
<1> QED
  BY <1>2, <1>3

-----------------------------------------------------------------------------
(***************************************************************************)
(* The fields of a peer, one after another.                                *)
(***************************************************************************)

\* Each field is added to those before it.
LEMMA WireSteps ==
    ASSUME NEW fs, Len(fs) \in Nat
    PROVE  /\ Wire(fs, 0) = <<>>
           /\ \A n \in 0 .. Len(fs) - 1 : Wire(fs, n + 1) = Wire(fs, n) \o fs[n + 1].bytes
<1> DEFINE n == Len(fs)
           Join(x, i) == x \o fs[i].bytes
           Step(g, i) == IF i = 0 THEN <<>> ELSE Join(g[i - 1], i)
           T == {k \in 0 .. n : \E g : g = [i \in 0 .. k |-> Step(g, i)]}
           R == CHOOSE g : g = [i \in 0 .. n |-> Step(g, i)]
<1>1. \A k : Wire(fs, k) = R[k]
  BY DEF Wire
<1>2. n \in Nat
  OBVIOUS
<1> HIDE DEF Join, Step, n, R
<1>3. 0 \in T
  <2> DEFINE g == [i \in 0 .. 0 |-> Step(<<>>, 0)]
  <2>1. \A h : \A i \in 0 .. 0 : Step(h, i) = Step(<<>>, 0)
    BY DEF Step
  <2>2. g = [i \in 0 .. 0 |-> Step(g, i)]
    BY <2>1
  <2> HIDE DEF g
  <2> QED
    BY <1>2, <2>2
<1>4. \A k \in 0 .. n - 1 : k \in T => k + 1 \in T
  <2> SUFFICES ASSUME NEW k \in 0 .. n - 1, NEW g, g = [i \in 0 .. k |-> Step(g, i)]
               PROVE  \E h : h = [i \in 0 .. k + 1 |-> Step(h, i)]
    BY <1>2
  <2> DEFINE h == [i \in 0 .. k + 1 |-> IF i <= k THEN g[i] ELSE Step(g, i)]
  <2>1. \A i \in 0 .. k : g[i] = Step(g, i) /\ h[i] = g[i]
    OBVIOUS
  <2>2. h[k + 1] = Step(g, k + 1)
    OBVIOUS
  <2>3. h = [i \in 0 .. k + 1 |-> h[i]]
    OBVIOUS
  <2> HIDE DEF h
  <2>4. ASSUME NEW i \in 0 .. k + 1 PROVE Step(h, i) = Step(g, i)
    <3>1. i # 0 => h[i - 1] = g[i - 1]
      BY <2>1
    <3> QED
      BY <3>1, Zenon DEF Step
  <2>5. \A i \in 0 .. k + 1 : h[i] = Step(h, i)
    BY <2>1, <2>2, <2>4
  <2>6. h = [i \in 0 .. k + 1 |-> Step(h, i)]
    BY <2>3, <2>5
  <2> QED
    BY <2>6
<1>5. n \in T
  <2> HIDE DEF T
  <2>1. 0 .. n \subseteq T
    BY <1>2, <1>3, <1>4, SetInduction
  <2> QED
    BY <1>2, <2>1
<1>6. R = [i \in 0 .. n |-> Step(R, i)]
  BY <1>5 DEF R
<1>7. \A i \in 0 .. n : R[i] = Step(R, i)
  BY <1>6
<1>8. R[0] = <<>>
  <2>1. R[0] = Step(R, 0)
    BY <1>2, <1>7
  <2> QED
    BY <2>1, Zenon DEF Step
<1>9. ASSUME NEW k \in 0 .. n - 1 PROVE R[k + 1] = Join(R[k], k + 1)
  <2>1. k + 1 \in 0 .. n /\ k + 1 # 0 /\ (k + 1) - 1 = k
    BY <1>2
  <2>2. R[k + 1] = Step(R, k + 1)
    BY <1>7, <2>1
  <2> QED
    BY <2>1, <2>2, Zenon DEF Step
<1>10. ASSUME NEW k \in 0 .. n - 1 PROVE Wire(fs, k + 1) = Wire(fs, k) \o fs[k + 1].bytes
  BY <1>1, <1>9, Zenon DEF Join
<1>11. Wire(fs, 0) = <<>>
  BY <1>1, <1>8, Zenon
<1> QED
  BY <1>10, <1>11, Zenon DEF n

\* Every field has a byte.
LEMMA FieldsTyped ==
    ASSUME NEW f \in Fields
    PROVE  /\ f.bytes \in Seq(Bytes) /\ Len(f.bytes) \in Nat \ {0}
           /\ WireField(f) \/ BrokenField(f)
<1>1. f.bytes \in Seq(Bytes) /\ (WireField(f) \/ BrokenField(f))
  BY HealthCodecAssumption DEF Bytes
<1>2. Len(f.bytes) \in Nat
  BY <1>1, Typed
<1>3. CASE WireField(f)
  <2>1. \E k \in 1 .. Len(f.bytes) : IsVarint(f.bytes, 0, k)
    BY <1>3, Zenon DEF WireField
  <2> QED
    BY <1>1, <1>2, <2>1
<1>4. CASE BrokenField(f)
  <2>1. IsTooLong(f.bytes, 0) \/ \E k \in 1 .. Len(f.bytes) : IsVarint(f.bytes, 0, k)
    BY <1>4, Zenon DEF BrokenField
  <2>2. IsTooLong(f.bytes, 0) => 10 <= Len(f.bytes)
    BY <1>2 DEF IsTooLong
  <2> QED
    BY <1>1, <1>2, <2>1, <2>2
<1> QED
  BY <1>1, <1>2, <1>3, <1>4

LEMMA WireTyped ==
    ASSUME NEW fs \in Seq(Fields)
    PROVE  \A n \in 0 .. Len(fs) : Wire(fs, n) \in Seq(Bytes) /\ Len(Wire(fs, n)) \in Nat
<1>1. Len(fs) \in Nat /\ \A i \in 1 .. Len(fs) : fs[i] \in Fields
  BY ElementOfSeq, LenProperties
<1> DEFINE T == {n \in 0 .. Len(fs) : Wire(fs, n) \in Seq(Bytes)}
<1>2. 0 \in T
  <2>1. Wire(fs, 0) = <<>>
    BY <1>1, WireSteps
  <2>2. Wire(fs, 0) \in Seq(Bytes)
    BY <2>1, EmptySeq
  <2> QED
    BY <1>1, <2>2
<1>3. \A n \in 0 .. Len(fs) - 1 : n \in T => n + 1 \in T
  <2> SUFFICES ASSUME NEW n \in 0 .. Len(fs) - 1, Wire(fs, n) \in Seq(Bytes)
               PROVE  Wire(fs, n + 1) \in Seq(Bytes)
    BY <1>1
  <2>1. n + 1 \in 1 .. Len(fs) /\ n + 1 - 1 = n
    BY <1>1
  <2>2. Wire(fs, n + 1) = Wire(fs, n) \o fs[n + 1].bytes
    BY <1>1, WireSteps, Zenon
  <2>3. fs[n + 1].bytes \in Seq(Bytes)
    BY <1>1, <2>1, FieldsTyped
  <2> QED
    BY <2>2, <2>3, ConcatProperties
<1>4. 0 .. Len(fs) \subseteq T
  <2> HIDE DEF T
  <2> QED
    BY <1>1, <1>2, <1>3, SetInduction
<1> QED
  BY <1>4, Typed

\* Adding a field, in numbers.
LEMMA WireGrows ==
    ASSUME NEW fs \in Seq(Fields), NEW n \in 0 .. Len(fs), n < Len(fs)
    PROVE  /\ n + 1 \in 1 .. Len(fs) /\ fs[n + 1] \in Fields
           /\ Len(Wire(fs, n + 1)) = Len(Wire(fs, n)) + Len(fs[n + 1].bytes)
           /\ \A i \in 1 .. Len(Wire(fs, n)) : Wire(fs, n + 1)[i] = Wire(fs, n)[i]
           /\ \A i \in 1 .. Len(fs[n + 1].bytes) :
                  Wire(fs, n + 1)[Len(Wire(fs, n)) + i] = fs[n + 1].bytes[i]
<1>1. Len(fs) \in Nat /\ \A i \in 1 .. Len(fs) : fs[i] \in Fields
  BY ElementOfSeq, LenProperties
<1> DEFINE s == Wire(fs, n)
           t == fs[n + 1].bytes
<1>2. n + 1 \in 1 .. Len(fs) /\ n \in 0 .. Len(fs) - 1
  BY <1>1
<1>3. Wire(fs, n + 1) = s \o t
  BY <1>1, <1>2, WireSteps, Zenon
<1>4. s \in Seq(Bytes) /\ t \in Seq(Bytes) /\ Len(s) \in Nat /\ Len(t) \in Nat
  BY <1>1, <1>2, WireTyped, FieldsTyped
<1> HIDE DEF s, t
<1>5. /\ Len(s \o t) = Len(s) + Len(t)
      /\ \A i \in 1 .. Len(s) + Len(t) : (s \o t)[i] = IF i <= Len(s) THEN s[i] ELSE t[i - Len(s)]
  BY <1>4, ConcatProperties
<1>6. \A i \in 1 .. Len(s) : (s \o t)[i] = s[i]
  BY <1>4, <1>5
<1>7. ASSUME NEW i \in 1 .. Len(t) PROVE (s \o t)[Len(s) + i] = t[i]
  <2>1. Len(s) + i \in 1 .. Len(s) + Len(t) /\ ~(Len(s) + i <= Len(s)) /\ Len(s) + i - Len(s) = i
    BY <1>4
  <2> QED
    BY <1>5, <2>1
<1> QED
  BY <1>1, <1>2, <1>3, <1>5, <1>6, <1>7 DEF s, t

\* The first fields are a beginning of all of them.
LEMMA WireBegins ==
    ASSUME NEW fs \in Seq(Fields), NEW m \in 0 .. Len(fs), NEW n \in 0 .. m
    PROVE  /\ Len(Wire(fs, n)) <= Len(Wire(fs, m))
           /\ \A i \in 1 .. Len(Wire(fs, n)) : Wire(fs, m)[i] = Wire(fs, n)[i]
<1> DEFINE P(k) == /\ Len(Wire(fs, n)) <= Len(Wire(fs, k))
                   /\ \A i \in 1 .. Len(Wire(fs, n)) : Wire(fs, k)[i] = Wire(fs, n)[i]
           T == {d \in 0 .. Len(fs) - n : P(n + d)}
<1>1. Len(fs) \in Nat /\ n \in Nat /\ m \in Nat /\ n <= m /\ m <= Len(fs)
  BY LenProperties
<1>2. \A k \in 0 .. Len(fs) : Len(Wire(fs, k)) \in Nat
  BY WireTyped
<1>3. 0 \in T
  <2>1. n + 0 = n /\ 0 \in 0 .. Len(fs) - n /\ n \in 0 .. Len(fs)
    BY <1>1
  <2>2. P(n)
    BY <1>2, <2>1
  <2> HIDE DEF P
  <2> QED
    BY <2>1, <2>2
<1>4. \A d \in 0 .. (Len(fs) - n) - 1 : d \in T => d + 1 \in T
  <2> SUFFICES ASSUME NEW d \in 0 .. (Len(fs) - n) - 1, P(n + d) PROVE P(n + d + 1)
    <3>1. \A d \in 0 .. (Len(fs) - n) - 1 : n + (d + 1) = n + d + 1 /\ d + 1 \in 0 .. Len(fs) - n
      BY <1>1
    <3> HIDE DEF P
    <3> QED
      BY <3>1
  <2>1. n + d \in 0 .. Len(fs) /\ n + d < Len(fs) /\ n \in 0 .. Len(fs) /\ n + d + 1 \in 0 .. Len(fs)
    BY <1>1
  <2>2. /\ Len(Wire(fs, n + d + 1)) = Len(Wire(fs, n + d)) + Len(fs[n + d + 1].bytes)
        /\ fs[n + d + 1] \in Fields
        /\ \A i \in 1 .. Len(Wire(fs, n + d)) : Wire(fs, n + d + 1)[i] = Wire(fs, n + d)[i]
    BY <2>1, WireGrows
  <2>3. Len(fs[n + d + 1].bytes) \in Nat
    BY <2>2, FieldsTyped
  <2>4. Len(Wire(fs, n)) \in Nat /\ Len(Wire(fs, n + d)) \in Nat
    BY <1>2, <2>1
  <2>5. Len(Wire(fs, n)) <= Len(Wire(fs, n + d + 1))
    <3> DEFINE x == Len(Wire(fs, n))
               y == Len(Wire(fs, n + d))
               z == Len(fs[n + d + 1].bytes)
    <3>1. x <= y
      OBVIOUS
    <3>2. x \in Nat /\ y \in Nat /\ z \in Nat
      BY <2>3, <2>4
    <3>3. Len(Wire(fs, n + d + 1)) = y + z
      BY <2>2
    <3> HIDE DEF x, y, z, P
    <3>4. x <= y + z
      BY <3>1, <3>2
    <3> QED
      BY <3>3, <3>4 DEF x
  <2>6. ASSUME NEW i \in 1 .. Len(Wire(fs, n)) PROVE Wire(fs, n + d + 1)[i] = Wire(fs, n)[i]
    <3>1. i \in 1 .. Len(Wire(fs, n + d))
      BY <2>4
    <3>2. Wire(fs, n + d + 1)[i] = Wire(fs, n + d)[i]
      BY <2>2, <3>1
    <3>3. Wire(fs, n + d)[i] = Wire(fs, n)[i]
      OBVIOUS
    <3> QED
      BY <3>2, <3>3
  <2> QED
    BY <2>5, <2>6
<1>5. m - n \in T
  <2> HIDE DEF T
  <2>1. 0 .. Len(fs) - n \subseteq T
    BY <1>1, <1>3, <1>4, SetInduction
  <2> QED
    BY <1>1, <2>1
<1>6. n + (m - n) = m
  BY <1>1
<1>7. P(m)
  <2> HIDE DEF P
  <2> QED
    BY <1>5, <1>6
<1> QED
  BY <1>7

-----------------------------------------------------------------------------
(***************************************************************************)
(* The invariant.                                                          *)
(***************************************************************************)

\* The payload is a beginning of what the peer wrote.
Cut ==
    LET all == Wire(fields, Len(fields))
    IN  Len(bytes) <= Len(all) /\ \A i \in 1 .. Len(bytes) : bytes[i] = all[i]

\* The decoder is after the first n fields, all valid, and has what they say.
Reached(n) ==
    /\ offset = Len(Wire(fields, n))
    /\ \A i \in 1 .. n : message \in fields[i].valid
    /\ value \in Meaning(n)

FromPeer ==
    /\ fields \in Seq(Fields) /\ Cut
    /\ pc = "reading" => \E n \in 0 .. Len(fields) : Reached(n)
    /\ pc = "failed" => ~WellFormed
    /\ pc = "decoded" => WellFormed /\ value \in Meaning(Whole)

Values == IF message = "request" THEN Services ELSE Statuses

FromCodec ==
    \E v \in Values :
        /\ sent = {v} /\ bytes = encode_into(message, v)
        /\ \/ pc = "reading" /\ offset = 0 /\ value = Default(message) /\ v # Default(message)
           \/ pc \in {"reading", "decoded"} /\ offset = Len(bytes) /\ value = v

CodecInv ==
    /\ message \in Messages /\ pc \in {"reading", "decoded", "failed"}
    /\ bytes \in Seq(Bytes) /\ offset \in Nat /\ offset <= Len(bytes)
    /\ sent = {} => FromPeer
    /\ sent # {} => FromCodec

\* The payload has the next field, or what is left of it.
LEMMA FieldIsHeld ==
    ASSUME bytes \in Seq(Bytes), fields \in Seq(Fields), Cut, NEW n \in 0 .. Len(fields),
           Len(Wire(fields, n)) < Len(bytes)
    PROVE  /\ n < Len(fields)
           /\ LET off == Len(Wire(fields, n))
                  f == fields[n + 1]
              IN  /\ off \in Nat /\ f \in Fields /\ n + 1 \in 1 .. Len(fields)
                  /\ Len(Wire(fields, n + 1)) = off + Len(f.bytes)
                  /\ \/ /\ Len(Wire(fields, n + 1)) <= Len(bytes)
                        /\ Holds(f.bytes, off, Len(f.bytes))
                     \/ /\ Len(Wire(fields, n + 1)) > Len(bytes)
                        /\ Holds(f.bytes, off, Len(bytes) - off)
                        /\ off + (Len(bytes) - off) = Len(bytes) /\ Len(bytes) - off < Len(f.bytes)
<1> DEFINE N == Len(fields)
           off == Len(Wire(fields, n))
           f == fields[n + 1]
           next == Wire(fields, n + 1)
<1>1. N \in Nat /\ Len(bytes) \in Nat /\ n \in Nat /\ n <= N /\ N \in 0 .. N
  BY Typed, LenProperties
<1>2. off \in Nat /\ off < Len(bytes) /\ Len(Wire(fields, N)) \in Nat
  BY <1>1, WireTyped
<1>3. n < N
  BY <1>1, <1>2 DEF Cut
<1>4. /\ n + 1 \in 1 .. N /\ f \in Fields
      /\ Len(next) = off + Len(f.bytes)
      /\ \A i \in 1 .. Len(f.bytes) : next[off + i] = f.bytes[i]
  BY <1>3, WireGrows
<1>5. Len(f.bytes) \in Nat
  BY <1>4, FieldsTyped
<1>6. \A i \in 1 .. Len(next) : Wire(fields, N)[i] = next[i]
  <2>1. n + 1 \in 0 .. N
    BY <1>1, <1>4
  <2> QED
    BY <1>1, <2>1, WireBegins
<1>7. ASSUME NEW r \in Nat, r <= Len(f.bytes), off + r <= Len(bytes)
      PROVE  Holds(f.bytes, off, r)
  <2>1. ASSUME NEW i \in 1 .. r PROVE bytes[off + i] = f.bytes[i]
    <3>1. /\ off + i \in 1 .. Len(bytes) /\ off + i \in 1 .. off + Len(f.bytes)
          /\ i \in 1 .. Len(f.bytes)
      BY <1>1, <1>2, <1>5, <1>7, <2>1
    <3>2. bytes[off + i] = Wire(fields, N)[off + i]
      BY <3>1 DEF Cut
    <3>3. Wire(fields, N)[off + i] = next[off + i]
      BY <1>4, <1>6, <3>1
    <3> QED
      BY <1>4, <3>1, <3>2, <3>3
  <2>2. r \in 0 .. Len(f.bytes)
    BY <1>5, <1>7
  <2> HIDE DEF off, f
  <2> QED
    BY <1>7, <2>1, <2>2 DEF Holds
<1> HIDE DEF N, off, f, next
<1>8. CASE off + Len(f.bytes) <= Len(bytes)
  <2>1. Holds(f.bytes, off, Len(f.bytes))
    BY <1>5, <1>7, <1>8
  <2> QED
    BY <1>2, <1>3, <1>4, <1>8, <2>1 DEF N, off, f, next
<1>9. CASE off + Len(f.bytes) > Len(bytes)
  <2>1. /\ Len(bytes) - off \in Nat /\ Len(bytes) - off < Len(f.bytes)
        /\ off + (Len(bytes) - off) = Len(bytes)
    BY <1>1, <1>2, <1>5, <1>9
  <2>2. Holds(f.bytes, off, Len(bytes) - off)
    BY <1>1, <1>5, <1>7, <2>1
  <2> QED
    BY <1>2, <1>3, <1>4, <1>9, <2>1, <2>2 DEF N, off, f, next
<1> QED
  BY <1>1, <1>2, <1>5, <1>8, <1>9

\* Whole is the last field that ends before the cut.
LEMMA WholeEnds ==
    ASSUME fields \in Seq(Fields), bytes \in Seq(Bytes)
    PROVE  /\ Whole \in 0 .. Len(fields) /\ Len(Wire(fields, Whole)) <= Len(bytes)
           /\ \A n \in 0 .. Len(fields) : Len(Wire(fields, n)) <= Len(bytes) => n <= Whole
<1> DEFINE S == {n \in 0 .. Len(fields) : Len(Wire(fields, n)) <= Len(bytes)}
<1>1. Len(fields) \in Nat /\ Len(bytes) \in Nat
  BY Typed, LenProperties
<1>2. 0 \in S
  <2>1. Wire(fields, 0) = <<>>
    BY <1>1, WireSteps
  <2>2. Len(Wire(fields, 0)) = 0
    BY <2>1, EmptySeq
  <2> QED
    BY <1>1, <2>2
<1>3. Whole = Max(S)
  BY DEF Whole
<1>4. S \subseteq 0 .. Len(fields)
  OBVIOUS
<1>5. \A n : n \in S <=> n \in 0 .. Len(fields) /\ Len(Wire(fields, n)) <= Len(bytes)
  OBVIOUS
<1> HIDE DEF S
<1>6. Max(S) \in S /\ \A x \in S : x <= Max(S)
  BY <1>1, <1>2, <1>4, MaxExists
<1> QED
  BY <1>3, <1>5, <1>6

\* A turn of decode, in terms of what is read at the offset.
LEMMA Turn ==
    ASSUME DecodeField
    PROVE  /\ pc = "reading" /\ offset < Len(bytes)
           /\ message' = message /\ bytes' = bytes /\ fields' = fields /\ sent' = sent
           /\ LET refused == \/ ~ReadAt(offset).ok
                             \/ KnownAt(offset) /\ message = "request" /\ ~IsUtf8(ContentAt(offset))
              IN  \/ refused /\ pc' = "failed" /\ offset' = offset /\ value' = value
                  \/ /\ ~refused /\ pc' = pc /\ offset' = ReadAt(offset).offset
                     /\ value' = IF KnownAt(offset) THEN ContentAt(offset) ELSE value
<1>1. /\ pc = "reading" /\ offset < Len(bytes)
      /\ message' = message /\ bytes' = bytes /\ fields' = fields /\ sent' = sent
  BY DEF DecodeField
<1>2. IF \/ ~ReadAt(offset).ok
         \/ KnownAt(offset) /\ message = "request" /\ ~IsUtf8(ContentAt(offset))
      THEN Fail
      ELSE /\ offset' = ReadAt(offset).offset
           /\ value' = IF KnownAt(offset) THEN ContentAt(offset) ELSE value
           /\ pc' = pc
  BY Zenon DEF DecodeField, ReadAt, KnownAt, ContentAt
<1> QED
  BY <1>1, <1>2, Zenon DEF Fail

\* What the fields say when there is one more.
LEMMA MeaningGrows ==
    ASSUME NEW n \in Nat
    PROVE  /\ Told(fields[n + 1]) = {} => Meaning(n + 1) = Meaning(n)
           /\ Told(fields[n + 1]) # {} => Meaning(n + 1) = Told(fields[n + 1])
<1> DEFINE S(m) == {i \in 1 .. m : Told(fields[i]) # {}}
           M(T) == IF T = {} THEN {Default(message)} ELSE Told(fields[Max(T)])
<1>1. \A m : Meaning(m) = M(S(m))
  BY Zenon DEF Meaning
<1>2. ASSUME Told(fields[n + 1]) = {} PROVE S(n + 1) = S(n)
  <2>1. \A i : i \in 1 .. n + 1 <=> i \in 1 .. n \/ i = n + 1
    OBVIOUS
  <2> QED
    BY <1>2, <2>1, Zenon
<1>3. ASSUME Told(fields[n + 1]) # {} PROVE S(n + 1) # {} /\ Max(S(n + 1)) = n + 1
  <2>1. n + 1 \in S(n + 1)
    BY <1>3
  <2>2. S(n + 1) \subseteq Nat /\ \A x \in S(n + 1) : x <= n + 1
    OBVIOUS
  <2> HIDE DEF S
  <2> QED
    BY <2>1, <2>2, MaxIs
<1> HIDE DEF S
<1>4. ASSUME Told(fields[n + 1]) = {} PROVE Meaning(n + 1) = Meaning(n)
  BY <1>1, <1>2, <1>4, Zenon
<1>5. ASSUME Told(fields[n + 1]) # {} PROVE Meaning(n + 1) = Told(fields[n + 1])
  BY <1>1, <1>3, <1>5, Zenon
<1> QED
  BY <1>4, <1>5

LEMMA MeaningOfNone == Meaning(0) = {Default(message)}
<1>1. {i \in 1 .. 0 : Told(fields[i]) # {}} = {}
  OBVIOUS
<1> QED
  BY <1>1, Zenon DEF Meaning

\* Properties of what does not change.
LEMMA PeerUnmoved ==
    ASSUME message' = message, bytes' = bytes, fields' = fields
    PROVE  /\ Cut' <=> Cut
           /\ WellFormed' <=> WellFormed
           /\ Whole' = Whole
           /\ \A n : Meaning(n)' = Meaning(n)
<1>1. Cut' <=> Cut
  BY Zenon DEF Cut
<1>2. Whole' = Whole
  BY Zenon DEF Whole
<1>3. WellFormed' <=> WellFormed
  BY <1>2, Zenon DEF WellFormed
<1>4. \A n : Meaning(n)' = Meaning(n)
  BY Zenon DEF Meaning, Told, Default
<1> QED
  BY <1>1, <1>2, <1>3, <1>4, Zenon

\* A payload with a field that is cut, or whole and not valid, is not well
\* formed.
LEMMA NotWellFormed ==
    ASSUME fields \in Seq(Fields), bytes \in Seq(Bytes), NEW n \in 0 .. Len(fields), n < Len(fields),
           Len(Wire(fields, n)) < Len(bytes),
           \/ Len(Wire(fields, n + 1)) > Len(bytes)
           \/ Len(Wire(fields, n + 1)) <= Len(bytes) /\ message \notin fields[n + 1].valid
    PROVE  ~WellFormed
<1>1. Len(fields) \in Nat /\ n \in Nat /\ n + 1 \in 0 .. Len(fields) /\ Len(bytes) \in Nat
  BY Typed, LenProperties
<1>2. Len(Wire(fields, n)) \in Nat /\ Len(Wire(fields, n + 1)) \in Nat
  BY <1>1, WireTyped
<1>3. Whole \in 0 .. Len(fields) /\ Len(Wire(fields, Whole)) <= Len(bytes) /\ n <= Whole
  BY <1>1, <1>2, WholeEnds
<1>4. CASE Len(Wire(fields, n + 1)) > Len(bytes)
  <2>1. ASSUME Whole >= n + 1 PROVE FALSE
    <3>1. n + 1 \in 0 .. Whole
      BY <1>1, <1>3, <2>1
    <3>2. Len(Wire(fields, n + 1)) <= Len(Wire(fields, Whole))
      BY <1>3, <3>1, WireBegins
    <3>3. Len(Wire(fields, Whole)) \in Nat
      BY <1>3, WireTyped
    <3> QED
      BY <1>1, <1>2, <1>3, <1>4, <3>2, <3>3
  <2>2. Whole = n
    BY <1>1, <1>3, <2>1
  <2>3. ASSUME Wire(fields, n) = bytes PROVE FALSE
    <3>1. Len(Wire(fields, n)) = Len(bytes)
      BY <2>3
    <3> QED
      BY <1>1, <3>1
  <2> QED
    BY <2>2, <2>3, Zenon DEF WellFormed
<1>5. CASE Len(Wire(fields, n + 1)) <= Len(bytes) /\ message \notin fields[n + 1].valid
  <2>1. n + 1 <= Whole
    BY <1>1, <1>5, WholeEnds
  <2>2. n + 1 \in 1 .. Whole
    BY <1>1, <1>3, <2>1
  <2> QED
    BY <1>5, <2>2, Zenon DEF WellFormed
<1> QED
  BY <1>4, <1>5

\* A turn of decode on what a peer wrote.
LEMMA PeerTurn ==
    ASSUME CodecInv, sent = {}, DecodeField
    PROVE  CodecInv'
<1>1. /\ pc = "reading" /\ offset < Len(bytes)
      /\ message' = message /\ bytes' = bytes /\ fields' = fields /\ sent' = sent
  BY Turn
<1>2. /\ message \in Messages /\ bytes \in Seq(Bytes) /\ offset \in Nat /\ offset <= Len(bytes)
      /\ fields \in Seq(Fields) /\ Cut
  BY DEF CodecInv, FromPeer
<1>3. PICK n \in 0 .. Len(fields) : Reached(n)
  BY <1>1 DEF CodecInv, FromPeer
<1>4. offset = Len(Wire(fields, n))
  BY <1>3 DEF Reached
<1> DEFINE f == fields[n + 1]
<1>5. /\ n < Len(fields) /\ f \in Fields /\ n + 1 \in 1 .. Len(fields)
      /\ Len(Wire(fields, n + 1)) = offset + Len(f.bytes)
      /\ \/ /\ Len(Wire(fields, n + 1)) <= Len(bytes)
            /\ Holds(f.bytes, offset, Len(f.bytes))
         \/ /\ Len(Wire(fields, n + 1)) > Len(bytes)
            /\ Holds(f.bytes, offset, Len(bytes) - offset)
            /\ offset + (Len(bytes) - offset) = Len(bytes) /\ Len(bytes) - offset < Len(f.bytes)
  <2>1. Len(Wire(fields, n)) < Len(bytes)
    BY <1>1, <1>4
  <2> QED
    BY <1>2, <1>4, <2>1, FieldIsHeld
<1>6. /\ f.bytes \in Seq(Bytes) /\ Len(f.bytes) \in Nat \ {0}
      /\ WireField(f) \/ BrokenField(f)
  BY <1>5, FieldsTyped
<1>7. Cut' /\ (WellFormed' <=> WellFormed) /\ \A m : Meaning(m)' = Meaning(m)
  BY <1>1, <1>2, PeerUnmoved
<1> HIDE DEF f
<1>8. ASSUME pc' = "failed", offset' = offset,
             \/ Len(Wire(fields, n + 1)) > Len(bytes)
             \/ Len(Wire(fields, n + 1)) <= Len(bytes) /\ message \notin f.valid
      PROVE  CodecInv'
  <2>1. ~WellFormed
    BY <1>1, <1>2, <1>4, <1>5, <1>8, NotWellFormed DEF f
  <2>2. FromPeer'
    BY <1>1, <1>2, <1>7, <1>8, <2>1 DEF FromPeer
  <2> QED
    BY <1>1, <1>2, <1>8, <2>2 DEF CodecInv
<1>9. CASE Len(Wire(fields, n + 1)) > Len(bytes)
  <2>1. ~ReadAt(offset).ok
    <3> DEFINE r == Len(bytes) - offset
    <3>1. Holds(f.bytes, offset, r) /\ offset + r = Len(bytes) /\ r < Len(f.bytes)
      BY <1>2, <1>5, <1>6, <1>9, Typed
    <3> HIDE DEF r
    <3>2. CASE WireField(f)
      BY <1>2, <1>6, <3>1, <3>2, CutIsRefused
    <3>3. CASE BrokenField(f)
      BY <1>2, <1>6, <3>1, <3>3, BrokenIsRefused
    <3> QED
      BY <1>6, <3>2, <3>3
  <2>2. pc' = "failed" /\ offset' = offset
    BY <2>1, Turn
  <2> QED
    BY <1>8, <1>9, <2>2
<1>10. CASE Len(Wire(fields, n + 1)) <= Len(bytes) /\ BrokenField(f)
  <2>1. ~ReadAt(offset).ok
    <3>1. Holds(f.bytes, offset, Len(f.bytes))
      BY <1>2, <1>5, <1>6, <1>10, Typed
    <3> QED
      BY <1>2, <1>6, <1>10, <3>1, BrokenIsRefused
  <2>2. pc' = "failed" /\ offset' = offset
    BY <2>1, Turn
  <2>3. message \notin f.valid
    BY <1>10, Zenon DEF BrokenField
  <2> QED
    BY <1>8, <1>10, <2>2, <2>3
<1>11. CASE Len(Wire(fields, n + 1)) <= Len(bytes) /\ WireField(f)
  <2>1. Holds(f.bytes, offset, Len(f.bytes))
    BY <1>2, <1>5, <1>6, <1>11, Typed
  <2>2. /\ ReadAt(offset).ok /\ ReadAt(offset).offset = offset + Len(f.bytes)
        /\ \/ /\ message \in f.valid /\ ~KnownAt(offset) /\ Told(f) = {}
           \/ /\ message \in f.valid /\ KnownAt(offset) /\ Told(f) = {ContentAt(offset)}
              /\ message = "request" => IsUtf8(ContentAt(offset))
           \/ /\ message \notin f.valid /\ KnownAt(offset)
              /\ message = "request" /\ ~IsUtf8(ContentAt(offset))
    BY <1>2, <1>6, <1>11, <2>1, FieldIsRead
  <2>3. CASE message \notin f.valid
    <3>1. pc' = "failed" /\ offset' = offset
      BY <2>2, <2>3, Turn
    <3> QED
      BY <1>8, <1>11, <2>3, <3>1
  <2>4. CASE message \in f.valid
    <3>1. /\ pc' = pc /\ offset' = offset + Len(f.bytes)
          /\ value' = IF KnownAt(offset) THEN ContentAt(offset) ELSE value
      BY <2>2, <2>4, Turn
    <3>2. offset' = Len(Wire(fields, n + 1)) /\ offset' \in Nat /\ offset' <= Len(bytes)
      BY <1>2, <1>5, <1>6, <1>11, <3>1
    <3>3. n \in Nat /\ value \in Meaning(n) /\ \A i \in 1 .. n : message \in fields[i].valid
      BY <1>2, <1>3, LenProperties DEF Reached
    <3>4. value' \in Meaning(n + 1)
      <4>1. CASE Told(f) = {}
        <5>1. value' = value
          BY <2>2, <2>4, <3>1, <4>1
        <5>2. Meaning(n + 1) = Meaning(n)
          BY <3>3, <4>1, MeaningGrows DEF f
        <5> QED
          BY <3>3, <5>1, <5>2
      <4>2. CASE Told(f) # {}
        <5>1. Told(f) = {ContentAt(offset)} /\ value' = ContentAt(offset)
          BY <2>2, <2>4, <3>1, <4>2
        <5>2. Meaning(n + 1) = Told(f)
          BY <3>3, <4>2, MeaningGrows DEF f
        <5> QED
          BY <5>1, <5>2
      <4> QED
        BY <4>1, <4>2
    <3>5. \A i \in 1 .. n + 1 : message \in fields[i].valid
      BY <2>4, <3>3 DEF f
    <3>6. Reached(n + 1)'
      <4>1. Meaning(n + 1)' = Meaning(n + 1)
        BY <1>7
      <4> QED
        BY <1>1, <3>2, <3>4, <3>5, <4>1 DEF Reached
    <3>7. n + 1 \in 0 .. Len(fields')
      BY <1>1, <1>5, <3>3
    <3>8. FromPeer'
      BY <1>1, <1>2, <1>7, <3>1, <3>6, <3>7 DEF FromPeer
    <3> QED
      BY <1>1, <1>2, <3>1, <3>2, <3>8 DEF CodecInv
  <2> QED
    BY <2>3, <2>4
<1> QED
  BY <1>5, <1>6, <1>9, <1>10, <1>11

\* The end of what a peer wrote.
LEMMA PeerEnd ==
    ASSUME CodecInv, sent = {}, DecodeEnd
    PROVE  CodecInv'
<1>1. /\ pc = "reading" /\ offset = Len(bytes) /\ pc' = "decoded" /\ message' = message /\ bytes' = bytes
      /\ offset' = offset /\ value' = value /\ fields' = fields /\ sent' = sent
  BY DEF DecodeEnd
<1>2. /\ message \in Messages /\ bytes \in Seq(Bytes) /\ offset \in Nat /\ offset <= Len(bytes)
      /\ fields \in Seq(Fields) /\ Cut
  BY DEF CodecInv, FromPeer
<1>3. PICK n \in 0 .. Len(fields) : Reached(n)
  BY <1>1 DEF CodecInv, FromPeer
<1>4. /\ Len(Wire(fields, n)) = Len(bytes) /\ value \in Meaning(n)
      /\ \A i \in 1 .. n : message \in fields[i].valid
  BY <1>1, <1>3 DEF Reached
<1>5. Len(fields) \in Nat /\ n \in Nat /\ Len(bytes) \in Nat /\ n <= Len(fields) /\ Len(fields) \in 0 .. Len(fields)
  BY <1>2, Typed, LenProperties
<1>6. Whole = n
  <2>1. Whole \in 0 .. Len(fields) /\ Len(Wire(fields, Whole)) <= Len(bytes) /\ n <= Whole
    BY <1>2, <1>4, <1>5, WholeEnds
  <2>2. ASSUME Whole >= n + 1 PROVE FALSE
    <3>1. n < Len(fields) /\ n + 1 \in 0 .. Whole
      BY <1>5, <2>1, <2>2
    <3>2. fields[n + 1] \in Fields /\ Len(Wire(fields, n + 1)) = Len(bytes) + Len(fields[n + 1].bytes)
      BY <1>2, <1>4, <3>1, WireGrows
    <3>3. Len(fields[n + 1].bytes) \in Nat \ {0}
      BY <3>2, FieldsTyped
    <3>4. Len(Wire(fields, n + 1)) <= Len(Wire(fields, Whole))
      BY <1>2, <2>1, <3>1, WireBegins
    <3>5. Len(Wire(fields, Whole)) \in Nat
      BY <1>2, <2>1, WireTyped
    <3> QED
      BY <1>5, <2>1, <3>2, <3>3, <3>4, <3>5
  <2> QED
    BY <1>5, <2>1, <2>2
<1>7. Wire(fields, n) = bytes
  <2> DEFINE w == Wire(fields, n)
             all == Wire(fields, Len(fields))
  <2>1. w \in Seq(Bytes)
    BY <1>2, WireTyped
  <2>2. \A i \in 1 .. Len(w) : all[i] = w[i]
    BY <1>2, <1>5, WireBegins
  <2>3. \A i \in 1 .. Len(bytes) : bytes[i] = all[i]
    BY <1>2 DEF Cut
  <2>4. Len(w) = Len(bytes)
    BY <1>4
  <2> HIDE DEF w, all
  <2>5. w = bytes
    BY <1>2, <2>1, <2>2, <2>3, <2>4, SeqEqual
  <2> QED
    BY <2>5 DEF w
<1>8. WellFormed /\ value \in Meaning(Whole)
  BY <1>4, <1>6, <1>7 DEF WellFormed
<1>9. Cut' /\ WellFormed' /\ Whole' = Whole /\ \A m : Meaning(m)' = Meaning(m)
  BY <1>1, <1>2, <1>8, PeerUnmoved
<1>10. value' \in Meaning(Whole)'
  BY <1>1, <1>6, <1>8, <1>9, PeerUnmoved, Zenon DEF Meaning, Told, Default
<1>11. FromPeer'
  BY <1>1, <1>2, <1>9, <1>10 DEF FromPeer
<1> QED
  BY <1>1, <1>2, <1>11 DEF CodecInv

-----------------------------------------------------------------------------
(***************************************************************************)
(* Encoding.                                                               *)
(***************************************************************************)

\* The u64s.
U64s == {v \in [Groups -> 0 .. 127] : v[9] <= 1}

LEMMA U64Typed ==
    ASSUME NEW n \in Nat, n < PayloadBound
    PROVE  U64(n) \in U64s /\ Small(U64(n)) /\ Number(U64(n)) = n
<1> DEFINE v == U64(n)
<1>1. /\ v[0] = n % 128 /\ v[1] = (n \div 128) % 128 /\ v[2] = (n \div 16384) % 128
      /\ v[3] = (n \div 2097152) % 128 /\ \A g \in 4 .. 9 : v[g] = 0
  BY DEF U64, Groups, Weight
<1>2. v \in [Groups -> 0 .. 127]
  <2>1. \A g \in Groups : v[g] \in 0 .. 127
    BY <1>1 DEF Groups
  <2>2. v = [g \in Groups |-> v[g]]
    BY DEF U64
  <2> HIDE DEF v
  <2> QED
    BY <2>1, <2>2
<1>3. n < 268435456
  BY DEF PayloadBound
<1> HIDE DEF v
<1>4. Number(v) = n
  <2>1. Number(v) = v[0] + v[1] * 128 + v[2] * 16384 + v[3] * 2097152
    BY DEF Number, Weight
  <2> QED
    BY <1>1, <1>3, <2>1
<1>5. v[9] <= 1 /\ Small(v)
  BY <1>1 DEF Small
<1> QED
  BY <1>2, <1>4, <1>5 DEF U64s, v

\* The highest group.
LEMMA TopIs ==
    ASSUME NEW v \in U64s
    PROVE  /\ Top(v) \in Groups /\ \A g \in Groups : g > Top(v) => v[g] = 0
           /\ \A g \in Groups : v[g] # 0 => g <= Top(v)
<1> DEFINE S == {0} \cup {g \in Groups : v[g] # 0}
<1>1. S \subseteq 0 .. 9 /\ 0 \in S /\ 9 \in Nat
  BY DEF Groups
<1>2. Top(v) = Max(S)
  BY DEF Top
<1>3. \A g \in Groups : v[g] # 0 => g \in S
  OBVIOUS
<1> HIDE DEF S
<1>4. Max(S) \in S /\ \A x \in S : x <= Max(S)
  BY <1>1, MaxExists
<1>5. Top(v) \in 0 .. 9
  BY <1>1, <1>2, <1>4
<1>6. \A g \in Groups : v[g] # 0 => g <= Top(v)
  BY <1>2, <1>3, <1>4
<1>7. ASSUME NEW g \in Groups, g > Top(v) PROVE v[g] = 0
  <2>1. g \in Nat /\ Top(v) \in Nat
    BY <1>5 DEF Groups
  <2>2. ~(g <= Top(v))
    BY <1>7, <2>1
  <2> QED
    BY <1>6, <2>2
<1> QED
  BY <1>5, <1>6, <1>7 DEF Groups

\* What is written is a varint of its value.
LEMMA VarintIsWritten ==
    ASSUME NEW v \in U64s
    PROVE  LET w == write_varint(v)
           IN  /\ w \in Seq(Bytes) /\ Len(w) = varint_len(v) /\ Len(w) = Top(v) + 1 /\ Len(w) \in 1 .. 10
               /\ IsVarint(w, 0, Len(w)) /\ VarintAt(w, 0, Len(w)) = v
<1> DEFINE w == write_varint(v)
           t == Top(v)
<1>1. t \in Nat /\ t <= 9 /\ \A g \in Groups : g > t => v[g] = 0
  BY TopIs DEF Groups
<1>2. v \in [Groups -> 0 .. 127] /\ v[9] <= 1
  BY DEF U64s
<1>3. \A g \in Groups : v[g] \in Nat /\ v[g] <= 127
  BY <1>2
<1>4. w = [i \in 1 .. t + 1 |-> IF i <= t THEN v[i - 1] + 128 ELSE v[i - 1]]
  BY DEF write_varint
<1>5. varint_len(v) = t + 1
  BY DEF varint_len
<1> HIDE DEF w, t
<1>6. \A i \in 1 .. t + 1 : i - 1 \in Groups
  BY <1>1 DEF Groups
<1>7. \A i \in 1 .. t + 1 : w[i] = (IF i <= t THEN v[i - 1] + 128 ELSE v[i - 1])
  BY <1>4
<1>8. ASSUME NEW i \in 1 .. t + 1 PROVE w[i] \in Bytes
  <2> DEFINE x == v[i - 1]
  <2>1. x \in Nat /\ x <= 127
    BY <1>3, <1>6
  <2>2. w[i] = x + 128 \/ w[i] = x
    BY <1>7
  <2> HIDE DEF x
  <2> QED
    BY <2>1, <2>2 DEF Bytes
<1>9. w \in Seq(Bytes) /\ Len(w) = t + 1
  <2>1. w \in [1 .. t + 1 -> Bytes] /\ t + 1 \in Nat
    BY <1>1, <1>4, <1>8
  <2> QED
    BY <2>1
<1>10. IsVarint(w, 0, t + 1)
  <2>1. t + 1 \in 0 + 1 .. Len(w) /\ t + 1 <= 0 + 10
    BY <1>1, <1>9
  <2>2. ASSUME NEW i \in 0 + 1 .. (t + 1) - 1 PROVE w[i] >= 128
    <3>1. i \in 1 .. t + 1 /\ i <= t
      BY <1>1
    <3> QED
      BY <1>3, <1>6, <1>7, <3>1
  <2>3. w[t + 1] = v[t] /\ t \in Groups
    <3>1. t + 1 \in 1 .. t + 1 /\ ~(t + 1 <= t) /\ (t + 1) - 1 = t
      BY <1>1
    <3>2. w[t + 1] = v[(t + 1) - 1]
      BY <1>7, <3>1
    <3> QED
      BY <1>1, <3>1, <3>2 DEF Groups
  <2>4. w[t + 1] < 128
    BY <1>3, <2>3
  <2>5. t + 1 = 0 + 10 => w[t + 1] <= 1
    <3>1. t + 1 = 0 + 10 => t = 9
      BY <1>1
    <3> QED
      BY <1>2, <2>3, <3>1
  <2> QED
    BY <2>1, <2>2, <2>4, <2>5 DEF IsVarint
<1>11. VarintAt(w, 0, t + 1) = v
  <2> DEFINE G(g) == IF g < (t + 1) - 0 THEN w[0 + g + 1] % 128 ELSE 0
  <2>1. ASSUME NEW g \in Groups PROVE G(g) = v[g]
    <3>1. CASE g <= t
      <4>1. g + 1 \in 1 .. t + 1 /\ (g + 1) - 1 = g /\ g < (t + 1) - 0 /\ 0 + g + 1 = g + 1
        BY <1>1, <3>1 DEF Groups
      <4>2. w[g + 1] = IF g + 1 <= t THEN v[g] + 128 ELSE v[g]
        BY <1>7, <4>1
      <4>3. w[g + 1] % 128 = v[g]
        BY <1>3, <4>2
      <4> QED
        BY <4>1, <4>3
    <3>2. CASE g > t
      <4>1. v[g] = 0 /\ ~(g < (t + 1) - 0)
        BY <1>1, <3>2 DEF Groups
      <4> QED
        BY <4>1
    <3> QED
      BY <1>1, <3>1, <3>2 DEF Groups
  <2>2. VarintAt(w, 0, t + 1) = [g \in Groups |-> G(g)]
    BY Zenon DEF VarintAt
  <2> HIDE DEF G
  <2>3. v = [g \in Groups |-> v[g]]
    BY <1>2
  <2> QED
    BY <2>1, <2>2, <2>3
<1>12. Len(w) \in 1 .. 10
  BY <1>1, <1>9
<1> QED
  BY <1>5, <1>9, <1>10, <1>11, <1>12 DEF w, t

\* The key of the field of a message is a byte.
LEMMA KeyIsWritten ==
    ASSUME NEW n \in {8, 10}
    PROVE  /\ write_varint(U64(n)) \in Seq(Bytes) /\ Len(write_varint(U64(n))) = 1
           /\ write_varint(U64(n))[1] = n
           /\ U64(n)[0] = n /\ ValidKey(U64(n))
<1>1. U64(n)[0] = n /\ \A g \in 1 .. 9 : U64(n)[g] = 0
  BY DEF U64, Groups, Weight
<1>2. n \in Nat /\ n < PayloadBound
  BY DEF PayloadBound
<1>3. U64(n) \in U64s
  BY <1>2, U64Typed
<1>4. Top(U64(n)) = 0
  <2> DEFINE S == {0} \cup {g \in Groups : U64(n)[g] # 0}
  <2>1. S = {0}
    BY <1>1 DEF Groups
  <2>2. Top(U64(n)) = Max(S)
    BY DEF Top
  <2> HIDE DEF S
  <2> QED
    BY <2>1, <2>2, MaxIs
<1>5. write_varint(U64(n)) \in Seq(Bytes) /\ Len(write_varint(U64(n))) = 1
  <2>1. write_varint(U64(n)) \in Seq(Bytes) /\ Len(write_varint(U64(n))) = Top(U64(n)) + 1
    BY <1>3, VarintIsWritten, Zenon
  <2> QED
    BY <1>4, <2>1
<1>6. write_varint(U64(n))[1] = n
  BY <1>1, <1>4 DEF write_varint
<1>7. ValidKey(U64(n))
  <2> DEFINE key == U64(n)
  <2>1. key[0] = n /\ \A g \in 1 .. 9 : key[g] = 0
    BY <1>1
  <2> HIDE DEF key
  <2>2. ValidKey(key)
    BY <2>1 DEF ValidKey
  <2> QED
    BY <2>2 DEF key
<1> QED
  BY <1>1, <1>5, <1>6, <1>7

\* What follows a part of the payload is held after it.
LEMMA Follows ==
    ASSUME NEW s \in Seq(Bytes), NEW t \in Seq(Bytes)
    PROVE  /\ s \o t \in Seq(Bytes) /\ Len(s \o t) = Len(s) + Len(t)
           /\ \A i \in 1 .. Len(s) : (s \o t)[i] = s[i]
           /\ \A i \in 1 .. Len(t) : (s \o t)[Len(s) + i] = t[i]
<1>1. Len(s) \in Nat /\ Len(t) \in Nat
  BY Typed
<1>2. /\ s \o t \in Seq(Bytes) /\ Len(s \o t) = Len(s) + Len(t)
      /\ \A i \in 1 .. Len(s) + Len(t) : (s \o t)[i] = IF i <= Len(s) THEN s[i] ELSE t[i - Len(s)]
  BY ConcatProperties
<1>3. \A i \in 1 .. Len(s) : (s \o t)[i] = s[i]
  BY <1>1, <1>2
<1>4. ASSUME NEW i \in 1 .. Len(t) PROVE (s \o t)[Len(s) + i] = t[i]
  <2>1. Len(s) + i \in 1 .. Len(s) + Len(t) /\ ~(Len(s) + i <= Len(s)) /\ (Len(s) + i) - Len(s) = i
    BY <1>1
  <2> QED
    BY <1>2, <2>1
<1> QED
  BY <1>2, <1>3, <1>4

\* The key is where a payload of this codec begins.
LEMMA KeyHeads ==
    ASSUME NEW n \in {8, 10}, NEW b \in Seq(Bytes), Len(b) >= 1, b[1] = n
    PROVE  IsVarint(b, 0, 1) /\ VarintAt(b, 0, 1) = U64(n)
<1>1. Len(b) \in Nat
  BY Typed
<1>2. IsVarint(b, 0, 1)
  BY <1>1 DEF IsVarint
<1> DEFINE F(g) == IF g < 1 - 0 THEN b[0 + g + 1] % 128 ELSE 0
           G(g) == IF g < 4 THEN (n \div Weight[g + 1]) % 128 ELSE 0
<1>3. ASSUME NEW g \in Groups PROVE F(g) = G(g)
  BY DEF Groups, Weight
<1>4. VarintAt(b, 0, 1) = [g \in Groups |-> F(g)]
  BY Zenon DEF VarintAt
<1>5. U64(n) = [g \in Groups |-> G(g)]
  BY Zenon DEF U64
<1> HIDE DEF F, G
<1> QED
  BY <1>2, <1>3, <1>4, <1>5

\* Sign extension, and back.
LEMMA SignExtends ==
    ASSUME NEW s \in I32s
    PROVE  /\ AsU64(s) \in U64s /\ AsI32(AsU64(s)) = s
           /\ s[4] >= 8 => Top(AsU64(s)) = 9
           /\ s[4] >= 8 => s # Zero
<1> DEFINE v == AsU64(s)
<1>1. s \in [I32Groups -> 0 .. 127] /\ s[4] < 16 /\ s[4] \in Nat
  BY DEF I32s, I32Groups
<1>2. \A g \in I32Groups : s[g] \in 0 .. 127
  BY <1>1
<1>3. ASSUME NEW g \in Groups
      PROVE  v[g] = IF g < 4 THEN s[g]
                    ELSE IF ~(s[4] >= 8) THEN (IF g = 4 THEN s[4] ELSE 0)
                    ELSE IF g = 4 THEN s[4] + 112
                    ELSE IF g = 9 THEN 1 ELSE 127
  BY DEF AsU64
<1>4. v = [g \in Groups |-> v[g]]
  BY DEF AsU64
<1> HIDE DEF v
<1>5. \A g \in 0 .. 3 : v[g] = s[g]
  BY <1>3 DEF Groups
<1>6. v[4] = IF s[4] >= 8 THEN s[4] + 112 ELSE s[4]
  BY <1>3 DEF Groups
<1>7. \A g \in 5 .. 9 : v[g] = IF s[4] >= 8 THEN (IF g = 9 THEN 1 ELSE 127) ELSE 0
  BY <1>3 DEF Groups
<1>8. v \in U64s
  <2>1. \A g \in 0 .. 3 : v[g] \in 0 .. 127
    BY <1>2, <1>5 DEF I32Groups
  <2>2. v[4] \in 0 .. 127
    BY <1>1, <1>6
  <2>3. \A g \in 5 .. 9 : v[g] \in 0 .. 127
    BY <1>7
  <2>4. \A g \in Groups : v[g] \in 0 .. 127
    BY <2>1, <2>2, <2>3 DEF Groups
  <2>5. v \in [Groups -> 0 .. 127]
    BY <1>4, <2>4
  <2>6. v[9] <= 1
    BY <1>7
  <2> QED
    BY <2>5, <2>6 DEF U64s
<1>9. AsI32(v) = s
  <2> DEFINE F(g) == IF g = 4 THEN v[4] % 16 ELSE v[g]
  <2>1. v[4] % 16 = s[4]
    BY <1>1, <1>6
  <2>2. \A g \in I32Groups : F(g) = s[g]
    BY <1>5, <2>1 DEF I32Groups
  <2>3. AsI32(v) = [g \in I32Groups |-> F(g)]
    BY Zenon DEF AsI32
  <2>4. s = [g \in I32Groups |-> s[g]]
    BY <1>1
  <2> HIDE DEF F
  <2> QED
    BY <2>2, <2>3, <2>4
<1>10. ASSUME s[4] >= 8 PROVE Top(v) = 9
  <2>1. v[9] # 0 /\ 9 \in Groups
    BY <1>7, <1>10 DEF Groups
  <2>2. Top(v) \in Groups /\ 9 <= Top(v)
    BY <1>8, <2>1, TopIs
  <2> QED
    BY <2>2 DEF Groups
<1>11. ASSUME s[4] >= 8 PROVE s # Zero
  <2>1. Zero[4] = 0
    BY DEF Zero, AsI32, U64, I32Groups, Groups
  <2> QED
    BY <1>11, <2>1
<1> QED
  BY <1>8, <1>9, <1>10, <1>11 DEF v

\* A status that is encoded is one field, of the length that is announced.
LEMMA StatusIsEncoded ==
    ASSUME NEW v \in I32s, v # Zero, bytes = encode_into("response", v)
    PROVE  /\ bytes \in Seq(Bytes) /\ Len(bytes) = 1 + varint_len(AsU64(v))
           /\ v[4] >= 8 => Len(bytes) = 11
           /\ WireField([bytes |-> bytes, status |-> {v}, service |-> {}, valid |-> Messages])
<1> DEFINE a == write_varint(U64(8))
           w == write_varint(AsU64(v))
           f == [bytes |-> bytes, status |-> {v}, service |-> {}, valid |-> Messages]
<1>1. bytes = a \o w
  BY Zenon DEF encode_into, Default
<1>2. a \in Seq(Bytes) /\ Len(a) = 1 /\ a[1] = 8 /\ U64(8)[0] = 8 /\ ValidKey(U64(8))
  BY KeyIsWritten
<1>3. AsU64(v) \in U64s /\ AsI32(AsU64(v)) = v /\ (v[4] >= 8 => Top(AsU64(v)) = 9)
  BY SignExtends
<1>4. /\ w \in Seq(Bytes) /\ Len(w) = varint_len(AsU64(v)) /\ Len(w) = Top(AsU64(v)) + 1
      /\ Len(w) \in 1 .. 10 /\ IsVarint(w, 0, Len(w)) /\ VarintAt(w, 0, Len(w)) = AsU64(v)
  BY <1>3, VarintIsWritten, Zenon
<1> HIDE DEF a, w
<1>5. /\ bytes \in Seq(Bytes) /\ Len(bytes) = 1 + Len(w) /\ bytes[1] = 8
      /\ \A i \in 1 .. Len(w) : bytes[1 + i] = w[i]
  <2>1. /\ a \o w \in Seq(Bytes) /\ Len(a \o w) = Len(a) + Len(w)
        /\ \A i \in 1 .. Len(a) : (a \o w)[i] = a[i]
        /\ \A i \in 1 .. Len(w) : (a \o w)[Len(a) + i] = w[i]
    BY <1>2, <1>4, Follows
  <2>2. Len(a \o w) = 1 + Len(w)
    BY <1>2, <2>1, Zenon
  <2>3. (a \o w)[1] = 8
    <3>1. 1 \in 1 .. Len(a)
      BY <1>2
    <3> QED
      BY <1>2, <2>1, <3>1, Zenon
  <2>4. \A i \in 1 .. Len(w) : (a \o w)[1 + i] = w[i]
    BY <1>2, <2>1, Zenon
  <2> QED
    BY <1>1, <2>1, <2>2, <2>3, <2>4, Zenon
<1>6. ASSUME v[4] >= 8 PROVE Len(bytes) = 11
  <2>1. Top(AsU64(v)) = 9
    BY <1>3, <1>6, Zenon
  <2>2. Len(w) = 10
    BY <1>4, <2>1
  <2> QED
    BY <1>5, <2>2
<1>7. WireField(f)
  <2> DEFINE size == Len(bytes)
  <2>1. IsVarint(bytes, 0, 1) /\ VarintAt(bytes, 0, 1) = U64(8)
    BY <1>4, <1>5, KeyHeads
  <2>2. Holds(w, 1, Len(w))
    BY <1>4, <1>5 DEF Holds
  <2>3. IsVarint(bytes, 1, size) /\ VarintAt(bytes, 1, size) = AsU64(v)
    <3>1. /\ IsVarint(bytes, 1 + 0, 1 + Len(w))
          /\ VarintAt(bytes, 1 + 0, 1 + Len(w)) = VarintAt(w, 0, Len(w))
      BY <1>4, <1>5, <2>2, VarintMoves
    <3>2. 1 + 0 = 1 /\ 1 + Len(w) = size
      BY <1>5
    <3> QED
      BY <1>4, <3>1, <3>2
  <2>4. 1 \in 1 .. size
    BY <1>4, <1>5
  <2>5. VarintAt(bytes, 0, 1)[0] % 8 = 0
    BY <1>2, <2>1
  <2>6. f.bytes = bytes /\ f.status = {v} /\ f.service = {} /\ f.valid = Messages
    BY Zenon
  <2> HIDE DEF f
  <2> QED
    BY <1>2, <1>3, <2>1, <2>3, <2>4, <2>5, <2>6, Zenon DEF WireField
<1> QED
  BY <1>4, <1>5, <1>6, <1>7

\* So is a name.
LEMMA NameIsEncoded ==
    ASSUME NEW v \in Texts, v # <<>>, bytes = encode_into("request", v)
    PROVE  /\ bytes \in Seq(Bytes) /\ Len(bytes) = 1 + varint_len(U64(Len(v))) + Len(v)
           /\ WireField([bytes |-> bytes, status |-> {}, service |-> {v}, valid |-> Messages])
<1> DEFINE n == U64(Len(v))
           a == write_varint(U64(10))
           w == write_varint(n)
           f == [bytes |-> bytes, status |-> {}, service |-> {v}, valid |-> Messages]
<1>1. bytes = (a \o w) \o v
  BY Zenon DEF encode_into, Default
<1>2. a \in Seq(Bytes) /\ Len(a) = 1 /\ a[1] = 10 /\ U64(10)[0] = 10 /\ ValidKey(U64(10))
  BY KeyIsWritten
<1>3. v \in Seq(Bytes) /\ Len(v) \in Nat /\ Len(v) < PayloadBound /\ IsUtf8(v)
  <2>1. v \in Seq(Bytes) /\ Len(v) < PayloadBound /\ IsUtf8(v)
    BY DEF Texts, Bytes
  <2> QED
    BY <2>1, LenProperties
<1>4. n \in U64s /\ Small(n) /\ Number(n) = Len(v)
  BY <1>3, U64Typed
<1> HIDE DEF n
<1>5. /\ w \in Seq(Bytes) /\ Len(w) = varint_len(n)
      /\ Len(w) \in 1 .. 10 /\ IsVarint(w, 0, Len(w)) /\ VarintAt(w, 0, Len(w)) = n
  BY <1>4, VarintIsWritten, Zenon
<1> HIDE DEF a, w
<1> DEFINE h == a \o w
<1>6. /\ h \in Seq(Bytes) /\ Len(h) = 1 + Len(w) /\ h[1] = 10
      /\ \A i \in 1 .. Len(w) : h[1 + i] = w[i]
  <2>1. /\ a \o w \in Seq(Bytes) /\ Len(a \o w) = Len(a) + Len(w)
        /\ \A i \in 1 .. Len(a) : (a \o w)[i] = a[i]
        /\ \A i \in 1 .. Len(w) : (a \o w)[Len(a) + i] = w[i]
    BY <1>2, <1>5, Follows
  <2> QED
    BY <1>2, <2>1
<1>7. bytes = h \o v
  BY <1>1
<1> HIDE DEF h
<1> DEFINE l == 1 + Len(w)
<1>8. /\ bytes \in Seq(Bytes) /\ Len(bytes) = l + Len(v) /\ bytes[1] = 10
      /\ \A i \in 1 .. Len(w) : bytes[1 + i] = w[i]
      /\ \A i \in 1 .. Len(v) : bytes[l + i] = v[i]
  <2>1. /\ h \o v \in Seq(Bytes) /\ Len(h \o v) = Len(h) + Len(v)
        /\ \A i \in 1 .. Len(h) : (h \o v)[i] = h[i]
        /\ \A i \in 1 .. Len(v) : (h \o v)[Len(h) + i] = v[i]
    BY <1>3, <1>6, Follows
  <2>2. 1 \in 1 .. Len(h) /\ \A i \in 1 .. Len(w) : 1 + i \in 1 .. Len(h)
    BY <1>5, <1>6
  <2>3. \A i \in 1 .. Len(w) : (h \o v)[1 + i] = w[i]
    BY <1>6, <2>1, <2>2
  <2> QED
    BY <1>6, <1>7, <2>1, <2>2, <2>3
<1>9. l \in Nat /\ l >= 2 /\ Len(w) \in Nat /\ Len(bytes) \in Nat
  <2>1. Len(w) \in Nat /\ Len(w) >= 1
    BY <1>5
  <2>2. Len(bytes) \in Nat
    BY <1>8, Typed
  <2> QED
    BY <2>1, <2>2
<1>10. WireField(f)
  <2> DEFINE size == Len(bytes)
  <2>1. IsVarint(bytes, 0, 1) /\ VarintAt(bytes, 0, 1) = U64(10)
    BY <1>3, <1>8, <1>9, KeyHeads
  <2>2. Holds(w, 1, Len(w))
    <3>1. Len(w) \in 0 .. Len(w) /\ 1 + Len(w) <= Len(bytes)
      BY <1>3, <1>8, <1>9
    <3> QED
      BY <1>8, <3>1, Zenon DEF Holds
  <2>3. IsVarint(bytes, 1, l) /\ VarintAt(bytes, 1, l) = n
    <3>1. /\ IsVarint(bytes, 1 + 0, 1 + Len(w))
          /\ VarintAt(bytes, 1 + 0, 1 + Len(w)) = VarintAt(w, 0, Len(w))
      BY <1>5, <1>8, <2>2, VarintMoves
    <3>2. 1 + 0 = 1
      OBVIOUS
    <3> QED
      BY <1>5, <3>1, <3>2
  <2>4. IsDelimited(bytes, 1, l)
    <3>1. Len(bytes) - l = Len(v)
      BY <1>3, <1>8, <1>9
    <3> QED
      BY <1>4, <2>3, <3>1 DEF IsDelimited
  <2>5. SubSeq(bytes, l + 1, size) = v
    <3>1. Holds(v, l, Len(v))
      BY <1>3, <1>8, <1>9 DEF Holds
    <3>2. SubSeq(bytes, l + 0 + 1, l + Len(v)) = SubSeq(v, 0 + 1, Len(v))
      <4>1. 0 \in 0 .. Len(v)
        BY <1>3
      <4> QED
        BY <1>3, <1>8, <1>9, <3>1, <4>1, TextMoves
    <3>3. SubSeq(v, 1, Len(v)) = v
      BY <1>3, SubSeqFull
    <3>4. l + 0 + 1 = l + 1 /\ 0 + 1 = 1
      BY <1>9
    <3> QED
      BY <1>8, <3>2, <3>3, <3>4
  <2>6. 1 \in 1 .. size /\ l \in 1 + 1 .. size
    BY <1>3, <1>8, <1>9
  <2>7. VarintAt(bytes, 0, 1)[0] % 8 = 2
    BY <1>2, <2>1
  <2>8. f.bytes = bytes /\ f.status = {} /\ f.service = {v} /\ f.valid = Messages
    BY Zenon
  <2> HIDE DEF f, l
  <2>9. /\ 1 \in 1 .. Len(f.bytes) /\ l \in 1 + 1 .. Len(f.bytes)
        /\ IsVarint(f.bytes, 0, 1) /\ ValidKey(VarintAt(f.bytes, 0, 1))
        /\ VarintAt(f.bytes, 0, 1)[0] % 8 = 2 /\ IsDelimited(f.bytes, 1, l)
    BY <1>2, <2>1, <2>4, <2>6, <2>7, <2>8, Zenon
  <2>10. VarintAt(f.bytes, 0, 1) = U64(10) /\ IsUtf8(SubSeq(f.bytes, l + 1, Len(f.bytes)))
    BY <1>3, <2>1, <2>5, <2>8, Zenon
  <2>11. f.service = {SubSeq(f.bytes, l + 1, Len(f.bytes))}
    BY <2>5, <2>8, Zenon
  <2> QED
    BY <2>8, <2>9, <2>10, <2>11, Zenon DEF WireField
<1>11. Len(bytes) = 1 + varint_len(n) + Len(v)
  BY <1>5, <1>8
<1> QED
  BY <1>8, <1>10, <1>11 DEF n

\* What this codec sends, and in how many bytes.
LEMMA ValuesTyped ==
    ASSUME message \in Messages, NEW v \in Values
    PROVE  /\ message = "request" => v \in Texts
           /\ message = "response" => v \in I32s
<1>1. CASE message = "request"
  BY <1>1, HealthCodecAssumption DEF Values
<1>2. CASE message = "response"
  BY <1>2, HealthCodecAssumption DEF Values
<1> QED
  BY <1>1, <1>2 DEF Messages

LEMMA IsEncoded ==
    ASSUME message \in Messages, NEW v \in Values, bytes = encode_into(message, v)
    PROVE  /\ bytes \in Seq(Bytes) /\ Len(bytes) = estimate_encoded_len(message, v)
           /\ message = "response" /\ v[4] >= 8 => Len(bytes) = 11
           /\ v = Default(message) => Len(bytes) = 0
           /\ v # Default(message) =>
                 \E f : /\ f.bytes = bytes /\ f.valid = Messages /\ Told(f) = {v}
                        /\ WireField(f)
<1>1. CASE v = Default(message)
  <2>1. bytes = <<>>
    BY <1>1, Zenon DEF encode_into
  <2>2. estimate_encoded_len(message, v) = 0
    BY <1>1, Zenon DEF estimate_encoded_len
  <2>3. bytes \in Seq(Bytes) /\ Len(bytes) = 0
    BY <2>1, EmptySeq
  <2>4. ASSUME message = "response", v[4] >= 8 PROVE FALSE
    <3>1. v \in I32s /\ v = Zero
      BY <1>1, <2>4, ValuesTyped DEF Default
    <3> QED
      BY <2>4, <3>1, SignExtends
  <2> QED
    BY <1>1, <2>2, <2>3, <2>4
<1>2. CASE v # Default(message) /\ message = "response"
  <2> DEFINE f == [bytes |-> bytes, status |-> {v}, service |-> {}, valid |-> Messages]
  <2>1. v \in I32s /\ v # Zero /\ bytes = encode_into("response", v)
    BY <1>2, ValuesTyped DEF Default
  <2>2. /\ bytes \in Seq(Bytes) /\ Len(bytes) = 1 + varint_len(AsU64(v))
        /\ (v[4] >= 8 => Len(bytes) = 11) /\ WireField(f)
    BY <2>1, StatusIsEncoded
  <2>3. estimate_encoded_len(message, v) = 1 + varint_len(AsU64(v))
    BY <1>2, Zenon DEF estimate_encoded_len
  <2>4. f.bytes = bytes /\ f.valid = Messages /\ Told(f) = {v}
    BY <1>2, Zenon DEF Told
  <2> HIDE DEF f
  <2> QED
    BY <1>2, <2>2, <2>3, <2>4
<1>3. CASE v # Default(message) /\ message = "request"
  <2> DEFINE f == [bytes |-> bytes, status |-> {}, service |-> {v}, valid |-> Messages]
  <2>1. v \in Texts /\ v # <<>> /\ bytes = encode_into("request", v)
    BY <1>3, ValuesTyped DEF Default
  <2>2. /\ bytes \in Seq(Bytes) /\ Len(bytes) = 1 + varint_len(U64(Len(v))) + Len(v)
        /\ WireField(f)
    BY <2>1, NameIsEncoded
  <2>3. estimate_encoded_len(message, v) = 1 + varint_len(U64(Len(v))) + Len(v)
    BY <1>3, Zenon DEF estimate_encoded_len
  <2>4. f.bytes = bytes /\ f.valid = Messages /\ Told(f) = {v}
    BY <1>3, Zenon DEF Told
  <2> HIDE DEF f
  <2> QED
    BY <1>3, <2>2, <2>3, <2>4
<1> QED
  BY <1>1, <1>2, <1>3 DEF Messages

\* A turn of decode on what this codec wrote.
LEMMA CodecTurn ==
    ASSUME CodecInv, sent # {}, DecodeField
    PROVE  CodecInv'
<1>1. /\ pc = "reading" /\ offset < Len(bytes)
      /\ message' = message /\ bytes' = bytes /\ fields' = fields /\ sent' = sent
  BY Turn
<1>2. /\ message \in Messages /\ bytes \in Seq(Bytes) /\ offset \in Nat /\ Len(bytes) \in Nat
  BY Typed DEF CodecInv
<1>3. PICK v \in Values :
        /\ sent = {v} /\ bytes = encode_into(message, v)
        /\ \/ pc = "reading" /\ offset = 0 /\ value = Default(message) /\ v # Default(message)
           \/ pc \in {"reading", "decoded"} /\ offset = Len(bytes) /\ value = v
  BY DEF CodecInv, FromCodec
<1>4. offset = 0 /\ v # Default(message)
  BY <1>1, <1>2, <1>3
<1>5. PICK f : f.bytes = bytes /\ f.valid = Messages /\ Told(f) = {v} /\ WireField(f)
  BY <1>2, <1>3, <1>4, IsEncoded
<1>6. Holds(f.bytes, 0, Len(f.bytes))
  BY <1>2, <1>5 DEF Holds
<1>7. /\ ReadAt(0).ok /\ ReadAt(0).offset = 0 + Len(f.bytes)
      /\ KnownAt(0) /\ Told(f) = {ContentAt(0)}
      /\ message = "request" => IsUtf8(ContentAt(0))
  <2>1. /\ ReadAt(0).ok /\ ReadAt(0).offset = 0 + Len(f.bytes)
        /\ \/ /\ message \in f.valid /\ ~KnownAt(0) /\ Told(f) = {}
           \/ /\ message \in f.valid /\ KnownAt(0) /\ Told(f) = {ContentAt(0)}
              /\ message = "request" => IsUtf8(ContentAt(0))
           \/ /\ message \notin f.valid /\ KnownAt(0)
              /\ message = "request" /\ ~IsUtf8(ContentAt(0))
    <3>1. 0 \in Nat /\ f.bytes \in Seq(Bytes)
      BY <1>2, <1>5
    <3> QED
      BY <1>2, <1>5, <1>6, <3>1, FieldIsRead
  <2>2. message \in f.valid /\ Told(f) # {}
    BY <1>2, <1>5
  <2> QED
    BY <2>1, <2>2, Zenon
<1>8. pc' = pc /\ offset' = ReadAt(0).offset /\ value' = ContentAt(0)
  BY <1>4, <1>7, Turn
<1>9. offset' = Len(bytes) /\ value' = v
  <2>1. 0 + Len(bytes) = Len(bytes)
    BY <1>2
  <2>2. offset' = Len(bytes)
    BY <1>5, <1>7, <1>8, <2>1, Zenon
  <2>3. {v} = {value'}
    BY <1>5, <1>7, <1>8, Zenon
  <2> QED
    BY <2>2, <2>3
<1>10. v \in Values'
  BY <1>1 DEF Values
<1>11. FromCodec'
  BY <1>1, <1>3, <1>8, <1>9, <1>10 DEF FromCodec
<1> QED
  BY <1>1, <1>2, <1>3, <1>8, <1>9, <1>11 DEF CodecInv

\* The end of what this codec wrote.
LEMMA CodecEnd ==
    ASSUME CodecInv, sent # {}, DecodeEnd
    PROVE  CodecInv'
<1>1. /\ pc = "reading" /\ offset = Len(bytes) /\ pc' = "decoded" /\ message' = message /\ bytes' = bytes
      /\ offset' = offset /\ value' = value /\ fields' = fields /\ sent' = sent
  BY DEF DecodeEnd
<1>2. /\ message \in Messages /\ bytes \in Seq(Bytes) /\ offset \in Nat /\ Len(bytes) \in Nat
  BY Typed DEF CodecInv
<1>3. PICK v \in Values :
        /\ sent = {v} /\ bytes = encode_into(message, v)
        /\ \/ pc = "reading" /\ offset = 0 /\ value = Default(message) /\ v # Default(message)
           \/ pc \in {"reading", "decoded"} /\ offset = Len(bytes) /\ value = v
  BY DEF CodecInv, FromCodec
<1>4. value = v
  <2>1. CASE v # Default(message) /\ offset = 0
    <3>1. PICK f : f.bytes = bytes /\ WireField(f)
      BY <1>2, <1>3, <2>1, IsEncoded
    <3>2. \E k \in 1 .. Len(bytes) : IsVarint(bytes, 0, k)
      BY <3>1, Zenon DEF WireField
    <3> QED
      BY <1>1, <1>2, <2>1, <3>2
  <2> QED
    BY <1>3, <2>1
<1>5. v \in Values'
  BY <1>1 DEF Values
<1>6. FromCodec'
  BY <1>1, <1>3, <1>4, <1>5 DEF FromCodec
<1> QED
  BY <1>1, <1>2, <1>3, <1>6 DEF CodecInv

-----------------------------------------------------------------------------
(***************************************************************************)
(* The theorems.                                                           *)
(***************************************************************************)
LEMMA InitInv == Init => CodecInv
<1> SUFFICES ASSUME Init PROVE CodecInv
  OBVIOUS
<1>1. message \in Messages /\ offset = 0 /\ value = Default(message) /\ pc = "reading"
  BY DEF Init
<1>2. ASSUME fields \in BoundedSeq(Fields, MaxFields), sent = {},
             NEW n \in 0 .. Len(Wire(fields, Len(fields))),
             bytes = SubSeq(Wire(fields, Len(fields)), 1, n)
      PROVE  CodecInv
  <2> DEFINE all == Wire(fields, Len(fields))
  <2>1. fields \in Seq(Fields)
    <3>1. PICK m \in 0 .. MaxFields : fields \in [1 .. m -> Fields]
      BY <1>2, Zenon DEF BoundedSeq, SeqOf
    <3> QED
      BY <3>1, HealthCodecAssumption
  <2>2. Len(fields) \in Nat /\ Len(fields) \in 0 .. Len(fields)
    BY <2>1, LenProperties
  <2>3. all \in Seq(Bytes) /\ Len(all) \in Nat
    BY <2>1, <2>2, WireTyped
  <2> HIDE DEF all
  <2>4. n \in Nat /\ n <= Len(all)
    BY <1>2, <2>3 DEF all
  <2>5. /\ bytes \in Seq(Bytes) /\ Len(bytes) = n
        /\ \A i \in 1 .. n : bytes[i] = all[i]
    <3>1. \A i \in 1 .. n : all[i] \in Bytes
      BY <2>3, <2>4, ElementOfSeq
    <3>2. /\ SubSeq(all, 1, n) \in Seq(Bytes) /\ Len(SubSeq(all, 1, n)) = n
          /\ \A i \in 1 .. n : SubSeq(all, 1, n)[i] = all[i]
      BY <2>4, <3>1, SubSeqProperties
    <3> QED
      BY <1>2, <3>2, Zenon DEF all
  <2>6. Cut
    BY <2>4, <2>5 DEF Cut, all
  <2>7. Reached(0)
    <3>1. Wire(fields, 0) = <<>>
      BY <2>2, WireSteps
    <3>2. Len(Wire(fields, 0)) = 0
      BY <3>1, EmptySeq
    <3>3. value \in Meaning(0)
      BY <1>1, MeaningOfNone
    <3> QED
      BY <1>1, <3>2, <3>3 DEF Reached
  <2>8. FromPeer
    BY <1>1, <2>1, <2>2, <2>6, <2>7 DEF FromPeer
  <2> QED
    BY <1>1, <1>2, <2>4, <2>5, <2>8 DEF CodecInv
<1>3. ASSUME NEW v \in Values, sent = {v}, bytes = encode_into(message, v)
      PROVE  CodecInv
  <2>1. bytes \in Seq(Bytes) /\ (v = Default(message) => Len(bytes) = 0) /\ Len(bytes) \in Nat
    BY <1>1, <1>3, IsEncoded, Typed
  <2>2. FromCodec
    BY <1>1, <1>3, <2>1 DEF FromCodec
  <2> QED
    BY <1>1, <1>3, <2>1, <2>2 DEF CodecInv
<1> QED
  BY <1>1, <1>2, <1>3 DEF Init, Values

\* The decoder of either message, on any payload of a peer or of this codec:
\* while it reads it is at the end of a field, has accepted every field before
\* it and has the value they give (decode, next_field, skip).
THEOREM CodecInvariant == Spec => []CodecInv
<1>1. CodecInv /\ [Next]_vars => CodecInv'
  <2> SUFFICES ASSUME CodecInv, [Next]_vars PROVE CodecInv'
    OBVIOUS
  <2>1. CASE DecodeField
    BY <2>1, PeerTurn, CodecTurn
  <2>2. CASE DecodeEnd
    BY <2>2, PeerEnd, CodecEnd
  <2>3. CASE UNCHANGED vars
    <3>1. /\ message' = message /\ bytes' = bytes /\ fields' = fields /\ sent' = sent
          /\ pc' = pc /\ offset' = offset /\ value' = value
      BY <2>3 DEF vars
    <3> QED
      BY <3>1, Zenon DEF CodecInv, FromPeer, FromCodec, Values, Cut, Reached, WellFormed, Whole,
                         Meaning, Told, Default
  <2> QED
    BY <2>1, <2>2, <2>3 DEF Next, Done
<1> QED
  BY <1>1, InitInv, PTL DEF Spec

\* Whatever fields a peer writes, as many as it likes and cut anywhere, the
\* payload is decoded exactly when it is a sequence of whole, valid fields,
\* and to what they say (decode, next_field, skip, read_varint).
THEOREM CodecDecodesWholeFields == Spec => []DecodesWholeFields
<1>1. CodecInv => DecodesWholeFields
  BY Zenon DEF CodecInv, FromPeer, DecodesWholeFields
<1> QED
  BY <1>1, CodecInvariant, PTL

\* Every i32 status and every name is read back as it was, from as many bytes
\* as were announced (encode_into, decode, estimate_encoded_len).
THEOREM CodecRoundTrip == Spec => []RoundTrip
<1>1. CodecInv => RoundTrip
  <2> SUFFICES ASSUME CodecInv, sent # {} PROVE RoundTrip
    BY DEF RoundTrip
  <2>1. PICK v \in Values :
        /\ sent = {v} /\ bytes = encode_into(message, v)
        /\ \/ pc = "reading" /\ offset = 0 /\ value = Default(message) /\ v # Default(message)
           \/ pc \in {"reading", "decoded"} /\ offset = Len(bytes) /\ value = v
    BY DEF CodecInv, FromCodec
  <2>2. message \in Messages
    BY DEF CodecInv
  <2>3. /\ Len(bytes) = estimate_encoded_len(message, v)
        /\ message = "response" /\ v[4] >= 8 => Len(bytes) = 11
    BY <2>1, <2>2, IsEncoded
  <2>4. pc # "failed" /\ (pc = "decoded" => value = v)
    BY <2>1
  <2> QED
    BY <2>1, <2>3, <2>4, Zenon DEF RoundTrip
<1> QED
  BY <1>1, CodecInvariant, PTL
=============================================================================
