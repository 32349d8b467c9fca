----------------------------- MODULE HealthCodec -----------------------------
(***************************************************************************)
(* The messages of grpc.health.v1 on the wire: HealthCheckRequest and      *)
(* HealthCheckResponse, encoded and decoded by HealthProtoCodec.           *)
(*                                                                         *)
(* A u64 is its ten groups of seven bits, lowest first, since TLC has no   *)
(* integers of that size; an i32 is its five groups, the last of four      *)
(* bits.  One step of the decoder is one turn of the loop in decode: the   *)
(* key of a field, and its value read or skipped.                          *)
(***************************************************************************)
EXTENDS Naturals, Sequences, SequencesExt, FiniteSetsExt

CONSTANTS
    Fields,    \* what a peer may write: [bytes, status, service, valid], the
               \* last the messages it is no error in
    Statuses,  \* the i32 statuses that are encoded
    Services,  \* the names that are encoded, as bytes
    MaxFields  \* fields in a message of a peer, at most

VARIABLES
    message,  \* "request" or "response"
    bytes,    \* the payload
    offset,   \* the reader's
    value,    \* service or status, so far
    pc,       \* "reading", "decoded" or "failed"
    fields,   \* history: the fields the peer wrote
    sent      \* history: the value that was encoded, if it was this codec

vars == <<message, bytes, offset, value, pc, fields, sent>>

-----------------------------------------------------------------------------
(***************************************************************************)
(* Varints.                                                                *)
(***************************************************************************)
Groups == 0 .. 9

\* The powers of 128: payloads here are shorter than the fifth, 2^28 bytes.
Weight == <<1, 128, 16384, 2097152>>
PayloadBound == 268435456

\* A u64 below 2^28, in groups.
U64(n) == [g \in Groups |-> IF g < 4 THEN (n \div Weight[g + 1]) % 128 ELSE 0]

\* Its number, for those below 2^28.
Small(v) == \A g \in 4 .. 9 : v[g] = 0
Number(v) == v[0] + v[1] * Weight[2] + v[2] * Weight[3] + v[3] * Weight[4]

\* The highest group that is not zero.
Top(v) == Max({0} \cup {g \in Groups : v[g] # 0})

\* write_varint: every group but the last carries the bit for "more".
write_varint(v) == [i \in 1 .. Top(v) + 1 |-> IF i <= Top(v) THEN v[i - 1] + 128 ELSE v[i - 1]]

\* Slip: 128 is thought to fit in a byte.
varint_len_short(v) == IF v = U64(128) THEN 1 ELSE Top(v) + 1

\* varint_len.
varint_len(v) == Top(v) + 1

Failed == [ok |-> FALSE, value |-> U64(0), offset |-> 0]

\* Slip: the bits of the tenth byte that do not fit are dropped.
read_varint_wrapping(off) ==
    LET Byte(i) == bytes[off + i + 1]
        ends == {i \in Groups : off + i >= Len(bytes) \/ Byte(i) < 128 \/ i = 9}
        last == Min(ends)
    IN  IF off + last >= Len(bytes)
        THEN Failed
        ELSE [ok |-> TRUE, offset |-> off + last + 1,
              value |-> [g \in Groups |->
                  IF g > last THEN 0 ELSE IF g = 9 THEN Byte(g) % 2 ELSE Byte(g) % 128]]

\* read_varint: up to the first byte without the bit for "more".  It fails at
\* the end of the payload, and at a tenth byte that is more than one bit.
read_varint(off) ==
    LET Byte(i) == bytes[off + i + 1]
        ends == {i \in Groups : off + i >= Len(bytes) \/ Byte(i) < 128 \/ i = 9}
        last == Min(ends)
    IN  IF off + last >= Len(bytes) \/ (last = 9 /\ Byte(9) > 1)
        THEN Failed
        ELSE [ok |-> TRUE, offset |-> off + last + 1,
              value |-> [g \in Groups |-> IF g > last THEN 0 ELSE Byte(g) % 128]]

-----------------------------------------------------------------------------
(***************************************************************************)
(* i32.                                                                    *)
(***************************************************************************)
I32Groups == 0 .. 4

\* u64 as i32: the low 32 bits.
AsI32(v) == [g \in I32Groups |-> IF g = 4 THEN v[4] % 16 ELSE v[g]]

Zero == AsI32(U64(0))

\* i32 as i64 as u64: the sign bit is bit 3 of the fifth group.
AsU64(s) ==
    LET negative == s[4] >= 8
    IN  [g \in Groups |-> IF g < 4 THEN s[g]
                          ELSE IF ~negative THEN (IF g = 4 THEN s[4] ELSE 0)
                          ELSE IF g = 4 THEN s[4] + 112
                          ELSE IF g = 9 THEN 1 ELSE 127]

-----------------------------------------------------------------------------
(***************************************************************************)
(* Encoding: a default value is not written.                               *)
(***************************************************************************)
Default(m) == IF m = "request" THEN <<>> ELSE Zero

encode_into(m, v) ==
    IF v = Default(m) THEN <<>>
    ELSE IF m = "request" THEN write_varint(U64(10)) \o write_varint(U64(Len(v))) \o v
    ELSE write_varint(U64(8)) \o write_varint(AsU64(v))

estimate_encoded_len(m, v) ==
    IF v = Default(m) THEN 0
    ELSE IF m = "request" THEN 1 + varint_len(U64(Len(v))) + Len(v)
    ELSE 1 + varint_len(AsU64(v))

-----------------------------------------------------------------------------
(***************************************************************************)
(* Decoding.                                                               *)
(***************************************************************************)

\* What next_field does with a key: a field number of 1 to 2^29 - 1 and a wire
\* type that is neither a group nor reserved.
ValidKey(key) ==
    /\ key[0] \div 8 # 0 \/ \E g \in 1 .. 9 : key[g] # 0
    /\ key[4] < 16 /\ \A g \in 5 .. 9 : key[g] = 0
    /\ key[0] % 8 \notin {3, 4, 6, 7}

\* The key of field 1 and a wire type.
IsFirst(key, wire_type) == key = U64(8 + wire_type)

Skipped(to) == [ok |-> to <= Len(bytes), value |-> U64(0), offset |-> to]

\* skip_bytes.
skip_bytes(off, n) == Skipped(off + n)

\* read_length_delimited: a length that is past the payload, past memory or
\* past usize is refused alike.
read_length_delimited(off) ==
    LET length == read_varint(off)
    IN  IF length.ok /\ Small(length.value)
        THEN Skipped(length.offset + Number(length.value))
        ELSE Failed

\* skip, of the wire types that a valid key has.
skip(off, wire_type) ==
    IF wire_type = 0 THEN read_varint(off)
    ELSE IF wire_type = 2 THEN read_length_delimited(off)
    ELSE skip_bytes(off, IF wire_type = 1 THEN 8 ELSE 4)

\* std::str::from_utf8.  The first byte of a character says how many bytes it
\* has, none if no character begins with it, and what the second one may be.
CharSize(b) ==
    IF b < 128 THEN 1
    ELSE IF b < 194 \/ b > 244 THEN 0
    ELSE IF b < 224 THEN 2
    ELSE IF b < 240 THEN 3 ELSE 4

SecondByte(b) ==
    (IF b = 224 THEN 160 ELSE IF b = 240 THEN 144 ELSE 128) ..
    (IF b = 237 THEN 159 ELSE IF b = 244 THEN 143 ELSE 191)

CharAt(text, i) ==
    LET end == i + CharSize(text[i])
    IN  /\ i < end /\ end <= Len(text) + 1
        /\ \A j \in i + 1 .. end - 1 :
               text[j] \in (IF j = i + 1 THEN SecondByte(text[i]) ELSE 128 .. 191)

\* Every byte begins a character or belongs to an earlier one.
IsUtf8(text) ==
    \A i \in 1 .. Len(text) :
        \E j \in 1 .. i : CharAt(text, j) /\ i < j + CharSize(text[j])

\* The field that begins at the offset is the one the message has.
Known(key) == IsFirst(key, IF message = "request" THEN 2 ELSE 0)

\* What decode makes of the known field that ends at an offset.
Content(from, read) ==
    IF message = "response" THEN AsI32(read.value)
    ELSE SubSeq(bytes, read_varint(from).offset + 1, read.offset)

Fail == pc' = "failed" /\ UNCHANGED <<offset, value>>

\* A turn of the loop in decode.  The value of the known field is read and
\* kept, the value of any other is skipped.
DecodeField ==
    /\ pc = "reading" /\ offset < Len(bytes)
    /\ LET key == read_varint(offset)
           read == IF key.ok /\ ValidKey(key.value)
                   THEN skip(key.offset, key.value[0] % 8) ELSE Failed
           known == Known(key.value)
       IN  IF ~read.ok \/ (known /\ message = "request" /\ ~IsUtf8(Content(key.offset, read)))
           THEN Fail
           ELSE /\ offset' = read.offset
                /\ value' = IF known THEN Content(key.offset, read) ELSE value
                /\ pc' = pc
    /\ UNCHANGED <<message, bytes, fields, sent>>

\* next_field finds nothing left.
DecodeEnd ==
    /\ pc = "reading" /\ offset = Len(bytes)
    /\ pc' = "decoded"
    /\ UNCHANGED <<message, bytes, offset, value, fields, sent>>

Done == pc # "reading" /\ UNCHANGED vars

-----------------------------------------------------------------------------
(***************************************************************************)
(* What is on the wire, as the protocol has it and not as it is read.  A   *)
(* part of a sequence of bytes is where it begins and ends.                *)
(***************************************************************************)
Messages == {"request", "response"}

\* A varint: any number of zero groups may follow, within ten bytes and 64 bits.
IsVarint(b, from, to) ==
    /\ to \in from + 1 .. Len(b) /\ to <= from + 10
    /\ \A i \in from + 1 .. to - 1 : b[i] >= 128
    /\ b[to] < 128 /\ (to = from + 10 => b[to] <= 1)

VarintAt(b, from, to) == [g \in Groups |-> IF g < to - from THEN b[from + g + 1] % 128 ELSE 0]

\* Ten bytes that are more than 64 bits, or that do not end.
IsTooLong(b, from) ==
    /\ from + 10 <= Len(b)
    /\ \A i \in from + 1 .. from + 9 : b[i] >= 128
    /\ b[from + 10] > 1

\* A length and as many bytes, up to the end.
IsDelimited(b, from, to) ==
    /\ IsVarint(b, from, to)
    /\ Small(VarintAt(b, from, to)) /\ Number(VarintAt(b, from, to)) = Len(b) - to

\* A field of any number and wire type, and what it says: field 1 as a varint
\* is the status, field 1 as text the service.
WireField(f) ==
    LET b == f.bytes
        size == Len(b)
        Key(k) == VarintAt(b, 0, k)
        Text(l) == SubSeq(b, l + 1, size)
    IN  \E k \in 1 .. size :
            /\ IsVarint(b, 0, k) /\ ValidKey(Key(k))
            /\ \/ /\ Key(k)[0] % 8 = 0 /\ IsVarint(b, k, size)
                  /\ f.status = (IF Key(k) = U64(8) THEN {AsI32(VarintAt(b, k, size))} ELSE {})
                  /\ f.service = {} /\ f.valid = Messages
               \/ /\ Key(k)[0] % 8 \in {1, 5} /\ size = k + (IF Key(k)[0] % 8 = 1 THEN 8 ELSE 4)
                  /\ f.status = {} /\ f.service = {} /\ f.valid = Messages
               \/ /\ Key(k)[0] % 8 = 2 /\ f.status = {}
                  /\ \E l \in k + 1 .. size :
                        /\ IsDelimited(b, k, l)
                        /\ LET named == Key(k) = U64(10)
                           IN  /\ f.service = (IF named /\ IsUtf8(Text(l)) THEN {Text(l)} ELSE {})
                               /\ f.valid = (IF named /\ ~IsUtf8(Text(l)) THEN {"response"} ELSE Messages)

\* What is no field, and no beginning of one: a key that is no key, or a value
\* or a length that is too long.
BrokenField(f) ==
    LET b == f.bytes
        Key(k) == VarintAt(b, 0, k)
    IN  /\ f.valid = {}
        /\ \/ IsTooLong(b, 0)
           \/ \E k \in 1 .. Len(b) :
                /\ IsVarint(b, 0, k)
                /\ \/ ~ValidKey(Key(k))
                   \/ Key(k)[0] % 8 \in {0, 2} /\ IsTooLong(b, k)
                   \/ /\ Key(k)[0] % 8 = 2
                      /\ \E l \in k + 1 .. Len(b) : IsVarint(b, k, l) /\ ~Small(VarintAt(b, k, l))

\* An i32, and text.
I32s == {s \in [I32Groups -> 0 .. 127] : s[4] < 16}
Texts == {t \in Seq(0 .. 255) : Len(t) < PayloadBound /\ IsUtf8(t)}

ASSUME HealthCodecAssumption ==
    /\ MaxFields \in Nat
    /\ Statuses \subseteq I32s
    /\ Services \subseteq Texts
    /\ \A f \in Fields : /\ f.bytes \in Seq(0 .. 255) /\ Len(f.bytes) * MaxFields < PayloadBound
                         /\ WireField(f) \/ BrokenField(f)

\* The first n of some fields.
Wire(fs, n) ==
    LET Joined[i \in 0 .. Len(fs)] == IF i = 0 THEN <<>> ELSE Joined[i - 1] \o fs[i].bytes
    IN  Joined[n]

\* A payload comes from this codec, or from a peer; what a peer wrote may
\* have been cut anywhere.
Init ==
    /\ message \in Messages
    /\ offset = 0
    /\ value = Default(message)
    /\ pc = "reading"
    /\ \/ /\ fields \in BoundedSeq(Fields, MaxFields)
          /\ \E n \in 0 .. Len(Wire(fields, Len(fields))) :
                bytes = SubSeq(Wire(fields, Len(fields)), 1, n)
          /\ sent = {}
       \/ /\ fields = <<>>
          /\ \E v \in (IF message = "request" THEN Services ELSE Statuses) :
                sent = {v} /\ bytes = encode_into(message, v)

Next == DecodeField \/ DecodeEnd \/ Done

Spec == Init /\ [][Next]_vars

-----------------------------------------------------------------------------
(***************************************************************************)
(* Properties.                                                             *)
(***************************************************************************)

\* How much of what the peer wrote ends before the cut.
Whole == Max({n \in 0 .. Len(fields) : Len(Wire(fields, n)) <= Len(bytes)})

\* The payload is the first fields, none of them cut and each of them valid.
WellFormed ==
    /\ Wire(fields, Whole) = bytes
    /\ \A i \in 1 .. Whole : message \in fields[i].valid

Told(f) == IF message = "request" THEN f.service ELSE f.status

\* What the first n fields say: the last of those that speak of the value.
Meaning(n) ==
    LET speaking == {i \in 1 .. n : Told(fields[i]) # {}}
    IN  IF speaking = {} THEN {Default(message)} ELSE Told(fields[Max(speaking)])

\* A payload is decoded exactly when it is a sequence of whole, valid fields,
\* and then to what the last field of the message's own says: fields of later
\* versions, of any wire type and in any place, change nothing, a varint may
\* be longer than it need be, and a payload that was cut is an error unless
\* the cut is between fields, and is never read past (decode, next_field,
\* skip, read_varint).
DecodesWholeFields ==
    /\ offset <= Len(bytes)
    /\ sent = {} /\ pc # "reading" =>
        /\ pc = "decoded" <=> WellFormed
        /\ pc = "decoded" => value \in Meaning(Whole)

\* What this codec wrote it reads back, in the length it announced: a name at
\* the length where its own length needs a second byte, and a status that is
\* negative, which is sign extended to ten bytes as other protobuf readers
\* expect it (encode_into, decode, estimate_encoded_len).
RoundTrip ==
    sent # {} =>
        /\ pc # "failed"
        /\ pc = "decoded" => sent = {value}
        /\ \A v \in sent :
              /\ Len(bytes) = estimate_encoded_len(message, v)
              /\ message = "response" /\ v[4] >= 8 => Len(bytes) = 11
=============================================================================
