-------------------------- MODULE Discovery_proofs --------------------------
(***************************************************************************)
(* What the operators of ByteArray and DoIPMessage compute, for every byte  *)
(* string, and what the steps of Discovery preserve.                        *)
(***************************************************************************)
EXTENDS Discovery, SequenceTheorems, WellFoundedInduction, TLAPS

-----------------------------------------------------------------------------
(* Byte strings.                                                           *)

\* Rest and Slice are byte strings again.
LEMMA RestBytes ==
    ASSUME NEW s \in Seq(Byte), NEW n \in 0..Len(s)
    PROVE  /\ Rest(s, n) \in Seq(Byte)
           /\ Len(Rest(s, n)) = Len(s) - n
           /\ \A i \in 1..Len(s) - n : Rest(s, n)[i] = s[n + i]
  BY DEF Rest

LEMMA SliceBytes ==
    ASSUME NEW s \in Seq(Byte), NEW n \in Nat, NEW m \in Nat, n + m <= Len(s)
    PROVE  /\ Slice(s, n, m) \in Seq(Byte)
           /\ Len(Slice(s, n, m)) = m
           /\ \A i \in 1..m : Slice(s, n, m)[i] = s[n + i]
  BY DEF Slice

\* The numbers of 16 bits. The bound is a definition because the provers handle
\* a name better than a large numeral.
MaxWord == 65535
Word == 0..MaxWord

LEMMA WordIsNat ==
    ASSUME NEW v \in Word
    PROVE  v \in Nat /\ v < 65536
<1>1. MaxWord \in Nat /\ MaxWord < 65536
  BY SMT DEF MaxWord
<1> QED
  BY <1>1, SMT DEF Word

LEMMA NatIsWord ==
    ASSUME NEW v \in Nat, v < 65536
    PROVE  v \in Word
<1>1. MaxWord \in Nat /\ v <= MaxWord
  BY SMT DEF MaxWord
<1> QED
  BY <1>1, SMT DEF Word

LEMMA AddressIsWord == DoIPAddress = Word
  BY SMT DEF DoIPAddress, Word, MaxWord

\* The numbers two and four bytes stand for.
U16(c, d) == c * 256 + d
U32(a, b, c, d) == ((a * 256 + b) * 256 + c) * 256 + d

LEMMA U16BEBytes ==
    ASSUME NEW v \in Word
    PROVE  /\ U16BE(v) = <<v \div 256, (v % 256)>>
           /\ v \div 256 \in Byte /\ (v % 256) \in Byte
           /\ U16BE(v) \in Seq(Byte) /\ Len(U16BE(v)) = 2
           /\ U16BE(v)[1] = v \div 256 /\ U16BE(v)[2] = (v % 256)
           /\ U16(v \div 256, v % 256) = v
<1>0. v \in Nat /\ v < 65536
  BY WordIsNat
<1>1. /\ v \div 256 \in Nat /\ v \div 256 < 256
      /\ (v % 256) \in Nat /\ (v % 256) < 256
  BY <1>0, SMT
<1>2. v = 256 * (v \div 256) + (v % 256)
  BY <1>0, <1>1, SMT
<1>3. (v \div 256) % 256 = v \div 256
  BY <1>0, SMT
<1>4. U16BE(v) = <<v \div 256, (v % 256)>>
  BY <1>3 DEF U16BE
<1>5. v \div 256 \in Byte /\ (v % 256) \in Byte
  BY <1>1, SMT DEF Byte
<1>6. U16(v \div 256, v % 256) = v
  BY <1>1, <1>2, SMT DEF U16
<1> QED
  BY <1>4, <1>5, <1>6, SMT

LEMMA U32BEBytes ==
    ASSUME NEW v \in Word
    PROVE  /\ U32BE(v) = <<0, 0, v \div 256, (v % 256)>>
           /\ U32BE(v) \in Seq(Byte) /\ Len(U32BE(v)) = 4
<1>0. v \in Nat /\ v < 65536
  BY WordIsNat
<1>1. (v \div 16777216) % 256 = 0 /\ (v \div 65536) % 256 = 0
  BY <1>0, SMT
<1>2. (v \div 256) % 256 = v \div 256
  BY <1>0, SMT
<1>3. U32BE(v) = <<0, 0, v \div 256, (v % 256)>>
  BY <1>1, <1>2 DEF U32BE
<1>4. v \div 256 \in Byte /\ (v % 256) \in Byte /\ 0 \in Byte
  BY U16BEBytes, SMT DEF Byte
<1> QED
  BY <1>3, <1>4, SMT

\* Two bytes are a number of 16 bits, and U16BE gives them back.
LEMMA U16BEInverse ==
    ASSUME NEW c \in Byte, NEW d \in Byte
    PROVE  /\ U16(c, d) \in Word
           /\ U16(c, d) \div 256 = c /\ U16(c, d) % 256 = d
           /\ U16BE(U16(c, d)) = <<c, d>>
<1>1. c \in Nat /\ d \in Nat /\ c < 256 /\ d < 256
  BY SMT DEF Byte
<1>2. /\ U16(c, d) \in Nat /\ U16(c, d) < 65536
      /\ U16(c, d) \div 256 = c /\ U16(c, d) % 256 = d
  BY <1>1, SMT DEF U16
<1>3. U16(c, d) \in Word
  BY <1>2, NatIsWord
<1> QED
  BY <1>2, <1>3, U16BEBytes

LEMMA U32Nat ==
    ASSUME NEW a \in Byte, NEW b \in Byte, NEW c \in Byte, NEW d \in Byte
    PROVE  U32(a, b, c, d) \in Nat
<1>1. a \in Nat /\ b \in Nat /\ c \in Nat /\ d \in Nat
  BY SMT DEF Byte
<1> QED
  BY <1>1, SMT DEF U32

\* Four bytes that make a number below 2^16 are those U32BE writes.
LEMMA U32BEInverse ==
    ASSUME NEW a \in Byte, NEW b \in Byte, NEW c \in Byte, NEW d \in Byte,
           NEW v \in Word
    PROVE  U32(a, b, c, d) = v
              <=> a = 0 /\ b = 0 /\ c = v \div 256 /\ d = v % 256
<1>1. /\ a \in Nat /\ b \in Nat /\ c \in Nat /\ d \in Nat
      /\ a < 256 /\ b < 256 /\ c < 256 /\ d < 256
  BY SMT DEF Byte
<1>2. ASSUME U32(a, b, c, d) = v
      PROVE  a = 0 /\ b = 0
  BY <1>1, <1>2, WordIsNat, SMT DEF U32
<1>3. U16(c, d) = v <=> c = v \div 256 /\ d = v % 256
  <2>1. ASSUME U16(c, d) = v
        PROVE  c = v \div 256 /\ d = v % 256
    BY <2>1, U16BEInverse
  <2>2. ASSUME c = v \div 256, d = v % 256
        PROVE  U16(c, d) = v
    BY <2>2, U16BEBytes
  <2> QED
    BY <2>1, <2>2
<1>4. ASSUME a = 0, b = 0
      PROVE  U32(a, b, c, d) = U16(c, d)
  BY <1>1, <1>4, SMT DEF U32, U16
<1> QED
  BY <1>2, <1>3, <1>4

LEMMA SomeNotNone == \A v : Some(v) # None /\ Value(Some(v)) = v /\ HasValue(Some(v))
  BY DEF Some, None, Value, HasValue

\* The concatenation of byte strings.
LEMMA ConcatBytes ==
    ASSUME NEW s \in Seq(Byte), NEW t \in Seq(Byte)
    PROVE  /\ s \o t \in Seq(Byte)
           /\ Len(s) \in Nat /\ Len(t) \in Nat
           /\ Len(s \o t) = Len(s) + Len(t)
           /\ \A i \in 1..Len(s) : (s \o t)[i] = s[i]
           /\ \A i \in 1..Len(t) : (s \o t)[Len(s) + i] = t[i]
<1>1. /\ s \o t \in Seq(Byte)
      /\ Len(s \o t) = Len(s) + Len(t)
      /\ \A i \in 1..Len(s) + Len(t) :
            (s \o t)[i] = IF i <= Len(s) THEN s[i] ELSE t[i - Len(s)]
  BY ConcatProperties, Zenon
<1>2. Len(s) \in Nat /\ Len(t) \in Nat
  BY LenProperties
<1> QED
  BY <1>1, <1>2, SMT

LEMMA AppendBytes ==
    ASSUME NEW s \in Seq(Byte), NEW b \in Byte
    PROVE  /\ Append(s, b) \in Seq(Byte)
           /\ Len(Append(s, b)) = Len(s) + 1
           /\ \A i \in 1..Len(s) : Append(s, b)[i] = s[i]
           /\ Append(s, b)[Len(s) + 1] = b
  BY SMT

-----------------------------------------------------------------------------
(* Messages.                                                               *)

\* The layout of a message of type t with payload p.
MessageOf(m, t, p) ==
    /\ m \in Seq(Byte)
    /\ Len(m) = 8 + Len(p)
    /\ m[1] = 3 /\ m[2] = 252
    /\ m[3] = t \div 256 /\ m[4] = t % 256
    /\ m[5] = 0 /\ m[6] = 0
    /\ m[7] = Len(p) \div 256 /\ m[8] = Len(p) % 256
    /\ \A i \in 1..Len(p) : m[8 + i] = p[i]

LEMMA BuildLayout ==
    ASSUME NEW t \in Word, NEW p \in Seq(Byte), Len(p) \in Word
    PROVE  MessageOf(buildMessage(t, p), t, p)
<1> DEFINE version == <<PROTOCOL_VERSION, PROTOCOL_VERSION_INV>>
           typed == version \o U16BE(t)
           headed == typed \o U32BE(Len(p))
<1>1. /\ version \in Seq(Byte) /\ Len(version) = 2
      /\ version[1] = 3 /\ version[2] = 252
  BY SMT DEF PROTOCOL_VERSION, PROTOCOL_VERSION_INV, Byte
<1>2. /\ U16BE(t) \in Seq(Byte) /\ Len(U16BE(t)) = 2
      /\ U16BE(t)[1] = t \div 256 /\ U16BE(t)[2] = t % 256
  BY U16BEBytes
<1>3. /\ Len(p) \in Nat
      /\ U32BE(Len(p)) \in Seq(Byte) /\ Len(U32BE(Len(p))) = 4
      /\ U32BE(Len(p)) = <<0, 0, Len(p) \div 256, Len(p) % 256>>
  BY U32BEBytes, LenProperties
<1> HIDE DEF version
<1>4. /\ typed \in Seq(Byte) /\ Len(typed) = 4
      /\ typed[1] = 3 /\ typed[2] = 252
      /\ typed[3] = t \div 256 /\ typed[4] = t % 256
  <2>1. /\ typed \in Seq(Byte) /\ Len(typed) = Len(version) + Len(U16BE(t))
        /\ \A i \in 1..Len(version) : typed[i] = version[i]
        /\ \A i \in 1..Len(U16BE(t)) : typed[Len(version) + i] = U16BE(t)[i]
    <3>1. version \in Seq(Byte) /\ U16BE(t) \in Seq(Byte)
      BY <1>1, <1>2
    <3> QED
      BY <3>1, ConcatBytes, Zenon
  <2> QED
    BY <1>1, <1>2, <2>1, SMT
<1> HIDE DEF typed
<1>5. /\ headed \in Seq(Byte) /\ Len(headed) = 8
      /\ \A i \in 1..4 : headed[i] = typed[i]
      /\ headed[5] = 0 /\ headed[6] = 0
      /\ headed[7] = Len(p) \div 256 /\ headed[8] = Len(p) % 256
  <2> DEFINE length == U32BE(Len(p))
  <2>1. /\ headed \in Seq(Byte) /\ Len(headed) = Len(typed) + Len(length)
        /\ \A i \in 1..Len(typed) : headed[i] = typed[i]
        /\ \A i \in 1..Len(length) : headed[Len(typed) + i] = length[i]
    <3>1. typed \in Seq(Byte) /\ length \in Seq(Byte)
      BY <1>3, <1>4
    <3> QED
      BY <3>1, ConcatBytes, Zenon
  <2>2. /\ length[1] = 0 /\ length[2] = 0
        /\ length[3] = Len(p) \div 256 /\ length[4] = Len(p) % 256 /\ Len(length) = 4
    BY <1>3
  <2> HIDE DEF length, headed
  <2> QED
    BY <1>4, <2>1, <2>2, SMT
<1> HIDE DEF headed
<1>6. buildMessage(t, p) = headed \o p
  BY DEF buildMessage, writeU16BE, writeU32BE, headed, typed, version
<1>7. /\ headed \o p \in Seq(Byte) /\ Len(headed \o p) = 8 + Len(p)
      /\ \A i \in 1..8 : (headed \o p)[i] = headed[i]
      /\ \A i \in 1..Len(p) : (headed \o p)[8 + i] = p[i]
  <2>1. /\ headed \o p \in Seq(Byte) /\ Len(headed \o p) = Len(headed) + Len(p)
        /\ \A i \in 1..Len(headed) : (headed \o p)[i] = headed[i]
        /\ \A i \in 1..Len(p) : (headed \o p)[Len(headed) + i] = p[i]
    <3>1. headed \in Seq(Byte)
      BY <1>5
    <3> QED
      BY <3>1, ConcatBytes, Zenon
  <2> QED
    BY <1>5, <2>1
<1> DEFINE m == headed \o p
<1>8. /\ m[1] = 3 /\ m[2] = 252 /\ m[3] = t \div 256 /\ m[4] = t % 256
      /\ m[5] = 0 /\ m[6] = 0
      /\ m[7] = Len(p) \div 256 /\ m[8] = Len(p) % 256
  <2> HIDE DEF m
  <2>1. \A i \in 1..8 : m[i] = headed[i]
    BY <1>7 DEF m
  <2> QED
    BY <1>4, <1>5, <2>1
<1> QED
  BY <1>6, <1>7, <1>8, SMTT(30) DEF MessageOf

\* When a header is accepted, and what it says.
LEMMA HeaderParsed ==
    ASSUME NEW data \in Seq(Byte)
    PROVE  LET type == U16(data[3], data[4])
               length == U32(data[5], data[6], data[7], data[8])
           IN  /\ tryParseHeader(data) # None
                     <=> /\ Len(data) >= 8
                         /\ data[1] \in 1..4 /\ data[1] + data[2] = 255
                         /\ isValidPayloadType(type)
               /\ tryParseHeader(data) # None =>
                     /\ Value(tryParseHeader(data)).type = type
                     /\ Value(tryParseHeader(data)).length = length
                     /\ length \in Nat
<1>1. ASSUME Len(data) >= 8
      PROVE  \A i \in 1..8 : data[i] \in Byte
  BY <1>1, LenProperties, ElementOfSeq
<1>2. toPayloadType(readU16BE(data, 2)) = None
          <=> ~isValidPayloadType(U16(data[3], data[4]))
  BY SomeNotNone, SMT DEF toPayloadType, readU16BE, At, U16
<1>3. isValidProtocolVersion(data)
          <=> Len(data) >= 2 /\ data[1] \in 1..4 /\ data[1] + data[2] = 255
  BY SMT DEF isValidProtocolVersion, At
<1>4. CASE tryParseHeader(data) = None
  BY <1>2, <1>3, <1>4, SomeNotNone, LenProperties, SMT DEF tryParseHeader, DOIP_HEADER_SIZE
<1>5. CASE tryParseHeader(data) # None
  <2>1. /\ Len(data) >= 8
        /\ isValidProtocolVersion(data)
        /\ toPayloadType(readU16BE(data, 2)) # None
        /\ tryParseHeader(data)
             = Some([type |-> readU16BE(data, 2), length |-> readU32BE(data, 4)])
    BY <1>5, LenProperties, SMT DEF tryParseHeader, DOIP_HEADER_SIZE
  <2>2. /\ readU16BE(data, 2) = U16(data[3], data[4])
        /\ readU32BE(data, 4) = U32(data[5], data[6], data[7], data[8])
    BY SMT DEF readU16BE, readU32BE, At, U16, U32
  <2>3. readU32BE(data, 4) \in Nat
    <3>1. /\ data[5] \in Byte /\ data[6] \in Byte /\ data[7] \in Byte /\ data[8] \in Byte
      BY <1>1, <2>1, SMT
    <3> QED
      BY <2>2, <3>1, U32Nat
  <2> QED
    BY <1>2, <1>3, <1>5, <2>1, <2>2, <2>3, SomeNotNone
<1> QED
  BY <1>4, <1>5

\* A payload type of the table is valid, and every valid one is in the table.
LEMMA PayloadTypes ==
    /\ \A t \in DOMAIN DoIPPayloadType : isValidPayloadType(DoIPPayloadType[t])
    /\ \A v : isValidPayloadType(v) => /\ v \in Word
                                       /\ \E t \in DOMAIN DoIPPayloadType : DoIPPayloadType[t] = v
<1>1. \A t \in DOMAIN DoIPPayloadType : isValidPayloadType(DoIPPayloadType[t])
  BY SMT DEF DoIPPayloadType, isValidPayloadType
<1>2. \A v : isValidPayloadType(v) => v \in Word
  <2>1. \A v : isValidPayloadType(v) => v \in Nat /\ v < 65536
    BY SMT DEF isValidPayloadType
  <2> QED
    BY <2>1, NatIsWord, SMT
<1>3. ASSUME NEW v, isValidPayloadType(v)
      PROVE  \E t \in DOMAIN DoIPPayloadType : DoIPPayloadType[t] = v
  BY <1>3, SMT DEF DoIPPayloadType, isValidPayloadType
<1> QED
  BY <1>1, <1>2, <1>3

\* The message tryParse returns is the beginning of the data, as long as its
\* header says.
LEMMA MessageParsed ==
    ASSUME NEW data \in Seq(Byte), tryParse(data) # None
    PROVE  LET m == Value(tryParse(data))
           IN  /\ tryParseHeader(data) # None
               /\ tryParse(data) = Some(m)
               /\ m \in Seq(Byte) /\ Len(m) <= Len(data)
               /\ Len(m) = 8 + Value(tryParseHeader(data)).length
               /\ Len(m) >= 8 /\ Len(m) \in Nat
               /\ \A i \in 1..Len(m) : m[i] = data[i]
<1> DEFINE size == DOIP_HEADER_SIZE + Value(tryParseHeader(data)).length
<1>1. tryParseHeader(data) # None /\ ~(Len(data) < size) /\ tryParse(data) = Some(Slice(data, 0, size))
  BY SMT DEF tryParse
<1>2. size \in Nat /\ size >= 8 /\ size = 8 + Value(tryParseHeader(data)).length
  BY <1>1, HeaderParsed, SMT DEF DOIP_HEADER_SIZE
<1>3. Len(data) \in Nat
  BY LenProperties
<1> HIDE DEF size
<1>4. /\ Slice(data, 0, size) \in Seq(Byte) /\ Len(Slice(data, 0, size)) = size
      /\ \A i \in 1..size : Slice(data, 0, size)[i] = data[0 + i]
  <2>1. 0 \in Nat /\ 0 + size <= Len(data)
    BY <1>1, <1>2, <1>3, SMT
  <2> QED
    BY <1>2, <2>1, SliceBytes, Zenon
<1>5. \A i \in 1..size : 0 + i = i
  BY <1>2, SMT
<1>6. Value(tryParse(data)) = Slice(data, 0, size)
  BY <1>1, SomeNotNone
<1> QED
  BY <1>1, <1>2, <1>3, <1>4, <1>5, <1>6

\* Data that begins with a whole message is parsed.
LEMMA MessageFound ==
    ASSUME NEW data \in Seq(Byte), tryParseHeader(data) # None,
           8 + Value(tryParseHeader(data)).length <= Len(data)
    PROVE  tryParse(data) # None
<1>1. Value(tryParseHeader(data)).length \in Nat /\ Len(data) \in Nat
  BY HeaderParsed, LenProperties
<1>2. ~(Len(data) < DOIP_HEADER_SIZE + Value(tryParseHeader(data)).length)
  BY <1>1, SMT DEF DOIP_HEADER_SIZE
<1> QED
  BY <1>2, SomeNotNone DEF tryParse

\* The payload of a message.
LEMMA PayloadOf ==
    ASSUME NEW m \in Seq(Byte), Len(m) >= 8
    PROVE  /\ getPayload(m) \in Seq(Byte)
           /\ Len(getPayload(m)) = Len(m) - 8
           /\ \A i \in 1..Len(m) - 8 : getPayload(m)[i] = m[8 + i]
           /\ getPayloadType(m) = U16(m[3], m[4])
<1>1. Len(m) \in Nat /\ 8 \in 0..Len(m) /\ ~(Len(m) < 8)
  BY LenProperties, SMT
<1>2. getPayload(m) = Rest(m, 8)
  BY DEF getPayload, DOIP_HEADER_SIZE
<1>3. getPayloadType(m) = U16(m[3], m[4])
  BY <1>1, SMT DEF getPayloadType, DOIP_HEADER_SIZE, readU16BE, At, U16
<1> QED
  BY <1>1, <1>2, <1>3, RestBytes, ZenonT(40)

\* The message buildMessage makes has the type and payload it was made of.
LEMMA BuiltMessage ==
    ASSUME NEW t \in Word, NEW p \in Seq(Byte), Len(p) \in Word
    PROVE  /\ getPayloadType(buildMessage(t, p)) = t
           /\ getPayload(buildMessage(t, p)) = p
<1> DEFINE m == buildMessage(t, p)
<1>1. /\ m \in Seq(Byte) /\ Len(m) = 8 + Len(p)
      /\ m[3] = t \div 256 /\ m[4] = t % 256
      /\ \A i \in 1..Len(p) : m[8 + i] = p[i]
  BY BuildLayout DEF MessageOf
<1>2. Len(p) \in Nat /\ Len(m) >= 8 /\ Len(m) - 8 = Len(p)
  BY <1>1, LenProperties, SMT
<1> HIDE DEF m
<1>3. getPayloadType(m) = U16(t \div 256, t % 256)
  BY <1>1, <1>2, PayloadOf
<1>4. /\ getPayload(m) \in Seq(Byte) /\ Len(getPayload(m)) = Len(p)
      /\ \A i \in 1..Len(p) : getPayload(m)[i] = p[i]
  BY <1>1, <1>2, PayloadOf, ZenonT(40)
<1>5. getPayload(m) = p
  BY <1>4, SeqEqual, Zenon
<1> QED
  BY <1>3, <1>5, U16BEBytes DEF m

-----------------------------------------------------------------------------
(* The identity in an announcement.                                        *)

\* A function on 1..n is a byte string of n bytes.
LEMMA FixedBytes ==
    ASSUME NEW n \in Nat, NEW f \in [1..n -> Byte]
    PROVE  f \in Seq(Byte) /\ Len(f) = n
<1>1. f \in Seq(Byte)
  BY SeqDef, Zenon
<1>2. 1..n = 1..Len(f) /\ Len(f) \in Nat
  BY <1>1, LenProperties
<1> QED
  BY <1>1, <1>2, SMT

LEMMA BytesFixed ==
    ASSUME NEW s \in Seq(Byte)
    PROVE  s \in [1..Len(s) -> Byte]
  BY LenProperties

\* A part of a byte string.
LEMMA PartBytes ==
    ASSUME NEW s \in Seq(Byte), NEW from \in Nat, NEW to \in Nat,
           from >= 1, from <= to, to <= Len(s)
    PROVE  /\ SubSeq(s, from, to) \in Seq(Byte)
           /\ Len(SubSeq(s, from, to)) = to - from + 1
           /\ \A i \in 1..to - from + 1 : SubSeq(s, from, to)[i] = s[from + i - 1]
  BY SMT

\* x stands in s from the given place on.
StandsAt(s, from, x) ==
    /\ from >= 1 /\ from + Len(x) - 1 <= Len(s)
    /\ \A i \in 1..Len(x) : s[from + i - 1] = x[i]

LEMMA PartEqual ==
    ASSUME NEW s \in Seq(Byte), NEW x \in Seq(Byte), NEW from \in Nat, StandsAt(s, from, x)
    PROVE  SubSeq(s, from, from + Len(x) - 1) = x
<1>1. Len(x) \in Nat /\ Len(s) \in Nat
  BY LenProperties
<1>2. CASE Len(x) = 0
  <2>1. from + Len(x) - 1 < from /\ from \in Int /\ from + Len(x) - 1 \in Int
    BY <1>1, <1>2, SMT
  <2>2. x = <<>>
    BY <1>2, EmptySeq
  <2> QED
    BY <2>1, <2>2, SubSeqEmpty
<1>3. CASE Len(x) >= 1
  <2> DEFINE to == from + Len(x) - 1
  <2>1. to \in Nat /\ from >= 1 /\ from <= to /\ to <= Len(s) /\ to - from + 1 = Len(x)
    BY <1>1, <1>3, SMT DEF StandsAt
  <2> HIDE DEF to
  <2>2. /\ SubSeq(s, from, to) \in Seq(Byte)
        /\ Len(SubSeq(s, from, to)) = to - from + 1
        /\ \A i \in 1..to - from + 1 : SubSeq(s, from, to)[i] = s[from + i - 1]
    BY <2>1, PartBytes, Zenon
  <2>3. \A i \in 1..Len(x) : SubSeq(s, from, to)[i] = x[i]
    BY <2>1, <2>2 DEF StandsAt
  <2> QED
    BY <2>1, <2>2, <2>3, SeqEqual, Zenon DEF to
<1> QED
  BY <1>1, <1>2, <1>3, SMT

\* The announced payload is laid out as ISO 13400 says.
AnnouncedPayload(p, vin, la, eid, gid) ==
    /\ p \in Seq(Byte) /\ Len(p) = 33
    /\ \A i \in 1..17 : p[i] = vin[i]
    /\ \A i \in 1..2 : p[17 + i] = U16BE(la)[i]
    /\ \A i \in 1..6 : p[19 + i] = eid[i]
    /\ \A i \in 1..6 : p[25 + i] = gid[i]
    /\ p[32] = 0

LEMMA AnnouncementLayout ==
    ASSUME NEW vin \in [1..17 -> Byte], NEW la \in Word,
           NEW eid \in [1..6 -> Byte], NEW gid \in [1..6 -> Byte]
    PROVE  AnnouncedPayload(
               writeEnum(writeEnum(writeU16BE(vin, la) \o eid \o gid, NoFurtherAction),
                         GidVinSynchronized),
               vin, la, eid, gid)
<1> DEFINE a == vin \o U16BE(la)
           b == a \o eid
           c == b \o gid
           d == Append(c, 0)
           e == Append(d, 0)
<1>1. vin \in Seq(Byte) /\ Len(vin) = 17
  BY FixedBytes
<1>2. eid \in Seq(Byte) /\ Len(eid) = 6 /\ gid \in Seq(Byte) /\ Len(gid) = 6
  BY FixedBytes
<1>3. U16BE(la) \in Seq(Byte) /\ Len(U16BE(la)) = 2
  BY U16BEBytes
<1>4. /\ a \in Seq(Byte) /\ Len(a) = 19
      /\ \A i \in 1..17 : a[i] = vin[i]
      /\ \A i \in 1..2 : a[17 + i] = U16BE(la)[i]
  <2>1. /\ a \in Seq(Byte) /\ Len(a) = Len(vin) + Len(U16BE(la))
        /\ \A i \in 1..Len(vin) : a[i] = vin[i]
        /\ \A i \in 1..Len(U16BE(la)) : a[Len(vin) + i] = U16BE(la)[i]
    BY <1>1, <1>3, ConcatBytes, Zenon
  <2> HIDE DEF a
  <2> QED
    BY <1>1, <1>3, <2>1
<1> HIDE DEF a
<1>5. /\ b \in Seq(Byte) /\ Len(b) = 25
      /\ \A i \in 1..19 : b[i] = a[i]
      /\ \A i \in 1..6 : b[19 + i] = eid[i]
  <2>1. /\ b \in Seq(Byte) /\ Len(b) = Len(a) + Len(eid)
        /\ \A i \in 1..Len(a) : b[i] = a[i]
        /\ \A i \in 1..Len(eid) : b[Len(a) + i] = eid[i]
    <3>1. a \in Seq(Byte) /\ eid \in Seq(Byte)
      BY <1>2, <1>4
    <3> QED
      BY <3>1, ConcatBytes, Zenon
  <2> HIDE DEF b
  <2> QED
    BY <1>2, <1>4, <2>1
<1> HIDE DEF b
<1>6. /\ c \in Seq(Byte) /\ Len(c) = 31
      /\ \A i \in 1..25 : c[i] = b[i]
      /\ \A i \in 1..6 : c[25 + i] = gid[i]
  <2>1. /\ c \in Seq(Byte) /\ Len(c) = Len(b) + Len(gid)
        /\ \A i \in 1..Len(b) : c[i] = b[i]
        /\ \A i \in 1..Len(gid) : c[Len(b) + i] = gid[i]
    <3>1. b \in Seq(Byte) /\ gid \in Seq(Byte)
      BY <1>2, <1>5
    <3> QED
      BY <3>1, ConcatBytes, Zenon
  <2> HIDE DEF c
  <2> QED
    BY <1>2, <1>5, <2>1
<1> HIDE DEF c
<1>7. 0 \in Byte
  BY SMT DEF Byte
<1>8. /\ d \in Seq(Byte) /\ Len(d) = 32
      /\ \A i \in 1..31 : d[i] = c[i]
      /\ d[32] = 0
  <2>1. /\ d \in Seq(Byte) /\ Len(d) = Len(c) + 1
        /\ \A i \in 1..Len(c) : d[i] = c[i]
        /\ d[Len(c) + 1] = 0
    <3>1. c \in Seq(Byte)
      BY <1>6
    <3> QED
      BY <1>7, <3>1, AppendBytes, Zenon
  <2> HIDE DEF d
  <2> QED
    BY <1>6, <2>1
<1> HIDE DEF d
<1>9. /\ e \in Seq(Byte) /\ Len(e) = 33
      /\ \A i \in 1..32 : e[i] = d[i]
  <2>1. /\ e \in Seq(Byte) /\ Len(e) = Len(d) + 1
        /\ \A i \in 1..Len(d) : e[i] = d[i]
    <3>1. d \in Seq(Byte)
      BY <1>8
    <3> QED
      BY <1>7, <3>1, AppendBytes, Zenon
  <2> HIDE DEF e
  <2> QED
    BY <1>8, <2>1
<1> HIDE DEF e
<1>10. writeEnum(writeEnum(writeU16BE(vin, la) \o eid \o gid, NoFurtherAction),
                 GidVinSynchronized) = e
  <2>1. NoFurtherAction % 256 = 0 /\ GidVinSynchronized % 256 = 0
    BY SMT DEF NoFurtherAction, GidVinSynchronized
  <2> QED
    BY <2>1 DEF writeEnum, writeU16BE, a, b, c, d, e
<1>11. /\ \A i \in 1..17 : e[i] = vin[i]
       /\ \A i \in 1..2 : e[17 + i] = U16BE(la)[i]
       /\ \A i \in 1..6 : e[19 + i] = eid[i]
       /\ \A i \in 1..6 : e[25 + i] = gid[i]
       /\ e[32] = 0
  <2>1. ASSUME NEW i \in 1..17 PROVE e[i] = vin[i]
    <3>1. i \in 1..32 /\ i \in 1..31 /\ i \in 1..25 /\ i \in 1..19
      BY SMT
    <3>2. e[i] = d[i] /\ d[i] = c[i]
      BY <3>1, <1>8, <1>9
    <3>3. c[i] = b[i] /\ b[i] = a[i] /\ a[i] = vin[i]
      BY <3>1, <1>4, <1>5, <1>6
    <3> QED
      BY <3>2, <3>3
  <2>2. ASSUME NEW i \in 1..2 PROVE e[17 + i] = U16BE(la)[i]
    <3> DEFINE j == 17 + i
    <3>1. j \in 1..32 /\ j \in 1..31 /\ j \in 1..25 /\ j \in 1..19
      BY SMT
    <3>2. a[j] = U16BE(la)[i]
      BY <1>4
    <3> HIDE DEF j
    <3>3. e[j] = d[j] /\ d[j] = c[j]
      BY <3>1, <1>8, <1>9
    <3>4. c[j] = b[j] /\ b[j] = a[j]
      BY <3>1, <1>5, <1>6
    <3>5. e[j] = U16BE(la)[i]
      BY <3>2, <3>3, <3>4
    <3> QED
      BY <3>5 DEF j
  <2>3. ASSUME NEW i \in 1..6 PROVE e[19 + i] = eid[i]
    <3> DEFINE j == 19 + i
    <3>1. j \in 1..32 /\ j \in 1..31 /\ j \in 1..25
      BY SMT
    <3>2. b[j] = eid[i]
      BY <1>5
    <3> HIDE DEF j
    <3>3. e[j] = d[j] /\ d[j] = c[j]
      BY <3>1, <1>8, <1>9
    <3>4. c[j] = b[j]
      BY <3>1, <1>6
    <3>5. e[j] = eid[i]
      BY <3>2, <3>3, <3>4
    <3> QED
      BY <3>5 DEF j
  <2>4. ASSUME NEW i \in 1..6 PROVE e[25 + i] = gid[i]
    <3> DEFINE j == 25 + i
    <3>1. j \in 1..32 /\ j \in 1..31
      BY SMT
    <3>2. c[j] = gid[i]
      BY <1>6
    <3> HIDE DEF j
    <3>3. e[j] = gid[i]
      BY <3>1, <3>2, <1>8, <1>9
    <3> QED
      BY <3>3 DEF j
  <2> QED
    BY <2>1, <2>2, <2>3, <2>4, <1>8, <1>9, SMT
<1> QED
  BY <1>9, <1>10, <1>11 DEF AnnouncedPayload

\* What the server announces carries the identity it was configured with.
LEMMA AnnouncedIdentity ==
    ASSUME config \in Configs
    PROVE  /\ Announcement \in Seq(Byte)
           /\ IdentityOf(Announcement) = ConfiguredIdentity
<1> DEFINE p == writeEnum(writeEnum(writeU16BE(config.vin, config.logicalAddress)
                                        \o config.eid \o config.gid, NoFurtherAction),
                          GidVinSynchronized)
           m == buildMessage(4, p)
<1>1. /\ config.vin \in [1..17 -> Byte] /\ config.logicalAddress \in Word
      /\ config.eid \in [1..6 -> Byte] /\ config.gid \in [1..6 -> Byte]
  BY ConfigsAssumption, AddressIsWord DEF VIN_LENGTH, EID_LENGTH
<1>2. /\ p \in Seq(Byte) /\ Len(p) = 33
      /\ \A i \in 1..17 : p[i] = config.vin[i]
      /\ \A i \in 1..2 : p[17 + i] = U16BE(config.logicalAddress)[i]
      /\ \A i \in 1..6 : p[19 + i] = config.eid[i]
      /\ \A i \in 1..6 : p[25 + i] = config.gid[i]
      /\ p[32] = 0
  <2>1. AnnouncedPayload(p, config.vin, config.logicalAddress, config.eid, config.gid)
    BY <1>1, AnnouncementLayout, Zenon
  <2> QED
    BY <2>1 DEF AnnouncedPayload
<1>3. Announcement = m
  BY DEF Announcement, makeVehicleIdentificationResponse, DoIPPayloadType
<1> HIDE DEF p
<1>4. 4 \in Word /\ 33 \in Word
  BY NatIsWord, SMT
<1>5. /\ m \in Seq(Byte) /\ Len(m) = 41
      /\ m[5] = 0 /\ m[6] = 0 /\ m[7] = 33 \div 256 /\ m[8] = 33 % 256
      /\ \A i \in 1..33 : m[8 + i] = p[i]
  <2>1. /\ m \in Seq(Byte) /\ Len(m) = 8 + Len(p)
        /\ m[5] = 0 /\ m[6] = 0 /\ m[7] = Len(p) \div 256 /\ m[8] = Len(p) % 256
        /\ \A i \in 1..Len(p) : m[8 + i] = p[i]
    <3>1. p \in Seq(Byte) /\ Len(p) \in Word
      BY <1>2, <1>4
    <3>2. MessageOf(m, 4, p)
      BY <1>4, <3>1, BuildLayout
    <3> QED
      BY <3>2 DEF MessageOf
  <2> QED
    BY <1>2, <2>1
<1> HIDE DEF m
<1>m. m \in Seq(Byte)
  BY <1>5
<1>6. getPayloadLengthFromHeader(m) = 33
  <2>1. getPayloadLengthFromHeader(m) = U32(m[5], m[6], m[7], m[8])
    BY <1>5, SMT DEF getPayloadLengthFromHeader, DOIP_HEADER_SIZE, readU32BE, At, U32
  <2>2. 33 \div 256 = 0 /\ 33 % 256 = 33
    BY SMT
  <2> QED
    BY <1>5, <2>1, <2>2, SMT DEF U32
<1>7. IdentityOf(m) = [vin |-> SubSeq(m, 9, 25), la |-> SubSeq(m, 26, 27),
                       eid |-> SubSeq(m, 28, 33), gid |-> SubSeq(m, 34, 39),
                       far |-> SubSeq(m, 40, 40)]
  BY <1>6 DEF IdentityOf, Smaller
<1>8. SubSeq(m, 9, 25) = config.vin
  <2>1. config.vin \in Seq(Byte) /\ Len(config.vin) = 17
    BY <1>1, FixedBytes
  <2>2. ASSUME NEW i \in 1..17
        PROVE  m[9 + i - 1] = config.vin[i]
    <3> DEFINE j == 0 + i
    <3>1. j \in 1..33 /\ 8 + j = 9 + i - 1 /\ j = i
      BY SMT
    <3>2. p[j] = config.vin[i]
      BY <1>2, <3>1
    <3> HIDE DEF j
    <3>3. m[8 + j] = p[j]
      BY <1>5, <3>1
    <3> QED
      BY <3>1, <3>2, <3>3
  <2>3. StandsAt(m, 9, config.vin) /\ 9 \in Nat /\ 9 + Len(config.vin) - 1 = 25
    BY <1>5, <2>1, <2>2, SMT DEF StandsAt
  <2>4. SubSeq(m, 9, 9 + Len(config.vin) - 1) = config.vin
    BY <1>m, <2>1, <2>3, PartEqual, Zenon
  <2> QED
    BY <2>3, <2>4
<1>9. SubSeq(m, 26, 27) = U16BE(config.logicalAddress)
  <2>1. U16BE(config.logicalAddress) \in Seq(Byte) /\ Len(U16BE(config.logicalAddress)) = 2
    BY <1>1, U16BEBytes
  <2>2. ASSUME NEW i \in 1..2
        PROVE  m[26 + i - 1] = U16BE(config.logicalAddress)[i]
    <3> DEFINE j == 17 + i
    <3>1. j \in 1..33 /\ 8 + j = 26 + i - 1
      BY SMT
    <3>2. p[j] = U16BE(config.logicalAddress)[i]
      BY <1>2, <3>1
    <3> HIDE DEF j
    <3>3. m[8 + j] = p[j]
      BY <1>5, <3>1
    <3> QED
      BY <3>1, <3>2, <3>3
  <2>3. StandsAt(m, 26, U16BE(config.logicalAddress)) /\ 26 \in Nat /\ 26 + Len(U16BE(config.logicalAddress)) - 1 = 27
    BY <1>5, <2>1, <2>2, SMT DEF StandsAt
  <2>4. SubSeq(m, 26, 26 + Len(U16BE(config.logicalAddress)) - 1) = U16BE(config.logicalAddress)
    BY <1>m, <2>1, <2>3, PartEqual, Zenon
  <2> QED
    BY <2>3, <2>4
<1>10. SubSeq(m, 28, 33) = config.eid
  <2>1. config.eid \in Seq(Byte) /\ Len(config.eid) = 6
    BY <1>1, FixedBytes
  <2>2. ASSUME NEW i \in 1..6
        PROVE  m[28 + i - 1] = config.eid[i]
    <3> DEFINE j == 19 + i
    <3>1. j \in 1..33 /\ 8 + j = 28 + i - 1
      BY SMT
    <3>2. p[j] = config.eid[i]
      BY <1>2, <3>1
    <3> HIDE DEF j
    <3>3. m[8 + j] = p[j]
      BY <1>5, <3>1
    <3> QED
      BY <3>1, <3>2, <3>3
  <2>3. StandsAt(m, 28, config.eid) /\ 28 \in Nat /\ 28 + Len(config.eid) - 1 = 33
    BY <1>5, <2>1, <2>2, SMT DEF StandsAt
  <2>4. SubSeq(m, 28, 28 + Len(config.eid) - 1) = config.eid
    BY <1>m, <2>1, <2>3, PartEqual, Zenon
  <2> QED
    BY <2>3, <2>4
<1>11. SubSeq(m, 34, 39) = config.gid
  <2>1. config.gid \in Seq(Byte) /\ Len(config.gid) = 6
    BY <1>1, FixedBytes
  <2>2. ASSUME NEW i \in 1..6
        PROVE  m[34 + i - 1] = config.gid[i]
    <3> DEFINE j == 25 + i
    <3>1. j \in 1..33 /\ 8 + j = 34 + i - 1
      BY SMT
    <3>2. p[j] = config.gid[i]
      BY <1>2, <3>1
    <3> HIDE DEF j
    <3>3. m[8 + j] = p[j]
      BY <1>5, <3>1
    <3> QED
      BY <3>1, <3>2, <3>3
  <2>3. StandsAt(m, 34, config.gid) /\ 34 \in Nat /\ 34 + Len(config.gid) - 1 = 39
    BY <1>5, <2>1, <2>2, SMT DEF StandsAt
  <2>4. SubSeq(m, 34, 34 + Len(config.gid) - 1) = config.gid
    BY <1>m, <2>1, <2>3, PartEqual, Zenon
  <2> QED
    BY <2>3, <2>4
<1>12. SubSeq(m, 40, 40) = <<NoFurtherAction>>
  <2>1. m[8 + 32] = p[32] /\ 8 + 32 = 40
    BY <1>5
  <2>2. m[40] = 0
    BY <1>2, <2>1
  <2>3. <<0>> \in Seq(Byte) /\ Len(<<0>>) = 1
    BY SMT DEF Byte
  <2>4. StandsAt(m, 40, <<0>>) /\ 40 \in Nat /\ 40 + Len(<<0>>) - 1 = 40
    BY <1>5, <2>2, <2>3, SMT DEF StandsAt
  <2>5. SubSeq(m, 40, 40 + Len(<<0>>) - 1) = <<0>>
    BY <1>m, <2>3, <2>4, PartEqual, Zenon
  <2> QED
    BY <2>4, <2>5 DEF NoFurtherAction
<1> QED
  BY <1>3, <1>5, <1>7, <1>8, <1>9, <1>10, <1>11, <1>12 DEF ConfiguredIdentity

\* A field read from a payload and the byte behind it has its size, and is the
\* part of the payload that stands there, if it ends inside.
LEMMA FieldSlice ==
    ASSUME NEW p \in Seq(Byte), NEW memory \in Seq(Byte), Len(memory) = 1,
           NEW from \in Nat, NEW size \in Nat, size >= 1, from + size <= Len(p) + 1
    PROVE  /\ Slice(p \o memory, from, size) \in [1..size -> Byte]
           /\ from + size <= Len(p) =>
                 Slice(p \o memory, from, size) = SubSeq(p, from + 1, from + size)
<1> DEFINE q == p \o memory
           v == Slice(q, from, size)
<1>1. /\ q \in Seq(Byte) /\ Len(p) \in Nat
      /\ Len(q) = Len(p) + Len(memory)
      /\ \A i \in 1..Len(p) : q[i] = p[i]
  BY ConcatBytes, Zenon
<1>2. from + size <= Len(q)
  BY <1>1, SMT
<1> HIDE DEF q
<1>3. v \in Seq(Byte) /\ Len(v) = size /\ \A i \in 1..size : v[i] = q[from + i]
  BY <1>1, <1>2, SliceBytes, Zenon
<1>4. v \in [1..size -> Byte]
  BY <1>3, BytesFixed
<1> HIDE DEF v
<1>5. ASSUME from + size <= Len(p)
      PROVE  v = SubSeq(p, from + 1, from + size)
  <2> DEFINE w == SubSeq(p, from + 1, from + size)
  <2>1. /\ from + 1 \in Nat /\ from + size \in Nat /\ from + 1 >= 1
        /\ from + 1 <= from + size /\ (from + size) - (from + 1) + 1 = size
    BY SMT
  <2>2. /\ w \in Seq(Byte)
        /\ Len(w) = (from + size) - (from + 1) + 1
        /\ \A i \in 1..(from + size) - (from + 1) + 1 : w[i] = p[from + 1 + i - 1]
    BY <1>5, <2>1, PartBytes
  <2> HIDE DEF w
  <2>3. ASSUME NEW i \in 1..size
        PROVE  v[i] = w[i]
    <3>1. from + i \in 1..Len(p) /\ from + 1 + i - 1 = from + i
      BY <1>1, <1>5, SMT
    <3>2. v[i] = q[from + i] /\ q[from + i] = p[from + i]
      BY <1>1, <1>3, <3>1
    <3>3. w[i] = p[from + 1 + i - 1]
      BY <2>1, <2>2
    <3> QED
      BY <3>1, <3>2, <3>3
  <2>4. w \in Seq(Byte) /\ Len(w) = Len(v) /\ \A i \in 1..Len(v) : v[i] = w[i]
    BY <1>3, <2>1, <2>2, <2>3
  <2> QED
    BY <1>3, <2>4, SeqEqual, Zenon DEF w
<1> QED
  BY <1>4, <1>5 DEF v, q

\* A datagram cut to the buffer and parsed: the message is the beginning of the
\* datagram, as long as its header says.
LEMMA ReceivedMessage ==
    ASSUME NEW d \in Seq(Byte), NEW parsed, HasValue(parsed),
           parsed = tryParse(Slice(d, 0, Smaller(Len(d), _maxDataSize)))
    PROVE  LET m == Value(parsed)
           IN  /\ m \in Seq(Byte) /\ Len(m) \in Nat /\ Len(m) >= 8 /\ Len(m) <= Len(d)
               /\ \A i \in 1..Len(m) : m[i] = d[i]
               /\ getPayloadLengthFromHeader(d) = Len(m) - 8
<1> DEFINE n == Smaller(Len(d), _maxDataSize)
           e == Slice(d, 0, n)
           m == Value(tryParse(e))
<1>1. n \in Nat /\ 0 \in Nat /\ 0 + n <= Len(d) /\ Len(d) \in Nat
  BY LenProperties, SMT DEF Smaller, _maxDataSize
<1> HIDE DEF n
<1>2. e \in Seq(Byte) /\ Len(e) = n /\ \A i \in 1..n : e[i] = d[0 + i]
  BY <1>1, SliceBytes, Zenon
<1>3. \A i \in 1..n : e[i] = d[i]
  BY <1>1, <1>2, SMT
<1>4. tryParse(e) # None
  BY DEF n, HasValue
<1> HIDE DEF e
<1>5. /\ tryParseHeader(e) # None
      /\ m \in Seq(Byte) /\ Len(m) <= Len(e)
      /\ Len(m) = 8 + Value(tryParseHeader(e)).length
      /\ Len(m) >= 8 /\ Len(m) \in Nat
      /\ \A i \in 1..Len(m) : m[i] = e[i]
  BY <1>2, <1>4, MessageParsed
<1>6. /\ Len(e) >= 8
      /\ Value(tryParseHeader(e)).length = U32(e[5], e[6], e[7], e[8])
      /\ U32(e[5], e[6], e[7], e[8]) \in Nat
  BY <1>2, <1>5, HeaderParsed
<1>7. e[5] = d[5] /\ e[6] = d[6] /\ e[7] = d[7] /\ e[8] = d[8]
  BY <1>1, <1>2, <1>3, <1>6, SMT
<1>8. getPayloadLengthFromHeader(d) = U32(d[5], d[6], d[7], d[8])
  <2>1. ~(Len(d) < 8)
    BY <1>1, <1>2, <1>6, SMT
  <2> QED
    BY <2>1, SMT DEF getPayloadLengthFromHeader, DOIP_HEADER_SIZE, readU32BE, At, U32
<1>9. getPayloadLengthFromHeader(d) = Len(m) - 8
  BY <1>5, <1>6, <1>7, <1>8, SMT
<1>10. Len(m) <= Len(d) /\ \A i \in 1..Len(m) : m[i] = d[i]
  <2>1. Len(m) <= n /\ Len(m) <= Len(d)
    BY <1>1, <1>2, <1>5, SMT
  <2>2. ASSUME NEW i \in 1..Len(m) PROVE m[i] = d[i]
    <3>1. i \in 1..n
      BY <1>1, <1>5, <2>1, SMT
    <3> QED
      BY <1>3, <1>5, <3>1
  <2> QED
    BY <2>1, <2>2
<1> QED
  BY <1>5, <1>9, <1>10 DEF e, n

\* What a field of the received message is, given the field's place.
LEMMA FieldRead ==
    ASSUME NEW m \in Seq(Byte), Len(m) >= 8, NEW f \in DOMAIN IdentificationField,
           hasField(m, f), NEW memory \in {<< 0 >>, << 255 >>}
    PROVE  LET v == Value(getField(m, f, memory))
               from == IdentificationField[f].from
               size == IdentificationField[f].size
           IN  /\ v \in [1..size -> Byte]
               /\ from + size <= Len(m) - 8 => v = SubSeq(m, 8 + from + 1, 8 + from + size)
<1> DEFINE v == Value(getField(m, f, memory))
           from == IdentificationField[f].from
           size == IdentificationField[f].size
           p == getPayload(m)
<1>1. /\ p \in Seq(Byte) /\ Len(p) = Len(m) - 8 /\ Len(m) \in Nat
      /\ \A i \in 1..Len(m) - 8 : p[i] = m[8 + i]
  BY PayloadOf, LenProperties
<1>2. v = Slice(p \o memory, from, size)
  BY SomeNotNone DEF getField
<1>3. Len(p) >= IdentificationField[f].least
  BY DEF hasField
<1>4. /\ from \in Nat /\ size \in Nat /\ size >= 1 /\ IdentificationField[f].least \in Nat
      /\ from + size <= IdentificationField[f].least + 1
  BY SMT DEF IdentificationField
<1>5. memory \in Seq(Byte) /\ Len(memory) = 1
  <2>1. 0 \in Byte /\ 255 \in Byte
    BY SMT DEF Byte
  <2>2. CASE memory = <<0>>
    BY <2>1, <2>2, SMT
  <2>3. CASE memory = <<255>>
    BY <2>1, <2>3, SMT
  <2> QED
    BY <2>2, <2>3
<1> HIDE DEF v, from, size, p
<1>6. from + size <= Len(p) + 1
  BY <1>1, <1>3, <1>4, SMT
<1>7. /\ v \in [1..size -> Byte]
      /\ from + size <= Len(p) => v = SubSeq(p, from + 1, from + size)
  <2>1. p \in Seq(Byte) /\ from \in Nat /\ size \in Nat /\ size >= 1
    BY <1>1, <1>4
  <2>2. /\ Slice(p \o memory, from, size) \in [1..size -> Byte]
        /\ from + size <= Len(p) =>
              Slice(p \o memory, from, size) = SubSeq(p, from + 1, from + size)
    BY <1>5, <1>6, <2>1, FieldSlice, Zenon
  <2> QED
    BY <1>2, <2>2, Zenon
<1>8. ASSUME from + size <= Len(m) - 8
      PROVE  SubSeq(p, from + 1, from + size) = SubSeq(m, 8 + from + 1, 8 + from + size)
  <2> DEFINE x == SubSeq(p, from + 1, from + size)
  <2>1. /\ from + 1 \in Nat /\ from + size \in Nat /\ from + 1 >= 1
        /\ from + 1 <= from + size /\ (from + size) - (from + 1) + 1 = size
        /\ from + size <= Len(p)
    BY <1>1, <1>4, <1>8, SMT
  <2>2. /\ x \in Seq(Byte)
        /\ Len(x) = (from + size) - (from + 1) + 1
        /\ \A i \in 1..(from + size) - (from + 1) + 1 : x[i] = p[from + 1 + i - 1]
    BY <1>1, <2>1, PartBytes
  <2> HIDE DEF x
  <2>3. ASSUME NEW i \in 1..Len(x)
        PROVE  m[8 + from + 1 + i - 1] = x[i]
    <3>1. /\ from + i \in 1..Len(m) - 8 /\ from + 1 + i - 1 = from + i
          /\ 8 + from + 1 + i - 1 = 8 + (from + i) /\ i \in 1..size
      BY <1>1, <1>4, <1>8, <2>1, <2>2, SMT
    <3>2. x[i] = p[from + i]
      BY <2>1, <2>2, <3>1
    <3>3. p[from + i] = m[8 + (from + i)]
      BY <1>1, <3>1
    <3> QED
      BY <3>1, <3>2, <3>3
  <2>4. /\ 8 + from + 1 \in Nat /\ 8 + from + 1 >= 1
        /\ 8 + from + 1 + Len(x) - 1 = 8 + from + size
        /\ 8 + from + 1 + Len(x) - 1 <= Len(m)
    BY <1>1, <1>4, <1>8, <2>1, <2>2, SMT
  <2>5. StandsAt(m, 8 + from + 1, x)
    BY <2>3, <2>4 DEF StandsAt
  <2>6. SubSeq(m, 8 + from + 1, 8 + from + 1 + Len(x) - 1) = x
    BY <2>2, <2>4, <2>5, PartEqual, Zenon
  <2> QED
    BY <2>4, <2>6 DEF x
<1> QED
  BY <1>1, <1>7, <1>8 DEF v, from, size

\* The parts of IdentityOf, for a datagram whose header gives at least 31 bytes.
LEMMA IdentityParts ==
    ASSUME NEW d \in Seq(Byte), NEW n \in Nat, getPayloadLengthFromHeader(d) = n, n >= 31
    PROVE  /\ IdentityOf(d).vin = SubSeq(d, 9, 25) /\ IdentityOf(d).la = SubSeq(d, 26, 27)
           /\ IdentityOf(d).eid = SubSeq(d, 28, 33) /\ IdentityOf(d).gid = SubSeq(d, 34, 39)
           /\ n >= 32 => IdentityOf(d).far = SubSeq(d, 40, 40)
           /\ n = 31 => IdentityOf(d).far = <<>>
<1>3. SubSeq(d, 40, 39) = <<>>
  BY SubSeqEmpty, SMT
<1>4. /\ Smaller(8 + 17, 8 + n) = 25 /\ Smaller(8 + 19, 8 + n) = 27
      /\ Smaller(8 + 25, 8 + n) = 33 /\ Smaller(8 + 31, 8 + n) = 39
  BY SMT DEF Smaller
<1>5. /\ IdentityOf(d).vin = SubSeq(d, 8 + 1, Smaller(8 + 17, 8 + n))
      /\ IdentityOf(d).la = SubSeq(d, 8 + 18, Smaller(8 + 19, 8 + n))
      /\ IdentityOf(d).eid = SubSeq(d, 8 + 20, Smaller(8 + 25, 8 + n))
      /\ IdentityOf(d).gid = SubSeq(d, 8 + 26, Smaller(8 + 31, 8 + n))
      /\ IdentityOf(d).far = SubSeq(d, 8 + 32, Smaller(8 + 32, 8 + n))
  BY Zenon DEF IdentityOf
<1>6. 8 + 1 = 9 /\ 8 + 18 = 26 /\ 8 + 20 = 28 /\ 8 + 26 = 34 /\ 8 + 32 = 40
  BY SMT
<1>7. /\ n >= 32 => Smaller(8 + 32, 8 + n) = 40
      /\ n = 31 => Smaller(8 + 32, 8 + n) = 39
  BY SMT DEF Smaller
<1> QED
  BY <1>3, <1>4, <1>5, <1>6, <1>7, Zenon

\* The fields of a complete message are the identity its datagram carries.
LEMMA IdentityRead ==
    ASSUME NEW d \in Seq(Byte), NEW m \in Seq(Byte), Len(m) \in Nat, Len(m) >= 8,
           Len(m) <= Len(d), \A i \in 1..Len(m) : m[i] = d[i],
           getPayloadLengthFromHeader(d) = Len(m) - 8,
           \A f \in DOMAIN IdentificationField : hasField(m, f),
           NEW memory \in {<< 0 >>, << 255 >>},
           NEW f \in DOMAIN IdentificationField
    PROVE  \/ Value(getField(m, f, memory)) = IdentityOf(d)[f]
           \/ f = "far" /\ IdentityOf(d)[f] = <<>>
<1> DEFINE v == Value(getField(m, f, memory))
           from == IdentificationField[f].from
           size == IdentificationField[f].size
<1>1. from + size <= Len(m) - 8 => v = SubSeq(m, 8 + from + 1, 8 + from + size)
  BY FieldRead
<1>2. ASSUME NEW a \in Nat, NEW b \in Nat, 1 <= a, a <= b, b <= Len(m)
      PROVE  SubSeq(m, a, b) = SubSeq(d, a, b)
  <2> DEFINE x == SubSeq(m, a, b)
             y == SubSeq(d, a, b)
  <2>1. x \in Seq(Byte) /\ Len(x) = b - a + 1 /\ \A i \in 1..b - a + 1 : x[i] = m[a + i - 1]
    BY <1>2, PartBytes
  <2>2. Len(d) \in Nat /\ b <= Len(d)
    BY <1>2, LenProperties, SMT
  <2>3. y \in Seq(Byte) /\ Len(y) = b - a + 1 /\ \A i \in 1..b - a + 1 : y[i] = d[a + i - 1]
    BY <1>2, <2>2, PartBytes
  <2> HIDE DEF x, y
  <2>4. ASSUME NEW i \in 1..b - a + 1 PROVE x[i] = y[i]
    <3>1. a + i - 1 \in 1..Len(m)
      BY <1>2, SMT
    <3> QED
      BY <2>1, <2>3, <3>1
  <2>5. Len(x) = Len(y) /\ \A i \in 1..Len(x) : x[i] = y[i]
    BY <2>1, <2>3, <2>4
  <2>6. x = y
    BY <2>1, <2>3, <2>5, SeqEqual, Zenon
  <2> QED
    BY <2>6 DEF x, y
<1>3. Len(m) - 8 \in Nat /\ Len(m) - 8 >= 31
  <2>1. hasField(m, "gid")
    BY DEF IdentificationField
  <2>2. Len(getPayload(m)) >= 31
    BY <2>1 DEF hasField, IdentificationField
  <2> QED
    BY <2>2, PayloadOf, SMT
<1>4. /\ IdentityOf(d).vin = SubSeq(d, 9, 25) /\ IdentityOf(d).la = SubSeq(d, 26, 27)
      /\ IdentityOf(d).eid = SubSeq(d, 28, 33) /\ IdentityOf(d).gid = SubSeq(d, 34, 39)
      /\ Len(m) - 8 >= 32 => IdentityOf(d).far = SubSeq(d, 40, 40)
      /\ Len(m) - 8 = 31 => IdentityOf(d).far = <<>>
  BY <1>3, IdentityParts
<1>5. CASE f = "vin"
  <2>1. from = 0 /\ size = 17
    BY <1>5 DEF IdentificationField
  <2>2. v = SubSeq(m, 9, 25)
    BY <1>1, <1>3, <2>1, SMT
  <2>3. SubSeq(m, 9, 25) = SubSeq(d, 9, 25)
    <3>1. 9 \in Nat /\ 25 \in Nat /\ 1 <= 9 /\ 9 <= 25 /\ 25 <= Len(m)
      BY <1>3, SMT
    <3> QED
      BY <1>2, <3>1, Zenon
  <2> QED
    BY <1>4, <1>5, <2>2, <2>3
<1>6. CASE f = "la"
  <2>1. from = 17 /\ size = 2
    BY <1>6 DEF IdentificationField
  <2>2. v = SubSeq(m, 26, 27)
    BY <1>1, <1>3, <2>1, SMT
  <2>3. SubSeq(m, 26, 27) = SubSeq(d, 26, 27)
    <3>1. 26 \in Nat /\ 27 \in Nat /\ 1 <= 26 /\ 26 <= 27 /\ 27 <= Len(m)
      BY <1>3, SMT
    <3> QED
      BY <1>2, <3>1, Zenon
  <2> QED
    BY <1>4, <1>6, <2>2, <2>3
<1>7. CASE f = "eid"
  <2>1. from = 19 /\ size = 6
    BY <1>7 DEF IdentificationField
  <2>2. v = SubSeq(m, 28, 33)
    BY <1>1, <1>3, <2>1, SMT
  <2>3. SubSeq(m, 28, 33) = SubSeq(d, 28, 33)
    <3>1. 28 \in Nat /\ 33 \in Nat /\ 1 <= 28 /\ 28 <= 33 /\ 33 <= Len(m)
      BY <1>3, SMT
    <3> QED
      BY <1>2, <3>1, Zenon
  <2> QED
    BY <1>4, <1>7, <2>2, <2>3
<1>8. CASE f = "gid"
  <2>1. from = 25 /\ size = 6
    BY <1>8 DEF IdentificationField
  <2>2. v = SubSeq(m, 34, 39)
    BY <1>1, <1>3, <2>1, SMT
  <2>3. SubSeq(m, 34, 39) = SubSeq(d, 34, 39)
    <3>1. 34 \in Nat /\ 39 \in Nat /\ 1 <= 34 /\ 34 <= 39 /\ 39 <= Len(m)
      BY <1>3, SMT
    <3> QED
      BY <1>2, <3>1, Zenon
  <2> QED
    BY <1>4, <1>8, <2>2, <2>3
<1>9. CASE f = "far"
  <2>1. from = 31 /\ size = 1
    BY <1>9 DEF IdentificationField
  <2>2. CASE Len(m) - 8 >= 32
    <3>1. v = SubSeq(m, 40, 40)
      BY <1>1, <1>3, <2>1, <2>2, SMT
    <3>2. SubSeq(m, 40, 40) = SubSeq(d, 40, 40)
      BY <1>2, <1>3, <2>2, SMT
    <3> QED
      BY <1>4, <1>9, <2>2, <3>1, <3>2
  <2>3. CASE Len(m) - 8 = 31
    BY <1>4, <1>9, <2>3
  <2>4. Len(m) - 8 >= 32 \/ Len(m) - 8 = 31
    <3>1. \A n \in Nat : n >= 31 => n >= 32 \/ n = 31
      BY SMT
    <3> QED
      BY <1>3, <3>1, Zenon
  <2> QED
    BY <2>2, <2>3, <2>4
<1> QED
  BY <1>5, <1>6, <1>7, <1>8, <1>9 DEF IdentificationField

-----------------------------------------------------------------------------
(* The steps of Discovery.                                                 *)

\* What holds of the discovery whatever else happens: the types, where the
\* datagrams come from, and what the client took from them.
DiscoveryInv ==
    /\ DiscoveryTypeOK
    /\ datagrams \subseteq {Announcement} \cup ForeignDatagrams
    /\ IdentityIntact

\* The identities the client may know.
Sources == {UnknownVehicle, ConfiguredIdentity} \cup {IdentityOf(d) : d \in ForeignDatagrams}

LEMMA SourceOfDatagram ==
    ASSUME config \in Configs, NEW d \in {Announcement} \cup ForeignDatagrams
    PROVE  IdentityOf(d) \in Sources
<1>1. CASE d = Announcement
  BY <1>1, AnnouncedIdentity, Zenon DEF Sources
<1>2. CASE d \in ForeignDatagrams
  BY <1>2, Zenon DEF Sources
<1> QED
  BY <1>1, <1>2

\* The fields of an identity and their sizes.
LEMMA FieldSizes ==
    /\ DOMAIN IdentificationField = {"vin", "la", "eid", "gid", "far"}
    /\ IdentificationField["vin"].size = 17 /\ IdentificationField["la"].size = 2
    /\ IdentificationField["eid"].size = 6 /\ IdentificationField["gid"].size = 6
    /\ IdentificationField["far"].size = 1
  BY SMT DEF IdentificationField

Identities == [vin : [1..17 -> Byte], la : [1..2 -> Byte], eid : [1..6 -> Byte],
               gid : [1..6 -> Byte], far : [1..1 -> Byte]]

LEMMA IdentityFields ==
    /\ \A id \in Identities :
          /\ DOMAIN id = DOMAIN IdentificationField
          /\ \A f \in DOMAIN IdentificationField :
                id[f] \in [1..IdentificationField[f].size -> Byte]
    /\ \A id : /\ id = [f \in DOMAIN IdentificationField |-> id[f]]
               /\ \A f \in DOMAIN IdentificationField :
                     id[f] \in [1..IdentificationField[f].size -> Byte]
               => id \in Identities
<1>1. ASSUME NEW id \in Identities
      PROVE  DOMAIN id = {"vin", "la", "eid", "gid", "far"}
  BY SMT DEF Identities
<1>2. ASSUME NEW id \in Identities
      PROVE  /\ id["vin"] \in [1..17 -> Byte] /\ id["la"] \in [1..2 -> Byte]
             /\ id["eid"] \in [1..6 -> Byte] /\ id["gid"] \in [1..6 -> Byte]
             /\ id["far"] \in [1..1 -> Byte]
  BY SMT DEF Identities
<1>3. ASSUME NEW id, id = [f \in {"vin", "la", "eid", "gid", "far"} |-> id[f]],
             id["vin"] \in [1..17 -> Byte], id["la"] \in [1..2 -> Byte],
             id["eid"] \in [1..6 -> Byte], id["gid"] \in [1..6 -> Byte],
             id["far"] \in [1..1 -> Byte]
      PROVE  id \in Identities
  BY <1>3, SMT DEF Identities
<1>4. ASSUME NEW id \in Identities, NEW f \in DOMAIN IdentificationField
      PROVE  id[f] \in [1..IdentificationField[f].size -> Byte]
  BY <1>2, FieldSizes, Zenon
<1>5. ASSUME NEW id, id = [f \in DOMAIN IdentificationField |-> id[f]],
             \A f \in DOMAIN IdentificationField :
                 id[f] \in [1..IdentificationField[f].size -> Byte]
      PROVE  id \in Identities
  <2>1. id = [f \in {"vin", "la", "eid", "gid", "far"} |-> id[f]]
    BY <1>5, FieldSizes, Zenon
  <2>2. /\ id["vin"] \in [1..17 -> Byte] /\ id["la"] \in [1..2 -> Byte]
        /\ id["eid"] \in [1..6 -> Byte] /\ id["gid"] \in [1..6 -> Byte]
        /\ id["far"] \in [1..1 -> Byte]
    BY <1>5, FieldSizes, Zenon
  <2> QED
    BY <1>3, <2>1, <2>2, Zenon
<1> QED
  BY <1>1, <1>4, <1>5, FieldSizes, Zenon

LEMMA IdentityTyped == DiscoveryTypeOK => identity \in Identities
  BY DEF DiscoveryTypeOK, Identities, VIN_LENGTH, EID_LENGTH

\* IdentityIntact, said with Sources.
LEMMA IntactSources ==
    ASSUME identity \in Identities
    PROVE  IdentityIntact <=>
              \/ torn
              \/ \E source \in Sources : \A f \in DOMAIN IdentificationField :
                     identity[f] = source[f] \/ (f = "far" /\ source[f] = <<>>)
<1>1. DOMAIN identity = DOMAIN IdentificationField
  BY IdentityFields, Zenon
<1> QED
  BY <1>1, Zenon DEF IdentityIntact, Sources

\* One announcement the client reads.
LEMMA AnnouncementRead ==
    ASSUME DiscoveryInv, receiveVehicleAnnouncement
    PROVE  /\ identity' \in Identities /\ torn' \in BOOLEAN
           /\ \/ torn'
              \/ \E source \in Sources : \A f \in DOMAIN IdentificationField :
                     identity'[f] = source[f] \/ (f = "far" /\ source[f] = <<>>)
<1>1. PICK d \in datagrams, memory \in {<<0>>, <<255>>} :
        LET parsed == tryParse(Slice(d, 0, Smaller(Len(d), _maxDataSize)))
        IN  HasValue(parsed) /\ parseVehicleIdentificationResponse(Value(parsed), memory)
  BY Zenon DEF receiveVehicleAnnouncement
<1> DEFINE parsed == tryParse(Slice(d, 0, Smaller(Len(d), _maxDataSize)))
           m == Value(parsed)
<1>2. HasValue(parsed) /\ parseVehicleIdentificationResponse(m, memory)
  BY <1>1
<1>3. /\ d \in Seq(Byte) /\ d \in {Announcement} \cup ForeignDatagrams
      /\ config \in Configs /\ torn \in BOOLEAN
  BY DEF DiscoveryInv, DiscoveryTypeOK
<1>4. identity \in Identities
  BY IdentityTyped DEF DiscoveryInv
<1>5. DOMAIN identity = DOMAIN IdentificationField
  BY <1>4, IdentityFields, Zenon
<1>6. /\ m \in Seq(Byte) /\ Len(m) \in Nat /\ Len(m) >= 8 /\ Len(m) <= Len(d)
      /\ \A i \in 1..Len(m) : m[i] = d[i]
      /\ getPayloadLengthFromHeader(d) = Len(m) - 8
  BY <1>2, <1>3, ReceivedMessage
<1> HIDE DEF m, parsed
<1> DEFINE Assigned(f) == \A g \in DOMAIN IdentificationField :
                              AssignmentOrder[g] <= AssignmentOrder[f] => hasField(m, g)
<1>7. /\ identity' = [f \in DOMAIN IdentificationField |->
                        IF Assigned(f) THEN Value(getField(m, f, memory)) ELSE identity[f]]
      /\ torn' = (torn \/ \E f \in DOMAIN IdentificationField : ~hasField(m, f))
  BY <1>2, <1>5, Zenon DEF parseVehicleIdentificationResponse
<1>8. ASSUME NEW f \in DOMAIN IdentificationField
      PROVE  Assigned(f) => hasField(m, f)
  <2>1. AssignmentOrder[f] <= AssignmentOrder[f]
    BY FieldSizes, SMT DEF AssignmentOrder
  <2> QED
    BY <2>1, Zenon
<1>9. ASSUME NEW f \in DOMAIN IdentificationField
      PROVE  identity'[f] \in [1..IdentificationField[f].size -> Byte]
  <2>1. CASE Assigned(f)
    <3>1. Value(getField(m, f, memory)) \in [1..IdentificationField[f].size -> Byte]
      BY <1>6, <1>8, <2>1, FieldRead
    <3> QED
      BY <1>7, <2>1, <3>1, Zenon
  <2>2. CASE ~Assigned(f)
    <3>1. identity[f] \in [1..IdentificationField[f].size -> Byte]
      BY <1>4, IdentityFields, Zenon
    <3> QED
      BY <1>7, <2>2, <3>1, Zenon
  <2> QED
    BY <2>1, <2>2
<1>10. identity' \in Identities
  <2>1. identity' = [f \in DOMAIN IdentificationField |-> identity'[f]]
    BY <1>7, Zenon
  <2> QED
    BY <1>9, <2>1, IdentityFields, Zenon
<1>11. CASE \A f \in DOMAIN IdentificationField : hasField(m, f)
  <2>1. IdentityOf(d) \in Sources
    BY <1>3, SourceOfDatagram
  <2>2. ASSUME NEW f \in DOMAIN IdentificationField
        PROVE  identity'[f] = IdentityOf(d)[f] \/ (f = "far" /\ IdentityOf(d)[f] = <<>>)
    <3>1. identity'[f] = Value(getField(m, f, memory))
      BY <1>7, <1>11, Zenon
    <3>2. \/ Value(getField(m, f, memory)) = IdentityOf(d)[f]
          \/ f = "far" /\ IdentityOf(d)[f] = <<>>
      BY <1>3, <1>6, <1>11, IdentityRead, SMTT(30)
    <3> QED
      BY <3>1, <3>2
  <2> QED
    BY <1>3, <1>7, <1>10, <2>1, <2>2
<1>12. CASE \E f \in DOMAIN IdentificationField : ~hasField(m, f)
  <2>1. torn' = TRUE
    BY <1>7, <1>12, Zenon
  <2> QED
    BY <1>10, <2>1
<1> QED
  BY <1>11, <1>12

LEMMA RequestBytes == makeVehicleIdentificationRequest \in Seq(Byte)
<1>1. 1 \in Word /\ 0 \in Word
  BY NatIsWord, SMT
<1>2. <<>> \in Seq(Byte) /\ Len(<<>>) = 0
  BY SMT
<1>3. MessageOf(buildMessage(1, <<>>), 1, <<>>)
  BY <1>1, <1>2, BuildLayout
<1>4. DoIPPayloadType.VehicleIdentificationRequest = 1
  BY DEF DoIPPayloadType
<1> QED
  BY <1>3, <1>4 DEF makeVehicleIdentificationRequest, MessageOf

\* Nothing is known at the beginning.
LEMMA DiscoveryInitial == DiscoveryInit => DiscoveryInv
<1> SUFFICES ASSUME DiscoveryInit
             PROVE  DiscoveryInv
  OBVIOUS
<1>1. UnknownVehicle \in Identities
  <2>1. 0 \in Byte
    BY SMT DEF Byte
  <2>2. U16BE(ZERO_ADDRESS) \in [1..2 -> Byte]
    <3>1. ZERO_ADDRESS \in Word
      BY NatIsWord, SMT DEF ZERO_ADDRESS
    <3>2. U16BE(ZERO_ADDRESS) \in Seq(Byte) /\ Len(U16BE(ZERO_ADDRESS)) = 2
      BY <3>1, U16BEBytes
    <3>3. U16BE(ZERO_ADDRESS) \in [1..Len(U16BE(ZERO_ADDRESS)) -> Byte]
      BY <3>2, BytesFixed, Zenon
    <3> QED
      BY <3>2, <3>3
  <2>3. EidZero \in [1..6 -> Byte]
    BY <2>1, SMT DEF EidZero, DoIpEid, FixedId, EID_LENGTH
  <2>4. IntegralId(VIN_LENGTH, <<0, 0, 0, 0>>) \in [1..17 -> Byte]
    <3>1. Smaller(Len(<<0, 0, 0, 0>>), 17) = 4
      BY SMT DEF Smaller
    <3>2. IntegralId(17, <<0, 0, 0, 0>>) = [i \in 1..17 |-> 
              IF i <= 4 THEN <<0, 0, 0, 0>>[4 - 4 + i] ELSE 0]
      BY <3>1, SMT DEF IntegralId
    <3>3. \A i \in 1..17 : i <= 4 => <<0, 0, 0, 0>>[4 - 4 + i] = 0
      BY SMT
    <3> QED
      BY <2>1, <3>2, <3>3, SMT DEF VIN_LENGTH
  <2>5. <<NoFurtherAction>> \in [1..1 -> Byte]
    BY <2>1, SMT DEF NoFurtherAction
  <2> QED
    BY <2>2, <2>3, <2>4, <2>5 DEF UnknownVehicle, Identities
<1>2. DiscoveryTypeOK
  <2>1. identity \in Identities
    BY <1>1 DEF DiscoveryInit
  <2>2. /\ config \in Configs /\ datagrams = {} /\ inbox = {}
        /\ listening \in BOOLEAN /\ requesting \in BOOLEAN /\ torn \in BOOLEAN
    BY DEF DiscoveryInit
  <2> QED
    BY <2>1, <2>2, Zenon DEF DiscoveryTypeOK, Identities, VIN_LENGTH, EID_LENGTH
<1>3. IdentityIntact
  BY Zenon DEF DiscoveryInit, IdentityIntact
<1> QED
  BY <1>2, <1>3 DEF DiscoveryInv, DiscoveryInit

\* The parts of the invariant that speak of the client's knowledge do not change
\* with the sockets.
LEMMA IntactKept ==
    ASSUME IdentityIntact, UNCHANGED <<config, identity, torn>>
    PROVE  IdentityIntact'
  BY Zenon DEF IdentityIntact, ConfiguredIdentity, UnknownVehicle

LEMMA AnnouncementKept ==
    ASSUME UNCHANGED config
    PROVE  Announcement' = Announcement
  BY Zenon DEF Announcement

LEMMA DiscoveryStep ==
    ASSUME DiscoveryInv, DiscoveryNext \/ UNCHANGED discoveryVars
    PROVE  DiscoveryInv'
<1>a. config \in Configs
  BY DEF DiscoveryInv, DiscoveryTypeOK
<1> USE DEF DiscoveryInv
<1>1. CASE Announce
  <2>1. Announcement \in Seq(Byte) /\ Announcement' = Announcement
    BY <1>1, <1>a, AnnouncedIdentity, AnnouncementKept DEF Announce
  <2>2. DiscoveryTypeOK'
    BY <1>1, <2>1 DEF Announce, DiscoveryTypeOK
  <2> QED
    BY <1>1, <2>1, <2>2, IntactKept DEF Announce
<1>2. CASE ForeignDatagram
  <2>1. DiscoveryTypeOK'
    BY <1>2, ForeignDatagramsAssumption DEF ForeignDatagram, DiscoveryTypeOK
  <2> QED
    BY <1>2, <2>1, IntactKept, AnnouncementKept DEF ForeignDatagram
<1>3. CASE startAnnouncementListener
  BY <1>3, IntactKept, AnnouncementKept DEF startAnnouncementListener, DiscoveryTypeOK
<1>4. CASE receiveVehicleAnnouncement
  <2>1. /\ identity' \in Identities /\ torn' \in BOOLEAN
        /\ \/ torn'
           \/ \E source \in Sources : \A f \in DOMAIN IdentificationField :
                  identity'[f] = source[f] \/ (f = "far" /\ source[f] = <<>>)
    BY <1>4, AnnouncementRead
  <2>2. UNCHANGED <<config, datagrams, inbox, listening, requesting>>
    BY <1>4 DEF receiveVehicleAnnouncement
  <2>3. DiscoveryTypeOK'
    BY <2>1, <2>2 DEF DiscoveryTypeOK, Identities, VIN_LENGTH, EID_LENGTH
  <2>4. Sources' = Sources
    BY <2>2, Zenon DEF Sources, ConfiguredIdentity, UnknownVehicle
  <2>5. (DOMAIN identity)' = DOMAIN IdentificationField
    BY <2>1, IdentityFields, Zenon
  <2>6. IdentityIntact'
    BY <2>1, <2>4, <2>5, Zenon DEF IdentityIntact, Sources
  <2> QED
    BY <2>2, <2>3, <2>6, AnnouncementKept
<1>5. CASE startUdpConnection
  BY <1>5, IntactKept, AnnouncementKept DEF startUdpConnection, DiscoveryTypeOK
<1>6. CASE sendVehicleIdentificationRequest
  <2>1. UNCHANGED <<config, datagrams, listening, requesting, identity, torn>>
    BY <1>6 DEF sendVehicleIdentificationRequest
  <2>2. inbox' \subseteq Seq(Byte)
    BY <1>6, RequestBytes, ForeignDatagramsAssumption
       DEF sendVehicleIdentificationRequest, DiscoveryTypeOK
  <2>3. DiscoveryTypeOK'
    BY <2>1, <2>2 DEF DiscoveryTypeOK
  <2> QED
    BY <2>1, <2>3, IntactKept, AnnouncementKept
<1>7. CASE receiveUdpMessage
  <2>1. UNCHANGED <<config, datagrams, listening, requesting, identity, torn>>
    BY <1>7 DEF receiveUdpMessage
  <2>2. DiscoveryTypeOK'
    BY <1>7 DEF DiscoveryTypeOK, receiveUdpMessage
  <2> QED
    BY <2>1, <2>2, IntactKept, AnnouncementKept
<1>8. CASE closeUdpConnection
  <2>1. UNCHANGED <<config, identity, torn>>
    BY <1>8 DEF closeUdpConnection
  <2>2. DiscoveryTypeOK' /\ datagrams' = {}
    BY <1>8 DEF DiscoveryTypeOK, closeUdpConnection
  <2> QED
    BY <2>1, <2>2, IntactKept
<1>9. CASE UNCHANGED discoveryVars
  BY <1>9, IntactKept, AnnouncementKept DEF discoveryVars, DiscoveryTypeOK
<1> QED
  BY <1>1, <1>2, <1>3, <1>4, <1>5, <1>6, <1>7, <1>8, <1>9 DEF DiscoveryNext

\* The getters read where the payload is, but for the known byte.
LEMMA ReadsInBounds == DiscoveryTypeOK => FieldReadsInBounds
<1> SUFFICES ASSUME DiscoveryTypeOK, NEW d \in datagrams,
                    NEW f \in DOMAIN IdentificationField, hasField(d, f)
             PROVE  \/ IdentificationField[f].from + IdentificationField[f].size
                           <= Len(getPayload(d))
                    \/ f = "far" /\ Len(getPayload(d)) = 31
  BY Zenon DEF FieldReadsInBounds
<1>1. d \in Seq(Byte)
  BY DEF DiscoveryTypeOK
<1>2. Len(d) >= 8
  BY <1>1, SMT DEF hasField, getPayloadType, DOIP_HEADER_SIZE, DoIPPayloadType
<1> DEFINE n == Len(getPayload(d))
<1>3. n \in Nat /\ n >= IdentificationField[f].least
  BY <1>1, <1>2, PayloadOf, LenProperties DEF hasField
<1> HIDE DEF n
<1>4. IdentificationField[f].from + IdentificationField[f].size <= n \/ (f = "far" /\ n = 31)
  <2>1. \/ /\ IdentificationField[f].least \in Nat
           /\ IdentificationField[f].from + IdentificationField[f].size
                  = IdentificationField[f].least
        \/ /\ f = "far" /\ IdentificationField[f].least = 31
           /\ IdentificationField[f].from + IdentificationField[f].size = 32
    BY SMT DEF IdentificationField
  <2> DEFINE least == IdentificationField[f].least
             end == IdentificationField[f].from + IdentificationField[f].size
  <2>4. /\ n \in Nat /\ n >= least
        /\ (least \in Nat /\ end = least) \/ (f = "far" /\ least = 31 /\ end = 32)
    BY <1>3, <2>1
  <2> HIDE DEF least, end
  <2>5. ASSUME least \in Nat, end = least
        PROVE  end <= n
    BY <2>4, <2>5, SMT
  <2>6. ASSUME least = 31, end = 32
        PROVE  end <= n \/ n = 31
    BY <2>4, <2>6, SMT
  <2>7. end <= n \/ (f = "far" /\ n = 31)
    BY <2>4, <2>5, <2>6
  <2> QED
    BY <2>7 DEF end
<1> QED
  BY <1>4 DEF n

-----------------------------------------------------------------------------
(* The codec.                                                              *)

\* The header of a message that was built, with anything behind it.
LEMMA BuiltHeader ==
    ASSUME NEW t, isValidPayloadType(t), NEW p \in Seq(Byte), Len(p) \in Word,
           NEW data \in Seq(Byte), Len(data) >= 8,
           \A i \in 1..8 : data[i] = buildMessage(t, p)[i]
    PROVE  /\ tryParseHeader(data) # None
           /\ Value(tryParseHeader(data)).length = Len(p)
           /\ U32(data[5], data[6], data[7], data[8]) = Len(p)
<1> DEFINE m == buildMessage(t, p)
<1>1. t \in Word
  BY PayloadTypes
<1>2. /\ m[1] = 3 /\ m[2] = 252 /\ m[3] = t \div 256 /\ m[4] = t % 256
      /\ m[5] = 0 /\ m[6] = 0 /\ m[7] = Len(p) \div 256 /\ m[8] = Len(p) % 256
  BY <1>1, BuildLayout DEF MessageOf
<1>3. \A i \in 1..8 : data[i] = m[i]
  OBVIOUS
<1> HIDE DEF m
<1>4. /\ data[1] = 3 /\ data[2] = 252 /\ data[3] = t \div 256 /\ data[4] = t % 256
      /\ data[5] = 0 /\ data[6] = 0
      /\ data[7] = Len(p) \div 256 /\ data[8] = Len(p) % 256
  BY <1>2, <1>3, SMT
<1>5. U16(data[3], data[4]) = t
  BY <1>1, <1>4, U16BEBytes
<1>6. U32(data[5], data[6], data[7], data[8]) = Len(p)
  <2> DEFINE c == Len(p) \div 256
             d == Len(p) % 256
  <2>1. c \in Byte /\ d \in Byte /\ U16(c, d) = Len(p)
    BY U16BEBytes
  <2> HIDE DEF c, d
  <2>2. c \in Nat /\ d \in Nat /\ U32(0, 0, c, d) = U16(c, d)
    BY <2>1, SMT DEF Byte, U16, U32
  <2>3. U32(0, 0, Len(p) \div 256, Len(p) % 256) = Len(p)
    BY <2>1, <2>2 DEF c, d
  <2> QED
    BY <1>4, <2>3
<1>7. data[1] \in 1..4 /\ data[1] + data[2] = 255
  BY <1>4, SMT
<1> QED
  BY <1>5, <1>6, <1>7, HeaderParsed

\* A message that was built is read back whole, whatever follows it in the
\* buffer: tryParse is the inverse of buildMessage, for every payload type of
\* the standard and every payload below 64 KiB, and isValid accepts it.
THEOREM MessageRoundTrip ==
    ASSUME NEW t, isValidPayloadType(t), NEW p \in Seq(Byte), Len(p) \in Word,
           NEW rest \in Seq(Byte)
    PROVE  LET m == buildMessage(t, p)
           IN  /\ tryParse(m \o rest) = Some(m)
               /\ getPayloadType(m) = t /\ getPayload(m) = p
               /\ isValid(m)
<1> DEFINE m == buildMessage(t, p)
           data == m \o rest
<1>1. t \in Word /\ Len(p) \in Nat
  BY PayloadTypes, WordIsNat
<1>2. m \in Seq(Byte) /\ Len(m) = 8 + Len(p) /\ m[1] = 3 /\ m[2] = 252
  BY <1>1, BuildLayout DEF MessageOf
<1>3. getPayloadType(m) = t /\ getPayload(m) = p
  BY <1>1, BuiltMessage
<1> HIDE DEF m
<1>4. /\ data \in Seq(Byte) /\ Len(data) \in Nat /\ Len(data) >= Len(m)
      /\ \A i \in 1..Len(m) : data[i] = m[i]
  <2>1. /\ data \in Seq(Byte) /\ Len(data) = Len(m) + Len(rest)
        /\ Len(m) \in Nat /\ Len(rest) \in Nat
        /\ \A i \in 1..Len(m) : data[i] = m[i]
    BY <1>2, ConcatBytes
  <2>2. Len(data) \in Nat /\ Len(data) >= Len(m)
    BY <2>1, SMT
  <2> QED
    BY <2>1, <2>2
<1>5. Len(m) \in Nat /\ Len(m) >= 8 /\ Len(data) >= 8 /\ \A i \in 1..8 : i \in 1..Len(m)
  BY <1>1, <1>2, <1>4, SMT
<1> HIDE DEF data
<1>6. tryParseHeader(data) # None /\ Value(tryParseHeader(data)).length = Len(p)
  <2>1. \A i \in 1..8 : data[i] = m[i]
    BY <1>4, <1>5
  <2> QED
    BY <1>4, <1>5, <2>1, BuiltHeader DEF m
<1>7. tryParse(data) # None
  BY <1>2, <1>4, <1>6, MessageFound
<1>8. tryParse(data) = Some(m)
  <2> DEFINE r == Value(tryParse(data))
  <2>1. /\ tryParse(data) = Some(r) /\ r \in Seq(Byte) /\ Len(r) = Len(m)
        /\ \A i \in 1..Len(r) : r[i] = data[i]
    BY <1>2, <1>4, <1>6, <1>7, MessageParsed
  <2> HIDE DEF r
  <2>2. \A i \in 1..Len(r) : r[i] = m[i]
    BY <1>4, <2>1
  <2>3. r = m
    BY <1>2, <2>1, <2>2, SeqEqual, Zenon
  <2> QED
    BY <2>1, <2>3
<1>9. isValid(m)
  <2>1. getPayloadLengthFromHeader(m) = Len(p)
    <3>1. U32(m[5], m[6], m[7], m[8]) = Len(p)
      <4>1. \A x \in Seq(Byte) :
                Len(x) >= 8 /\ (\A i \in 1..8 : x[i] = m[i])
                    => U32(x[5], x[6], x[7], x[8]) = Len(p)
        BY BuiltHeader, Zenon DEF m
      <4> QED
        BY <1>2, <1>5, <4>1, Zenon
    <3> QED
      BY <1>5, <3>1, SMT DEF getPayloadLengthFromHeader, DOIP_HEADER_SIZE, readU32BE, At, U32
  <2>2. isValidProtocolVersion(m)
    BY <1>2, <1>5, SMT DEF isValidProtocolVersion, At
  <2> QED
    BY <1>3, <1>5, <2>1, <2>2 DEF isValid, DOIP_HEADER_SIZE
<1> QED
  BY <1>3, <1>8, <1>9 DEF data, m

\* No part of a message is taken for a message: tryParse refuses every proper
\* beginning of one that was built, so a reader that has received too little
\* waits for the rest.
THEOREM CutMessageRefused ==
    ASSUME NEW t, isValidPayloadType(t), NEW p \in Seq(Byte), Len(p) \in Word,
           NEW n \in Nat, n < Len(buildMessage(t, p))
    PROVE  tryParse(SubSeq(buildMessage(t, p), 1, n)) = None
<1> DEFINE m == buildMessage(t, p)
           data == SubSeq(m, 1, n)
<1>1. t \in Word /\ Len(p) \in Nat
  BY PayloadTypes, WordIsNat
<1>2. m \in Seq(Byte) /\ Len(m) = 8 + Len(p)
  BY <1>1, BuildLayout DEF MessageOf
<1>a. n < Len(m)
  OBVIOUS
<1> HIDE DEF m
<1>3. /\ data \in Seq(Byte) /\ Len(data) = n
      /\ \A i \in 1..n : data[i] = m[i]
  BY <1>1, <1>2, <1>a, SMT
<1> HIDE DEF data
<1>4. SUFFICES ASSUME tryParse(data) # None PROVE FALSE
  BY DEF data, m
<1>5. LET r == Value(tryParse(data))
      IN  /\ tryParseHeader(data) # None /\ Len(r) <= n /\ Len(r) >= 8 /\ Len(r) \in Nat
          /\ Len(r) = 8 + Value(tryParseHeader(data)).length
  BY <1>3, <1>4, MessageParsed
<1>6. Len(data) >= 8 /\ \A i \in 1..8 : data[i] = m[i]
  BY <1>3, <1>5, SMT
<1>7. Value(tryParseHeader(data)).length = Len(p)
  BY <1>3, <1>6, BuiltHeader DEF m
<1> QED
  BY <1>1, <1>2, <1>a, <1>5, <1>7, SMT

-----------------------------------------------------------------------------
(* The configuration.                                                      *)

ServerConfigs == [vin : [1..VIN_LENGTH -> Byte], logicalAddress : DoIPAddress,
                  eid : [1..EID_LENGTH -> Byte], gid : [1..EID_LENGTH -> Byte]]

Interface == [loopback : BOOLEAN, readable : BOOLEAN, mac : [1..EID_LENGTH -> Byte]]
Interfaces == Seq(Interface)

\* The interfaces getFirstMacAddress may take.
Usable(interfaces) ==
    {i \in 1..Len(interfaces) : /\ ~interfaces[i].loopback
                                /\ interfaces[i].readable
                                /\ interfaces[i].mac # EidZero}

\* Identifiers made from bytes have their length and consist of bytes.
LEMMA IdentifiersTyped ==
    ASSUME NEW n \in Nat, NEW pad \in Byte, NEW bytes \in Seq(Byte)
    PROVE  /\ FixedId(n, pad, bytes) \in [1..n -> Byte]
           /\ IntegralId(n, bytes) \in [1..n -> Byte]
<1>1. Len(bytes) \in Nat /\ 0 \in Byte /\ \A i \in 1..Len(bytes) : bytes[i] \in Byte
  BY LenProperties, ElementOfSeq, SMT DEF Byte
<1>2. FixedId(n, pad, bytes) \in [1..n -> Byte]
  <2>1. \A i \in 1..n : i <= Len(bytes) => i \in 1..Len(bytes)
    BY <1>1, SMT
  <2> QED
    BY <1>1, <2>1, Zenon DEF FixedId
<1>3. IntegralId(n, bytes) \in [1..n -> Byte]
  <2> DEFINE k == Smaller(Len(bytes), n)
  <2>1. k \in Nat /\ k <= Len(bytes) /\ k <= n
    BY <1>1, SMT DEF Smaller
  <2> HIDE DEF k
  <2>2. \A i \in 1..n : i <= k => Len(bytes) - k + i \in 1..Len(bytes)
    BY <1>1, <2>1, SMT
  <2>3. IntegralId(n, bytes) =
            [i \in 1..n |-> IF i <= k THEN bytes[Len(bytes) - k + i] ELSE 0]
    BY Zenon DEF IntegralId, k
  <2> QED
    BY <1>1, <2>2, <2>3, Zenon
<1> QED
  BY <1>2, <1>3

\* Upper case letters are bytes again.
LEMMA NormalizedVin ==
    ASSUME NEW string \in Seq(Byte)
    PROVE  /\ normalizeVin(string) \in Seq(Byte)
           /\ Len(normalizeVin(string)) = Len(string)
<1>1. Len(string) \in Nat /\ \A i \in 1..Len(string) : string[i] \in Byte
  BY LenProperties, ElementOfSeq
<1>2. \A c \in Byte : toupper(c) \in Byte
  BY SMT DEF Byte, toupper
<1>3. normalizeVin(string) \in [1..Len(string) -> Byte]
  BY <1>1, <1>2, Zenon DEF normalizeVin
<1> QED
  BY <1>1, <1>3, FixedBytes

\* The identifiers of the default configuration.
LEMMA ZeroIdentifiers ==
    /\ VinZero \in [1..VIN_LENGTH -> Byte]
    /\ EidZero \in [1..EID_LENGTH -> Byte]
    /\ \A bytes \in Seq(Byte) : /\ DoIpVin(bytes) \in [1..VIN_LENGTH -> Byte]
                                /\ DoIpEid(bytes) \in [1..EID_LENGTH -> Byte]
<1>1. /\ VIN_LENGTH \in Nat /\ EID_LENGTH \in Nat /\ PadChar \in Byte /\ 0 \in Byte
      /\ <<>> \in Seq(Byte)
  BY SMT DEF VIN_LENGTH, EID_LENGTH, PadChar, Byte
<1>2. \A bytes \in Seq(Byte) : /\ DoIpVin(bytes) \in [1..VIN_LENGTH -> Byte]
                              /\ DoIpEid(bytes) \in [1..EID_LENGTH -> Byte]
  BY <1>1, IdentifiersTyped, NormalizedVin, Zenon DEF DoIpVin, DoIpEid
<1> QED
  BY <1>1, <1>2, Zenon DEF VinZero, EidZero

\* The MAC address of an interface.
LEMMA InterfaceMac ==
    ASSUME NEW interfaces \in Interfaces, NEW i \in 1..Len(interfaces)
    PROVE  interfaces[i].mac \in [1..EID_LENGTH -> Byte]
<1>1. interfaces[i] \in Interface
  BY ElementOfSeq, Zenon DEF Interfaces
<1> QED
  BY <1>1, Zenon DEF Interface

\* The address that is found is the one of the first usable interface.
LEMMA FirstMac ==
    ASSUME NEW interfaces \in Interfaces
    PROVE  \/ Usable(interfaces) = {} /\ getFirstMacAddress(interfaces) = None
           \/ \E i \in Usable(interfaces) :
                  /\ \A j \in Usable(interfaces) : i <= j
                  /\ getFirstMacAddress(interfaces) = Some(interfaces[i].mac)
<1> DEFINE good == Usable(interfaces)
<1>1. getFirstMacAddress(interfaces) =
          IF good = {} THEN None
          ELSE Some(interfaces[CHOOSE i \in good : \A j \in good : i <= j].mac)
  BY Zenon DEF getFirstMacAddress, Usable
<1>2. good \subseteq Nat
  BY LenProperties, SMT DEF Usable, Interfaces
<1> HIDE DEF good
<1>3. CASE good = {}
  BY <1>1, <1>3, Zenon DEF good
<1>4. CASE good # {}
  <2>1. PICK i \in good : \A j \in good : ~(<<j, i>> \in OpToRel(<, Nat))
    BY <1>2, <1>4, WFMin, NatLessThanWellFounded
  <2>2. \A j \in good : i <= j
    <3>1. OpToRel(<, Nat) = {ss \in Nat \X Nat : ss[1] < ss[2]}
      BY Zenon DEF OpToRel
    <3>2. \A j \in good : ~(<<j, i>> \in {ss \in Nat \X Nat : ss[1] < ss[2]})
      BY <2>1, <3>1, Zenon
    <3>3. \A a, b \in Nat : a < b => <<a, b>> \in {ss \in Nat \X Nat : ss[1] < ss[2]}
      BY SMT
    <3>4. \A j \in good : ~(j < i)
      BY <1>2, <3>2, <3>3, Zenon
    <3> QED
      BY <1>2, <3>4, SMT
  <2> DEFINE first == CHOOSE k \in good : \A j \in good : k <= j
  <2>3. first \in good /\ \A j \in good : first <= j
    BY <2>2, Zenon
  <2>4. getFirstMacAddress(interfaces) = Some(interfaces[first].mac)
    BY <1>1, <1>4, Zenon
  <2> QED
    BY <2>3, <2>4, Zenon DEF good
<1> QED
  BY <1>3, <1>4

\* The setters keep a configuration one that Discovery may assume: whatever
\* string, number, address or set of interfaces they are given, VIN, EID, GID
\* and address have the sizes the announcement needs (ConfigsAssumption).
THEOREM SettersKeepTypes ==
    /\ DefaultServerConfig \in ServerConfigs
    /\ \A cfg \in ServerConfigs :
          /\ \A string \in Seq(Byte) : setVin(cfg, string) \in ServerConfigs
          /\ \A bytes \in Seq(Byte) : setGid(cfg, bytes) \in ServerConfigs
          /\ \A address \in DoIPAddress :
                 setLogicalGatewayAddress(cfg, address) \in ServerConfigs
          /\ \A interfaces \in Interfaces : setDefaultEid(cfg, interfaces) \in ServerConfigs
<1>1. 40 \in DoIPAddress /\ EID_LENGTH \in Nat /\ 0 \in Byte
  BY SMT DEF DoIPAddress, EID_LENGTH, Byte
<1>2. DefaultServerConfig \in ServerConfigs
  BY <1>1, ZeroIdentifiers DEF DefaultServerConfig, ServerConfigs
<1>3. ASSUME NEW cfg \in ServerConfigs, NEW string \in Seq(Byte)
      PROVE  setVin(cfg, string) \in ServerConfigs
  BY ZeroIdentifiers DEF setVin, ServerConfigs
<1>4. ASSUME NEW cfg \in ServerConfigs, NEW bytes \in Seq(Byte)
      PROVE  setGid(cfg, bytes) \in ServerConfigs
  BY <1>1, IdentifiersTyped DEF setGid, ServerConfigs
<1>5. ASSUME NEW cfg \in ServerConfigs, NEW address \in DoIPAddress
      PROVE  setLogicalGatewayAddress(cfg, address) \in ServerConfigs
  BY DEF setLogicalGatewayAddress, ServerConfigs
<1>6. ASSUME NEW cfg \in ServerConfigs, NEW interfaces \in Interfaces
      PROVE  setDefaultEid(cfg, interfaces) \in ServerConfigs
  <2> DEFINE mac == getFirstMacAddress(interfaces)
             eid == IF mac = None THEN EidZero ELSE DoIpEid(Value(mac))
  <2>1. mac = None \/ \E i \in 1..Len(interfaces) : mac = Some(interfaces[i].mac)
    BY FirstMac DEF Usable
  <2>2. \A i \in 1..Len(interfaces) : interfaces[i].mac \in Seq(Byte)
    BY <1>1, InterfaceMac, FixedBytes
  <2>3. eid \in [1..EID_LENGTH -> Byte]
    BY <2>1, <2>2, ZeroIdentifiers, SomeNotNone
  <2>4. setDefaultEid(cfg, interfaces) = [cfg EXCEPT !.eid = eid]
    BY Zenon DEF setDefaultEid
  <2> HIDE DEF eid
  <2> QED
    BY <2>3, <2>4 DEF ServerConfigs
<1> QED
  BY <1>2, <1>3, <1>4, <1>5, <1>6

=============================================================================
