-------------------------- MODULE Exchange_proofs --------------------------
(***************************************************************************)
(* The invariants of Exchange, for every set of requests, responses, foreign *)
(* writes, configurations and segment sizes, and any number of writes.      *)
(***************************************************************************)
EXTENDS Exchange, Discovery_proofs, FiniteSetTheorems

-----------------------------------------------------------------------------
(* The messages the two sides make.                                        *)

LEMMA RestAny ==
    ASSUME NEW s \in Seq(Byte), NEW n \in Nat
    PROVE  Rest(s, n) \in Seq(Byte)
<1>1. Len(s) \in Nat
  BY LenProperties
<1>2. CASE n <= Len(s)
  <2>1. n \in 0..Len(s)
    BY <1>1, <1>2, SMT
  <2> QED
    BY <2>1, RestBytes, Zenon
<1>3. CASE n > Len(s)
  <2>1. Len(s) < n + 1 /\ n + 1 \in Int /\ Len(s) \in Int
    BY <1>1, <1>3, SMT
  <2>2. Rest(s, n) = <<>>
    BY <2>1, SubSeqEmpty DEF Rest
  <2> QED
    BY <2>2, SMT
<1> QED
  BY <1>1, <1>2, <1>3, SMT

LEMMA SmallerBounds ==
    ASSUME NEW a \in Nat, NEW b \in Nat
    PROVE  Smaller(a, b) \in Nat /\ Smaller(a, b) <= a /\ Smaller(a, b) <= b
  BY SMT DEF Smaller

\* The header of a built message gives the length of its payload.
LEMMA BuiltLength ==
    ASSUME NEW m, NEW t \in Word, NEW p \in Seq(Byte), Len(p) \in Word, MessageOf(m, t, p)
    PROVE  U32(m[5], m[6], m[7], m[8]) = Len(p)
<1>1. m[5] = 0 /\ m[6] = 0 /\ m[7] = Len(p) \div 256 /\ m[8] = Len(p) % 256
  BY DEF MessageOf
<1>2. Len(p) \in Nat /\ Len(p) < 65536
  BY WordIsNat
<1>3. Len(p) = 256 * (Len(p) \div 256) + (Len(p) % 256)
  BY <1>2, SMT
<1>4. Len(p) \div 256 \in Nat /\ Len(p) % 256 \in Nat
  BY <1>2, SMT
<1> DEFINE a == Len(p) \div 256
           b == Len(p) % 256
           n == Len(p)
<1>5. n = 256 * a + b /\ a \in Nat /\ b \in Nat
  BY <1>3, <1>4
<1> HIDE DEF a, b, n
<1>6. U32(0, 0, a, b) = n
  BY <1>5, SMT DEF U32
<1> QED
  BY <1>1, <1>6 DEF a, b, n

\* What is written to the server is a message, up to a header that is refused.
Sendable(bytes) ==
    /\ bytes \in Seq(Byte) /\ Len(bytes) >= 8
    /\ AcceptableHeader(bytes) => Len(bytes) = 8 + Value(tryParseHeader(bytes)).length

LEMMA BuiltSendable ==
    ASSUME NEW t \in Word, NEW p \in Seq(Byte), Len(p) \in Word
    PROVE  Sendable(buildMessage(t, p))
<1> DEFINE m == buildMessage(t, p)
<1>1. MessageOf(m, t, p)
  BY BuildLayout
<1> HIDE DEF m
<1>2. m \in Seq(Byte) /\ Len(m) = 8 + Len(p) /\ Len(p) \in Nat
  BY <1>1, LenProperties DEF MessageOf
<1>3. U32(m[5], m[6], m[7], m[8]) = Len(p)
  BY <1>1, BuiltLength
<1>4. tryParseHeader(m) # None => Value(tryParseHeader(m)).length = Len(p)
  BY <1>2, <1>3, HeaderParsed
<1>5. Len(m) >= 8
  BY <1>2, SMT
<1> QED
  BY <1>2, <1>4, <1>5 DEF Sendable, AcceptableHeader, HasValue, m

\* The longest user data of a diagnostic message, by a name as with MaxWord.
MaxUserData == 4096

\* A message whose payload begins with two addresses.
Addressed(m, t, a, b, p) ==
    /\ m \in Seq(Byte) /\ Len(m) = 12 + Len(p)
    /\ m[1] = 3 /\ m[2] = 252 /\ m[3] = t \div 256 /\ m[4] = t % 256
    /\ m[5] = 0 /\ m[6] = 0
    /\ m[7] = (4 + Len(p)) \div 256 /\ m[8] = (4 + Len(p)) % 256
    /\ U32(m[5], m[6], m[7], m[8]) = 4 + Len(p)
    /\ m[9] = a \div 256 /\ m[10] = a % 256 /\ m[11] = b \div 256 /\ m[12] = b % 256
    /\ \A i \in 1..Len(p) : m[12 + i] = p[i]

LEMMA AddressedLayout ==
    ASSUME NEW t \in Word, NEW a \in Word, NEW b \in Word, NEW p \in Seq(Byte), Len(p) <= MaxUserData
    PROVE  /\ Addressed(buildMessage(t, U16BE(a) \o U16BE(b) \o p), t, a, b, p)
           /\ Sendable(buildMessage(t, U16BE(a) \o U16BE(b) \o p))
<1> DEFINE x == U16BE(a) \o U16BE(b)
           q == x \o p
           m == buildMessage(t, q)
<1>1. /\ U16BE(a) \in Seq(Byte) /\ Len(U16BE(a)) = 2
      /\ U16BE(a)[1] = a \div 256 /\ U16BE(a)[2] = a % 256
  BY U16BEBytes
<1>2. /\ U16BE(b) \in Seq(Byte) /\ Len(U16BE(b)) = 2
      /\ U16BE(b)[1] = b \div 256 /\ U16BE(b)[2] = b % 256
  BY U16BEBytes
<1>3. /\ x \in Seq(Byte) /\ Len(x) = 4
      /\ x[1] = a \div 256 /\ x[2] = a % 256 /\ x[3] = b \div 256 /\ x[4] = b % 256
  <2>1. /\ x \in Seq(Byte) /\ Len(x) = Len(U16BE(a)) + Len(U16BE(b))
        /\ \A i \in 1..Len(U16BE(a)) : x[i] = U16BE(a)[i]
        /\ \A i \in 1..Len(U16BE(b)) : x[Len(U16BE(a)) + i] = U16BE(b)[i]
    <3>1. U16BE(a) \in Seq(Byte) /\ U16BE(b) \in Seq(Byte)
      BY <1>1, <1>2
    <3> QED
      BY <3>1, ConcatBytes, Zenon
  <2> HIDE DEF x
  <2> QED
    BY <1>1, <1>2, <2>1, SMT
<1> HIDE DEF x
<1>4. /\ q \in Seq(Byte) /\ Len(p) \in Nat /\ Len(q) = 4 + Len(p)
      /\ \A i \in 1..4 : q[i] = x[i]
      /\ \A i \in 1..Len(p) : q[4 + i] = p[i]
  <2>1. /\ q \in Seq(Byte) /\ Len(p) \in Nat /\ Len(q) = Len(x) + Len(p)
        /\ \A i \in 1..Len(x) : q[i] = x[i]
        /\ \A i \in 1..Len(p) : q[Len(x) + i] = p[i]
    <3>1. x \in Seq(Byte)
      BY <1>3
    <3> QED
      BY <3>1, ConcatBytes, Zenon
  <2> QED
    BY <1>3, <2>1
<1> HIDE DEF q
<1>5. Len(q) \in Word
  BY <1>4, NatIsWord, SMT DEF MaxUserData
<1>6. MessageOf(m, t, q) /\ Sendable(m)
  BY <1>4, <1>5, BuildLayout, BuiltSendable
<1>7. U32(m[5], m[6], m[7], m[8]) = Len(q)
  BY <1>4, <1>5, <1>6, BuiltLength
<1> HIDE DEF m
<1>8. /\ m \in Seq(Byte) /\ Len(m) = 8 + Len(q)
      /\ m[1] = 3 /\ m[2] = 252 /\ m[3] = t \div 256 /\ m[4] = t % 256
      /\ m[5] = 0 /\ m[6] = 0 /\ m[7] = Len(q) \div 256 /\ m[8] = Len(q) % 256
      /\ \A i \in 1..Len(q) : m[8 + i] = q[i]
  BY <1>6 DEF MessageOf
<1>9. Len(m) = 12 + Len(p)
  BY <1>4, <1>8, SMT
<1>10. m[9] = x[1] /\ m[10] = x[2] /\ m[11] = x[3] /\ m[12] = x[4]
  <2>1. ASSUME NEW i \in 1..4 PROVE m[8 + i] = x[i]
    <3>1. i \in 1..Len(q)
      BY <1>4, SMT
    <3> QED
      BY <1>4, <1>8, <3>1, SMTT(30)
  <2>2. m[8 + 1] = x[1] /\ m[8 + 2] = x[2] /\ m[8 + 3] = x[3] /\ m[8 + 4] = x[4]
    BY <2>1, SMT
  <2>3. 8 + 1 = 9 /\ 8 + 2 = 10 /\ 8 + 3 = 11 /\ 8 + 4 = 12
    BY SMT
  <2> QED
    BY <2>2, <2>3
<1>11. ASSUME NEW i \in 1..Len(p) PROVE m[12 + i] = p[i]
  <2>1. 4 + i \in 1..Len(q) /\ 12 + i = 8 + (4 + i)
    BY <1>4, SMT
  <2>2. m[8 + (4 + i)] = q[4 + i]
    BY <1>8, <2>1
  <2>3. q[4 + i] = p[i]
    BY <1>4
  <2> QED
    BY <2>1, <2>2, <2>3
<1>12. Addressed(m, t, a, b, p)
  BY <1>3, <1>4, <1>7, <1>8, <1>9, <1>10, <1>11 DEF Addressed
<1> QED
  BY <1>6, <1>12 DEF m, q, x

\* The answers of the server and the requests of the client.
Ack(m) == \E sa \in Word, nack \in Byte, t \in {"DiagnosticMessageAck", "DiagnosticMessageNegativeAck"} :
              Addressed(m, DoIPPayloadType[t], sa, serverAddress, <<nack>>)

LEMMA TypesAreWords == \A t \in DOMAIN DoIPPayloadType : DoIPPayloadType[t] \in Word
  BY PayloadTypes, Zenon

LEMMA ServerWord == serverAddress \in Word /\ SourceAddress \in Word
  BY NatIsWord, SMT DEF serverAddress, SourceAddress

LEMMA DiagnosticLayout ==
    ASSUME NEW sa \in Word, NEW ta \in Word, NEW p \in Seq(Byte), Len(p) <= MaxUserData
    PROVE  /\ Addressed(makeDiagnosticMessage(sa, ta, p), DoIPPayloadType.DiagnosticMessage,
                        sa, ta, p)
           /\ Sendable(makeDiagnosticMessage(sa, ta, p))
<1>1. DoIPPayloadType.DiagnosticMessage \in Word
  BY TypesAreWords DEF DoIPPayloadType
<1> QED
  BY <1>1, AddressedLayout, Zenon DEF makeDiagnosticMessage

LEMMA ShortUserData ==
    /\ \A c \in Byte : <<c>> \in Seq(Byte) /\ Len(<<c>>) = 1 /\ Len(<<c>>) <= MaxUserData
    /\ <<16, 0, 0, 0, 0>> \in Seq(Byte) /\ Len(<<16, 0, 0, 0, 0>>) = 5
    /\ Len(<<16, 0, 0, 0, 0>>) <= MaxUserData
<1>1. 0 \in Byte /\ 16 \in Byte
  BY SMT DEF Byte
<1>2. <<16, 0, 0, 0, 0>> \in Seq(Byte)
  BY <1>1, SMT
<1> QED
  BY <1>2, SMT DEF MaxUserData

LEMMA AckLayout ==
    ASSUME NEW sa \in Word, NEW ack, ack = None \/ \E c \in Byte : ack = Some(c)
    PROVE  Ack(IF ack = None
               THEN makeDiagnosticPositiveResponse(sa, serverAddress, <<>>)
               ELSE makeDiagnosticNegativeResponse(sa, serverAddress, Value(ack), <<>>))
<1>1. /\ DoIPPayloadType["DiagnosticMessageAck"] \in Word
      /\ DoIPPayloadType["DiagnosticMessageNegativeAck"] \in Word
  BY TypesAreWords DEF DoIPPayloadType
<1>2. ASSUME NEW c \in Byte
      PROVE  U16BE(sa) \o U16BE(serverAddress) \o <<c>> \o <<>>
                = U16BE(sa) \o U16BE(serverAddress) \o <<c>>
  <2>1. U16BE(sa) \in Seq(Byte) /\ U16BE(serverAddress) \in Seq(Byte)
    BY U16BEBytes, ServerWord
  <2>2. U16BE(sa) \o U16BE(serverAddress) \in Seq(Byte)
    BY <2>1, ConcatBytes, Zenon
  <2>3. <<c>> \in Seq(Byte)
    BY ShortUserData, Zenon
  <2>4. U16BE(sa) \o U16BE(serverAddress) \o <<c>> \in Seq(Byte)
    BY <2>2, <2>3, ConcatBytes, Zenon
  <2> QED
    BY <2>4, ConcatEmptySeq, Zenon
<1>3. CASE ack = None
  <2>1. 0 \in Byte /\ DIAGNOSTIC_MESSAGE_ACK = 0
    BY SMT DEF Byte, DIAGNOSTIC_MESSAGE_ACK
  <2>2. <<0>> \in Seq(Byte) /\ Len(<<0>>) <= MaxUserData
    BY <2>1, ShortUserData, Zenon
  <2>3. Addressed(buildMessage(DoIPPayloadType["DiagnosticMessageAck"],
                      U16BE(sa) \o U16BE(serverAddress) \o <<0>>),
                  DoIPPayloadType["DiagnosticMessageAck"], sa, serverAddress, <<0>>)
    BY <1>1, <2>2, AddressedLayout, ServerWord, Zenon
  <2>4. makeDiagnosticPositiveResponse(sa, serverAddress, <<>>)
          = buildMessage(DoIPPayloadType["DiagnosticMessageAck"],
                         U16BE(sa) \o U16BE(serverAddress) \o <<0>>)
    BY <1>2, <2>1, Zenon DEF makeDiagnosticPositiveResponse
  <2> QED
    BY <1>3, <2>1, <2>3, <2>4, Zenon DEF Ack
<1>4. ASSUME NEW c \in Byte, ack = Some(c)
      PROVE  Ack(makeDiagnosticNegativeResponse(sa, serverAddress, Value(ack), <<>>))
  <2>1. Value(ack) = c
    BY <1>4, SomeNotNone
  <2>2. <<c>> \in Seq(Byte) /\ Len(<<c>>) <= MaxUserData
    BY ShortUserData, Zenon
  <2>3. Addressed(buildMessage(DoIPPayloadType["DiagnosticMessageNegativeAck"],
                      U16BE(sa) \o U16BE(serverAddress) \o <<c>>),
                  DoIPPayloadType["DiagnosticMessageNegativeAck"], sa, serverAddress, <<c>>)
    BY <1>1, <2>2, AddressedLayout, ServerWord, Zenon
  <2>4. makeDiagnosticNegativeResponse(sa, serverAddress, c, <<>>)
          = buildMessage(DoIPPayloadType["DiagnosticMessageNegativeAck"],
                         U16BE(sa) \o U16BE(serverAddress) \o <<c>>)
    BY <1>2, Zenon DEF makeDiagnosticNegativeResponse
  <2> QED
    BY <2>1, <2>3, <2>4, Zenon DEF Ack
<1> QED
  BY <1>3, <1>4, SomeNotNone, Zenon

Activation(m) ==
    \E sa \in Word : Addressed(m, DoIPPayloadType.RoutingActivationResponse, sa, serverAddress,
                               <<16, 0, 0, 0, 0>>)

LEMMA ActivationLayout ==
    ASSUME NEW sa \in Word
    PROVE  Activation(RoutingActivationResponse(sa))
<1>1. DoIPPayloadType.RoutingActivationResponse \in Word
  BY TypesAreWords DEF DoIPPayloadType
<1>2. Addressed(RoutingActivationResponse(sa), DoIPPayloadType.RoutingActivationResponse, sa,
                serverAddress, <<16, 0, 0, 0, 0>>)
  BY <1>1, AddressedLayout, ServerWord, ShortUserData, Zenon
     DEF RoutingActivationResponse, RouteActivated
<1> QED
  BY <1>2, Zenon DEF Activation

LEMMA ActivationRequestSendable == Sendable(makeRoutingActivationRequest(SourceAddress, 0))
<1>1. U16BE(SourceAddress) \in Seq(Byte) /\ Len(U16BE(SourceAddress)) = 2
  BY U16BEBytes, ServerWord
<1>2. 0 \in Byte /\ 0 % 256 = 0
  BY SMT DEF Byte
<1> DEFINE q == writeEnum(U16BE(SourceAddress), 0)
           z == <<0, 0, 0, 0>>
<1>3. q \in Seq(Byte) /\ Len(q) = 3
  <2>1. q = Append(U16BE(SourceAddress), 0)
    BY <1>2 DEF writeEnum
  <2>2. q \in Seq(Byte) /\ Len(q) = Len(U16BE(SourceAddress)) + 1
    <3>1. U16BE(SourceAddress) \in Seq(Byte) /\ 0 \in Byte
      BY <1>1, <1>2
    <3> QED
      BY <2>1, <3>1, AppendBytes, Zenon
  <2> QED
    BY <1>1, <2>2, SMT
<1>4. z \in Seq(Byte) /\ Len(z) = 4
  BY <1>2, SMT
<1> HIDE DEF q, z
<1>5. q \o z \in Seq(Byte) /\ Len(q \o z) = Len(q) + Len(z)
  <2>1. q \in Seq(Byte) /\ z \in Seq(Byte)
    BY <1>3, <1>4
  <2> QED
    BY <2>1, ConcatBytes, Zenon
<1>6. Len(q \o z) \in Word
  BY <1>3, <1>4, <1>5, NatIsWord, SMT
<1>7. DoIPPayloadType.RoutingActivationRequest \in Word
  BY TypesAreWords DEF DoIPPayloadType
<1>8. Sendable(buildMessage(DoIPPayloadType.RoutingActivationRequest, q \o z))
  BY <1>5, <1>6, <1>7, BuiltSendable, Zenon
<1> QED
  BY <1>8 DEF makeRoutingActivationRequest, q, z

LEMMA AliveCheckSendable == Sendable(makeAliveCheckResponse(SourceAddress))
<1>1. U16BE(SourceAddress) \in Seq(Byte) /\ Len(U16BE(SourceAddress)) = 2
  BY U16BEBytes, ServerWord
<1>2. Len(U16BE(SourceAddress)) \in Word
  BY <1>1, NatIsWord, SMT
<1>3. DoIPPayloadType.AliveCheckResponse \in Word
  BY TypesAreWords DEF DoIPPayloadType
<1> QED
  BY <1>1, <1>2, <1>3, BuiltSendable DEF makeAliveCheckResponse

LEMMA DiagnosticSendable ==
    ASSUME DiscoveryTypeOK, NEW payload \in Requests
    PROVE  Sendable(makeDiagnosticMessage(SourceAddress, readU16BE(identity.la, 0), payload))
<1>1. payload \in Seq(Byte) /\ Len(payload) <= MaxUserData
  <2>1. payload \in Seq(Byte) /\ Len(payload) <= MAX_UDS_MESSAGE_LENGTH
    BY RequestsAssumption, Zenon
  <2> QED
    BY <2>1, LenProperties, SMT DEF MAX_UDS_MESSAGE_LENGTH, MaxUserData
<1>2. identity.la \in [1..2 -> Byte]
  BY DEF DiscoveryTypeOK
<1>3. identity.la[1] \in Byte /\ identity.la[2] \in Byte
  BY <1>2
<1>4. readU16BE(identity.la, 0) = U16(identity.la[1], identity.la[2])
  BY SMT DEF readU16BE, At, U16
<1>5. readU16BE(identity.la, 0) \in Word
  BY <1>3, <1>4, U16BEInverse
<1> QED
  BY <1>1, <1>5, ServerWord, DiagnosticLayout, Zenon

LEMMA ForeignSendable == \A bytes \in ForeignBytes : Sendable(bytes)
  BY ForeignBytesAssumption, Zenon DEF Sendable, DOIP_HEADER_SIZE

-----------------------------------------------------------------------------
(* What the server makes of the bytes.                                     *)

\* Data with the same eight bytes at the beginning has the same header.
LEMMA SameHeader ==
    ASSUME NEW x \in Seq(Byte), NEW y \in Seq(Byte), Len(x) >= 8, Len(y) >= 8,
           \A i \in 1..8 : x[i] = y[i]
    PROVE  /\ tryParseHeader(x) = tryParseHeader(y)
           /\ AcceptableHeader(x) = AcceptableHeader(y)
<1>1. /\ x[1] = y[1] /\ x[2] = y[2] /\ x[3] = y[3] /\ x[4] = y[4]
      /\ x[5] = y[5] /\ x[6] = y[6] /\ x[7] = y[7] /\ x[8] = y[8]
  BY SMT
<1>2. Len(x) \in Nat /\ Len(y) \in Nat
  BY LenProperties
<1>3. readU16BE(x, 2) = readU16BE(y, 2) /\ readU32BE(x, 4) = readU32BE(y, 4)
  BY <1>1, SMT DEF readU16BE, readU32BE, At
<1>4. isValidProtocolVersion(x) = isValidProtocolVersion(y)
  BY <1>1, <1>2, SMT DEF isValidProtocolVersion, At
<1>5. ~(Len(x) < 8) /\ ~(Len(y) < 8)
  BY <1>2, SMT
<1>6. tryParseHeader(x) = tryParseHeader(y)
  BY <1>3, <1>4, <1>5, Zenon DEF tryParseHeader, DOIP_HEADER_SIZE
<1> QED
  BY <1>6, Zenon DEF AcceptableHeader

\* A written message with an acceptable header: its type, length and layout.
LEMMA AcceptedParts ==
    ASSUME NEW w, Sendable(w), AcceptableHeader(w)
    PROVE  /\ w \in Seq(Byte) /\ Len(w) \in Nat /\ Len(w) >= 8 /\ Len(w) - 8 <= DOIP_MAXIMUM_MTU
           /\ Len(w) - 8 \in Word
           /\ \A i \in 1..Len(w) : w[i] \in Byte
           /\ w[1] \in 1..4 /\ w[2] = 255 - w[1]
           /\ isValidPayloadType(U16(w[3], w[4]))
           /\ w[5] = 0 /\ w[6] = 0
           /\ w[7] = (Len(w) - 8) \div 256 /\ w[8] = (Len(w) - 8) % 256
<1>1. /\ w \in Seq(Byte) /\ Len(w) >= 8 /\ tryParseHeader(w) # None
      /\ Len(w) = 8 + Value(tryParseHeader(w)).length
      /\ Value(tryParseHeader(w)).length <= DOIP_MAXIMUM_MTU
  BY DEF Sendable, AcceptableHeader, HasValue
<1>2. /\ w[1] \in 1..4 /\ w[1] + w[2] = 255 /\ isValidPayloadType(U16(w[3], w[4]))
      /\ Value(tryParseHeader(w)).length = U32(w[5], w[6], w[7], w[8])
      /\ U32(w[5], w[6], w[7], w[8]) \in Nat
  BY <1>1, HeaderParsed
<1>3. Len(w) \in Nat /\ \A i \in 1..Len(w) : w[i] \in Byte
  BY <1>1, LenProperties, ElementOfSeq
<1> DEFINE n == Len(w) - 8
<1>4. n \in Nat /\ n <= DOIP_MAXIMUM_MTU /\ U32(w[5], w[6], w[7], w[8]) = n
  BY <1>1, <1>2, <1>3, SMT
<1>5. n \in Word
  BY <1>4, NatIsWord, SMT DEF DOIP_MAXIMUM_MTU
<1>6. /\ w[1] \in Byte /\ w[2] \in Byte
      /\ w[5] \in Byte /\ w[6] \in Byte /\ w[7] \in Byte /\ w[8] \in Byte
  BY <1>1, <1>3, SMT
<1>7. w[2] = 255 - w[1]
  BY <1>2, <1>6, SMT DEF Byte
<1> HIDE DEF n
<1>8. w[5] = 0 /\ w[6] = 0 /\ w[7] = n \div 256 /\ w[8] = n % 256
  BY <1>4, <1>5, <1>6, U32BEInverse
<1> QED
  BY <1>1, <1>2, <1>3, <1>4, <1>5, <1>7, <1>8 DEF n

LEMMA AcceptedWellFormed ==
    ASSUME NEW w, Sendable(w), AcceptableHeader(w)
    PROVE  WellFormed(w)
<1>1. /\ w \in Seq(Byte) /\ Len(w) \in Nat /\ Len(w) >= 8 /\ Len(w) - 8 <= DOIP_MAXIMUM_MTU
      /\ Len(w) - 8 \in Word
      /\ \A i \in 1..Len(w) : w[i] \in Byte
      /\ w[1] \in 1..4 /\ w[2] = 255 - w[1]
      /\ isValidPayloadType(U16(w[3], w[4]))
      /\ w[5] = 0 /\ w[6] = 0
      /\ w[7] = (Len(w) - 8) \div 256 /\ w[8] = (Len(w) - 8) % 256
  BY AcceptedParts
<1>2. \E t \in DOMAIN DoIPPayloadType : U16BE(DoIPPayloadType[t]) = SubSeq(w, 3, 4)
  <2>1. PICK t \in DOMAIN DoIPPayloadType : DoIPPayloadType[t] = U16(w[3], w[4])
    BY <1>1, PayloadTypes, Zenon
  <2>2. w[3] \in Byte /\ w[4] \in Byte
    BY <1>1, SMT
  <2>3. U16BE(DoIPPayloadType[t]) = <<w[3], w[4]>>
    BY <2>1, <2>2, U16BEInverse
  <2>4. SubSeq(w, 3, 4) = <<w[3], w[4]>>
    <3>1. <<w[3], w[4]>> \in Seq(Byte) /\ Len(<<w[3], w[4]>>) = 2
      BY <2>2, SMT
    <3>2. StandsAt(w, 3, <<w[3], w[4]>>) /\ 3 \in Nat /\ 3 + Len(<<w[3], w[4]>>) - 1 = 4
      BY <1>1, <3>1, SMT DEF StandsAt
    <3>3. SubSeq(w, 3, 3 + Len(<<w[3], w[4]>>) - 1) = <<w[3], w[4]>>
      <4>1. w \in Seq(Byte)
        BY <1>1
      <4> QED
        BY <3>1, <3>2, <4>1, PartEqual, Zenon
    <3> QED
      BY <3>2, <3>3
  <2> QED
    BY <2>3, <2>4
<1>3. SubSeq(w, 5, 8) = U32BE(Len(w) - 8)
  <2> DEFINE n == Len(w) - 8
             u == U32BE(n)
  <2>1. u = <<0, 0, n \div 256, n % 256>> /\ u \in Seq(Byte) /\ Len(u) = 4
    BY <1>1, U32BEBytes, ZenonT(40)
  <2>2. u[1] = 0 /\ u[2] = 0 /\ u[3] = n \div 256 /\ u[4] = n % 256
    BY <2>1
  <2>3. w[5] = u[1] /\ w[6] = u[2] /\ w[7] = u[3] /\ w[8] = u[4]
    BY <1>1, <2>2
  <2> HIDE DEF n, u
  <2>4. StandsAt(w, 5, u) /\ 5 \in Nat /\ 5 + Len(u) - 1 = 8
    BY <1>1, <2>1, <2>3, SMTT(30) DEF StandsAt
  <2>5. SubSeq(w, 5, 5 + Len(u) - 1) = u
    <3>1. w \in Seq(Byte) /\ u \in Seq(Byte) /\ 5 \in Nat /\ StandsAt(w, 5, u)
      BY <1>1, <2>1, <2>4
    <3> QED
      BY <3>1, PartEqual, Zenon
  <2> QED
    BY <2>4, <2>5 DEF u, n
<1> QED
  BY <1>1, <1>2, <1>3 DEF WellFormed

\* The message built anew from type and payload is the written one, but for the
\* version.
LEMMA Rebuilt ==
    ASSUME NEW w, Sendable(w), AcceptableHeader(w)
    PROVE  /\ buildMessage(getPayloadType(w), getPayload(w))
                 = <<PROTOCOL_VERSION, PROTOCOL_VERSION_INV>> \o SubSeq(w, 3, Len(w))
           /\ buildMessage(getPayloadType(w), getPayload(w)) \in Seq(Byte)
<1>1. /\ w \in Seq(Byte) /\ Len(w) \in Nat /\ Len(w) >= 8
      /\ Len(w) - 8 \in Word
      /\ \A i \in 1..Len(w) : w[i] \in Byte
      /\ isValidPayloadType(U16(w[3], w[4]))
      /\ w[5] = 0 /\ w[6] = 0
      /\ w[7] = (Len(w) - 8) \div 256 /\ w[8] = (Len(w) - 8) % 256
  BY AcceptedParts
<1> DEFINE p == getPayload(w)
           t == U16(w[3], w[4])
           m == buildMessage(t, p)
<1>2. /\ p \in Seq(Byte) /\ Len(p) = Len(w) - 8
      /\ \A i \in 1..Len(w) - 8 : p[i] = w[8 + i]
      /\ getPayloadType(w) = t
  BY <1>1, PayloadOf
<1>3. w[3] \in Byte /\ w[4] \in Byte
  BY <1>1, SMT
<1>4. t \in Word /\ t \div 256 = w[3] /\ t % 256 = w[4]
  BY <1>3, U16BEInverse
<1> HIDE DEF p, t
<1>5. MessageOf(m, t, p)
  BY <1>1, <1>2, <1>4, BuildLayout
<1> HIDE DEF m
<1>6. /\ m \in Seq(Byte) /\ Len(m) = 8 + Len(p)
      /\ m[1] = 3 /\ m[2] = 252 /\ m[3] = w[3] /\ m[4] = w[4]
      /\ m[5] = 0 /\ m[6] = 0 /\ m[7] = Len(p) \div 256 /\ m[8] = Len(p) % 256
      /\ \A i \in 1..Len(p) : m[8 + i] = p[i]
  BY <1>4, <1>5 DEF MessageOf
<1>7. Len(m) = Len(w)
  BY <1>1, <1>2, <1>6, SMT
<1>8. ASSUME NEW i \in 3..Len(w)
      PROVE  m[i] = w[i]
  <2>1. CASE i <= 8
    <3>1. m[7] = w[7] /\ m[8] = w[8] /\ m[5] = w[5] /\ m[6] = w[6]
      BY <1>1, <1>2, <1>6
    <3>2. i \in {3, 4, 5, 6, 7, 8}
      BY <1>1, <2>1, SMT
    <3> QED
      BY <1>6, <3>1, <3>2
  <2>2. CASE i > 8
    <3> DEFINE j == i - 8
    <3>1. j \in 1..Len(p) /\ j \in 1..Len(w) - 8 /\ 8 + j = i
      BY <1>1, <1>2, <2>2, SMT
    <3> HIDE DEF j
    <3>2. m[8 + j] = p[j] /\ p[j] = w[8 + j]
      BY <1>2, <1>6, <3>1
    <3> QED
      BY <3>1, <3>2
  <2> QED
    BY <1>1, <2>1, <2>2, SMT
<1> DEFINE v == <<PROTOCOL_VERSION, PROTOCOL_VERSION_INV>>
           r == SubSeq(w, 3, Len(w))
<1>9. v \in Seq(Byte) /\ Len(v) = 2 /\ v[1] = 3 /\ v[2] = 252
  BY SMT DEF PROTOCOL_VERSION, PROTOCOL_VERSION_INV, Byte
<1>10. /\ r \in Seq(Byte) /\ Len(r) = Len(w) - 3 + 1
       /\ \A i \in 1..Len(w) - 3 + 1 : r[i] = w[3 + i - 1]
  <2>1. 3 \in Nat /\ 3 >= 1 /\ 3 <= Len(w) /\ Len(w) <= Len(w)
    BY <1>1, SMT
  <2> QED
    BY <1>1, <2>1, PartBytes
<1> HIDE DEF v, r
<1>11. /\ v \o r \in Seq(Byte) /\ Len(v \o r) = Len(v) + Len(r)
       /\ \A i \in 1..Len(v) : (v \o r)[i] = v[i]
       /\ \A i \in 1..Len(r) : (v \o r)[Len(v) + i] = r[i]
  <2>1. v \in Seq(Byte) /\ r \in Seq(Byte)
    BY <1>9, <1>10
  <2> QED
    BY <2>1, ConcatBytes, Zenon
<1> DEFINE z == v \o r
<1>12. /\ z \in Seq(Byte) /\ Len(z) = Len(w) /\ z[1] = 3 /\ z[2] = 252
       /\ \A i \in 1..Len(r) : z[2 + i] = r[i]
  <2> HIDE DEF z
  <2>1. /\ z \in Seq(Byte) /\ Len(z) = Len(v) + Len(r)
        /\ \A i \in 1..Len(v) : z[i] = v[i]
        /\ \A i \in 1..Len(r) : z[Len(v) + i] = r[i]
    BY <1>11 DEF z
  <2>2. Len(z) = Len(w)
    BY <1>1, <1>9, <1>10, <2>1, SMT
  <2>3. z[1] = v[1] /\ z[2] = v[2]
    BY <1>9, <2>1
  <2> QED
    BY <1>9, <2>1, <2>2, <2>3
<1> HIDE DEF z
<1>13. ASSUME NEW i \in 1..Len(m)
       PROVE  m[i] = z[i]
  <2>1. CASE i \in {1, 2}
    BY <1>6, <1>12, <2>1
  <2>2. CASE i > 2
    <3> DEFINE j == i - 2
    <3>1. /\ j \in 1..Len(r) /\ j \in 1..Len(w) - 3 + 1 /\ 2 + j = i /\ 3 + j - 1 = i
          /\ i \in 3..Len(w)
      BY <1>1, <1>7, <1>10, <2>2, SMT
    <3> HIDE DEF j
    <3>2. z[2 + j] = r[j] /\ r[j] = w[3 + j - 1]
      BY <1>10, <1>12, <3>1
    <3>3. m[i] = w[i]
      BY <1>8, <3>1
    <3> QED
      BY <3>1, <3>2, <3>3
  <2> QED
    BY <1>1, <1>7, <2>1, <2>2, SMT
<1>14. m = z
  BY <1>6, <1>7, <1>12, <1>13, SeqEqual
<1> QED
  BY <1>2, <1>6, <1>14 DEF m, p, z, v, r

-----------------------------------------------------------------------------
(* The UDS mock.                                                           *)

\* The rows of the service table: which ids, and how short a request may be.
LEMMA Descriptors ==
    \A d \in UDS_SERVICE_DESCRIPTORS :
        /\ d.service \in 16..135 /\ d.minReq \in Nat /\ d.minReq >= 2
        /\ d.service = 46 => d.minReq = 4
        /\ d.service = 34 => d.minReq = 3
        /\ d.maxRsp \in Nat /\ d.maxRsp <= MaxUserData
<1>1. MAX_UDS_MESSAGE_LENGTH \in Nat /\ MAX_UDS_MESSAGE_LENGTH <= MaxUserData
      /\ 6 <= MaxUserData /\ 2 <= MaxUserData
  BY SMT DEF MAX_UDS_MESSAGE_LENGTH, MaxUserData
<1> DEFINE Row(d) ==
        /\ d.service \in 16..135 /\ d.minReq \in Nat /\ d.minReq >= 2
        /\ d.service = 46 => d.minReq = 4
        /\ d.service = 34 => d.minReq = 3
        /\ d.maxRsp \in Nat /\ d.maxRsp <= MaxUserData
<1>2. \A d \in SubFunctionOnly({"DiagnosticSessionControl"}, 6) : Row(d)
  BY <1>1, SMT DEF SubFunctionOnly, UdsService
<1>3. \A d \in SubFunctionOnly({"ECUReset", "TesterPresent", "RequestTransferExit"}, 2) : Row(d)
  BY <1>1, SMT DEF SubFunctionOnly, UdsService
<1>4. \A d \in Unlimited({"SecurityAccess", "CommunicationControl", "AccessTimingParameters",
                    "SecuredDataTransmission", "ControlDTCSetting", "ResponseOnEvent",
                    "LinkControl", "ReadDTCInformation"}, 2, 3) : Row(d)
  BY <1>1, SMT DEF Unlimited, UdsService
<1>5. \A d \in Unlimited({"ReadScalingDataByIdentifier", "ReadDataByPeriodicIdentifier",
                    "DynamicallyDefineDataIdentifier", "ClearDiagnosticInformation",
                    "TransferData"}, 3, 3) : Row(d)
  BY <1>1, SMT DEF Unlimited, UdsService
<1>6. \A d \in Unlimited({"ReadDataByIdentifier"}, 3, 4) : Row(d)
  BY <1>1, SMT DEF Unlimited, UdsService
<1>7. \A d \in Unlimited({"ReadMemoryByAddress"}, 4, 4) : Row(d)
  BY <1>1, SMT DEF Unlimited, UdsService
<1>8. \A d \in Unlimited({"WriteDataByIdentifier", "WriteMemoryByAddress"}, 4, 3) : Row(d)
  BY <1>1, SMT DEF Unlimited, UdsService
<1>9. \A d \in Unlimited({"RequestDownload"}, 6, 5) : Row(d)
  BY <1>1, SMT DEF Unlimited, UdsService
<1> HIDE DEF Row
<1>10. \A d \in UDS_SERVICE_DESCRIPTORS : Row(d)
  BY <1>2, <1>3, <1>4, <1>5, <1>6, <1>7, <1>8, <1>9, Zenon DEF UDS_SERVICE_DESCRIPTORS
<1> QED
  BY <1>10 DEF Row

\* The handlers UdsMockProvider registers.
LEMMA MockHandlers ==
    \A sid \in DOMAIN UdsMockProvider :
        \/ UdsMockProvider[sid] = "default"
        \/ sid = 16 /\ UdsMockProvider[sid] = "session"
        \/ sid = 34 /\ UdsMockProvider[sid] = "readVin"
        \/ sid \in {62, 17} /\ UdsMockProvider[sid] = "subFunction"
        \/ sid = 46 /\ UdsMockProvider[sid] = "writeAccepted"
<1> DEFINE h0 == registerDefaultServices(NoServices)
           h1 == registerService(h0, 16, "session")
           h2 == registerService(h1, 34, "readVin")
           h3 == registerService(h2, 62, "subFunction")
           h4 == registerService(h3, 17, "subFunction")
           h5 == registerService(h4, 46, "writeAccepted")
<1>1. /\ UdsService["DiagnosticSessionControl"] = 16 /\ UdsService["ReadDataByIdentifier"] = 34
      /\ UdsService["TesterPresent"] = 62 /\ UdsService["ECUReset"] = 17
      /\ UdsService["WriteDataByIdentifier"] = 46
  BY DEF UdsService
<1>2. UdsMockProvider = h5
  BY <1>1, Zenon DEF UdsMockProvider
<1>3. \A s \in DOMAIN h0 : h0[s] = "default"
  BY Zenon DEF registerDefaultServices, NoServices
<1> HIDE DEF h0
<1>4. \A s \in DOMAIN h1 : h1[s] = "default" \/ (s = 16 /\ h1[s] = "session")
  BY <1>3, SMT DEF registerService
<1> HIDE DEF h1
<1>5. \A s \in DOMAIN h2 : \/ h2[s] = "default" \/ (s = 16 /\ h2[s] = "session")
                           \/ (s = 34 /\ h2[s] = "readVin")
  BY <1>4, SMT DEF registerService
<1> HIDE DEF h2
<1>6. \A s \in DOMAIN h3 : \/ h3[s] = "default" \/ (s = 16 /\ h3[s] = "session")
                           \/ (s = 34 /\ h3[s] = "readVin")
                           \/ (s \in {62, 17} /\ h3[s] = "subFunction")
  BY <1>5, SMT DEF registerService
<1> HIDE DEF h3
<1>7. \A s \in DOMAIN h4 : \/ h4[s] = "default" \/ (s = 16 /\ h4[s] = "session")
                           \/ (s = 34 /\ h4[s] = "readVin")
                           \/ (s \in {62, 17} /\ h4[s] = "subFunction")
  BY <1>6, SMT DEF registerService
<1> HIDE DEF h4
<1>8. \A s \in DOMAIN h5 : \/ h5[s] = "default" \/ (s = 16 /\ h5[s] = "session")
                           \/ (s = 34 /\ h5[s] = "readVin")
                           \/ (s \in {62, 17} /\ h5[s] = "subFunction")
                           \/ (s = 46 /\ h5[s] = "writeAccepted")
  BY <1>7, SMT DEF registerService
<1> HIDE DEF h5
<1> QED
  BY <1>2, <1>8

\* A header image: a place where a reader that lost its place would find the
\* version, its complement and the first byte of a payload type.
HeaderImage(b, q) == b[q] \in 1..4 /\ b[q] + b[q + 1] = 255
TypeByte(c) == c \in {0, 64, 128}

\* User data in which a reader that lost its place finds no header, whatever
\* address stands before it.
NoHeaderImage(b) ==
    /\ b # <<>> => ~TypeByte(b[1]) /\ b[1] \notin 251..254
    /\ \A q \in 1..Len(b) - 1 :
           HeaderImage(b, q) => q + 1 = Len(b) \/ ~TypeByte(b[q + 2])

\* The bytes behind a first one that begins no header.
Follows(data) ==
    /\ data \in Seq(Byte)
    /\ \A q \in 1..Len(data) - 1 :
           HeaderImage(data, q) => q + 1 = Len(data) \/ ~TypeByte(data[q + 2])

LEMMA ConsHeaderFree ==
    ASSUME NEW c \in Byte, c \in 80..127, NEW data, Follows(data)
    PROVE  NoHeaderImage(<<c>> \o data)
<1> DEFINE b == <<c>> \o data
<1>0. /\ data \in Seq(Byte)
      /\ \A q \in 1..Len(data) - 1 :
             HeaderImage(data, q) => q + 1 = Len(data) \/ ~TypeByte(data[q + 2])
  BY DEF Follows
<1>1. <<c>> \in Seq(Byte) /\ Len(<<c>>) = 1
  BY ShortUserData, Zenon
<1>2. /\ b \in Seq(Byte) /\ Len(data) \in Nat /\ Len(b) = Len(<<c>>) + Len(data)
      /\ \A i \in 1..Len(<<c>>) : b[i] = <<c>>[i]
      /\ \A i \in 1..Len(data) : b[Len(<<c>>) + i] = data[i]
  <2>1. <<c>> \in Seq(Byte) /\ data \in Seq(Byte)
    BY <1>0, <1>1
  <2> QED
    BY <2>1, ConcatBytes, Zenon
<1> HIDE DEF b
<1>3. Len(b) = 1 + Len(data) /\ b[1] = c /\ \A i \in 1..Len(data) : b[1 + i] = data[i]
  BY <1>1, <1>2, SMT
<1>4. ~TypeByte(b[1]) /\ b[1] \notin 251..254
  BY <1>3, SMT DEF TypeByte
<1>5. ASSUME NEW q \in 1..Len(b) - 1, HeaderImage(b, q)
      PROVE  q + 1 = Len(b) \/ ~TypeByte(b[q + 2])
  <2>1. CASE q = 1
    BY <1>3, <1>5, <2>1, SMT DEF HeaderImage
  <2>2. CASE q # 1
    <3> DEFINE r == q - 1
    <3>1. r \in 1..Len(data) /\ q = 1 + r /\ q + 1 = 1 + (r + 1) /\ q + 2 = 1 + (r + 2)
      BY <1>2, <1>3, <2>2, SMT
    <3>2. CASE r = Len(data)
      BY <1>2, <1>3, <3>2, SMT
    <3>3. CASE r # Len(data)
      <4>1. r \in 1..Len(data) - 1 /\ r + 1 \in 1..Len(data)
        BY <1>2, <3>1, <3>3, SMT
      <4> HIDE DEF r
      <4>2. b[q] = data[r] /\ b[q + 1] = data[r + 1]
        BY <1>3, <3>1, <4>1
      <4>3. HeaderImage(data, r)
        BY <1>5, <4>2 DEF HeaderImage
      <4>4. CASE r + 1 = Len(data)
        BY <1>3, <3>1, <4>4, SMT
      <4>5. CASE r + 1 # Len(data)
        <5>1. ~TypeByte(data[r + 2])
          BY <1>0, <4>1, <4>3, <4>5
        <5>2. r + 2 \in 1..Len(data)
          BY <1>2, <4>1, <4>5, SMT
        <5>3. b[q + 2] = data[r + 2]
          BY <1>3, <3>1, <5>2
        <5> QED
          BY <5>1, <5>3
      <4> QED
        BY <4>4, <4>5
    <3> QED
      BY <3>2, <3>3
  <2> QED
    BY <2>1, <2>2
<1> QED
  BY <1>4, <1>5 DEF b, NoHeaderImage

\* Byte strings of one and two bytes, and the parameters of a session.
LEMMA ShortFollows ==
    /\ \A c \in Byte : Follows(<<c>>)
    /\ \A c \in Byte, d \in Byte : Follows(<<c, d>>)
    /\ \A s \in Seq(Byte) : Len(s) = 5 /\ s[2] = 7 /\ s[3] = 208 /\ s[4] = 1 /\ s[5] = 144
                               => Follows(s)
<1>1. ASSUME NEW c \in Byte PROVE Follows(<<c>>)
  BY SMT DEF Follows
<1>2. ASSUME NEW c \in Byte, NEW d \in Byte PROVE Follows(<<c, d>>)
  BY SMT DEF Follows
<1>3. ASSUME NEW s \in Seq(Byte), Len(s) = 5, s[2] = 7, s[3] = 208, s[4] = 1, s[5] = 144
      PROVE  Follows(s)
  <2>2. s[1] \in Byte
    BY <1>3, ElementOfSeq, SMT
  <2>3. ASSUME NEW q \in 1..4
        PROVE  ~HeaderImage(s, q)
    <3>1. q = 1 \/ q = 2 \/ q = 3 \/ q = 4
      BY SMT
    <3> QED
      BY <1>3, <2>2, <3>1, SMT DEF HeaderImage, Byte
  <2>4. Len(s) - 1 = 4
    BY <1>3, SMT
  <2> QED
    BY <2>3, <2>4 DEF Follows
<1> QED
  BY <1>1, <1>2, <1>3

LEMMA VinFollows == Follows(U16BE(VinIdentifier) \o MockVin)
<1> DEFINE v == <<241, 144>>
           w == U16BE(VinIdentifier)
           d == w \o MockVin
<1>1. w = v
  BY SMT DEF U16BE, VinIdentifier
<1>2. w \in Seq(Byte) /\ Len(w) = 2 /\ w[1] = 241 /\ w[2] = 144
  BY <1>1, SMT DEF Byte
<1>3. MockVin \in Seq(Byte) /\ Len(MockVin) = 17 /\ \A i \in 1..17 : MockVin[i] > 4
  <2>1. MockVin \in Seq(Byte) /\ Len(MockVin) = 17
    BY SMT DEF MockVin, Byte
  <2>2. ASSUME NEW i \in 1..17 PROVE MockVin[i] > 4
    BY SMT DEF MockVin
  <2> QED
    BY <2>1, <2>2
<1> HIDE DEF w
<1>4. /\ d \in Seq(Byte) /\ Len(d) = Len(w) + Len(MockVin)
      /\ \A i \in 1..Len(w) : d[i] = w[i]
      /\ \A i \in 1..Len(MockVin) : d[Len(w) + i] = MockVin[i]
  <2>1. w \in Seq(Byte) /\ MockVin \in Seq(Byte)
    BY <1>2, <1>3
  <2> QED
    BY <2>1, ConcatBytes, Zenon
<1> HIDE DEF d
<1>5. Len(d) = 19
  BY <1>2, <1>3, <1>4, SMT
<1>6. ASSUME NEW q \in 1..19 PROVE d[q] > 4
  <2>1. CASE q <= 2
    <3>1. q \in {1, 2}
      BY <2>1, SMT
    <3>2. d[1] = 241 /\ d[2] = 144
      BY <1>2, <1>4, SMT
    <3> QED
      BY <3>1, <3>2, SMT
  <2>2. CASE q > 2
    <3> DEFINE j == q - 2
    <3>1. j \in 1..17 /\ 2 + j = q
      BY <2>2, SMT
    <3> HIDE DEF j
    <3>2. d[Len(w) + j] = MockVin[j] /\ Len(w) + j = q
      BY <1>2, <1>3, <1>4, <3>1
    <3> QED
      BY <1>3, <3>1, <3>2
  <2> QED
    BY <2>1, <2>2, SMT
<1>7. ASSUME NEW q \in 1..18 PROVE ~HeaderImage(d, q)
  <2>1. q \in 1..19
    BY SMT
  <2>2. d[q] > 4
    BY <1>6, <2>1
  <2> QED
    BY <2>2, SMT DEF HeaderImage
<1>8. Len(d) - 1 = 18
  BY <1>5, SMT
<1>9. Follows(d)
  BY <1>4, <1>7, <1>8 DEF Follows
<1> QED
  BY <1>9 DEF d, w

\* What the mock's handlers return for a request that is long enough.
LEMMA HandlerResponds ==
    ASSUME NEW request \in Seq(Byte), request # <<>>, request[1] \in DOMAIN UdsMockProvider,
           NEW d \in UDS_SERVICE_DESCRIPTORS, d.service = request[1], Len(request) >= d.minReq
    PROVE  LET resp == handle(UdsMockProvider[request[1]], request)
           IN  \/ resp.code # 0 /\ resp.code \in Byte
               \/ resp.code = 0 /\ request[1] \in 16..62 /\ Follows(resp.data)
<1> DEFINE sid == request[1]
           handler == UdsMockProvider[sid]
           resp == handle(handler, request)
<1>1. d.minReq \in Nat /\ d.minReq >= 2 /\ (sid = 46 => d.minReq = 4)
  BY Descriptors
<1>2. Len(request) \in Nat /\ Len(request) >= 2 /\ (sid = 46 => Len(request) >= 4)
  BY <1>1, LenProperties, SMT
<1>3. request[2] \in Byte
  BY <1>2, ElementOfSeq, SMT
<1>4. CASE handler = "default"
  <2>1. resp = Negative(UdsResponseCode.ServiceNotSupported)
    BY <1>4, SMT DEF handle
  <2>2. resp.code = 17 /\ 17 # 0 /\ 17 \in Byte
    BY <2>1, SMT DEF Negative, UdsResponseCode, Byte
  <2> QED
    BY <2>2
<1>5. CASE sid = 16 /\ handler = "session"
  <2>1. resp = SessionParameters(request)
    BY <1>5, SMT DEF handle
  <2>2. U16BE(2000) = <<7, 208>> /\ U16BE(400) = <<1, 144>>
    BY SMT DEF U16BE
  <2>3. SubFunction(request) = request[2]
    BY SMT DEF SubFunction, At
  <2> DEFINE x == <<request[2]>>
             u == U16BE(2000)
             v == U16BE(400)
             y == x \o u
             z == y \o v
  <2>4. resp.code = 0 /\ resp.data = z
    BY <2>1, <2>3 DEF SessionParameters, Positive, UdsResponseCode, writeU16BE
  <2>5. x \in Seq(Byte) /\ Len(x) = 1
    BY <1>3, ShortUserData, Zenon
  <2>6. 7 \in Byte /\ 208 \in Byte /\ 1 \in Byte /\ 144 \in Byte
    BY SMT DEF Byte
  <2>7. /\ u \in Seq(Byte) /\ Len(u) = 2 /\ u[1] = 7 /\ u[2] = 208
        /\ v \in Seq(Byte) /\ Len(v) = 2 /\ v[1] = 1 /\ v[2] = 144
    <3>2. u = <<7, 208>> /\ v = <<1, 144>>
      BY <2>2
    <3> HIDE DEF u, v
    <3>3. u \in Seq(Byte) /\ Len(u) = 2 /\ u[1] = 7 /\ u[2] = 208
      BY <2>6, <3>2, SMT
    <3>4. v \in Seq(Byte) /\ Len(v) = 2 /\ v[1] = 1 /\ v[2] = 144
      BY <2>6, <3>2, SMT
    <3> QED
      BY <3>3, <3>4
  <2> HIDE DEF u, v, x
  <2>8. y \in Seq(Byte) /\ Len(y) = 3 /\ y[2] = 7 /\ y[3] = 208
    <3>1. x \in Seq(Byte) /\ u \in Seq(Byte)
      BY <2>5, <2>7
    <3>2. /\ y \in Seq(Byte) /\ Len(y) = Len(x) + Len(u)
          /\ \A i \in 1..Len(u) : y[Len(x) + i] = u[i]
      BY <3>1, ConcatBytes, Zenon
    <3> HIDE DEF y
    <3> QED
      BY <2>5, <2>7, <3>2, SMT
  <2> HIDE DEF y
  <2>9. z \in Seq(Byte) /\ Len(z) = 5 /\ z[2] = 7 /\ z[3] = 208 /\ z[4] = 1 /\ z[5] = 144
    <3>1. y \in Seq(Byte) /\ v \in Seq(Byte)
      BY <2>7, <2>8
    <3>2. /\ z \in Seq(Byte) /\ Len(z) = Len(y) + Len(v)
          /\ \A i \in 1..Len(y) : z[i] = y[i]
          /\ \A i \in 1..Len(v) : z[Len(y) + i] = v[i]
      BY <3>1, ConcatBytes, Zenon
    <3> HIDE DEF z
    <3> QED
      BY <2>7, <2>8, <3>2, SMT
  <2> HIDE DEF z
  <2>10. Follows(z)
    BY <2>9, ShortFollows
  <2>11. sid \in 16..62
    BY <1>5, SMT
  <2> QED
    BY <2>4, <2>10, <2>11
<1>6. CASE sid = 34 /\ handler = "readVin"
  <2>1. resp = ReadVin(request)
    BY <1>6, SMT DEF handle
  <2>2. CASE DataIdentifier(request) = VinIdentifier
    <3>1. resp.code = 0 /\ resp.data = U16BE(VinIdentifier) \o MockVin
      BY <2>1, <2>2 DEF ReadVin, Positive, UdsResponseCode
    <3>2. sid \in 16..62
      BY <1>6, SMT
    <3> QED
      BY <3>1, <3>2, VinFollows
  <2>3. CASE DataIdentifier(request) # VinIdentifier
    <3>1. resp.code = 49
      BY <2>1, <2>3 DEF ReadVin, Negative, UdsResponseCode
    <3>2. 49 # 0 /\ 49 \in Byte
      BY SMT DEF Byte
    <3> QED
      BY <3>1, <3>2
  <2> QED
    BY <2>2, <2>3
<1>7. CASE sid \in {62, 17} /\ handler = "subFunction"
  <2>1. SubFunction(request) = request[2]
    BY SMT DEF SubFunction, At
  <2>2. resp = Positive(<<SubFunction(request)>>)
    BY <1>7, SMT DEF handle
  <2>3. resp.code = 0 /\ resp.data = <<request[2]>>
    BY <2>1, <2>2 DEF Positive, UdsResponseCode
  <2>4. sid \in 16..62
    BY <1>7, SMT
  <2> QED
    BY <1>3, <2>3, <2>4, ShortFollows
<1>8. CASE sid = 46 /\ handler = "writeAccepted"
  <2>1. resp = Positive(U16BE(DataIdentifier(request)))
    BY <1>8, SMT DEF handle
  <2>2. request[3] \in Byte
    BY <1>2, <1>8, ElementOfSeq, SMT
  <2>3. DataIdentifier(request) = U16(request[2], request[3])
    BY SMT DEF DataIdentifier, readU16BE, At, U16
  <2>4. U16BE(DataIdentifier(request)) = <<request[2], request[3]>>
    BY <1>3, <2>2, <2>3, U16BEInverse
  <2>5. resp.code = 0 /\ resp.data = <<request[2], request[3]>>
    BY <2>1, <2>4 DEF Positive, UdsResponseCode
  <2>6. sid \in 16..62
    BY <1>8, SMT
  <2> QED
    BY <1>3, <2>2, <2>5, <2>6, ShortFollows
<1> QED
  BY <1>4, <1>5, <1>6, <1>7, <1>8, MockHandlers

\* A response of the mock.
MockResponse(s, r) ==
    s \in Seq(Byte) /\ Len(s) <= MaxUserData /\ Answers(s, r) /\ NoHeaderImage(s)

LEMMA EmptyResponse == MockResponse(<<>>, <<>>)
<1>1. <<>> \in Seq(Byte) /\ Len(<<>>) <= MaxUserData
  BY SMT DEF MaxUserData
<1>2. NoHeaderImage(<<>>)
  BY SMT DEF NoHeaderImage
<1> QED
  BY <1>1, <1>2 DEF MockResponse, Answers

LEMMA NegativeResponse ==
    ASSUME NEW r \in Seq(Byte), r # <<>>, NEW code \in Byte, code # 0, NEW data
    PROVE  MockResponse(makeResponse(r, code, data), r)
<1> DEFINE s == <<127, r[1], code>>
<1>1. makeResponse(r, code, data) = s
  BY SMT DEF makeResponse, UdsResponseCode, NegativeResponseIndicator, At
<1>2. r[1] \in Byte /\ 127 \in Byte
  <2>1. Len(r) \in Nat /\ Len(r) # 0
    BY EmptySeq, LenProperties
  <2>2. 1 \in 1..Len(r)
    BY <2>1, SMT
  <2> QED
    BY <2>2, ElementOfSeq, SMT DEF Byte
<1>3. /\ s \in Seq(Byte) /\ Len(s) = 3 /\ s # <<>>
      /\ s[1] = 127 /\ s[2] = r[1] /\ s[3] = code
  BY <1>2, SMT
<1> HIDE DEF s
<1>4. Answers(s, r)
  BY <1>3, SMT DEF Answers
<1>5. NoHeaderImage(s)
  <2>1. ~TypeByte(s[1]) /\ s[1] \notin 251..254
    BY <1>3, SMT DEF TypeByte
  <2>2. ASSUME NEW q \in 1..Len(s) - 1, HeaderImage(s, q)
        PROVE  q + 1 = Len(s)
    <3>1. q = 1 \/ q = 2
      BY <1>3, SMT
    <3>2. q # 1
      BY <1>3, <2>2, SMT DEF HeaderImage
    <3> QED
      BY <1>3, <3>1, <3>2, SMT
  <2> QED
    BY <2>1, <2>2 DEF NoHeaderImage
<1>6. Len(s) <= MaxUserData
  BY <1>3, SMT DEF MaxUserData
<1> QED
  BY <1>1, <1>3, <1>4, <1>5, <1>6 DEF MockResponse

LEMMA PositiveResponse ==
    ASSUME NEW r \in Seq(Byte), r # <<>>, r[1] \in 16..62, NEW data, Follows(data),
           NEW d \in UDS_SERVICE_DESCRIPTORS, d.service = r[1],
           Len(r) \in d.minReq..d.maxReq, Len(data) + 1 \in d.minRsp..d.maxRsp
    PROVE  MockResponse(makeResponse(r, 0, data), r)
<1> DEFINE c == r[1] + 64
           s == <<c>> \o data
<1>1. c \in Byte /\ c \in 80..127 /\ c = (r[1] + 64) % 256
  <2>1. \A x \in 16..62 : x + 64 \in Byte /\ x + 64 \in 80..127 /\ x + 64 = (x + 64) % 256
    BY SMT DEF Byte
  <2> QED
    BY <2>1
<1>2. makeResponse(r, 0, data) = s
  BY <1>1, SMT DEF makeResponse, UdsResponseCode, UDS_POSITIVE_RESPONSE_OFFSET, At
<1> HIDE DEF c
<1>3. NoHeaderImage(s)
  BY <1>1, ConsHeaderFree
<1>4. <<c>> \in Seq(Byte) /\ Len(<<c>>) = 1 /\ data \in Seq(Byte)
  BY <1>1, ShortUserData DEF Follows
<1>5. /\ s \in Seq(Byte) /\ Len(data) \in Nat /\ Len(s) = Len(<<c>>) + Len(data)
      /\ \A i \in 1..Len(<<c>>) : s[i] = <<c>>[i]
  BY <1>4, ConcatBytes, Zenon
<1> HIDE DEF s
<1>6. Len(s) = Len(data) + 1 /\ s[1] = c
  BY <1>4, <1>5, SMT
<1>7. s # <<>>
  BY <1>5, <1>6, SMT
<1>8. Len(s) \in d.minRsp..d.maxRsp
  BY <1>6
<1>9. Answers(s, r)
  BY <1>6, <1>7, <1>8 DEF Answers, c
<1>10. Len(s) <= MaxUserData
  <2>1. d.maxRsp \in Nat /\ d.maxRsp <= MaxUserData /\ MaxUserData \in Nat
    BY Descriptors, SMT DEF MaxUserData
  <2>2. Len(s) \in Nat /\ Len(s) <= d.maxRsp
    BY <1>5, <1>6, <1>8, SMT
  <2> QED
    BY <2>1, <2>2, SMT
<1> QED
  BY <1>2, <1>3, <1>5, <1>9, <1>10 DEF MockResponse

\* Whatever the request, empty, unknown, too short or too long, the UDS mock
\* gives a response that fits it: none to none, a refusal with a reason, or the
\* positive response of its service within the lengths of the descriptor; it
\* fits into a DoIP message and cannot be mistaken for a DoIP header.
THEOREM MockAnswers ==
    ASSUME NEW r \in Seq(Byte)
    PROVE  MockResponse(handleDiagnosticRequest(UdsMockProvider, r), r)
<1> DEFINE sid == r[1]
           found == findServiceDescriptor(sid)
           desc == Value(found)
           resp == handle(UdsMockProvider[sid], r)
           s == handleDiagnosticRequest(UdsMockProvider, r)
<1>0. At(r, 0) = sid
  BY SMT DEF At
<1>1. s = IF r = <<>> THEN <<>>
          ELSE IF found = None THEN makeResponse(r, 17, <<>>)
          ELSE IF Len(r) \notin desc.minReq..desc.maxReq THEN makeResponse(r, 19, <<>>)
          ELSE IF sid \notin DOMAIN UdsMockProvider THEN makeResponse(r, 17, <<>>)
          ELSE IF Len(resp.data) + 1 \notin desc.minRsp..desc.maxRsp
          THEN makeResponse(r, 114, <<>>)
          ELSE makeResponse(r, resp.code, resp.data)
  BY <1>0, Zenon DEF handleDiagnosticRequest, UdsResponseCode
<1>2. 17 \in Byte /\ 19 \in Byte /\ 114 \in Byte /\ 17 # 0 /\ 19 # 0 /\ 114 # 0
  BY SMT DEF Byte
<1>3. CASE r = <<>>
  BY <1>1, <1>3, EmptyResponse
<1>4. CASE r # <<>>
  <2>1. CASE found = None
    BY <1>1, <1>2, <1>4, <2>1, NegativeResponse
  <2>2. CASE found # None
    <3>1. desc \in UDS_SERVICE_DESCRIPTORS /\ desc.service = sid
      <4> DEFINE D == {d \in UDS_SERVICE_DESCRIPTORS : d.service = sid}
      <4>1. D # {} /\ found = Some(CHOOSE d \in D : TRUE)
        BY <2>2, Zenon DEF findServiceDescriptor
      <4>2. (CHOOSE d \in D : TRUE) \in D
        BY <4>1, Zenon
      <4>3. desc = (CHOOSE d \in D : TRUE)
        BY <4>1, SomeNotNone
      <4> QED
        BY <4>2, <4>3
    <3> HIDE DEF desc, found
    <3>2. CASE Len(r) \notin desc.minReq..desc.maxReq
      BY <1>1, <1>2, <1>4, <2>2, <3>2, NegativeResponse
    <3>3. CASE Len(r) \in desc.minReq..desc.maxReq
      <4>1. CASE sid \notin DOMAIN UdsMockProvider
        BY <1>1, <1>2, <1>4, <2>2, <3>3, <4>1, NegativeResponse
      <4>2. CASE sid \in DOMAIN UdsMockProvider
        <5>1. CASE Len(resp.data) + 1 \notin desc.minRsp..desc.maxRsp
          BY <1>1, <1>2, <1>4, <2>2, <3>3, <4>2, <5>1, NegativeResponse
        <5>2. CASE Len(resp.data) + 1 \in desc.minRsp..desc.maxRsp
          <6>1. s = makeResponse(r, resp.code, resp.data)
            BY <1>1, <1>4, <2>2, <3>3, <4>2, <5>2
          <6>2. Len(r) >= desc.minReq
            BY <3>1, <3>3, Descriptors, LenProperties, SMT
          <6>3. \/ resp.code # 0 /\ resp.code \in Byte
                \/ resp.code = 0 /\ sid \in 16..62 /\ Follows(resp.data)
            BY <1>4, <3>1, <4>2, <6>2, HandlerResponds
          <6> HIDE DEF resp
          <6>5. CASE resp.code # 0 /\ resp.code \in Byte
            BY <1>4, <6>1, <6>5, NegativeResponse
          <6>6. CASE resp.code = 0 /\ sid \in 16..62 /\ Follows(resp.data)
            BY <1>4, <3>1, <3>3, <5>2, <6>1, <6>6, PositiveResponse
          <6> QED
            BY <6>3, <6>5, <6>6
        <5> QED
          BY <5>1, <5>2
      <4> QED
        BY <4>1, <4>2
    <3> QED
      BY <3>2, <3>3
  <2> QED
    BY <2>1, <2>2
<1> QED
  BY <1>3, <1>4

-----------------------------------------------------------------------------
(* Messages in a stream.                                                   *)

\* The bytes s in flight are the end of the messages sent: message i ends at
\* pos[i], counted in s; what was read already has positions up to 0.
Layout(s, msgs, pos) ==
    /\ pos \in [0..Len(msgs) -> Int]
    /\ pos[Len(msgs)] = Len(s)
    /\ \A i \in 1..Len(msgs) : pos[i] = pos[i - 1] + Len(msgs[i])
    /\ \A i \in 0..Len(msgs), j \in 0..Len(msgs) : i <= j => pos[i] <= pos[j]
    /\ \A i \in 1..Len(msgs) : \A k \in 1..Len(msgs[i]) :
           pos[i - 1] + k >= 1 => s[pos[i - 1] + k] = msgs[i][k]

LEMMA LayoutEmpty == Layout(<<>>, <<>>, [i \in 0..0 |-> 0])
  BY SMT DEF Layout

\* A message is sent.
LEMMA LayoutSend ==
    ASSUME NEW s \in Seq(Byte), NEW msgs \in Seq(Seq(Byte)), NEW m \in Seq(Byte),
           NEW pos, Layout(s, msgs, pos)
    PROVE  LET next == [i \in 0..Len(msgs) + 1 |->
                           IF i = Len(msgs) + 1 THEN Len(s) + Len(m) ELSE pos[i]]
           IN  Layout(s \o m, Append(msgs, m), next)
<1> DEFINE n == Len(msgs)
           next == [i \in 0..n + 1 |-> IF i = n + 1 THEN Len(s) + Len(m) ELSE pos[i]]
           t == s \o m
           all == Append(msgs, m)
<1>1. n \in Nat /\ Len(s) \in Nat /\ Len(m) \in Nat
  BY LenProperties
<1>2. /\ t \in Seq(Byte) /\ Len(t) = Len(s) + Len(m)
      /\ \A i \in 1..Len(s) : t[i] = s[i]
      /\ \A i \in 1..Len(m) : t[Len(s) + i] = m[i]
  BY ConcatBytes, Zenon
<1>3. /\ all \in Seq(Seq(Byte)) /\ Len(all) = n + 1 /\ all[n + 1] = m
      /\ \A i \in 1..n : all[i] = msgs[i]
  BY AppendProperties
<1>4. /\ pos \in [0..n -> Int]
      /\ pos[n] = Len(s)
      /\ \A i \in 1..n : pos[i] = pos[i - 1] + Len(msgs[i])
      /\ \A i \in 0..n, j \in 0..n : i <= j => pos[i] <= pos[j]
      /\ \A i \in 1..n : \A k \in 1..Len(msgs[i]) :
             pos[i - 1] + k >= 1 => s[pos[i - 1] + k] = msgs[i][k]
  BY DEF Layout
<1> HIDE DEF n, t, all
<1>5. /\ next \in [0..n + 1 -> Int] /\ next[n + 1] = Len(t)
      /\ \A i \in 0..n : next[i] = pos[i]
  BY <1>1, <1>2, <1>4, SMT
<1> HIDE DEF next
<1>6. ASSUME NEW i \in 1..n + 1
      PROVE  next[i] = next[i - 1] + Len(all[i])
  <2>1. CASE i = n + 1
    <3>1. i - 1 = n /\ n \in 0..n
      BY <1>1, <2>1, SMT
    <3>2. next[i - 1] = Len(s) /\ all[i] = m /\ next[i] = Len(s) + Len(m)
      BY <1>2, <1>3, <1>4, <1>5, <2>1, <3>1
    <3> QED
      BY <3>2
  <2>2. CASE i # n + 1
    <3>1. i \in 1..n /\ i \in 0..n /\ i - 1 \in 0..n
      BY <1>1, <2>2, SMT
    <3>2. next[i] = pos[i] /\ next[i - 1] = pos[i - 1] /\ all[i] = msgs[i]
      BY <1>3, <1>5, <3>1
    <3>3. pos[i] = pos[i - 1] + Len(msgs[i])
      BY <1>4, <3>1
    <3> QED
      BY <3>2, <3>3
  <2> QED
    BY <2>1, <2>2
<1>7. ASSUME NEW i \in 0..n + 1, NEW j \in 0..n + 1, i <= j
      PROVE  next[i] <= next[j]
  <2>1. CASE j = n + 1
    <3>1. CASE i = n + 1
      BY <1>1, <1>2, <1>5, <2>1, <3>1, SMT
    <3>2. CASE i # n + 1
      <4>1. i \in 0..n /\ n \in 0..n /\ i <= n
        BY <1>1, <3>2, SMT
      <4>2. next[i] = pos[i] /\ pos[i] <= Len(s) /\ pos[i] \in Int
        BY <1>4, <1>5, <4>1
      <4> QED
        BY <1>1, <1>2, <1>5, <2>1, <4>2, SMT
    <3> QED
      BY <3>1, <3>2
  <2>2. CASE j # n + 1
    <3>1. i \in 0..n /\ j \in 0..n
      BY <1>1, <1>7, <2>2, SMT
    <3> QED
      BY <1>4, <1>5, <1>7, <3>1
  <2> QED
    BY <2>1, <2>2
<1>8. ASSUME NEW i \in 1..n + 1, NEW k \in 1..Len(all[i]), next[i - 1] + k >= 1
      PROVE  t[next[i - 1] + k] = all[i][k]
  <2>1. CASE i = n + 1
    <3>1. i - 1 = n /\ n \in 0..n
      BY <1>1, <2>1, SMT
    <3>2. next[i - 1] = Len(s) /\ all[i] = m
      BY <1>3, <1>4, <1>5, <2>1, <3>1
    <3>3. t[Len(s) + k] = m[k]
      BY <1>2, <3>2
    <3> QED
      BY <3>2, <3>3
  <2>2. CASE i # n + 1
    <3>1. i \in 1..n /\ i \in 0..n /\ i - 1 \in 0..n /\ n \in 0..n /\ i <= n
      BY <1>1, <2>2, SMT
    <3>2. next[i - 1] = pos[i - 1] /\ all[i] = msgs[i]
      BY <1>3, <1>5, <3>1
    <3> DEFINE q == pos[i - 1] + k
    <3>3. s[q] = msgs[i][k]
      BY <1>4, <1>8, <3>1, <3>2
    <3>4. pos[i] <= Len(s) /\ pos[i] = pos[i - 1] + Len(msgs[i])
      BY <1>4, <3>1
    <3>5. pos[i - 1] \in Int /\ pos[i] \in Int
      BY <1>4, <3>1
    <3>6. Len(msgs[i]) \in Nat /\ k \in 1..Len(msgs[i])
      <4>1. msgs[i] \in Seq(Byte)
        BY <3>1, ElementOfSeq DEF n
      <4> QED
        BY <3>2, <4>1, LenProperties
    <3>7. q \in 1..Len(s)
      BY <1>1, <1>8, <3>2, <3>4, <3>5, <3>6, SMTT(30)
    <3>8. t[q] = s[q]
      BY <1>2, <3>7
    <3> QED
      BY <3>2, <3>3, <3>8
  <2> QED
    BY <2>1, <2>2
<1>9. Layout(t, all, next)
  BY <1>3, <1>5, <1>6, <1>7, <1>8 DEF Layout
<1> QED
  BY <1>9 DEF t, all, next, n

\* Bytes are read.
LEMMA LayoutRead ==
    ASSUME NEW s \in Seq(Byte), NEW msgs \in Seq(Seq(Byte)), NEW k \in 0..Len(s),
           NEW pos, Layout(s, msgs, pos)
    PROVE  Layout(Rest(s, k), msgs, [i \in 0..Len(msgs) |-> pos[i] - k])
<1> DEFINE n == Len(msgs)
           next == [i \in 0..n |-> pos[i] - k]
           t == Rest(s, k)
<1>1. n \in Nat /\ Len(s) \in Nat /\ k \in Nat
  BY LenProperties, SMT
<1>2. /\ t \in Seq(Byte) /\ Len(t) = Len(s) - k
      /\ \A i \in 1..Len(s) - k : t[i] = s[k + i]
  BY RestBytes, Zenon
<1>3. /\ pos \in [0..n -> Int]
      /\ pos[n] = Len(s)
      /\ \A i \in 1..n : pos[i] = pos[i - 1] + Len(msgs[i])
      /\ \A i \in 0..n, j \in 0..n : i <= j => pos[i] <= pos[j]
      /\ \A i \in 1..n : \A q \in 1..Len(msgs[i]) :
             pos[i - 1] + q >= 1 => s[pos[i - 1] + q] = msgs[i][q]
  BY DEF Layout
<1>4. ASSUME NEW i \in 1..n
      PROVE  msgs[i] \in Seq(Byte) /\ Len(msgs[i]) \in Nat
  BY ElementOfSeq, LenProperties
<1> HIDE DEF n, t
<1>5. next \in [0..n -> Int] /\ \A i \in 0..n : next[i] = pos[i] - k
  BY <1>1, <1>3, SMT
<1> HIDE DEF next
<1>6. next[n] = Len(t)
  <2>1. n \in 0..n
    BY <1>1, SMT
  <2> QED
    BY <1>2, <1>3, <1>5, <2>1
<1>7. ASSUME NEW i \in 1..n
      PROVE  next[i] = next[i - 1] + Len(msgs[i])
  <2>1. i \in 0..n /\ i - 1 \in 0..n
    BY <1>1, SMT
  <2>2. next[i] = pos[i] - k /\ next[i - 1] = pos[i - 1] - k /\ pos[i - 1] \in Int
    BY <1>3, <1>5, <2>1
  <2>3. pos[i] = pos[i - 1] + Len(msgs[i]) /\ Len(msgs[i]) \in Nat
    BY <1>3, <1>4
  <2> QED
    BY <1>1, <2>2, <2>3, SMT
<1>8. ASSUME NEW i \in 0..n, NEW j \in 0..n, i <= j
      PROVE  next[i] <= next[j]
  <2>1. pos[i] <= pos[j] /\ pos[i] \in Int /\ pos[j] \in Int
    BY <1>3, <1>8
  <2>2. next[i] = pos[i] - k /\ next[j] = pos[j] - k
    BY <1>5
  <2> QED
    BY <1>1, <2>1, <2>2, SMT
<1>9. ASSUME NEW i \in 1..n, NEW q \in 1..Len(msgs[i]), next[i - 1] + q >= 1
      PROVE  t[next[i - 1] + q] = msgs[i][q]
  <2>1. i \in 0..n /\ i - 1 \in 0..n /\ n \in 0..n /\ i <= n
    BY <1>1, SMT
  <2>2. next[i - 1] = pos[i - 1] - k /\ pos[i - 1] \in Int /\ pos[i] \in Int
    BY <1>3, <1>5, <2>1
  <2>3. pos[i] = pos[i - 1] + Len(msgs[i]) /\ Len(msgs[i]) \in Nat /\ pos[i] <= Len(s)
    BY <1>3, <1>4, <2>1
  <2> DEFINE a == next[i - 1] + q
  <2>4. /\ a \in 1..Len(s) - k /\ k + a = pos[i - 1] + q /\ pos[i - 1] + q >= 1
    <3> DEFINE x == pos[i - 1]
               l == Len(msgs[i])
               y == next[i - 1]
               z == Len(s)
    <3>1. /\ x \in Int /\ l \in Nat /\ z \in Nat /\ k \in Nat /\ q \in 1..l
          /\ y = x - k /\ y + q >= 1 /\ x + l <= z
      BY <1>1, <1>9, <2>2, <2>3
    <3> HIDE DEF x, l, y, z
    <3>2. y + q \in 1..z - k /\ k + (y + q) = x + q /\ x + q >= 1
      BY <3>1, SMT
    <3> QED
      BY <3>2 DEF x, y, z
  <2>5. t[a] = s[k + a]
    BY <1>2, <2>4
  <2>6. s[pos[i - 1] + q] = msgs[i][q]
    BY <1>3, <2>4
  <2> QED
    BY <2>4, <2>5, <2>6
<1>10. Layout(t, msgs, next)
  BY <1>5, <1>6, <1>7, <1>8, <1>9 DEF Layout, n
<1> QED
  BY <1>10 DEF t, next, n

-----------------------------------------------------------------------------
(* Types, and what they rest on.                                           *)

\* A message whose header has been read is acceptable and not yet complete.
PartlyRead ==
    Len(inbuf) >= 8 => /\ AcceptableHeader(inbuf)
                       /\ Len(inbuf) < 8 + Value(tryParseHeader(inbuf)).length

\* A request is with the provider, its response on the way back, or the worker
\* about to make the connection ready: one of these, and only when the handler
\* has queued the request or waits for the response.
OneInProgress ==
    /\ hpc # "idle" => inmsg # <<>>
    /\ hpc = "store" => tx = <<>> /\ rx = <<>> /\ wpc # "state"
    /\ hpc = "idle" /\ state # "WaitDownstreamResponse"
           => tx = <<>> /\ rx = <<>> /\ wpc # "state"
    /\ tx = <<>> \/ rx = <<>>
    /\ wpc = "state" => tx = <<>> /\ rx = <<>>
    /\ \A i \in 1..Len(rx) : Len(rx[i]) <= MaxUserData

WireInv ==
    /\ TypeOK
    /\ DiscoveryInv
    /\ \A i \in 1..Len(written) : Sendable(written[i])
    /\ PartlyRead
    /\ OneInProgress

\* TypeOK without quantifiers.
Typed ==
    /\ /\ cpc \in {"discover", "connected", "terminated"}
       /\ csk \in {"open", "reset", "broken"}
       /\ emptyMessageCounter \in 0..4
       /\ fd \in {"none", "open", "closed", "leaked"}
       /\ state \in {"WaitRoutingActivation", "RoutingActivated", "WaitDownstreamResponse",
                     "Closed"}
       /\ hpc \in {"idle", "store", "pending"} /\ wpc \in {"loop", "state", "clear"}
       /\ callback \in BOOLEAN
       /\ clientAddress \in Word /\ provider \in {"uds", "can"} /\ up \in BOOLEAN
    /\ toServer \in Seq(Byte) /\ toClient \in Seq(Byte) /\ inbuf \in Seq(Byte)
    /\ inmsg \in Seq(Seq(Byte)) /\ Len(inmsg) <= 1
    /\ tx \in Seq(Seq(Byte)) /\ Len(tx) <= 1
    /\ rx \in Seq(Seq(Byte)) /\ Len(rx) <= 1
    /\ written \in Seq(Seq(Byte)) /\ delivered \in Seq(Seq(Byte))
    /\ accepted \in Seq(Seq(Byte)) /\ replies \in Seq(Seq(Byte)) /\ got \in Seq(Seq(Byte))
    /\ DiscoveryTypeOK

LEMMA TypedNow == TypeOK <=> Typed
<1>1. 5 - 1 = 4
  BY SMT
<1> QED
  BY <1>1, AddressIsWord, Zenon DEF TypeOK, Typed, TooManyEmptyMessages

LEMMA TypedNext == TypeOK' <=> Typed'
<1>1. 5 - 1 = 4
  BY SMT
<1> QED
  BY <1>1, AddressIsWord, Zenon DEF TypeOK, Typed, TooManyEmptyMessages

LEMMA EmptyBytes ==
    /\ <<>> \in Seq(Byte) /\ <<>> \in Seq(Seq(Byte)) /\ Len(<<>>) = 0
    /\ ~(Len(<<>>) >= 8)
  BY SMT

LEMMA WireInit == Init => WireInv
<1> SUFFICES ASSUME Init
             PROVE  WireInv
  OBVIOUS
<1>1. DiscoveryInv
  BY DiscoveryInitial DEF Init
<1>2. Typed
  <2>1. ZERO_ADDRESS \in Word /\ 0 \in 0..4
    BY NatIsWord, SMT DEF ZERO_ADDRESS
  <2>2. provider \in {"uds", "can"}
    BY ProvidersAssumption DEF Init
  <2>3. callback \in BOOLEAN
    BY Zenon DEF Init
  <2> QED
    BY <1>1, <2>1, <2>2, <2>3, EmptyBytes DEF Init, Typed, DiscoveryInv
<1>3. TypeOK
  BY <1>2, TypedNow
<1>4. /\ written = <<>> /\ rx = <<>> /\ tx = <<>> /\ inbuf = <<>>
      /\ hpc = "idle" /\ wpc = "loop"
  BY DEF Init
<1>5. \A i \in 1..Len(written) : Sendable(written[i])
  BY <1>4, EmptyBytes, SMT
<1>6. PartlyRead
  BY <1>4, EmptyBytes DEF PartlyRead
<1>7. OneInProgress
  BY <1>4, EmptyBytes, SMT DEF OneInProgress
<1> QED
  BY <1>1, <1>3, <1>5, <1>6, <1>7 DEF WireInv

\* startTcpConnection and reconnectServer.
Connects == startTcpConnection \/ reconnectServer

LEMMA WireConnect ==
    ASSUME WireInv, Connects
    PROVE  WireInv'
<1>1. /\ NewConnection /\ UNCHANGED <<discoveryVars, provider>>
      /\ fd' \in {"open", "closed"} /\ up' \in BOOLEAN
      /\ cpc' \in {"discover", "connected", "terminated"}
  <2>1. Typed
    BY TypedNow DEF WireInv
  <2> QED
    BY <2>1 DEF Connects, startTcpConnection, reconnectServer, ConnectTo, Typed
<1>2. DiscoveryInv'
  BY <1>1, DiscoveryStep DEF WireInv
<1>3. /\ csk' = "open" /\ emptyMessageCounter' = 0
      /\ toServer' = <<>> /\ toClient' = <<>> /\ inbuf' = <<>> /\ inmsg' = <<>>
      /\ state' = "WaitRoutingActivation" /\ clientAddress' = clientAddress
      /\ hpc' = "idle" /\ callback' = FALSE /\ wpc' = "loop"
      /\ tx' = <<>> /\ rx' = <<>> /\ written' = <<>> /\ delivered' = <<>>
      /\ accepted' = <<>> /\ replies' = <<>> /\ got' = <<>>
  BY <1>1 DEF NewConnection
<1>4. Typed'
  <2>1. Typed
    BY TypedNow DEF WireInv
  <2>2. 0 \in 0..4
    BY SMT
  <2>3. callback' \in BOOLEAN
    BY <1>3, Zenon
  <2> QED
    BY <1>1, <1>2, <1>3, <2>1, <2>2, <2>3, EmptyBytes DEF Typed, DiscoveryInv
<1>5. TypeOK'
  BY <1>4, TypedNext
<1>6. (\A i \in 1..Len(written) : Sendable(written[i]))'
  BY <1>3, EmptyBytes, SMT
<1>7. PartlyRead'
  BY <1>3, EmptyBytes DEF PartlyRead
<1>8. OneInProgress'
  BY <1>1, <1>3, EmptyBytes, SMT DEF OneInProgress
<1> QED
  BY <1>2, <1>5, <1>6, <1>7, <1>8 DEF WireInv

\* The four kinds of writes.
Writes == \E bytes : Sendable(bytes) /\ Write(bytes)

LEMMA WritesSendable ==
    ASSUME WireInv,
           \/ sendRoutingActivationRequest
           \/ \E payload \in Requests : sendDiagnosticMessage(payload)
           \/ sendAliveCheckResponse
           \/ ForeignWrite
    PROVE  Writes
<1>1. CASE sendRoutingActivationRequest
  BY <1>1, ActivationRequestSendable, Zenon DEF Writes, sendRoutingActivationRequest
<1>2. CASE \E payload \in Requests : sendDiagnosticMessage(payload)
  <2>1. DiscoveryTypeOK
    BY DEF WireInv, DiscoveryInv
  <2> QED
    BY <1>2, <2>1, DiagnosticSendable, Zenon DEF Writes, sendDiagnosticMessage
<1>3. CASE sendAliveCheckResponse
  BY <1>3, AliveCheckSendable, Zenon DEF Writes, sendAliveCheckResponse
<1>4. CASE ForeignWrite
  BY <1>4, ForeignSendable, Zenon DEF Writes, ForeignWrite
<1> QED
  BY <1>1, <1>2, <1>3, <1>4

LEMMA WireWrite ==
    ASSUME WireInv, Writes
    PROVE  WireInv'
<1>1. PICK bytes : Sendable(bytes) /\ Write(bytes)
  BY DEF Writes
<1>2. Typed /\ bytes \in Seq(Byte)
  BY <1>1, TypedNow DEF WireInv, Sendable
<1>3. /\ UNCHANGED <<discoveryVars, emptyMessageCounter, connectionVars, provider, up,
                     delivered, accepted, replies, got>>
      /\ cpc' \in {"discover", "connected", "terminated"}
      /\ csk' \in {"open", "reset", "broken"}
      /\ toServer' = toServer \/ toServer' = toServer \o bytes
      /\ toClient' = toClient \/ toClient' = <<>>
      /\ written' = written \/ written' = Append(written, bytes)
  BY <1>1, <1>2 DEF Write, Typed
<1>4. DiscoveryInv'
  BY <1>3, DiscoveryStep DEF WireInv
<1>5. toServer \o bytes \in Seq(Byte)
  <2>1. toServer \in Seq(Byte)
    BY <1>2 DEF Typed
  <2> QED
    BY <1>2, <2>1, ConcatBytes, Zenon
<1>6. /\ Append(written, bytes) \in Seq(Seq(Byte))
      /\ Len(written) \in Nat /\ Len(Append(written, bytes)) = Len(written) + 1
      /\ Append(written, bytes)[Len(written) + 1] = bytes
      /\ \A i \in 1..Len(written) : Append(written, bytes)[i] = written[i]
  <2>1. written \in Seq(Seq(Byte))
    BY <1>2 DEF Typed
  <2> QED
    BY <1>2, <2>1, AppendProperties, LenProperties
<1>7. Typed'
  <2>1. toServer' \in Seq(Byte) /\ toClient' \in Seq(Byte) /\ written' \in Seq(Seq(Byte))
    BY <1>2, <1>3, <1>5, <1>6, EmptyBytes DEF Typed
  <2> QED
    BY <1>2, <1>3, <1>4, <2>1 DEF Typed, DiscoveryInv, connectionVars, downstreamVars
<1>8. (\A i \in 1..Len(written) : Sendable(written[i]))'
  <2>1. \A i \in 1..Len(written) : Sendable(written[i])
    BY DEF WireInv
  <2>2. CASE written' = written
    BY <2>1, <2>2
  <2>3. CASE written' = Append(written, bytes)
    <3>1. ASSUME NEW i \in 1..Len(written')
          PROVE  Sendable(written'[i])
      <4>1. i \in 1..Len(written) \/ i = Len(written) + 1
        BY <1>6, <2>3, SMT
      <4> QED
        BY <1>1, <1>6, <2>1, <2>3, <4>1
    <3> QED
      BY <3>1
  <2> QED
    BY <1>3, <2>2, <2>3
<1>9. PartlyRead' /\ OneInProgress'
  BY <1>3 DEF WireInv, PartlyRead, OneInProgress, connectionVars, downstreamVars
<1>10. TypeOK'
  BY <1>7, TypedNext
<1> QED
  BY <1>4, <1>8, <1>9, <1>10 DEF WireInv

\* The client reads.
LEMMA WireClientReads ==
    ASSUME WireInv, receiveMessage \/ receiveError \/ receiveEmpty
    PROVE  WireInv'
<1>1. Typed
  BY TypedNow DEF WireInv
<1>2. CASE receiveMessage
  <2>1. PICK n \in SegmentSizes :
            LET k == Smaller(Smaller(n, _maxDataSize), Len(toClient))
            IN  /\ toClient' = Rest(toClient, k)
                /\ got' = got \o tryParse(Slice(toClient, 0, k))
    BY <1>2 DEF receiveMessage
  <2> DEFINE k == Smaller(Smaller(n, _maxDataSize), Len(toClient))
             parsed == tryParse(Slice(toClient, 0, k))
  <2>2. toClient \in Seq(Byte) /\ got \in Seq(Seq(Byte)) /\ Len(toClient) \in Nat
    BY <1>1, LenProperties DEF Typed
  <2>3. k \in Nat /\ 0 \in Nat /\ 0 + k <= Len(toClient) /\ k \in 0..Len(toClient)
    <3>1. n \in Nat /\ _maxDataSize \in Nat
      BY SegmentSizesAssumption, SMT DEF _maxDataSize
    <3>2. Smaller(n, _maxDataSize) \in Nat
      BY <3>1, SmallerBounds
    <3>3. k \in Nat /\ k <= Len(toClient)
      BY <2>2, <3>2, SmallerBounds
    <3> QED
      BY <2>2, <3>3, SMT
  <2> HIDE DEF k
  <2>4. Slice(toClient, 0, k) \in Seq(Byte)
    BY <2>2, <2>3, SliceBytes, Zenon
  <2>5. Rest(toClient, k) \in Seq(Byte)
    BY <2>2, <2>3, RestBytes, Zenon
  <2>6. parsed \in Seq(Seq(Byte))
    <3>1. CASE parsed = None
      BY <3>1, EmptyBytes DEF None
    <3>2. CASE parsed # None
      <4>1. parsed = Some(Value(parsed)) /\ Value(parsed) \in Seq(Byte)
        BY <2>4, <3>2, MessageParsed
      <4>2. \A m \in Seq(Byte) : <<m>> \in Seq(Seq(Byte))
        BY SMT
      <4> HIDE DEF parsed
      <4> QED
        BY <4>1, <4>2, Zenon DEF Some
    <3> QED
      BY <3>1, <3>2
  <2>7. got \o parsed \in Seq(Seq(Byte))
    <3> HIDE DEF parsed
    <3> QED
      BY <2>2, <2>6, ConcatProperties, Zenon
  <2>8. toClient' \in Seq(Byte) /\ got' \in Seq(Seq(Byte))
    BY <2>1, <2>5, <2>7 DEF k
  <2>9. UNCHANGED <<discoveryVars, clientVars, toServer, connectionVars, provider, up,
                    written, delivered, accepted, replies>>
    BY <1>2 DEF receiveMessage
  <2>10. DiscoveryInv'
    BY <2>9, DiscoveryStep DEF WireInv
  <2>11. Typed'
    BY <1>1, <2>8, <2>9, <2>10 DEF Typed, DiscoveryInv, clientVars, connectionVars, downstreamVars
  <2>12. TypeOK'
    BY <2>11, TypedNext
  <2>13. PartlyRead' /\ OneInProgress' /\ written' = written
    BY <2>9 DEF WireInv, PartlyRead, OneInProgress, connectionVars, downstreamVars
  <2> QED
    BY <2>10, <2>12, <2>13 DEF WireInv
<1>3. CASE receiveError \/ receiveEmpty
  <2>1. UNCHANGED <<discoveryVars, cpc, toServer, toClient, connectionVars, provider, up,
                    history>>
    BY <1>3 DEF receiveError, receiveEmpty
  <2>2. csk' \in {"open", "reset", "broken"} /\ emptyMessageCounter' \in 0..4
    <3>1. CASE receiveError
      BY <1>1, <3>1 DEF receiveError, Typed
    <3>2. CASE receiveEmpty
      <4>1. /\ emptyMessageCounter + 1 < 5 /\ emptyMessageCounter' = emptyMessageCounter + 1
            /\ csk' = csk
        BY <3>2 DEF receiveEmpty, TooManyEmptyMessages
      <4>2. emptyMessageCounter \in 0..4 /\ csk \in {"open", "reset", "broken"}
        BY <1>1 DEF Typed
      <4>3. emptyMessageCounter' \in 0..4
        BY <4>1, <4>2, SMT
      <4> QED
        BY <4>1, <4>2, <4>3
    <3> QED
      BY <1>3, <3>1, <3>2
  <2>3. DiscoveryInv'
    BY <2>1, DiscoveryStep DEF WireInv
  <2>4. Typed'
    BY <1>1, <2>1, <2>2, <2>3 DEF Typed, DiscoveryInv, connectionVars, downstreamVars, history
  <2>5. TypeOK'
    BY <2>4, TypedNext
  <2>6. PartlyRead' /\ OneInProgress' /\ written' = written
    BY <2>1 DEF WireInv, PartlyRead, OneInProgress, connectionVars, downstreamVars, history
  <2> QED
    BY <2>3, <2>5, <2>6 DEF WireInv
<1> QED
  BY <1>2, <1>3

\* What receiveExactly reads: how many bytes, and what it has then.
Reading(k) ==
    /\ k \in 0..Len(toServer) /\ k <= Remaining
    /\ toServer' = Rest(toServer, k)
    /\ Receive(inbuf \o Slice(toServer, 0, k))

LEMMA ReadingSome ==
    ASSUME Typed, PartlyRead, receiveExactly
    PROVE  /\ \E k \in Nat : Reading(k)
           /\ Remaining \in Nat /\ fd = "open" /\ inmsg = <<>>
           /\ UNCHANGED <<discoveryVars, clientVars, toClient, provider, up, written, accepted,
                          replies, got>>
<1>1. PICK n \in SegmentSizes :
          LET k == Smaller(Smaller(n, Remaining), Len(toServer))
          IN  /\ toServer' = Rest(toServer, k)
              /\ Receive(inbuf \o Slice(toServer, 0, k))
  BY DEF receiveExactly
<1> DEFINE k == Smaller(Smaller(n, Remaining), Len(toServer))
<1>2. Len(toServer) \in Nat /\ Len(inbuf) \in Nat /\ inbuf \in Seq(Byte)
  BY LenProperties DEF Typed
<1>3. Remaining \in Nat
  <2>1. CASE Len(inbuf) < 8
    BY <1>2, <2>1, SMT DEF Remaining, DOIP_HEADER_SIZE
  <2>2. CASE ~(Len(inbuf) < 8)
    <3>1. Len(inbuf) >= 8
      BY <1>2, <2>2, SMT
    <3>2. /\ AcceptableHeader(inbuf)
          /\ Len(inbuf) < 8 + Value(tryParseHeader(inbuf)).length
      BY <3>1 DEF PartlyRead
    <3>3. Value(tryParseHeader(inbuf)).length \in Nat
      BY <1>2, <3>2, HeaderParsed DEF AcceptableHeader, HasValue
    <3>4. Remaining = 8 + Value(tryParseHeader(inbuf)).length - Len(inbuf)
      BY <2>2 DEF Remaining, DOIP_HEADER_SIZE
    <3> DEFINE l == Value(tryParseHeader(inbuf)).length
    <3>5. l \in Nat /\ Len(inbuf) < 8 + l /\ Remaining = 8 + l - Len(inbuf)
      BY <3>2, <3>3, <3>4
    <3> HIDE DEF l
    <3> QED
      BY <1>2, <3>5, SMT
  <2> QED
    BY <2>1, <2>2
<1>4. n \in Nat
  BY SegmentSizesAssumption
<1>5. Smaller(n, Remaining) \in Nat /\ Smaller(n, Remaining) <= Remaining
  BY <1>3, <1>4, SmallerBounds
<1>6. k \in Nat /\ k <= Smaller(n, Remaining) /\ k <= Len(toServer)
  BY <1>2, <1>5, SmallerBounds
<1> HIDE DEF k
<1>7. k \in 0..Len(toServer) /\ k <= Remaining
  BY <1>2, <1>3, <1>5, <1>6, SMT
<1>8. Reading(k)
  BY <1>1, <1>7 DEF Reading, k
<1> QED
  BY <1>3, <1>6, <1>8 DEF receiveExactly

\* The bytes it has then.
Bytes(k) == inbuf \o Slice(toServer, 0, k)

LEMMA BytesRead ==
    ASSUME Typed, NEW k \in 0..Len(toServer)
    PROVE  /\ Bytes(k) \in Seq(Byte) /\ Len(Bytes(k)) = Len(inbuf) + k
           /\ Len(inbuf) \in Nat /\ Len(toServer) \in Nat /\ k \in Nat
           /\ \A i \in 1..Len(inbuf) : Bytes(k)[i] = inbuf[i]
           /\ \A i \in 1..k : Bytes(k)[Len(inbuf) + i] = toServer[i]
<1> DEFINE s == Slice(toServer, 0, k)
<1>1. /\ toServer \in Seq(Byte) /\ inbuf \in Seq(Byte) /\ Len(inbuf) \in Nat
      /\ Len(toServer) \in Nat
  BY LenProperties DEF Typed
<1>2. k \in Nat /\ 0 \in Nat /\ 0 + k <= Len(toServer)
  BY <1>1, SMT
<1>3. s \in Seq(Byte) /\ Len(s) = k /\ \A i \in 1..k : s[i] = toServer[0 + i]
  BY <1>1, <1>2, SliceBytes, Zenon
<1>4. \A i \in 1..k : 0 + i = i
  BY <1>2, SMT
<1> HIDE DEF s
<1>5. /\ inbuf \o s \in Seq(Byte) /\ Len(inbuf \o s) = Len(inbuf) + Len(s)
      /\ \A i \in 1..Len(inbuf) : (inbuf \o s)[i] = inbuf[i]
      /\ \A i \in 1..Len(s) : (inbuf \o s)[Len(inbuf) + i] = s[i]
  <2>1. inbuf \in Seq(Byte) /\ s \in Seq(Byte)
    BY <1>1, <1>3
  <2> QED
    BY <2>1, ConcatBytes, Zenon
<1> DEFINE b == inbuf \o s
<1>6. /\ b \in Seq(Byte) /\ Len(b) = Len(inbuf) + Len(s)
      /\ \A i \in 1..Len(inbuf) : b[i] = inbuf[i]
      /\ \A i \in 1..Len(s) : b[Len(inbuf) + i] = s[i]
  BY <1>5
<1>7. Bytes(k) = b
  BY DEF Bytes, s
<1> HIDE DEF b
<1>8. ASSUME NEW i \in 1..k PROVE b[Len(inbuf) + i] = toServer[i]
  BY <1>3, <1>4, <1>6
<1> QED
  BY <1>1, <1>2, <1>3, <1>6, <1>7, <1>8

\* The outcomes of receiveExactly: more to read, a header that is refused, a
\* message.
LEMMA ReceiveOutcomes ==
    ASSUME NEW b \in Seq(Byte), Receive(b)
    PROVE  \/ /\ Len(b) < 8 \/ (AcceptableHeader(b)
                                   /\ Len(b) # 8 + Value(tryParseHeader(b)).length)
              /\ inbuf' = b
              /\ UNCHANGED <<fd, inmsg, state, clientAddress, hpc, downstreamVars, delivered>>
           \/ /\ Len(b) >= 8 /\ GiveUp
           \/ /\ Sendable(b) /\ AcceptableHeader(b) /\ Complete(b)
<1>1. Len(b) \in Nat
  BY LenProperties
<1>2. Len(b) < 8 \/ Len(b) >= 8
  BY <1>1, SMT
<1>3. ~(Len(b) >= 8 /\ Len(b) < 8)
  BY <1>1, SMT
<1>4. CASE Len(b) < 8
  BY <1>4, Zenon DEF Receive, ReadOn, DOIP_HEADER_SIZE
<1>5. CASE Len(b) >= 8
  <2>1. CASE ~AcceptableHeader(b)
    BY <1>3, <1>5, <2>1, Zenon DEF Receive, DOIP_HEADER_SIZE
  <2>2. CASE AcceptableHeader(b) /\ Len(b) # 8 + Value(tryParseHeader(b)).length
    BY <1>3, <1>5, <2>2, Zenon DEF Receive, ReadOn, DOIP_HEADER_SIZE
  <2>3. CASE AcceptableHeader(b) /\ Len(b) = 8 + Value(tryParseHeader(b)).length
    BY <1>3, <1>5, <2>3, Zenon DEF Receive, DOIP_HEADER_SIZE, Sendable
  <2> QED
    BY <2>1, <2>2, <2>3
<1> QED
  BY <1>2, <1>4, <1>5

LEMMA AppendMessage ==
    ASSUME NEW h \in Seq(Seq(Byte)), NEW m \in Seq(Byte)
    PROVE  /\ Append(h, m) \in Seq(Seq(Byte))
           /\ Len(h) \in Nat /\ Len(Append(h, m)) = Len(h) + 1
           /\ Append(h, m)[Len(h) + 1] = m
           /\ \A i \in 1..Len(h) : Append(h, m)[i] = h[i]
  BY AppendProperties, LenProperties

LEMMA OneMessage ==
    ASSUME NEW m \in Seq(Byte)
    PROVE  /\ <<m>> \in Seq(Seq(Byte)) /\ Len(<<m>>) = 1 /\ <<m>>[1] = m
           /\ Append(<<>>, m) = <<m>> /\ Tail(<<m>>) = <<>> /\ Head(<<m>>) = m
  BY SMT

\* A queue of at most one message.
LEMMA ShortQueue ==
    ASSUME NEW q \in Seq(Seq(Byte)), Len(q) <= 1
    PROVE  /\ q = <<>> => Len(q) = 0
           /\ q # <<>> => /\ Len(q) = 1 /\ Head(q) = q[1] /\ q[1] \in Seq(Byte)
                          /\ Tail(q) = <<>> /\ q = <<q[1]>>
<1>1. Len(q) \in Nat /\ (Len(q) = 0 <=> q = <<>>)
  BY LenProperties, EmptySeq
<1>2. Len(q) = 0 \/ Len(q) = 1
  <2>1. \A n \in Nat : n <= 1 => n = 0 \/ n = 1
    BY SMT
  <2> QED
    BY <1>1, <2>1, Zenon
<1>3. CASE Len(q) = 1
  <2>1. q[1] \in Seq(Byte)
    BY <1>3, ElementOfSeq, SMT
  <2>2. Head(q) = q[1]
    BY SMT
  <2>3. <<q[1]>> \in Seq(Seq(Byte)) /\ Len(<<q[1]>>) = 1 /\ <<q[1]>>[1] = q[1]
    BY <2>1, OneMessage
  <2>4. q = <<q[1]>>
    <3>1. \A i \in 1..1 : i = 1
      BY SMT
    <3> QED
      BY <1>3, <2>3, <3>1, SeqEqual, Zenon
  <2>5. Tail(<<q[1]>>) = <<>>
    BY <2>1, OneMessage
  <2> QED
    BY <1>1, <1>3, <2>1, <2>2, <2>4, <2>5, Zenon
<1> QED
  BY <1>1, <1>2, <1>3

LEMMA WireReceive ==
    ASSUME WireInv, receiveExactly
    PROVE  WireInv'
<1>1. Typed /\ PartlyRead
  BY TypedNow DEF WireInv
<1>2. /\ fd = "open" /\ inmsg = <<>> /\ Remaining \in Nat
      /\ UNCHANGED <<discoveryVars, clientVars, toClient, provider, up, written, accepted,
                     replies, got>>
  BY <1>1, ReadingSome
<1>3. PICK k \in Nat : Reading(k)
  BY <1>1, ReadingSome
<1>4. /\ k \in 0..Len(toServer) /\ k <= Remaining /\ toServer' = Rest(toServer, k)
      /\ Receive(Bytes(k))
  BY <1>3 DEF Reading, Bytes
<1> DEFINE b == Bytes(k)
<1>5. /\ b \in Seq(Byte) /\ Len(b) = Len(inbuf) + k
      /\ Len(inbuf) \in Nat
      /\ \A i \in 1..Len(inbuf) : b[i] = inbuf[i]
  BY <1>1, <1>4, BytesRead
<1> HIDE DEF b
<1>6. toServer' \in Seq(Byte)
  <2>1. toServer \in Seq(Byte)
    BY <1>1 DEF Typed
  <2> QED
    BY <1>3, <1>4, <2>1, RestAny
<1>7. DiscoveryInv'
  BY <1>2, DiscoveryStep DEF WireInv
<1>8. CASE /\ Len(b) < 8 \/ (AcceptableHeader(b) /\ Len(b) # 8 + Value(tryParseHeader(b)).length)
           /\ inbuf' = b
           /\ UNCHANGED <<fd, inmsg, state, clientAddress, hpc, downstreamVars, delivered>>
  <2>1. Typed'
    BY <1>1, <1>2, <1>5, <1>6, <1>7, <1>8
       DEF Typed, DiscoveryInv, clientVars, downstreamVars
  <2>2. PartlyRead'
    <3>1. CASE Len(b) < 8
      BY <1>3, <1>5, <1>8, <3>1, SMT DEF PartlyRead
    <3>2. CASE /\ Len(b) >= 8 /\ AcceptableHeader(b)
               /\ Len(b) # 8 + Value(tryParseHeader(b)).length
      <4> DEFINE l == Value(tryParseHeader(b)).length
      <4>1. l \in Nat
        BY <1>5, <3>2, HeaderParsed DEF AcceptableHeader, HasValue
      <4>2. Len(b) <= 8 + l
        <5>1. CASE Len(inbuf) < 8
          <6>1. Remaining = 8 - Len(inbuf)
            BY <5>1 DEF Remaining, DOIP_HEADER_SIZE
          <6> HIDE DEF l
          <6> QED
            BY <1>3, <1>4, <1>5, <4>1, <6>1, SMT
        <5>2. CASE ~(Len(inbuf) < 8)
          <6>1. Len(inbuf) >= 8
            BY <1>5, <5>2, SMT
          <6>2. \A i \in 1..8 : inbuf[i] = b[i]
            BY <1>5, <6>1, SMT
          <6>3. tryParseHeader(inbuf) = tryParseHeader(b)
            BY <1>1, <1>5, <3>2, <6>1, <6>2, SameHeader DEF Typed
          <6>4. Remaining = 8 + l - Len(inbuf)
            BY <5>2, <6>3 DEF Remaining, DOIP_HEADER_SIZE
          <6> HIDE DEF l
          <6> QED
            BY <1>3, <1>4, <1>5, <4>1, <6>4, SMT
        <5> QED
          BY <5>1, <5>2
      <4>3. Len(b) < 8 + l
        <5>1. Len(b) # 8 + l
          BY <3>2
        <5> HIDE DEF l
        <5> QED
          BY <1>3, <1>5, <4>1, <4>2, <5>1, SMT
      <4> QED
        BY <1>8, <3>2, <4>3 DEF PartlyRead
    <3>3. Len(b) < 8 \/ Len(b) >= 8
      BY <1>3, <1>5, SMT
    <3> QED
      BY <1>8, <3>1, <3>2, <3>3
  <2>3. OneInProgress'
    BY <1>8 DEF WireInv, OneInProgress, downstreamVars
  <2> QED
    BY <1>2, <1>7, <2>1, <2>2, <2>3, TypedNext DEF WireInv
<1>9. CASE GiveUp
  <2>0. /\ fd' = "leaked" /\ inbuf' = <<>> /\ state' \in {"Closed", "RoutingActivated"}
        /\ tx' = <<>> /\ rx' = <<>> /\ callback' = FALSE /\ wpc' = "loop"
        /\ UNCHANGED <<inmsg, clientAddress, hpc, delivered>>
    BY <1>9 DEF GiveUp, StopWorker
  <2>1. Typed'
    <3>1. callback' \in BOOLEAN
      BY <2>0, Zenon
    <3> QED
      BY <1>1, <1>2, <1>6, <1>7, <2>0, <3>1, EmptyBytes DEF Typed, DiscoveryInv, clientVars
  <2>2. PartlyRead' /\ OneInProgress'
    <3>1. OneInProgress
      BY DEF WireInv
    <3> QED
      BY <2>0, <3>1, EmptyBytes, SMT DEF PartlyRead, OneInProgress
  <2> QED
    BY <1>2, <1>7, <2>1, <2>2, TypedNext DEF WireInv
<1>10. CASE Sendable(b) /\ AcceptableHeader(b) /\ Complete(b)
  <2> DEFINE m == buildMessage(getPayloadType(b), getPayload(b))
  <2>1. m \in Seq(Byte)
    BY <1>10, Rebuilt
  <2>2. /\ inmsg' = <<m>> /\ delivered' = Append(delivered, m) /\ inbuf' = <<>>
        /\ UNCHANGED <<fd, state, clientAddress, hpc, downstreamVars>>
    BY <1>10 DEF Complete, Some
  <2> HIDE DEF m
  <2>3. inmsg' \in Seq(Seq(Byte)) /\ Len(inmsg') <= 1
    <3>1. <<m>> \in Seq(Seq(Byte)) /\ Len(<<m>>) = 1
      BY <2>1, OneMessage
    <3> QED
      BY <2>2, <3>1, SMT
  <2>4. delivered' \in Seq(Seq(Byte))
    <3>1. delivered \in Seq(Seq(Byte))
      BY <1>1 DEF Typed
    <3> QED
      BY <2>1, <2>2, <3>1, AppendMessage
  <2>5. Typed'
    BY <1>1, <1>2, <1>6, <1>7, <2>2, <2>3, <2>4, EmptyBytes
       DEF Typed, DiscoveryInv, clientVars, downstreamVars
  <2>6. PartlyRead' /\ OneInProgress'
    <3>1. inmsg' # <<>>
      <4>1. Len(<<m>>) = 1 /\ 1 # 0
        BY <2>1, OneMessage, SMT
      <4> QED
        BY <2>2, <4>1, EmptyBytes
    <3> QED
      BY <2>2, <3>1, EmptyBytes DEF WireInv, PartlyRead, OneInProgress, downstreamVars
  <2> QED
    BY <1>2, <1>7, <2>5, <2>6, TypedNext DEF WireInv
<1> QED
  BY <1>4, <1>5, <1>8, <1>9, <1>10, ReceiveOutcomes DEF b

\* The address a message names is a number of 16 bits.
LEMMA SourceIsWord ==
    ASSUME NEW msg \in Seq(Byte), getSourceAddress(msg) # None
    PROVE  Value(getSourceAddress(msg)) \in Word
<1>1. hasSourceAddress(msg)
      /\ getSourceAddress(msg) = Some(readAddressFrom(getPayload(msg), 0))
  BY Zenon DEF getSourceAddress
<1>2. Len(getPayload(msg)) >= 2
  BY <1>1 DEF hasSourceAddress
<1> DEFINE p == getPayload(msg)
<1>3. p \in Seq(Byte)
  <2>1. 8 \in Nat
    BY SMT
  <2> QED
    BY <2>1, RestAny DEF getPayload, DOIP_HEADER_SIZE
<1>4. Len(p) \in Nat /\ Len(p) >= 2
  BY <1>2, <1>3, LenProperties
<1> HIDE DEF p
<1>5. p[1] \in Byte /\ p[2] \in Byte /\ p # <<>>
  <2>1. 1 \in 1..Len(p) /\ 2 \in 1..Len(p)
    BY <1>4, SMT
  <2>2. p # <<>>
    BY <1>4, SMT
  <2> QED
    BY <1>3, <2>1, <2>2, ElementOfSeq
<1>6. readAddressFrom(p, 0) = U16(p[1], p[2])
  BY <1>5, SMT DEF readAddressFrom, readU16BE, At, U16
<1>7. readAddressFrom(p, 0) \in Word
  BY <1>5, <1>6, U16BEInverse
<1> QED
  BY <1>1, <1>7, SomeNotNone DEF p

\* What dispatching a message comes to: the connection is closed, nothing
\* happens, the message is answered, or a request is acknowledged and its callback
\* stored.
Answered ==
    \E m : /\ Ack(m) \/ Activation(m)
           /\ Send(m)
           /\ clientAddress' \in Word /\ state' = "RoutingActivated"
           /\ inmsg' = <<>>
           /\ UNCHANGED <<csk, fd, hpc, downstreamVars>>

Acknowledged ==
    \E m : /\ Ack(m)
           /\ Send(m)
           /\ callback' = TRUE /\ hpc' = "store"
           /\ UNCHANGED <<csk, fd, inmsg, state, tx, rx, wpc, clientAddress>>

Dispatches == handleWaitRoutingActivation \/ handleRoutingActivated

LEMMA RefuseAnswers ==
    ASSUME NEW sa \in Word, NEW nack \in Byte, Refuse(sa, nack),
           clientAddress \in Word, state = "RoutingActivated"
    PROVE  Answered
<1> DEFINE ack == Some(nack)
           m == IF ack = None
                THEN makeDiagnosticPositiveResponse(sa, serverAddress, <<>>)
                ELSE makeDiagnosticNegativeResponse(sa, serverAddress, Value(ack), <<>>)
<1>1. Ack(m)
  BY AckLayout, Zenon
<1>2. /\ Send(m) /\ inmsg' = <<>>
      /\ UNCHANGED <<csk, fd, state, hpc, downstreamVars, clientAddress>>
  BY DEF Refuse, sendDiagnosticMessageResponse
<1> HIDE DEF m
<1> QED
  BY <1>1, <1>2 DEF Answered

LEMMA DispatchOutcomes ==
    ASSUME Typed, Dispatches
    PROVE  /\ CloseConnection \/ Ignore \/ Answered \/ Acknowledged
           /\ inmsg # <<>> /\ hpc = "idle"
           /\ state \in {"WaitRoutingActivation", "RoutingActivated"}
           /\ UNCHANGED <<discoveryVars, cpc, emptyMessageCounter, toServer, inbuf, provider,
                          up, written, delivered, accepted, got>>
<1> DEFINE msg == Value(inmsg)
           sa == getSourceAddress(msg)
           type == getPayloadType(msg)
<1>1. /\ inmsg # <<>> /\ hpc = "idle"
      /\ state \in {"WaitRoutingActivation", "RoutingActivated"}
  BY DEF Dispatches, handleWaitRoutingActivation, handleRoutingActivated, Dispatching
<1>2. msg \in Seq(Byte)
  BY <1>1, ShortQueue DEF Typed, Value
<1>3. sa # None => Value(sa) \in Word
  BY <1>2, SourceIsWord
<1>4. UNCHANGED <<discoveryVars, cpc, emptyMessageCounter, toServer, inbuf, provider,
                  up, written, delivered, accepted, got>>
  BY DEF Dispatches, handleWaitRoutingActivation, handleRoutingActivated
<1>5. clientAddress \in Word
  BY DEF Typed
<1> HIDE DEF msg, sa, type
<1>6. CASE handleWaitRoutingActivation
  <2>1. IF sa = None \/ type # DoIPPayloadType.RoutingActivationRequest
        THEN CloseConnection
        ELSE /\ clientAddress' = Value(sa)
             /\ Send(RoutingActivationResponse(Value(sa)))
             /\ state' = "RoutingActivated"
             /\ inmsg' = <<>>
             /\ UNCHANGED <<csk, fd, hpc, downstreamVars>>
    BY <1>6, Zenon DEF handleWaitRoutingActivation, msg, sa, type
  <2>2. CASE sa = None \/ type # DoIPPayloadType.RoutingActivationRequest
    BY <1>1, <1>4, <2>1, <2>2
  <2>3. CASE ~(sa = None \/ type # DoIPPayloadType.RoutingActivationRequest)
    <3>1. Value(sa) \in Word
      BY <1>3, <2>3
    <3>2. Activation(RoutingActivationResponse(Value(sa)))
      BY <3>1, ActivationLayout
    <3>3. Answered
      BY <2>1, <2>3, <3>1, <3>2, Zenon DEF Answered
    <3> QED
      BY <1>1, <1>4, <3>3
  <2> QED
    BY <2>2, <2>3
<1>7. CASE handleRoutingActivated
  <2>0. state = "RoutingActivated"
    BY <1>7 DEF handleRoutingActivated, Dispatching
  <2> DEFINE alive == DoIPPayloadType.AliveCheckResponse
             diagnostic == DoIPPayloadType.DiagnosticMessage
  <2>1. (CASE type = alive -> Ignore
          [] type \notin {alive, diagnostic}
                 -> Refuse(ZERO_ADDRESS, DoIPNegativeDiagnosticAck.TransportProtocolError)
          [] type = diagnostic
                 -> IF sa = None THEN CloseConnection
                    ELSE IF Value(sa) # clientAddress
                    THEN Refuse(Value(sa), DoIPNegativeDiagnosticAck.InvalidSourceAddress)
                    ELSE ServeDiagnostic(msg))
    BY <1>7, Zenon DEF handleRoutingActivated, msg, sa, type
  <2>2. alive # diagnostic
    BY SMT DEF DoIPPayloadType
  <2>3. /\ DoIPNegativeDiagnosticAck.TransportProtocolError \in Byte
        /\ DoIPNegativeDiagnosticAck.InvalidSourceAddress \in Byte
        /\ ZERO_ADDRESS \in Word
    BY NatIsWord, SMT DEF DoIPNegativeDiagnosticAck, Byte, ZERO_ADDRESS
  <2> HIDE DEF alive, diagnostic
  <2>4. CASE type = alive
    <3>1. Ignore
      BY <2>1, <2>2, <2>4, Zenon
    <3> QED
      BY <1>1, <1>4, <3>1
  <2>5. CASE type \notin {alive, diagnostic}
    <3>1. Refuse(ZERO_ADDRESS, DoIPNegativeDiagnosticAck.TransportProtocolError)
      BY <2>1, <2>2, <2>5, Zenon
    <3>2. Answered
      BY <1>5, <2>0, <2>3, <3>1, RefuseAnswers
    <3> QED
      BY <1>1, <1>4, <3>2
  <2>6. CASE type = diagnostic
    <3>1. IF sa = None THEN CloseConnection
          ELSE IF Value(sa) # clientAddress
          THEN Refuse(Value(sa), DoIPNegativeDiagnosticAck.InvalidSourceAddress)
          ELSE ServeDiagnostic(msg)
      BY <2>1, <2>2, <2>6, Zenon
    <3>2. CASE sa = None
      BY <1>1, <1>4, <3>1, <3>2
    <3>3. CASE sa # None /\ Value(sa) # clientAddress
      <4>1. Refuse(Value(sa), DoIPNegativeDiagnosticAck.InvalidSourceAddress)
        BY <3>1, <3>3
      <4>2. Answered
        BY <1>3, <1>5, <2>0, <2>3, <3>3, <4>1, RefuseAnswers
      <4> QED
        BY <1>1, <1>4, <4>2
    <3>4. CASE sa # None /\ Value(sa) = clientAddress
      <4>1. ServeDiagnostic(msg)
        BY <3>1, <3>4
      <4> DEFINE m == IF None = None
                      THEN makeDiagnosticPositiveResponse(Value(sa), serverAddress, <<>>)
                      ELSE makeDiagnosticNegativeResponse(Value(sa), serverAddress,
                                                          Value(None), <<>>)
      <4>2. Ack(m)
        BY <1>3, <3>4, AckLayout, Zenon
      <4>3. /\ Send(m) /\ callback' = TRUE /\ hpc' = "store"
            /\ UNCHANGED <<csk, fd, inmsg, state, tx, rx, wpc, clientAddress>>
        BY <4>1, Zenon DEF ServeDiagnostic, sendDiagnosticMessageResponse, onDiagnosticMessage, sa
      <4> HIDE DEF m
      <4>4. Acknowledged
        BY <4>2, <4>3, Zenon DEF Acknowledged
      <4> QED
        BY <1>1, <1>4, <4>4
    <3> QED
      BY <3>2, <3>3, <3>4
  <2> QED
    BY <2>4, <2>5, <2>6
<1> QED
  BY <1>6, <1>7 DEF Dispatches

\* Every answer is a sequence of bytes.
LEMMA AnswerBytes ==
    ASSUME NEW m, Ack(m) \/ Activation(m)
    PROVE  m \in Seq(Byte)
  BY Zenon DEF Ack, Activation, Addressed

\* What Send does to the variables' types.
LEMMA SendTyped ==
    ASSUME Typed, NEW m \in Seq(Byte), Send(m)
    PROVE  replies' \in Seq(Seq(Byte)) /\ toClient' \in Seq(Byte)
<1>1. replies \in Seq(Seq(Byte)) /\ toClient \in Seq(Byte)
  BY DEF Typed
<1>2. Append(replies, m) \in Seq(Seq(Byte))
  BY <1>1, AppendMessage
<1>3. toClient \o m \in Seq(Byte)
  BY <1>1, ConcatBytes, Zenon
<1> QED
  BY <1>2, <1>3 DEF Send

LEMMA WireDispatch ==
    ASSUME WireInv, Dispatches
    PROVE  WireInv'
<1>1. Typed /\ OneInProgress
  BY TypedNow DEF WireInv
<1>2. /\ CloseConnection \/ Ignore \/ Answered \/ Acknowledged
      /\ inmsg # <<>> /\ hpc = "idle" /\ state \in {"WaitRoutingActivation", "RoutingActivated"}
      /\ UNCHANGED <<discoveryVars, cpc, emptyMessageCounter, toServer, inbuf, provider,
                     up, written, delivered, accepted, got>>
  BY <1>1, DispatchOutcomes
<1>3. tx = <<>> /\ rx = <<>> /\ wpc # "state"
  BY <1>1, <1>2 DEF OneInProgress
<1>4. DiscoveryInv'
  BY <1>2, DiscoveryStep DEF WireInv
<1>5. PartlyRead'
  BY <1>2 DEF WireInv, PartlyRead
<1>6. CASE CloseConnection
  <2>0. /\ fd' = "closed" /\ state' = "Closed" /\ csk' \in {"reset", csk} /\ inmsg' = <<>>
        /\ tx' = <<>> /\ rx' = <<>> /\ callback' = FALSE /\ wpc' = "loop"
        /\ UNCHANGED <<clientAddress, hpc, replies, toClient>>
    BY <1>6 DEF CloseConnection, StopWorker
  <2>1. Typed'
    <3>1. callback' \in BOOLEAN
      BY <2>0, Zenon
    <3> QED
      BY <1>1, <1>2, <1>4, <2>0, <3>1, EmptyBytes, SMT DEF Typed, DiscoveryInv
  <2>2. OneInProgress'
    BY <1>2, <2>0, EmptyBytes, SMT DEF OneInProgress
  <2> QED
    BY <1>2, <1>4, <1>5, <2>1, <2>2, TypedNext DEF WireInv
<1>7. CASE Ignore
  <2>1. Typed'
    BY <1>1, <1>2, <1>4, <1>7, EmptyBytes, SMT DEF Typed, DiscoveryInv, Ignore, downstreamVars
  <2>2. OneInProgress'
    BY <1>1, <1>2, <1>7 DEF OneInProgress, Ignore, downstreamVars
  <2> QED
    BY <1>2, <1>4, <1>5, <2>1, <2>2, TypedNext DEF WireInv
<1>8. CASE Answered
  <2>1. PICK m : /\ Ack(m) \/ Activation(m)
                 /\ Send(m)
                 /\ clientAddress' \in Word /\ state' = "RoutingActivated"
                 /\ inmsg' = <<>>
                 /\ UNCHANGED <<csk, fd, hpc, downstreamVars>>
    BY <1>8 DEF Answered
  <2>2. replies' \in Seq(Seq(Byte)) /\ toClient' \in Seq(Byte)
    BY <1>1, <2>1, AnswerBytes, SendTyped
  <2>3. Typed'
    BY <1>1, <1>2, <1>4, <2>1, <2>2, EmptyBytes, SMT DEF Typed, DiscoveryInv, downstreamVars
  <2>4. OneInProgress'
    BY <1>2, <1>3, <2>1, EmptyBytes, SMT DEF OneInProgress, downstreamVars
  <2> QED
    BY <1>2, <1>4, <1>5, <2>3, <2>4, TypedNext DEF WireInv
<1>9. CASE Acknowledged
  <2>1. PICK m : /\ Ack(m) /\ Send(m)
                 /\ callback' = TRUE /\ hpc' = "store"
                 /\ UNCHANGED <<csk, fd, inmsg, state, tx, rx, wpc, clientAddress>>
    BY <1>9 DEF Acknowledged
  <2>2. replies' \in Seq(Seq(Byte)) /\ toClient' \in Seq(Byte)
    BY <1>1, <2>1, AnswerBytes, SendTyped
  <2>3. Typed'
    <3>1. callback' \in BOOLEAN
      BY <2>1, Zenon
    <3> QED
      BY <1>1, <1>2, <1>4, <2>1, <2>2, <3>1, SMT DEF Typed, DiscoveryInv
  <2>4. OneInProgress'
    BY <1>2, <1>3, <2>1, EmptyBytes, SMT DEF OneInProgress
  <2> QED
    BY <1>2, <1>4, <1>5, <2>3, <2>4, TypedNext DEF WireInv
<1> QED
  BY <1>2, <1>6, <1>7, <1>8, <1>9

\* The handler queues the request it has acknowledged.
LEMMA EnqueueQueues ==
    ASSUME Typed, OneInProgress, Enqueue
    PROVE  \E p \in Seq(Byte) :
               /\ tx = <<>> /\ rx = <<>> /\ wpc # "state" /\ inmsg # <<>>
               /\ tx' = <<p>> /\ accepted' = Append(accepted, p)
               /\ hpc' = "pending"
               /\ UNCHANGED <<discoveryVars, clientVars, toServer, toClient, fd, inbuf, inmsg,
                              state, clientAddress, rx, callback, wpc, provider, up, written,
                              delivered, replies, got>>
<1> DEFINE p == getDiagnosticMessagePayload(Value(inmsg))
<1>1. tx = <<>> /\ rx = <<>> /\ wpc # "state" /\ inmsg # <<>>
  BY DEF Enqueue, OneInProgress
<1>2. p \in Seq(Byte)
  <2>1. Value(inmsg) \in Seq(Byte)
    BY <1>1, ShortQueue DEF Typed, Value
  <2>2. 12 \in Nat /\ 8 + 4 = 12
    BY SMT
  <2> QED
    BY <2>1, <2>2, RestAny
       DEF getDiagnosticMessagePayload, DOIP_DIAG_HEADER_SIZE, DOIP_HEADER_SIZE
<1>3. /\ tx' = Append(tx, p) /\ accepted' = Append(accepted, p) /\ hpc' = "pending"
      /\ UNCHANGED <<discoveryVars, clientVars, toServer, toClient, fd, inbuf, inmsg,
                     state, clientAddress, rx, callback, wpc, provider, up, written,
                     delivered, replies, got>>
  BY DEF Enqueue
<1> HIDE DEF p
<1>4. tx' = <<p>>
  BY <1>1, <1>2, <1>3, OneMessage
<1> QED
  BY <1>1, <1>2, <1>3, <1>4

LEMMA WireEnqueue ==
    ASSUME WireInv, Enqueue
    PROVE  WireInv'
<1>1. Typed /\ OneInProgress
  BY TypedNow DEF WireInv
<1>2. PICK p \in Seq(Byte) :
          /\ tx = <<>> /\ rx = <<>> /\ wpc # "state" /\ inmsg # <<>>
          /\ tx' = <<p>> /\ accepted' = Append(accepted, p)
          /\ hpc' = "pending"
          /\ UNCHANGED <<discoveryVars, clientVars, toServer, toClient, fd, inbuf, inmsg,
                         state, clientAddress, rx, callback, wpc, provider, up, written,
                         delivered, replies, got>>
  BY <1>1, EnqueueQueues
<1>3. DiscoveryInv'
  BY <1>2, DiscoveryStep DEF WireInv
<1>4. tx' \in Seq(Seq(Byte)) /\ Len(tx') <= 1
  <2>1. <<p>> \in Seq(Seq(Byte)) /\ Len(<<p>>) = 1
    BY OneMessage
  <2> QED
    BY <1>2, <2>1, SMT
<1>5. accepted' \in Seq(Seq(Byte))
  <2>1. accepted \in Seq(Seq(Byte))
    BY <1>1 DEF Typed
  <2> QED
    BY <1>2, <2>1, AppendMessage
<1>6. Typed'
  BY <1>1, <1>2, <1>3, <1>4, <1>5, SMT DEF Typed, DiscoveryInv, clientVars
<1>7. OneInProgress'
  BY <1>2, EmptyBytes, SMT DEF OneInProgress
<1>8. PartlyRead'
  BY <1>2 DEF WireInv, PartlyRead
<1> QED
  BY <1>2, <1>3, <1>6, <1>7, <1>8, TypedNext DEF WireInv

\* The steps that move neither bytes nor requests.
Moves == handleWaitDownstreamResponse \/ AwaitResponse \/ ReadyAgain \/ ClearCallback

LEMMA MovesNothing ==
    ASSUME Moves
    PROVE  UNCHANGED <<discoveryVars, clientVars, toServer, toClient, fd, inbuf, clientAddress,
                       tx, rx, provider, up, history>>
  BY DEF Moves, handleWaitDownstreamResponse, AwaitResponse, ReadyAgain, ClearCallback,
         downstreamVars

LEMMA WireMove ==
    ASSUME WireInv, Moves
    PROVE  WireInv'
<1>1. UNCHANGED <<discoveryVars, clientVars, toServer, toClient, fd, inbuf, clientAddress,
                  tx, rx, provider, up, history>>
  BY MovesNothing
<1>2. DiscoveryInv'
  BY <1>1, DiscoveryStep DEF WireInv
<1>3. Typed /\ OneInProgress
  BY TypedNow DEF WireInv
<1>4. PartlyRead' /\ written' = written
  BY <1>1 DEF WireInv, PartlyRead, history
<1>5. /\ inmsg' \in {<<>>, inmsg} /\ hpc' \in {"idle", hpc} /\ callback' \in {FALSE, callback}
      /\ state' \in {"WaitDownstreamResponse", "RoutingActivated", state}
      /\ wpc' \in {"loop", "clear", wpc}
  BY DEF Moves, handleWaitDownstreamResponse, AwaitResponse, ReadyAgain, ClearCallback,
         downstreamVars
<1>6. Typed'
  <2>1. callback' \in BOOLEAN
    BY <1>3, <1>5, Zenon DEF Typed
  <2>2. /\ hpc' \in {"idle", "store", "pending"} /\ wpc' \in {"loop", "state", "clear"}
        /\ state' \in {"WaitRoutingActivation", "RoutingActivated", "WaitDownstreamResponse",
                       "Closed"}
    BY <1>3, <1>5 DEF Typed
  <2>3. inmsg' \in Seq(Seq(Byte)) /\ Len(inmsg') <= 1
    <3>1. Len(<<>>) <= 1
      BY EmptyBytes, SMT
    <3> QED
      BY <1>3, <1>5, <3>1, EmptyBytes DEF Typed
  <2> QED
    BY <1>1, <1>2, <1>3, <2>1, <2>2, <2>3 DEF Typed, DiscoveryInv, clientVars, history
<1>7. OneInProgress'
  <2>1. CASE handleWaitDownstreamResponse
    BY <1>3, <2>1 DEF OneInProgress, handleWaitDownstreamResponse, Dispatching, downstreamVars
  <2>2. CASE AwaitResponse
    BY <1>3, <2>2 DEF OneInProgress, AwaitResponse, downstreamVars
  <2>3. CASE ReadyAgain
    BY <1>3, <2>3 DEF OneInProgress, ReadyAgain
  <2>4. CASE ClearCallback
    BY <1>3, <2>4 DEF OneInProgress, ClearCallback
  <2> QED
    BY <2>1, <2>2, <2>3, <2>4 DEF Moves
<1> QED
  BY <1>1, <1>2, <1>4, <1>6, <1>7, TypedNext DEF WireInv

\* A provider takes the request and gives a response that fits it, if it is the
\* UDS mock.
Provided(r) ==
    /\ tx # <<>> /\ r \in Seq(Byte) /\ Len(r) <= MaxUserData
    /\ provider = "uds" => Answers(r, tx[1]) /\ NoHeaderImage(r)
    /\ provider = "can" => r \in BusResponses \cup {<<>>}
    /\ Provide(r)

LEMMA WorkerProvides ==
    ASSUME Typed, UdsSendRequest \/ CanSendRequest
    PROVE  \E r : Provided(r)
<1>1. tx # <<>> /\ Head(tx) = tx[1] /\ tx[1] \in Seq(Byte)
  BY ShortQueue DEF Typed, UdsSendRequest, CanSendRequest, Provide
<1>2. CASE UdsSendRequest
  <2> DEFINE r == handleDiagnosticRequest(UdsMockProvider, Head(tx))
  <2>1. MockResponse(r, tx[1])
    BY <1>1, MockAnswers, Zenon
  <2>2. provider = "uds" /\ Provide(r)
    BY <1>2, Zenon DEF UdsSendRequest
  <2> HIDE DEF r
  <2>3. Provided(r)
    BY <1>1, <2>1, <2>2, Zenon DEF Provided, MockResponse
  <2> QED
    BY <2>3
<1>3. CASE CanSendRequest
  <2>1. PICK r \in BusResponses \cup {<<>>} : Provide(r)
    BY <1>3 DEF CanSendRequest
  <2>2. provider = "can"
    BY <1>3 DEF CanSendRequest
  <2>3. r \in Seq(Byte) /\ Len(r) <= MaxUserData
    <3>1. CASE r \in BusResponses
      BY <3>1, BusResponsesAssumption DEF MaxUserData
    <3>2. CASE r = <<>>
      BY <3>2, SMT DEF MaxUserData
    <3> QED
      BY <3>1, <3>2
  <2>4. Provided(r)
    BY <1>1, <2>1, <2>2, <2>3, Zenon DEF Provided
  <2> QED
    BY <2>4
<1> QED
  BY <1>2, <1>3

\* The queues while a provider works.
LEMMA ProvideQueues ==
    ASSUME Typed, OneInProgress, NEW r, Provided(r)
    PROVE  /\ rx = <<>> /\ Len(tx) = 1 /\ wpc # "state"
           /\ rx' = <<r>> /\ tx' = <<>> /\ Len(rx') = 1 /\ rx'[1] = r
           /\ rx' \in Seq(Seq(Byte))
<1>1. tx # <<>> /\ r \in Seq(Byte) /\ rx' = Append(rx, r) /\ tx' = Tail(tx)
  BY DEF Provided, Provide
<1>2. Len(tx) = 1 /\ Tail(tx) = <<>>
  BY <1>1, ShortQueue DEF Typed
<1>3. rx = <<>> /\ wpc # "state"
  BY <1>1 DEF OneInProgress
<1>4. rx' = <<r>> /\ <<r>> \in Seq(Seq(Byte)) /\ Len(<<r>>) = 1 /\ <<r>>[1] = r
  BY <1>1, <1>3, OneMessage
<1> QED
  BY <1>1, <1>2, <1>3, <1>4

LEMMA WireProvide ==
    ASSUME WireInv, NEW r, Provided(r)
    PROVE  WireInv'
<1>1. Typed /\ OneInProgress
  BY TypedNow DEF WireInv
<1>2. /\ wpc # "state" /\ rx' = <<r>> /\ tx' = <<>> /\ Len(rx') = 1
      /\ rx'[1] = r /\ rx' \in Seq(Seq(Byte))
  BY <1>1, ProvideQueues
<1>3. /\ r \in Seq(Byte) /\ Len(r) <= MaxUserData /\ tx # <<>>
      /\ UNCHANGED <<discoveryVars, clientVars, toServer, toClient, fd, inbuf, inmsg, state,
                     clientAddress, hpc, callback, wpc, provider, up, history>>
  BY DEF Provided, Provide
<1>4. DiscoveryInv'
  BY <1>3, DiscoveryStep DEF WireInv
<1>5. Typed'
  BY <1>1, <1>2, <1>3, <1>4, EmptyBytes, SMT DEF Typed, DiscoveryInv, clientVars, history
<1>6. OneInProgress'
  <2>1. \A i \in 1..1 : i = 1
    BY SMT
  <2>2. \A i \in 1..Len(rx') : Len(rx'[i]) <= MaxUserData
    BY <1>2, <1>3, <2>1, Zenon
  <2>3. hpc # "store" /\ ~(hpc = "idle" /\ state # "WaitDownstreamResponse")
    BY <1>1, <1>3 DEF OneInProgress
  <2> QED
    BY <1>1, <1>2, <1>3, <2>2, <2>3 DEF OneInProgress
<1>7. PartlyRead' /\ written' = written
  BY <1>3 DEF WireInv, PartlyRead, history
<1> QED
  BY <1>3, <1>4, <1>5, <1>6, <1>7, TypedNext DEF WireInv

\* The connection sends the response on, or the worker drops it.
LEMMA RespondQueues ==
    ASSUME Typed, OneInProgress, receiveDownstreamResponse
    PROVE  /\ rx # <<>> /\ Len(rx) = 1 /\ tx = <<>> /\ rx' = <<>>
           /\ rx[1] \in Seq(Byte)
           /\ \/ /\ Send(makeDiagnosticMessage(serverAddress, clientAddress, rx[1]))
                 /\ wpc' = "state"
              \/ UNCHANGED <<replies, toClient, wpc>>
           /\ Addressed(makeDiagnosticMessage(serverAddress, clientAddress, rx[1]),
                        DoIPPayloadType.DiagnosticMessage, serverAddress, clientAddress, rx[1])
           /\ makeDiagnosticMessage(serverAddress, clientAddress, rx[1]) \in Seq(Byte)
           /\ UNCHANGED <<discoveryVars, clientVars, toServer, fd, inbuf, inmsg, state,
                          clientAddress, hpc, tx, callback, provider, up, written, delivered,
                          accepted, got>>
<1>1. rx # <<>>
  BY DEF receiveDownstreamResponse
<1>2. Len(rx) = 1 /\ Head(rx) = rx[1] /\ rx[1] \in Seq(Byte) /\ Tail(rx) = <<>>
  BY <1>1, ShortQueue DEF Typed
<1>3. tx = <<>>
  BY <1>1 DEF OneInProgress
<1>4. Len(rx[1]) <= MaxUserData
  <2>1. 1 \in 1..1
    BY SMT
  <2> QED
    BY <1>2, <2>1 DEF OneInProgress
<1>5. clientAddress \in Word
  BY DEF Typed
<1>6. Addressed(makeDiagnosticMessage(serverAddress, clientAddress, rx[1]),
                DoIPPayloadType.DiagnosticMessage, serverAddress, clientAddress, rx[1])
  BY <1>2, <1>4, <1>5, ServerWord, DiagnosticLayout, Zenon
<1>7. makeDiagnosticMessage(serverAddress, clientAddress, rx[1]) \in Seq(Byte)
  BY <1>6, Zenon DEF Addressed
<1>8. /\ \/ /\ Send(makeDiagnosticMessage(serverAddress, clientAddress, Head(rx)))
            /\ wpc' = "state"
         \/ UNCHANGED <<replies, toClient, wpc>>
      /\ rx' = Tail(rx)
      /\ UNCHANGED <<discoveryVars, clientVars, toServer, fd, inbuf, inmsg, state,
                     clientAddress, hpc, tx, callback, provider, up, written, delivered,
                     accepted, got>>
  BY Zenon DEF receiveDownstreamResponse
<1> QED
  BY <1>1, <1>2, <1>3, <1>6, <1>7, <1>8, Zenon

LEMMA WireRespond ==
    ASSUME WireInv, receiveDownstreamResponse
    PROVE  WireInv'
<1>1. Typed /\ OneInProgress
  BY TypedNow DEF WireInv
<1> DEFINE m == makeDiagnosticMessage(serverAddress, clientAddress, rx[1])
<1>2. /\ rx # <<>> /\ tx = <<>> /\ rx' = <<>> /\ m \in Seq(Byte)
      /\ (Send(m) /\ wpc' = "state") \/ UNCHANGED <<replies, toClient, wpc>>
      /\ UNCHANGED <<discoveryVars, clientVars, toServer, fd, inbuf, inmsg, state,
                     clientAddress, hpc, tx, callback, provider, up, written, delivered,
                     accepted, got>>
  BY <1>1, RespondQueues
<1> HIDE DEF m
<1>3. replies' \in Seq(Seq(Byte)) /\ toClient' \in Seq(Byte) /\ wpc' \in {"state", wpc}
  <2>1. CASE Send(m) /\ wpc' = "state"
    BY <1>1, <1>2, <2>1, SendTyped
  <2>2. CASE UNCHANGED <<replies, toClient, wpc>>
    BY <1>1, <2>2 DEF Typed
  <2> QED
    BY <1>2, <2>1, <2>2
<1>4. DiscoveryInv'
  BY <1>2, DiscoveryStep DEF WireInv
<1>5. Typed'
  BY <1>1, <1>2, <1>3, <1>4, EmptyBytes, SMT DEF Typed, DiscoveryInv, clientVars
<1>6. OneInProgress'
  <2>1. hpc # "store" /\ ~(hpc = "idle" /\ state # "WaitDownstreamResponse")
    BY <1>1, <1>2 DEF OneInProgress
  <2>2. hpc # "idle" => inmsg # <<>>
    BY <1>1 DEF OneInProgress
  <2> QED
    BY <1>2, <2>1, <2>2, EmptyBytes, SMT DEF OneInProgress
<1>7. PartlyRead'
  BY <1>2 DEF WireInv, PartlyRead
<1> QED
  BY <1>2, <1>4, <1>5, <1>6, <1>7, TypedNext DEF WireInv

LEMMA WireDiscover ==
    ASSUME WireInv, Discover \/ UNCHANGED vars
    PROVE  WireInv'
<1>1. /\ DiscoveryNext \/ UNCHANGED discoveryVars
      /\ UNCHANGED <<clientVars, toServer, toClient, connectionVars, provider, up, history>>
  BY DEF Discover, vars
<1>2. DiscoveryInv'
  BY <1>1, DiscoveryStep DEF WireInv
<1>3. Typed'
  <2>1. Typed
    BY TypedNow DEF WireInv
  <2> QED
    BY <1>1, <1>2, <2>1 DEF Typed, DiscoveryInv, clientVars, connectionVars, downstreamVars, history
<1>4. PartlyRead' /\ OneInProgress' /\ written' = written
  BY <1>1 DEF WireInv, PartlyRead, OneInProgress, connectionVars, downstreamVars, history
<1> QED
  BY <1>2, <1>3, <1>4, TypedNext DEF WireInv

\* The steps of the exchange, by what they do to the streams and the queues.
LEMMA Steps ==
    ASSUME WireInv, [Next]_vars
    PROVE  \/ Discover \/ UNCHANGED vars
           \/ Connects
           \/ Writes
           \/ receiveMessage \/ receiveError \/ receiveEmpty
           \/ receiveExactly
           \/ Dispatches
           \/ Enqueue
           \/ Moves
           \/ (\E r : Provided(r))
           \/ receiveDownstreamResponse
<1>1. Typed
  BY TypedNow DEF WireInv
<1> QED
  BY <1>1, WritesSendable, WorkerProvides, Zenon
     DEF Next, ClientReads, HandlerThread, Responds, Connects, Dispatches, Moves

LEMMA WireStep == WireInv /\ [Next]_vars => WireInv'
  BY Steps, WireDiscover, WireConnect, WireWrite, WireClientReads, WireReceive, WireDispatch,
     WireEnqueue, WireMove, WireProvide, WireRespond, Zenon

LEMMA WireInvariant == Spec => []WireInv
<1>1. Init => WireInv
  BY WireInit
<1>2. WireInv /\ [Next]_vars => WireInv'
  BY WireStep
<1> QED
  BY <1>1, <1>2, PTL DEF Spec

\* Whatever is written to the server, read from it, announced to the client and
\* answered by the provider, every variable keeps its type: what goes over the
\* wire is bytes, no queue of the connection or of the downstream model ever
\* holds two messages, and the client counts at most four empty reads.
THEOREM ExchangeTypes == Spec => []TypeOK
<1>1. WireInv => TypeOK
  BY DEF WireInv
<1> QED
  BY <1>1, WireInvariant, PTL

\* Whatever datagrams arrive, cut, repeated or in another order, what the client
\* knows after parseVehicleIdentificationResponse is nothing, the identity the
\* server is configured with, or one that another host announced: never a
\* mixture, unless an incomplete announcement made the parser throw in between.
THEOREM DiscoveredIdentity == Spec => []IdentityIntact
<1>1. WireInv => IdentityIntact
  BY DEF WireInv, DiscoveryInv
<1> QED
  BY <1>1, WireInvariant, PTL

\* Of every datagram that may arrive, the getters of DoIPMessage read a field only
\* where the payload has it, but for the one byte getFurtherActionRequest reads
\* behind a payload of 31 bytes.
THEOREM DiscoveryReadsInBounds == Spec => []FieldReadsInBounds
<1>1. WireInv => FieldReadsInBounds
  BY ReadsInBounds DEF WireInv, DiscoveryInv
<1> QED
  BY <1>1, WireInvariant, PTL

-----------------------------------------------------------------------------
(* The stream to the server.                                               *)

Faithful(d, w) ==
    /\ WellFormed(w)
    /\ d = <<PROTOCOL_VERSION, PROTOCOL_VERSION_INV>> \o SubSeq(w, 3, Len(w))

\* receiveExactly keeps its place: what it has is the beginning of the message
\* after the last one delivered, and the stream goes on behind it.
InPlace(pos) ==
    /\ Layout(toServer, written, pos)
    /\ pos[Len(delivered)] = 0 - Len(inbuf)
    /\ inbuf # <<>> =>
           /\ Len(delivered) < Len(written)
           /\ Len(inbuf) < Len(written[Len(delivered) + 1])
           /\ \A j \in 1..Len(inbuf) : inbuf[j] = written[Len(delivered) + 1][j]

StreamInv ==
    /\ Len(delivered) <= Len(written)
    /\ \A i \in 1..Len(delivered) : Faithful(delivered[i], written[i])
    /\ fd = "open" => \E pos : InPlace(pos)

LEMMA NothingInFlight ==
    ASSUME toServer = <<>>, written = <<>>, delivered = <<>>, inbuf = <<>>
    PROVE  StreamInv
<1> DEFINE pos == [i \in 0..0 |-> 0]
<1>1. Layout(toServer, written, pos)
  BY LayoutEmpty
<1>2. pos[Len(delivered)] = 0 - Len(inbuf) /\ inbuf = <<>>
  <2>1. pos[0] = 0 /\ 0 - 0 = 0
    BY SMT
  <2> HIDE DEF pos
  <2> QED
    BY <2>1, EmptyBytes
<1> HIDE DEF pos
<1>3. InPlace(pos)
  BY <1>1, <1>2 DEF InPlace
<1>4. Len(delivered) <= Len(written) /\ \A i \in 1..Len(delivered) : FALSE
  BY SMT
<1> QED
  BY <1>3, <1>4 DEF StreamInv

\* The same, of the next state.
LEMMA NothingInFlightNext ==
    ASSUME toServer' = <<>>, written' = <<>>, delivered' = <<>>, inbuf' = <<>>
    PROVE  StreamInv'
<1> DEFINE pos == [i \in 0..0 |-> 0]
<1>1. Layout(toServer', written', pos)
  BY LayoutEmpty
<1>2. pos[Len(delivered')] = 0 - Len(inbuf') /\ inbuf' = <<>>
  <2>1. pos[0] = 0 /\ 0 - 0 = 0
    BY SMT
  <2> HIDE DEF pos
  <2> QED
    BY <2>1, EmptyBytes
<1> HIDE DEF pos
<1>3. InPlace(pos)'
  BY <1>1, <1>2 DEF InPlace
<1>4. Len(delivered') <= Len(written') /\ \A i \in 1..Len(delivered') : FALSE
  BY SMT
<1> QED
  BY <1>3, <1>4 DEF StreamInv

\* A step that leaves the stream alone.
LEMMA StreamKept ==
    ASSUME StreamInv, UNCHANGED <<toServer, written, delivered, inbuf>>,
           fd' = "open" => fd = "open"
    PROVE  StreamInv'
  BY DEF StreamInv, InPlace

LEMMA StreamWrite ==
    ASSUME Typed, StreamInv, Writes
    PROVE  StreamInv'
<1>1. PICK bytes : Sendable(bytes) /\ Write(bytes)
  BY DEF Writes
<1>2. /\ bytes \in Seq(Byte) /\ toServer \in Seq(Byte) /\ written \in Seq(Seq(Byte))
      /\ delivered \in Seq(Seq(Byte))
  BY <1>1 DEF Typed, Sendable
<1>3. UNCHANGED <<fd, inbuf, delivered>>
  BY <1>1 DEF Write, connectionVars, downstreamVars
<1>4. CASE written' = written /\ toServer' = toServer
  BY <1>3, <1>4, StreamKept
<1>5. CASE written' = Append(written, bytes)
  <2> DEFINE all == Append(written, bytes)
             D == Len(delivered)
             W == Len(written)
  <2>1. /\ all \in Seq(Seq(Byte)) /\ W \in Nat /\ D \in Nat /\ Len(all) = W + 1
        /\ \A i \in 1..W : all[i] = written[i]
    BY <1>2, AppendMessage, LenProperties
  <2>2. D <= W /\ \A i \in 1..D : Faithful(delivered[i], written[i])
    BY DEF StreamInv
  <2> HIDE DEF all, D, W
  <2>3. D <= Len(all) /\ \A i \in 1..D : i \in 1..W
    BY <2>1, <2>2, SMT
  <2>4. \A i \in 1..D : Faithful(delivered[i], all[i])
    BY <2>1, <2>2, <2>3, Zenon
  <2>5. ASSUME fd = "open"
        PROVE  toServer' = toServer \o bytes
    BY <1>1, <2>5 DEF Write
  <2>6. ASSUME fd = "open"
        PROVE  \E pos : InPlace(pos)'
    <3>1. PICK pos : InPlace(pos)
      BY <2>6 DEF StreamInv
    <3> DEFINE next == [i \in 0..W + 1 |->
                           IF i = W + 1 THEN Len(toServer) + Len(bytes) ELSE pos[i]]
    <3>2. Layout(toServer \o bytes, all, next)
      <4>1. Layout(toServer, written, pos)
        BY <3>1 DEF InPlace
      <4> QED
        BY <1>2, <4>1, LayoutSend DEF W, all
    <3>3. next[D] = pos[D]
      BY <2>1, <2>2, SMT
    <3> HIDE DEF next
    <3>0. PICK p : p = next
      OBVIOUS
    <3>4. pos[D] = 0 - Len(inbuf)
      BY <3>1 DEF InPlace, D
    <3>5. ASSUME inbuf # <<>>
          PROVE  /\ D < Len(all) /\ Len(inbuf) < Len(all[D + 1])
                 /\ \A j \in 1..Len(inbuf) : inbuf[j] = all[D + 1][j]
      <4>1. /\ D < W /\ Len(inbuf) < Len(written[D + 1])
            /\ \A j \in 1..Len(inbuf) : inbuf[j] = written[D + 1][j]
        BY <3>1, <3>5 DEF InPlace, D, W
      <4>2. D < Len(all) /\ D + 1 \in 1..W
        BY <2>1, <4>1, SMT
      <4>3. all[D + 1] = written[D + 1]
        BY <2>1, <4>2
      <4> QED
        BY <4>1, <4>2, <4>3
    <3>6. InPlace(p)'
      <4>1. toServer' = toServer \o bytes /\ written' = all /\ inbuf' = inbuf
            /\ Len(delivered') = D
        BY <1>3, <1>5, <2>5, <2>6 DEF all, D
      <4> QED
        BY <3>0, <3>2, <3>3, <3>4, <3>5, <4>1 DEF InPlace
    <3> QED
      BY <3>6
  <2>7. written' = all /\ delivered' = delivered /\ fd' = fd /\ Len(delivered') = D
    BY <1>3, <1>5 DEF all, D
  <2> QED
    BY <2>3, <2>4, <2>6, <2>7, Zenon DEF StreamInv
<1> QED
  <2>1. \/ written' = written /\ toServer' = toServer
        \/ written' = Append(written, bytes)
    BY <1>1 DEF Write
  <2> QED
    BY <1>4, <1>5, <2>1

\* A read continues the message after the last one delivered, and does not go
\* behind its end.
Continues(pos, k, w) ==
    /\ Len(delivered) < Len(written) /\ w = written[Len(delivered) + 1]
    /\ Sendable(w) /\ Len(w) \in Nat
    /\ Len(Bytes(k)) <= Len(w)
    /\ \A j \in 1..Len(Bytes(k)) : Bytes(k)[j] = w[j]
    /\ pos[Len(delivered) + 1] = Len(w) - Len(inbuf)

LEMMA ReadContinues ==
    ASSUME WireInv, StreamInv, NEW pos, InPlace(pos), toServer # <<>>,
           NEW k \in 0..Len(toServer), k <= Remaining
    PROVE  Continues(pos, k, written[Len(delivered) + 1])
<1> DEFINE D == Len(delivered)
           W == Len(written)
           n == Len(inbuf)
           w == written[D + 1]
           b == Bytes(k)
<1>1. /\ Typed /\ PartlyRead
      /\ \A i \in 1..W : Sendable(written[i])
  BY TypedNow DEF WireInv
<1>2. /\ b \in Seq(Byte) /\ Len(b) = n + k /\ n \in Nat /\ Len(toServer) \in Nat /\ k \in Nat
      /\ \A i \in 1..n : b[i] = inbuf[i]
      /\ \A i \in 1..k : b[n + i] = toServer[i]
  BY <1>1, BytesRead
<1>3. /\ pos \in [0..W -> Int]
      /\ pos[W] = Len(toServer) /\ pos[D] = 0 - n
      /\ \A i \in 1..W : pos[i] = pos[i - 1] + Len(written[i])
      /\ \A i \in 1..W : \A q \in 1..Len(written[i]) :
             pos[i - 1] + q >= 1 => toServer[pos[i - 1] + q] = written[i][q]
  BY DEF InPlace, Layout
<1>4. D \in Nat /\ W \in Nat /\ D <= W /\ Len(toServer) > 0
  <2>1. toServer \in Seq(Byte) /\ written \in Seq(Seq(Byte)) /\ delivered \in Seq(Seq(Byte))
    BY <1>1 DEF Typed
  <2>2. Len(toServer) # 0
    BY <2>1, EmptySeq, Zenon
  <2>3. D \in Nat /\ W \in Nat /\ D <= W
    BY <2>1, LenProperties DEF StreamInv
  <2> HIDE DEF D, W
  <2> QED
    BY <1>2, <2>2, <2>3, SMT
<1>5. inbuf # <<>> => /\ D < W /\ n < Len(w)
                      /\ \A j \in 1..n : inbuf[j] = w[j]
  BY DEF InPlace
<1>6. inbuf \in Seq(Byte) /\ (n = 0 <=> inbuf = <<>>)
  BY <1>1, EmptySeq, Zenon DEF Typed
<1> HIDE DEF D, W, n, b
<1>7. D < W
  <2>1. D # W
    <3>1. 0 - n # Len(toServer)
      BY <1>2, <1>4, SMT
    <3> QED
      BY <1>3, <3>1
  <2> QED
    BY <1>4, <2>1, SMT
<1>8. D + 1 \in 1..W /\ (D + 1) - 1 = D
  BY <1>4, <1>7, SMT
<1>9. Sendable(w)
  BY <1>1, <1>8
<1> DEFINE L == Len(w)
<1>10. w \in Seq(Byte) /\ L \in Nat /\ L >= 8
  BY <1>9, LenProperties DEF Sendable
<1>11. /\ pos[D + 1] = pos[D] + L
       /\ \A q \in 1..L : pos[D] + q >= 1 => toServer[pos[D] + q] = w[q]
  BY <1>3, <1>8
<1>12. n < L
  <2>1. CASE inbuf = <<>>
    <3> HIDE DEF L
    <3> QED
      BY <1>6, <1>10, <2>1, SMT
  <2> QED
    BY <1>5, <2>1
<1> HIDE DEF w, L
<1>13. \A j \in 1..n : inbuf[j] = w[j]
  <2>1. CASE inbuf = <<>>
    BY <1>6, <2>1, SMT
  <2> QED
    BY <1>5, <2>1
<1>14. n + k <= L
  <2>1. CASE n < 8
    <3>1. Remaining = 8 - n
      BY <2>1 DEF Remaining, DOIP_HEADER_SIZE, n
    <3> QED
      BY <1>2, <1>10, <2>1, <3>1, SMT
  <2>2. CASE ~(n < 8)
    <3>1. n >= 8
      BY <1>2, <2>2, SMT
    <3>2. \A i \in 1..8 : inbuf[i] = w[i]
      BY <1>2, <1>13, <3>1, SMT
    <3>3. /\ tryParseHeader(inbuf) = tryParseHeader(w)
          /\ AcceptableHeader(inbuf) = AcceptableHeader(w)
      BY <1>6, <1>10, <3>1, <3>2, SameHeader DEF n, L
    <3>4. AcceptableHeader(inbuf)
      BY <1>1, <3>1 DEF PartlyRead, n
    <3> DEFINE l == Value(tryParseHeader(w)).length
    <3>5. L = 8 + l
      BY <1>9, <3>3, <3>4 DEF Sendable, L
    <3>6. Remaining = 8 + l - n
      BY <2>2, <3>3 DEF Remaining, DOIP_HEADER_SIZE, n
    <3>8. l \in Nat
      BY <1>6, <3>1, <3>3, <3>4, HeaderParsed DEF AcceptableHeader, HasValue, n
    <3> HIDE DEF l
    <3>7. Remaining = L - n
      BY <1>2, <3>5, <3>6, <3>8, SMT
    <3> QED
      BY <1>2, <1>10, <3>7, SMT
  <2> QED
    BY <2>1, <2>2
<1>15. ASSUME NEW j \in 1..n + k PROVE b[j] = w[j]
  <2>1. CASE j \in 1..n
    BY <1>2, <1>13, <2>1
  <2>2. CASE j \notin 1..n
    <3>1. j - n \in 1..k /\ n + (j - n) = j /\ j \in 1..L
      BY <1>2, <1>10, <1>14, <2>2, SMT
    <3>2. b[j] = toServer[j - n]
      BY <1>2, <3>1
    <3>3. (0 - n) + j = j - n /\ (0 - n) + j >= 1
      BY <1>2, <3>1, SMT
    <3>4. toServer[(0 - n) + j] = w[j]
      BY <1>3, <1>11, <3>1, <3>3
    <3> QED
      BY <3>2, <3>3, <3>4
  <2> QED
    BY <2>1, <2>2
<1>16. pos[D + 1] = L - n
  <2>1. (0 - n) + L = L - n
    BY <1>2, <1>10, SMT
  <2> QED
    BY <1>3, <1>11, <2>1
<1>17. Len(b) <= L /\ \A j \in 1..Len(b) : b[j] = w[j]
  BY <1>2, <1>14, <1>15
<1> QED
  BY <1>7, <1>9, <1>10, <1>16, <1>17 DEF Continues, D, W, n, b, w, L

LEMMA StreamReceive ==
    ASSUME WireInv, StreamInv, receiveExactly
    PROVE  StreamInv'
<1>1. Typed /\ PartlyRead
  BY TypedNow DEF WireInv
<1>2. fd = "open" /\ toServer # <<>> /\ written' = written
  BY DEF receiveExactly
<1>3. PICK k \in Nat : Reading(k)
  BY <1>1, ReadingSome
<1>4. /\ k \in 0..Len(toServer) /\ k <= Remaining /\ toServer' = Rest(toServer, k)
      /\ Receive(Bytes(k))
  BY <1>3 DEF Reading, Bytes
<1>5. PICK pos : InPlace(pos)
  BY <1>2 DEF StreamInv
<1> DEFINE D == Len(delivered)
           W == Len(written)
           n == Len(inbuf)
           w == written[D + 1]
           b == Bytes(k)
           L == Len(w)
           next == [i \in 0..W |-> pos[i] - k]
<1>6. Continues(pos, k, w)
  BY <1>2, <1>4, <1>5, ReadContinues
<1>7. /\ D < W /\ Sendable(w) /\ L \in Nat /\ Len(b) <= L
      /\ \A j \in 1..Len(b) : b[j] = w[j]
      /\ pos[D + 1] = L - n
  BY <1>6 DEF Continues
<1>8. b \in Seq(Byte) /\ Len(b) = n + k /\ n \in Nat
  BY <1>1, <1>4, BytesRead
<1>9. /\ toServer \in Seq(Byte) /\ written \in Seq(Seq(Byte)) /\ delivered \in Seq(Seq(Byte))
      /\ D \in Nat /\ W \in Nat
  BY <1>1, LenProperties DEF Typed
<1>10. Layout(toServer', written', next)
  <2>1. Layout(toServer, written, pos)
    BY <1>5 DEF InPlace
  <2> QED
    BY <1>2, <1>4, <1>9, <2>1, LayoutRead
<1>11. pos \in [0..W -> Int] /\ pos[D] = 0 - n
  BY <1>5 DEF InPlace, Layout
<1>12. w \in Seq(Byte) /\ L >= 8
  BY <1>7 DEF Sendable
<1>13. D <= W /\ \A i \in 1..D : Faithful(delivered[i], written[i])
  BY DEF StreamInv
<1>14. ASSUME Len(b) >= 8
       PROVE  /\ tryParseHeader(b) = tryParseHeader(w)
              /\ AcceptableHeader(b) = AcceptableHeader(w)
  <2>1. \A i \in 1..8 : b[i] = w[i]
    <3> HIDE DEF b, w
    <3> QED
      BY <1>3, <1>7, <1>8, <1>14, SMT
  <2> QED
    BY <1>8, <1>12, <1>14, <2>1, SameHeader
<1> HIDE DEF D, W, n, w, b, L
<1>15. next[D] = (0 - n) - k /\ next[D + 1] = (L - n) - k
  <2>1. D \in 0..W /\ D + 1 \in 0..W
    BY <1>7, <1>9, SMT
  <2> QED
    BY <1>7, <1>11, <2>1
<1> HIDE DEF next
<1>0. PICK p : p = next
  OBVIOUS
<1>16. CASE /\ Len(b) < 8 \/ (AcceptableHeader(b) /\ Len(b) # 8 + Value(tryParseHeader(b)).length)
            /\ inbuf' = b
            /\ UNCHANGED <<fd, inmsg, state, clientAddress, hpc, downstreamVars, delivered>>
  <2>1. Len(b) # L
    <3>1. CASE Len(b) < 8
      BY <1>3, <1>7, <1>8, <1>12, <3>1, SMT
    <3>2. CASE Len(b) >= 8
      <4>1. AcceptableHeader(b) /\ Len(b) # 8 + Value(tryParseHeader(b)).length
        <5>1. ~(Len(b) < 8)
          BY <1>3, <1>8, <3>2, SMT
        <5> QED
          BY <1>16, <5>1
      <4>2. AcceptableHeader(w) /\ L = 8 + Value(tryParseHeader(b)).length
        BY <1>7, <1>14, <3>2, <4>1 DEF Sendable, L
      <4> QED
        BY <4>1, <4>2
    <3>3. Len(b) < 8 \/ Len(b) >= 8
      BY <1>3, <1>8, SMT
    <3> QED
      BY <3>1, <3>2, <3>3
  <2>2. Len(b) < L /\ (0 - n) - k = 0 - Len(b)
    BY <1>3, <1>7, <1>8, <2>1, SMT
  <2>3. InPlace(p)'
    <3>1. inbuf' = b /\ Len(delivered') = D /\ Len(written') = W /\ written'[D + 1] = w
      BY <1>2, <1>16 DEF D, W, w
    <3> QED
      BY <1>0, <1>7, <1>10, <1>15, <2>2, <3>1 DEF InPlace, L
  <2>4. delivered' = delivered /\ Len(delivered') = D /\ Len(written') = W
    BY <1>2, <1>16 DEF D, W
  <2> QED
    BY <1>2, <1>13, <2>3, <2>4 DEF StreamInv
<1>17. CASE GiveUp
  <2>1. fd' = "leaked" /\ delivered' = delivered
    BY <1>17 DEF GiveUp
  <2> QED
    BY <1>2, <1>13, <2>1 DEF StreamInv, D, W
<1>18. CASE Sendable(b) /\ AcceptableHeader(b) /\ Complete(b)
  <2> DEFINE m == buildMessage(getPayloadType(b), getPayload(b))
             all == Append(delivered, m)
  <2>1. /\ m = <<PROTOCOL_VERSION, PROTOCOL_VERSION_INV>> \o SubSeq(b, 3, Len(b))
        /\ m \in Seq(Byte) /\ WellFormed(b)
    BY <1>18, Rebuilt, AcceptedWellFormed
  <2>2. delivered' = all /\ inbuf' = <<>>
    BY <1>18 DEF Complete
  <2>3. Len(b) = L /\ b = w
    <3>1. Len(b) >= 8 /\ Len(b) = 8 + Value(tryParseHeader(b)).length
      BY <1>18 DEF Sendable
    <3>2. Len(b) = L
      BY <1>7, <1>14, <1>18, <3>1 DEF Sendable, L
    <3> QED
      BY <1>7, <1>8, <1>12, <3>2, SeqEqual, Zenon DEF L
  <2>4. Faithful(m, w)
    BY <2>1, <2>3 DEF Faithful
  <2> HIDE DEF m
  <2>5. /\ Len(all) = D + 1 /\ all[D + 1] = m
        /\ \A i \in 1..D : all[i] = delivered[i]
    BY <1>9, <2>1, AppendMessage DEF D
  <2> HIDE DEF all
  <2>6. D + 1 <= W /\ \A i \in 1..D + 1 : i \in 1..D \/ i = D + 1
    BY <1>7, <1>9, SMT
  <2>7. \A i \in 1..D + 1 : Faithful(all[i], written[i])
    BY <1>13, <2>4, <2>5, <2>6 DEF w
  <2>8. next[D + 1] = 0 /\ 0 - Len(<<>>) = 0
    <3>1. (L - n) - k = 0 /\ 0 - 0 = 0
      BY <1>3, <1>7, <1>8, <2>3, SMT
    <3> QED
      BY <1>15, <3>1, EmptyBytes
  <2>9. InPlace(p)'
    <3>1. inbuf' = <<>> /\ Len(delivered') = D + 1
      BY <2>2, <2>5
    <3> QED
      BY <1>0, <1>10, <2>8, <3>1 DEF InPlace
  <2> QED
    BY <1>2, <2>2, <2>5, <2>6, <2>7, <2>9 DEF StreamInv, W
<1> QED
  BY <1>4, <1>8, <1>16, <1>17, <1>18, ReceiveOutcomes DEF b

LEMMA StreamStep == WireInv /\ StreamInv /\ [Next]_vars => StreamInv'
<1> SUFFICES ASSUME WireInv, StreamInv, [Next]_vars
             PROVE  StreamInv'
  OBVIOUS
<1>1. Typed /\ OneInProgress
  BY TypedNow DEF WireInv
<1>2. CASE Discover \/ UNCHANGED vars
  BY <1>2, StreamKept DEF Discover, vars, connectionVars, downstreamVars, history
<1>3. CASE Connects
  BY <1>3, NothingInFlightNext DEF Connects, startTcpConnection, reconnectServer, NewConnection
<1>4. CASE Writes
  BY <1>1, <1>4, StreamWrite
<1>5. CASE receiveMessage \/ receiveError \/ receiveEmpty
  BY <1>5, StreamKept DEF receiveMessage, receiveError, receiveEmpty, connectionVars, downstreamVars, history
<1>6. CASE receiveExactly
  BY <1>6, StreamReceive
<1>7. CASE Dispatches
  <2>1. /\ CloseConnection \/ Ignore \/ Answered \/ Acknowledged
        /\ UNCHANGED <<toServer, inbuf, written, delivered>>
    BY <1>1, <1>7, DispatchOutcomes
  <2>2. fd' = fd \/ fd' = "closed"
    BY <2>1 DEF CloseConnection, Ignore, Answered, Acknowledged
  <2> QED
    BY <2>1, <2>2, StreamKept
<1>8. CASE Moves
  BY <1>8, MovesNothing, StreamKept DEF history
<1>9. CASE \E r : Provided(r)
  BY <1>9, StreamKept DEF Provided, Provide, history
<1>10. CASE receiveDownstreamResponse
  BY <1>10, StreamKept DEF receiveDownstreamResponse
<1>11. CASE Enqueue
  BY <1>11, StreamKept DEF Enqueue
<1> QED
  BY <1>2, <1>3, <1>4, <1>5, <1>6, <1>7, <1>8, <1>9, <1>10, <1>11, Steps

\* When everything is read, the place is the end.
LEMMA StreamRead == WireInv /\ StreamInv => StreamFidelity
<1> SUFFICES ASSUME WireInv, StreamInv
             PROVE  StreamFidelity
  OBVIOUS
<1>1. ASSUME fd = "open", toServer = <<>>
      PROVE  inbuf = <<>> /\ Len(delivered) = Len(written)
  <2> DEFINE D == Len(delivered)
             W == Len(written)
             n == Len(inbuf)
             w == written[D + 1]
  <2>1. PICK pos : InPlace(pos)
    BY <1>1 DEF StreamInv
  <2>2. /\ pos \in [0..W -> Int] /\ pos[W] = Len(toServer) /\ pos[D] = 0 - n
        /\ \A i \in 1..W : pos[i] = pos[i - 1] + Len(written[i])
        /\ \A i \in 0..W, j \in 0..W : i <= j => pos[i] <= pos[j]
        /\ inbuf # <<>> => n < Len(w)
    BY <2>1 DEF InPlace, Layout
  <2>3. inbuf \in Seq(Byte) /\ written \in Seq(Seq(Byte)) /\ delivered \in Seq(Seq(Byte))
    BY TypedNow DEF WireInv, Typed
  <2>4. n \in Nat /\ W \in Nat /\ D \in Nat /\ D <= W /\ (n = 0 <=> inbuf = <<>>)
    BY <2>3, LenProperties, EmptySeq DEF StreamInv
  <2>5. \A i \in 1..W : Sendable(written[i])
    BY DEF WireInv
  <2>6. pos[W] = 0
    BY <1>1, <2>2, EmptyBytes
  <2> HIDE DEF D, W, n
  <2>7. ~(D < W)
    <3> SUFFICES ASSUME D < W
                 PROVE  FALSE
      OBVIOUS
    <3>1. D + 1 \in 1..W /\ D + 1 \in 0..W /\ W \in 0..W /\ D + 1 <= W /\ (D + 1) - 1 = D
      BY <2>4, SMT
    <3>2. Sendable(w)
      BY <2>5, <3>1
    <3>3. Len(w) >= 8 /\ Len(w) \in Nat
      BY <3>2, LenProperties DEF Sendable
    <3>4. pos[D + 1] = (0 - n) + Len(w) /\ pos[D + 1] <= 0
      BY <2>2, <2>6, <3>1
    <3>5. n < Len(w)
      <4>1. CASE inbuf = <<>>
        BY <2>4, <3>3, <4>1, SMT
      <4> QED
        BY <2>2, <4>1
    <3> HIDE DEF w
    <3> QED
      BY <2>4, <3>3, <3>4, <3>5, SMT
  <2>8. D = W
    BY <2>4, <2>7, SMT
  <2>9. n = 0
    BY <2>2, <2>4, <2>6, <2>8, SMT
  <2> QED
    BY <2>4, <2>8, <2>9 DEF D, W
<1> QED
  BY <1>1 DEF StreamInv, StreamFidelity, Faithful

\* However TCP cuts what the client and other equipment write, and whatever the
\* connection answers in between, TcpConnectionTransport::receiveMessage delivers
\* the messages that were written, each once, in order, rebuilt under the
\* server's version; nothing behind the first thing that is no message; and once
\* the stream is read, no message is left half read.
THEOREM StreamDelivered == Spec => []StreamFidelity
<1>1. Init => StreamInv
  BY NothingInFlight DEF Init
<1>2. WireInv /\ StreamInv /\ [Next]_vars => StreamInv'
  BY StreamStep
<1>3. WireInv /\ StreamInv => StreamFidelity
  BY StreamRead
<1> QED
  BY <1>1, <1>2, <1>3, WireInvariant, PTL DEF Spec

-----------------------------------------------------------------------------
(* Places in sets of numbers.                                              *)

LEMMA RankBounds ==
    ASSUME NEW n \in Nat, NEW S \in SUBSET (1..n)
    PROVE  /\ IsFiniteSet(S) /\ Cardinality(S) \in Nat
           /\ \A i \in S : Rank(S, i) \in 1..Cardinality(S)
<1>1. IsFiniteSet(1..n)
  BY FS_Interval, SMT
<1>2. IsFiniteSet(S) /\ Cardinality(S) \in Nat
  BY <1>1, FS_Subset, FS_CardinalityType
<1>3. ASSUME NEW i \in S
      PROVE  Rank(S, i) \in 1..Cardinality(S)
  <2> DEFINE T == {m \in S : m <= i}
  <2>1. T \in SUBSET S /\ i \in Nat
    BY SMT
  <2>2. IsFiniteSet(T) /\ Cardinality(T) \in Nat /\ Cardinality(T) <= Cardinality(S)
    BY <1>2, <2>1, FS_Subset, FS_CardinalityType
  <2>3. i <= i
    BY <2>1, SMT
  <2>4. {i} \in SUBSET T
    BY <2>3
  <2>5. Cardinality({i}) = 1 /\ Cardinality({i}) <= Cardinality(T)
    BY <2>2, <2>4, FS_Singleton, FS_Subset
  <2>6. Rank(S, i) = Cardinality(T)
    BY DEF Rank
  <2> HIDE DEF T
  <2> QED
    BY <1>2, <2>2, <2>5, <2>6, SMT
<1> QED
  BY <1>2, <1>3

\* An element above all others changes no place.
LEMMA RankAdd ==
    ASSUME NEW n \in Nat, NEW S \in SUBSET (1..n)
    PROVE  /\ Cardinality(S \cup {n + 1}) = Cardinality(S) + 1
           /\ \A i \in S : Rank(S \cup {n + 1}, i) = Rank(S, i)
           /\ Rank(S \cup {n + 1}, n + 1) = Cardinality(S) + 1
<1> DEFINE T == S \cup {n + 1}
<1>1. IsFiniteSet(S)
  BY RankBounds
<1>2. n + 1 \notin S
  BY SMT
<1>3. Cardinality(T) = Cardinality(S) + 1
  BY <1>1, <1>2, FS_AddElement
<1>4. ASSUME NEW i \in S
      PROVE  Rank(T, i) = Rank(S, i)
  <2>1. ~(n + 1 <= i)
    BY SMT
  <2>2. {m \in T : m <= i} = {m \in S : m <= i}
    BY <2>1, Zenon
  <2> QED
    BY <2>2, Zenon DEF Rank
<1>5. Rank(T, n + 1) = Cardinality(S) + 1
  <2>1. \A m \in S : m <= n + 1
    BY SMT
  <2>2. n + 1 <= n + 1
    BY SMT
  <2>3. {m \in T : m <= n + 1} = T
    BY <2>1, <2>2, Zenon
  <2> HIDE DEF T
  <2> QED
    BY <1>3, <2>3, Zenon DEF Rank
<1> QED
  BY <1>3, <1>4, <1>5

-----------------------------------------------------------------------------
(* The types of the replies.                                               *)

IsDiagnostic(m) == SubSeq(m, 3, 4) = U16BE(DoIPPayloadType.DiagnosticMessage)

LEMMA AddressedParts ==
    ASSUME NEW m, NEW t \in Word, NEW a, NEW b, NEW p \in Seq(Byte), Addressed(m, t, a, b, p)
    PROVE  SubSeq(m, 3, 4) = U16BE(t) /\ UserData(m) = p
<1>1. /\ m \in Seq(Byte) /\ Len(m) = 12 + Len(p) /\ m[3] = t \div 256 /\ m[4] = t % 256
      /\ \A i \in 1..Len(p) : m[12 + i] = p[i]
  BY DEF Addressed
<1>2. Len(p) \in Nat
  BY LenProperties
<1>3. SubSeq(m, 3, 4) = U16BE(t)
  <2> DEFINE x == U16BE(t)
  <2>1. x \in Seq(Byte) /\ Len(x) = 2 /\ x[1] = t \div 256 /\ x[2] = t % 256
    BY U16BEBytes
  <2> HIDE DEF x
  <2>2. StandsAt(m, 3, x)
    <3>1. 3 >= 1 /\ 3 + Len(x) - 1 <= Len(m)
      BY <1>1, <1>2, <2>1, SMT
    <3>2. \A i \in 1..2 : (i = 1 /\ 3 + i - 1 = 3) \/ (i = 2 /\ 3 + i - 1 = 4)
      BY SMT
    <3>3. \A i \in 1..Len(x) : m[3 + i - 1] = x[i]
      BY <1>1, <2>1, <3>2, SMTT(30)
    <3> QED
      BY <3>1, <3>3 DEF StandsAt
  <2>3. 3 \in Nat /\ 3 + Len(x) - 1 = 4
    BY <2>1, SMT
  <2>4. SubSeq(m, 3, 3 + Len(x) - 1) = x
    <3>1. m \in Seq(Byte) /\ x \in Seq(Byte) /\ 3 \in Nat
      BY <1>1, <2>1, <2>3
    <3> QED
      BY <2>2, <3>1, PartEqual, Zenon
  <2> QED
    BY <2>3, <2>4 DEF x
<1>4. UserData(m) = p
  <2>1. StandsAt(m, 13, p)
    <3>1. 13 >= 1 /\ 13 + Len(p) - 1 <= Len(m)
      BY <1>1, <1>2, SMT
    <3>2. \A i \in 1..Len(p) : 13 + i - 1 = 12 + i
      BY <1>2, SMT
    <3> QED
      BY <1>1, <3>1, <3>2, Zenon DEF StandsAt
  <2>2. 13 \in Nat /\ 13 + Len(p) - 1 = Len(m)
    BY <1>1, <1>2, SMT
  <2>3. SubSeq(m, 13, 13 + Len(p) - 1) = p
    BY <1>1, <2>1, <2>2, PartEqual
  <2> QED
    BY <2>2, <2>3, Zenon DEF UserData
<1> QED
  BY <1>3, <1>4

LEMMA U16BEInjective ==
    ASSUME NEW t \in Word, NEW u \in Word, U16BE(t) = U16BE(u)
    PROVE  t = u
<1>1. U16BE(t)[1] = t \div 256 /\ U16BE(t)[2] = t % 256 /\ U16(t \div 256, t % 256) = t
  BY U16BEBytes
<1>2. U16BE(u)[1] = u \div 256 /\ U16BE(u)[2] = u % 256 /\ U16(u \div 256, u % 256) = u
  BY U16BEBytes
<1>3. t \div 256 = u \div 256 /\ t % 256 = u % 256
  BY <1>1, <1>2
<1> QED
  BY <1>1, <1>2, <1>3, Zenon

\* Acknowledgements are no diagnostic messages.
LEMMA AnswerTypes ==
    ASSUME NEW m, Ack(m) \/ Activation(m)
    PROVE  ~IsDiagnostic(m)
<1> DEFINE T == {"DiagnosticMessageAck", "DiagnosticMessageNegativeAck",
                 "RoutingActivationResponse"}
           diagnostic == DoIPPayloadType.DiagnosticMessage
<1>1. PICK t \in T, sa \in Word, p \in Seq(Byte) :
          Addressed(m, DoIPPayloadType[t], sa, serverAddress, p)
  <2>1. CASE Ack(m)
    <3>1. PICK sa \in Word, nack \in Byte,
               t \in {"DiagnosticMessageAck", "DiagnosticMessageNegativeAck"} :
              Addressed(m, DoIPPayloadType[t], sa, serverAddress, <<nack>>)
      BY <2>1 DEF Ack
    <3>2. <<nack>> \in Seq(Byte) /\ t \in T
      BY ShortUserData
    <3> QED
      BY <3>1, <3>2
  <2>2. CASE Activation(m)
    <3>1. PICK sa \in Word : Addressed(m, DoIPPayloadType["RoutingActivationResponse"], sa,
                                       serverAddress, <<16, 0, 0, 0, 0>>)
      BY <2>2 DEF Activation
    <3>2. <<16, 0, 0, 0, 0>> \in Seq(Byte) /\ "RoutingActivationResponse" \in T
      BY ShortUserData
    <3> QED
      BY <3>1, <3>2
  <2> QED
    BY <2>1, <2>2
<1>2. DoIPPayloadType[t] \in Word /\ diagnostic \in Word
  <2>1. t \in DOMAIN DoIPPayloadType /\ "DiagnosticMessage" \in DOMAIN DoIPPayloadType
    BY DEF DoIPPayloadType
  <2> QED
    BY <2>1, TypesAreWords
<1>3. DoIPPayloadType[t] # diagnostic
  BY SMT DEF DoIPPayloadType
<1> HIDE DEF diagnostic, T
<1>4. SubSeq(m, 3, 4) = U16BE(DoIPPayloadType[t])
  BY <1>1, <1>2, AddressedParts
<1>5. U16BE(DoIPPayloadType[t]) # U16BE(diagnostic)
  BY <1>2, <1>3, U16BEInjective
<1> QED
  BY <1>4, <1>5 DEF IsDiagnostic, diagnostic

IsResponse(m) == IsDiagnostic(m) /\ UserData(m) # <<>>

\* What a message sent does to the responses.
LEMMA SendReplies ==
    ASSUME Typed, NEW m \in Seq(Byte), Send(m)
    PROVE  /\ Len(replies) \in Nat /\ Responses \in SUBSET (1..Len(replies))
           /\ Responses' = IF IsResponse(m) THEN Responses \cup {Len(replies) + 1}
                           ELSE Responses
           /\ \A i \in Responses : replies'[i] = replies[i]
           /\ replies'[Len(replies) + 1] = m
<1> DEFINE R == Len(replies)
           all == Append(replies, m)
<1>1. replies' = all /\ replies \in Seq(Seq(Byte))
  BY DEF Send, Typed
<1>2. /\ R \in Nat /\ Len(all) = R + 1 /\ all[R + 1] = m
      /\ \A i \in 1..R : all[i] = replies[i]
  BY <1>1, AppendMessage
<1> HIDE DEF all
<1>3. Responses = {i \in 1..R : IsResponse(replies[i])}
  BY DEF Responses, DiagnosticReplies, IsResponse, IsDiagnostic
<1>4. Responses' = {i \in 1..Len(all) : IsResponse(all[i])}
  BY <1>1 DEF Responses, DiagnosticReplies, IsResponse, IsDiagnostic
<1> HIDE DEF R
<1>5. \A i : i \in 1..Len(all) <=> i \in 1..R \/ i = R + 1
  BY <1>2, SMT
<1>6. R + 1 \notin 1..R
  BY <1>2, SMT
<1>7. CASE IsResponse(m)
  <2>1. {i \in 1..Len(all) : IsResponse(all[i])}
           = {i \in 1..R : IsResponse(replies[i])} \cup {R + 1}
    BY <1>2, <1>5, <1>7, Zenon
  <2> QED
    BY <1>1, <1>2, <1>3, <1>4, <1>7, <2>1, Zenon DEF R
<1>8. CASE ~IsResponse(m)
  <2>1. {i \in 1..Len(all) : IsResponse(all[i])} = {i \in 1..R : IsResponse(replies[i])}
    BY <1>2, <1>5, <1>8, Zenon
  <2> QED
    BY <1>1, <1>2, <1>3, <1>4, <1>8, <2>1, Zenon DEF R
<1> QED
  BY <1>7, <1>8

-----------------------------------------------------------------------------
(* Requests and responses.                                                 *)

\* A request is with the provider or its response ready: it is the last one
\* accepted, and none of the responses sent is for it.
InProgress == tx # <<>> \/ rx # <<>>

LastAccepted ==
    /\ tx # <<>> => tx[1] = accepted[Len(accepted)]
    /\ rx # <<>> => Answers(rx[1], accepted[Len(accepted)])

\* The accepted requests that may have been answered.
Answerable == IF InProgress THEN Len(accepted) - 1 ELSE Len(accepted)

Serves(served) ==
    /\ Cardinality(served) = Cardinality(Responses)
    /\ provider = "uds" =>
           \A i \in Responses, n \in served :
               Rank(Responses, i) = Rank(served, n)
                   => Answers(UserData(replies[i]), accepted[n])

AnswerInv ==
    /\ InProgress => Len(accepted) > 0
    /\ provider = "uds" => LastAccepted
    /\ \E served \in SUBSET (1..Answerable) : Serves(served)

LEMMA RepliesFinite ==
    ASSUME Typed
    PROVE  /\ Len(replies) \in Nat /\ Responses \in SUBSET (1..Len(replies))
           /\ Cardinality(Responses) \in Nat /\ Len(accepted) \in Nat
           /\ \A i \in Responses : Rank(Responses, i) \in 1..Cardinality(Responses)
<1>1. Len(replies) \in Nat /\ Len(accepted) \in Nat
  BY LenProperties DEF Typed
<1>2. Responses \in SUBSET (1..Len(replies))
  BY DEF Responses, DiagnosticReplies
<1> QED
  BY <1>1, <1>2, RankBounds, Zenon

\* No responses, no requests served.
LEMMA NothingAnswered ==
    ASSUME replies = <<>>, accepted = <<>>, tx = <<>>, rx = <<>>
    PROVE  AnswerInv
<1>1. Responses = {}
  <2>1. \A i : i \notin 1..Len(replies)
    BY EmptyBytes, SMT
  <2> QED
    BY <2>1 DEF Responses, DiagnosticReplies
<1>2. Serves({})
  BY <1>1 DEF Serves
<1>3. ~InProgress
  BY DEF InProgress
<1> QED
  BY <1>2, <1>3 DEF AnswerInv, LastAccepted

LEMMA NothingAnsweredNext ==
    ASSUME replies' = <<>>, accepted' = <<>>, tx' = <<>>, rx' = <<>>
    PROVE  AnswerInv'
<1>1. Responses' = {}
  <2>1. \A i : i \notin 1..Len(replies')
    BY EmptyBytes, SMT
  <2> QED
    BY <2>1 DEF Responses, DiagnosticReplies
<1>2. Serves({})'
  BY <1>1 DEF Serves
<1>3. ~InProgress'
  BY DEF InProgress
<1> QED
  BY <1>2, <1>3 DEF AnswerInv, LastAccepted

\* A step that sends no response and queues nothing.
LEMMA AnswerKept ==
    ASSUME Typed, AnswerInv, UNCHANGED <<accepted, provider>>, Responses' = Responses,
           \A i \in Responses : replies'[i] = replies[i],
           (tx' = tx /\ rx' = rx) \/ (tx' = <<>> /\ rx' = <<>>)
    PROVE  AnswerInv'
<1>1. PICK served \in SUBSET (1..Answerable) : Serves(served)
  BY DEF AnswerInv
<1>2. Serves(served)'
  BY <1>1 DEF Serves
<1>3. CASE tx' = tx /\ rx' = rx
  <2>1. InProgress' = InProgress /\ Answerable' = Answerable
    BY <1>3 DEF InProgress, Answerable
  <2>2. LastAccepted' = LastAccepted
    BY <1>3 DEF LastAccepted
  <2> QED
    BY <1>1, <1>2, <2>1, <2>2 DEF AnswerInv
<1>4. CASE tx' = <<>> /\ rx' = <<>>
  <2>1. ~InProgress' /\ LastAccepted' /\ Answerable' = Len(accepted)
    BY <1>4 DEF InProgress, LastAccepted, Answerable
  <2>2. Len(accepted) \in Nat
    BY RepliesFinite
  <2>3. \A n \in 1..Answerable : n \in 1..Len(accepted)
    BY <2>2, SMT DEF Answerable
  <2>4. served \in SUBSET (1..Answerable')
    BY <2>1, <2>3
  <2> QED
    BY <1>2, <2>1, <2>4 DEF AnswerInv
<1> QED
  BY <1>3, <1>4

LEMMA AnswerUnchanged ==
    ASSUME Typed, AnswerInv, UNCHANGED <<replies, accepted, provider>>,
           (tx' = tx /\ rx' = rx) \/ (tx' = <<>> /\ rx' = <<>>)
    PROVE  AnswerInv'
<1>1. Responses' = Responses
  BY DEF Responses, DiagnosticReplies
<1> QED
  BY <1>1, AnswerKept

\* An acknowledgement or nothing is sent.
LEMMA AnswerDispatch ==
    ASSUME Typed, AnswerInv, Dispatches
    PROVE  AnswerInv'
<1>1. /\ CloseConnection \/ Ignore \/ Answered \/ Acknowledged
      /\ UNCHANGED <<accepted, provider>>
  BY DispatchOutcomes
<1>2. CASE CloseConnection \/ Ignore
  <2>1. replies' = replies /\ ((tx' = tx /\ rx' = rx) \/ (tx' = <<>> /\ rx' = <<>>))
    BY <1>2 DEF CloseConnection, Ignore, StopWorker, downstreamVars
  <2> QED
    BY <1>1, <2>1, AnswerUnchanged
<1>3. CASE Answered \/ Acknowledged
  <2>1. PICK m : (Ack(m) \/ Activation(m)) /\ Send(m) /\ tx' = tx /\ rx' = rx
    BY <1>3 DEF Answered, Acknowledged, downstreamVars
  <2>2. m \in Seq(Byte) /\ ~IsResponse(m)
    BY <2>1, AnswerBytes, AnswerTypes DEF IsResponse
  <2>3. Responses' = Responses /\ \A i \in Responses : replies'[i] = replies[i]
    BY <2>1, <2>2, SendReplies
  <2> QED
    BY <1>1, <2>1, <2>3, AnswerKept
<1> QED
  BY <1>1, <1>2, <1>3

LEMMA AnswerEnqueue ==
    ASSUME Typed, OneInProgress, AnswerInv, Enqueue
    PROVE  AnswerInv'
<1>1. PICK p \in Seq(Byte) :
          /\ tx = <<>> /\ rx = <<>> /\ tx' = <<p>> /\ rx' = rx
          /\ accepted' = Append(accepted, p)
          /\ UNCHANGED <<provider, replies>>
  BY EnqueueQueues
<1>2. Responses' = Responses
  BY <1>1 DEF Responses, DiagnosticReplies
<1> DEFINE A == Len(accepted)
<1>3. /\ A \in Nat /\ Len(accepted') = A + 1 /\ accepted'[A + 1] = p
      /\ \A i \in 1..A : accepted'[i] = accepted[i]
  <2>1. accepted \in Seq(Seq(Byte))
    BY DEF Typed
  <2> QED
    BY <1>1, <2>1, AppendMessage
<1>4. tx' # <<>> /\ tx'[1] = p
  <2>1. Len(<<p>>) = 1 /\ 1 # 0
    BY OneMessage, SMT
  <2>2. tx' # <<>>
    BY <1>1, <2>1, EmptyBytes
  <2> QED
    BY <1>1, <2>2, OneMessage
<1>5. Answerable = A /\ InProgress'
  BY <1>1, <1>4 DEF Answerable, InProgress
<1> HIDE DEF A
<1>6. Answerable' = A /\ Len(accepted') > 0
  <2>1. Answerable' = Len(accepted') - 1
    BY <1>5 DEF Answerable
  <2> QED
    BY <1>3, <2>1, SMT
<1>7. LastAccepted'
  BY <1>1, <1>3, <1>4 DEF LastAccepted
<1>8. PICK served \in SUBSET (1..A) : Serves(served)
  BY <1>5 DEF AnswerInv
<1>9. \A n \in served : accepted'[n] = accepted[n]
  BY <1>3
<1>10. Serves(served)'
  BY <1>1, <1>2, <1>8, <1>9 DEF Serves
<1> QED
  BY <1>5, <1>6, <1>7, <1>10 DEF AnswerInv

LEMMA AnswerProvide ==
    ASSUME Typed, OneInProgress, AnswerInv, NEW r, Provided(r)
    PROVE  AnswerInv'
<1>1. tx # <<>> /\ rx = <<>> /\ tx' = <<>> /\ Len(rx') = 1 /\ rx'[1] = r
  BY ProvideQueues DEF Provided
<1>2. UNCHANGED <<replies, accepted, provider>>
  BY DEF Provided, Provide, history
<1>3. Responses' = Responses
  BY <1>2 DEF Responses, DiagnosticReplies
<1>4. rx' # <<>>
  <2>1. 1 # 0
    BY SMT
  <2> QED
    BY <1>1, <2>1, EmptyBytes
<1>5. InProgress /\ InProgress'
  BY <1>1, <1>4 DEF InProgress
<1>6. Answerable' = Answerable
  BY <1>2, <1>5 DEF Answerable
<1>7. ASSUME provider = "uds"
      PROVE  LastAccepted'
  <2>1. Answers(r, tx[1])
    BY <1>7 DEF Provided
  <2>2. tx[1] = accepted[Len(accepted)]
    BY <1>1, <1>7 DEF AnswerInv, LastAccepted
  <2> QED
    BY <1>1, <1>2, <2>1, <2>2 DEF LastAccepted
<1>8. PICK served \in SUBSET (1..Answerable) : Serves(served)
  BY DEF AnswerInv
<1>9. Serves(served)'
  BY <1>2, <1>3, <1>8 DEF Serves
<1> QED
  BY <1>2, <1>5, <1>6, <1>7, <1>9 DEF AnswerInv

\* A response is sent: the last request is served.
LEMMA AnswerServed ==
    ASSUME Typed, AnswerInv, rx # <<>>, rx' = <<>>, tx' = <<>>,
           UNCHANGED <<accepted, provider>>,
           NEW m \in Seq(Byte), Send(m), IsResponse(m), UserData(m) = rx[1]
    PROVE  AnswerInv'
<1> DEFINE R == Len(replies)
           A == Len(accepted)
           B == Len(accepted) - 1
           S == Responses
           C == Cardinality(S)
<1>1. /\ R \in Nat /\ S \in SUBSET (1..R)
      /\ S' = S \cup {R + 1}
      /\ \A i \in S : replies'[i] = replies[i]
      /\ replies'[R + 1] = m
  BY SendReplies
<1>2. A \in Nat /\ C \in Nat /\ \A i \in S : Rank(S, i) \in 1..C
  BY RepliesFinite
<1>3. InProgress /\ A > 0
  BY DEF InProgress, AnswerInv
<1>4. B \in Nat /\ B + 1 = A /\ B = Answerable
  <2>1. Answerable = B
    BY <1>3 DEF Answerable
  <2> HIDE DEF Answerable
  <2> QED
    BY <1>2, <1>3, <2>1, SMT
<1>5. PICK served \in SUBSET (1..B) : Serves(served)
  BY <1>4 DEF AnswerInv
<1>6. /\ Cardinality(served) = C
      /\ provider = "uds" =>
             \A i \in S, n \in served :
                 Rank(S, i) = Rank(served, n) => Answers(UserData(replies[i]), accepted[n])
  BY <1>5 DEF Serves
<1> HIDE DEF R, A, B, S
<1>7. /\ Cardinality(S') = C + 1
      /\ \A i \in S : Rank(S', i) = Rank(S, i)
      /\ Rank(S', R + 1) = C + 1
  BY <1>1, RankAdd, Zenon
<1>8. PICK more : more = served \cup {B + 1}
  OBVIOUS
<1>9. /\ Cardinality(more) = C + 1
      /\ \A n \in served : Rank(more, n) = Rank(served, n)
      /\ Rank(more, B + 1) = C + 1
  BY <1>4, <1>6, <1>8, RankAdd, Zenon
<1>10. \A n \in served : Rank(served, n) \in 1..C
  BY <1>4, <1>6, RankBounds, Zenon
<1>11. C + 1 \notin 1..C
  <2> HIDE DEF C
  <2> QED
    BY <1>2, SMT
<1> HIDE DEF C
<1>12. ASSUME provider = "uds", NEW i \in S', NEW n \in more, Rank(S', i) = Rank(more, n)
       PROVE  Answers(UserData(replies'[i]), accepted[n])
  <2>1. i \in S \/ i = R + 1
    BY <1>1
  <2>2. n \in served \/ n = B + 1
    BY <1>8
  <2>3. CASE i \in S /\ n \in served
    <3>1. Rank(S, i) = Rank(served, n)
      BY <1>7, <1>9, <1>12, <2>3
    <3> QED
      BY <1>1, <1>6, <1>12, <2>3, <3>1
  <2>4. CASE i \in S /\ n = B + 1
    <3>1. Rank(S', i) \in 1..C /\ Rank(more, n) = C + 1
      BY <1>2, <1>7, <1>9, <2>4
    <3> QED
      BY <1>11, <1>12, <3>1
  <2>5. CASE i = R + 1 /\ n \in served
    <3>1. Rank(more, n) \in 1..C /\ Rank(S', i) = C + 1
      BY <1>7, <1>9, <1>10, <2>5
    <3> QED
      BY <1>11, <1>12, <3>1
  <2>6. CASE i = R + 1 /\ n = B + 1
    <3>1. Answers(rx[1], accepted[A])
      BY <1>12 DEF AnswerInv, LastAccepted, A
    <3> QED
      BY <1>1, <1>4, <2>6, <3>1
  <2> QED
    BY <2>1, <2>2, <2>3, <2>4, <2>5, <2>6
<1>13. Serves(more)'
  BY <1>7, <1>9, <1>12 DEF Serves, S
<1>14. ~InProgress' /\ LastAccepted' /\ Answerable' = A
  BY DEF InProgress, LastAccepted, Answerable, A
<1>15. more \in SUBSET (1..A)
  <2>1. \A n \in 1..B : n \in 1..A
    BY <1>2, <1>4, SMT
  <2>2. B + 1 \in 1..A
    BY <1>2, <1>3, <1>4, SMT DEF A
  <2> QED
    BY <1>8, <2>1, <2>2
<1> QED
  BY <1>13, <1>14, <1>15 DEF AnswerInv

LEMMA AnswerRespond ==
    ASSUME Typed, OneInProgress, AnswerInv, receiveDownstreamResponse
    PROVE  AnswerInv'
<1> DEFINE m == makeDiagnosticMessage(serverAddress, clientAddress, rx[1])
<1>1. /\ rx # <<>> /\ tx = <<>> /\ rx' = <<>> /\ rx[1] \in Seq(Byte)
      /\ m \in Seq(Byte)
      /\ Send(m) \/ UNCHANGED <<replies>>
      /\ Addressed(m, DoIPPayloadType.DiagnosticMessage, serverAddress, clientAddress, rx[1])
      /\ UNCHANGED <<tx, provider, accepted>>
  BY RespondQueues
<1> HIDE DEF m
<1>2. UserData(m) = rx[1] /\ IsDiagnostic(m)
  <2>1. DoIPPayloadType.DiagnosticMessage \in Word
    BY TypesAreWords DEF DoIPPayloadType
  <2> QED
    BY <1>1, <2>1, AddressedParts DEF IsDiagnostic
<1>3. CASE Send(m) /\ rx[1] # <<>>
  <2>1. IsResponse(m)
    BY <1>2, <1>3 DEF IsResponse
  <2> QED
    BY <1>1, <1>2, <1>3, <2>1, AnswerServed
<1>4. CASE Send(m) /\ rx[1] = <<>>
  <2>1. ~IsResponse(m)
    BY <1>2, <1>4 DEF IsResponse
  <2>2. Responses' = Responses /\ \A i \in Responses : replies'[i] = replies[i]
    BY <1>1, <1>4, <2>1, SendReplies
  <2> QED
    BY <1>1, <2>2, AnswerKept
<1>5. CASE UNCHANGED <<replies>>
  BY <1>1, <1>5, AnswerUnchanged
<1> QED
  BY <1>1, <1>3, <1>4, <1>5

LEMMA AnswerStep == WireInv /\ AnswerInv /\ [Next]_vars => AnswerInv'
<1> SUFFICES ASSUME WireInv, AnswerInv, [Next]_vars
             PROVE  AnswerInv'
  OBVIOUS
<1>1. Typed /\ OneInProgress
  BY TypedNow DEF WireInv
<1>2. CASE Discover \/ UNCHANGED vars
  BY <1>1, <1>2, AnswerUnchanged DEF Discover, vars, connectionVars, downstreamVars, history
<1>3. CASE Connects
  BY <1>3, NothingAnsweredNext DEF Connects, startTcpConnection, reconnectServer, NewConnection
<1>4. CASE Writes
  BY <1>1, <1>4, AnswerUnchanged DEF Writes, Write, connectionVars, downstreamVars
<1>5. CASE receiveMessage \/ receiveError \/ receiveEmpty
  BY <1>1, <1>5, AnswerUnchanged
     DEF receiveMessage, receiveError, receiveEmpty, connectionVars, downstreamVars, history
<1>6. CASE receiveExactly
  <2>1. PICK k \in Nat : Reading(k)
    BY <1>1, <1>6, ReadingSome DEF WireInv
  <2>2. k \in 0..Len(toServer) /\ Receive(Bytes(k))
    BY <2>1 DEF Reading, Bytes
  <2>3. Bytes(k) \in Seq(Byte)
    BY <1>1, <2>2, BytesRead
  <2>4. UNCHANGED <<provider, accepted, replies>>
    BY <1>6 DEF receiveExactly
  <2>5. (tx' = tx /\ rx' = rx) \/ (tx' = <<>> /\ rx' = <<>>)
    BY <2>2, <2>3, ReceiveOutcomes DEF Complete, GiveUp, StopWorker, downstreamVars
  <2> QED
    BY <1>1, <2>4, <2>5, AnswerUnchanged
<1>7. CASE Dispatches
  BY <1>1, <1>7, AnswerDispatch
<1>8. CASE Moves
  BY <1>1, <1>8, MovesNothing, AnswerUnchanged DEF history
<1>9. CASE \E r : Provided(r)
  BY <1>1, <1>9, AnswerProvide
<1>10. CASE receiveDownstreamResponse
  BY <1>1, <1>10, AnswerRespond
<1>11. CASE Enqueue
  BY <1>1, <1>11, AnswerEnqueue
<1> QED
  BY <1>2, <1>3, <1>4, <1>5, <1>6, <1>7, <1>8, <1>9, <1>10, <1>11, Steps

LEMMA AnswersCounted == WireInv /\ AnswerInv => AnsweredInOrder
<1> SUFFICES ASSUME WireInv, AnswerInv
             PROVE  AnsweredInOrder
  OBVIOUS
<1>1. Typed /\ OneInProgress
  BY TypedNow DEF WireInv
<1>2. (tx # <<>> \/ rx # <<>>) => (state = "WaitDownstreamResponse" \/ hpc = "pending")
  BY <1>1 DEF OneInProgress, Typed
<1>3. PICK served \in SUBSET (1..Answerable) : Serves(served)
  BY DEF AnswerInv
<1>4. \A n \in 1..Answerable : n \in 1..Len(accepted)
  <2>1. Len(accepted) \in Nat
    BY <1>1, RepliesFinite
  <2> QED
    BY <2>1, SMT DEF Answerable
<1>5. served \in SUBSET (1..Len(accepted))
  BY <1>4
<1> QED
  BY <1>2, <1>3, <1>5 DEF Serves, AnsweredInOrder

\* However the handler thread and the worker of DoIPDownstreamServerModel interleave
\* between storing the callback, queueing the request, answering it and clearing
\* the callback, the downstream model holds one request at a time, a response that
\* reaches the client is for one request, in the order of the requests and at most
\* once, and what UdsMock answers fits the request it is for. Requests may lose
\* their response; no response ever moves to another request.
THEOREM RequestsAnsweredInOrder == Spec => []AnsweredInOrder
<1>1. Init => AnswerInv
  BY NothingAnswered DEF Init
<1>2. WireInv /\ AnswerInv /\ [Next]_vars => AnswerInv'
  BY AnswerStep
<1>3. WireInv /\ AnswerInv => AnsweredInOrder
  BY AnswersCounted
<1> QED
  BY <1>1, <1>2, <1>3, WireInvariant, PTL DEF Spec

-----------------------------------------------------------------------------
(* What the client makes of the replies.                                   *)

\* Behind its first byte, a message holds no image of a header.
HeaderFree(r) ==
    \A q \in 2..Len(r) - 1 :
        HeaderImage(r, q) => q + 1 = Len(r) \/ ~TypeByte(r[q + 2])

Reply(r) ==
    /\ r \in Seq(Byte) /\ Len(r) >= 12
    /\ r[1] = 3 /\ r[2] = 252
    /\ U32(r[5], r[6], r[7], r[8]) = Len(r) - 8
    /\ HeaderFree(r)

\* The part of a reply that does not depend on its type.
LEMMA AddressedReply ==
    ASSUME NEW m, NEW t, NEW a, NEW b, NEW p \in Seq(Byte), Addressed(m, t, a, b, p),
           HeaderFree(m)
    PROVE  Reply(m)
<1>1. /\ m \in Seq(Byte) /\ Len(m) = 12 + Len(p) /\ m[1] = 3 /\ m[2] = 252
      /\ U32(m[5], m[6], m[7], m[8]) = 4 + Len(p)
  BY DEF Addressed
<1>2. Len(p) \in Nat
  BY LenProperties
<1>3. Len(m) >= 12 /\ 4 + Len(p) = Len(m) - 8
  BY <1>1, <1>2, SMT
<1> QED
  BY <1>1, <1>3 DEF Reply

LEMMA ByteIsNat == \A c \in Byte : c \in Nat
  BY SMT DEF Byte

LEMMA AckReply ==
    ASSUME NEW m, Ack(m)
    PROVE  Reply(m)
<1>1. PICK sa \in Word, nack \in Byte,
           t \in {"DiagnosticMessageAck", "DiagnosticMessageNegativeAck"} :
          Addressed(m, DoIPPayloadType[t], sa, serverAddress, <<nack>>)
  BY DEF Ack
<1>2. /\ DoIPPayloadType[t] \div 256 = 128 /\ DoIPPayloadType[t] % 256 \in {2, 3}
      /\ serverAddress \div 256 = 14 /\ serverAddress % 256 = 0
  BY SMT DEF DoIPPayloadType, serverAddress
<1>3. <<nack>> \in Seq(Byte) /\ Len(<<nack>>) = 1
  BY ShortUserData
<1>4. 12 + 1 = 13 /\ (4 + 1) \div 256 = 0 /\ (4 + 1) % 256 = 5
  BY SMT
<1>5. /\ Len(m) = 13 /\ m[2] = 252 /\ m[3] = 128 /\ m[4] \in {2, 3}
      /\ m[5] = 0 /\ m[6] = 0 /\ m[7] = 0 /\ m[8] = 5 /\ m[11] = 14 /\ m[12] = 0
      /\ m \in Seq(Byte)
  BY <1>1, <1>2, <1>3, <1>4 DEF Addressed
<1>6. m[10] \in Nat
  <2>1. 10 \in 1..Len(m)
    BY <1>5, SMT
  <2>2. m \in Seq(Byte)
    BY <1>5
  <2>3. m[10] \in Byte
    BY <2>1, <2>2, ElementOfSeq, Zenon
  <2> QED
    BY <2>3, ByteIsNat, Zenon
<1>7. HeaderFree(m)
  <2> SUFFICES ASSUME NEW q \in 2..Len(m) - 1, HeaderImage(m, q)
               PROVE  q + 1 = Len(m) \/ ~TypeByte(m[q + 2])
    BY DEF HeaderFree
  <2>1. m[q] \in 1..4 /\ m[q] + m[q + 1] = 255
    BY DEF HeaderImage
  <2>2. \/ q = 2 \/ q = 3 \/ q = 4 \/ q = 5 \/ q = 6 \/ q = 7 \/ q = 8 \/ q = 9 \/ q = 10
        \/ q = 11 \/ q = 12
    BY <1>5, SMT
  <2>3. CASE q = 9
    <3>1. 9 + 2 = 11 /\ ~TypeByte(14)
      BY SMT DEF TypeByte
    <3> QED
      BY <1>5, <2>3, <3>1
  <2>4. q = 9 \/ q = 12
    BY <1>5, <1>6, <2>1, <2>2, SMTT(30)
  <2>5. CASE q = 12
    BY <1>5, <2>5, SMT
  <2> QED
    BY <2>3, <2>4, <2>5
<1> QED
  BY <1>1, <1>3, <1>7, AddressedReply, Zenon

LEMMA ActivationReply ==
    ASSUME NEW m, Activation(m)
    PROVE  Reply(m)
<1> DEFINE data == <<16, 0, 0, 0, 0>>
<1>1. PICK sa \in Word :
          Addressed(m, DoIPPayloadType.RoutingActivationResponse, sa, serverAddress, data)
  BY DEF Activation
<1>2. /\ DoIPPayloadType.RoutingActivationResponse = 6
      /\ 6 \div 256 = 0 /\ 6 % 256 = 6
      /\ serverAddress \div 256 = 14 /\ serverAddress % 256 = 0
  BY SMT DEF DoIPPayloadType, serverAddress
<1>3. data \in Seq(Byte) /\ Len(data) = 5
  BY ShortUserData
<1>4. 12 + 5 = 17 /\ (4 + 5) \div 256 = 0 /\ (4 + 5) % 256 = 9
  BY SMT
<1>5. /\ Len(m) = 17 /\ m[2] = 252 /\ m[3] = 0 /\ m[4] = 6
      /\ m[5] = 0 /\ m[6] = 0 /\ m[7] = 0 /\ m[8] = 9 /\ m[11] = 14 /\ m[12] = 0
  BY <1>1, <1>2, <1>3, <1>4 DEF Addressed
<1>6. m \in Seq(Byte) /\ m[10] \in Nat
  <2>1. m \in Seq(Byte)
    BY <1>1 DEF Addressed
  <2>2. 10 \in 1..Len(m)
    BY <1>5, SMT
  <2> QED
    BY <2>1, <2>2, ElementOfSeq, ByteIsNat, Zenon
<1>7. m[13] = 16 /\ m[14] = 0 /\ m[15] = 0 /\ m[16] = 0 /\ m[17] = 0
  <2>1. data[1] = 16 /\ data[2] = 0 /\ data[3] = 0 /\ data[4] = 0 /\ data[5] = 0
    BY SMT
  <2>2. /\ 12 + 1 = 13 /\ 12 + 2 = 14 /\ 12 + 3 = 15 /\ 12 + 4 = 16 /\ 12 + 5 = 17
        /\ 1 \in 1..5 /\ 2 \in 1..5 /\ 3 \in 1..5 /\ 4 \in 1..5 /\ 5 \in 1..5
    BY SMT
  <2>3. \A i \in 1..5 : m[12 + i] = data[i]
    BY <1>1, <1>3 DEF Addressed
  <2> HIDE DEF data
  <2> QED
    BY <2>1, <2>2, <2>3
<1>8. HeaderFree(m)
  <2> SUFFICES ASSUME NEW q \in 2..Len(m) - 1, HeaderImage(m, q)
               PROVE  q + 1 = Len(m) \/ ~TypeByte(m[q + 2])
    BY DEF HeaderFree
  <2>1. m[q] \in 1..4 /\ m[q] + m[q + 1] = 255
    BY DEF HeaderImage
  <2>2. \/ q = 2 \/ q = 3 \/ q = 4 \/ q = 5 \/ q = 6 \/ q = 7 \/ q = 8 \/ q = 9 \/ q = 10
        \/ q = 11 \/ q = 12 \/ q = 13 \/ q = 14 \/ q = 15 \/ q = 16
    BY <1>5, SMT
  <2>3. CASE q = 9
    <3>1. 9 + 2 = 11 /\ ~TypeByte(14)
      BY SMT DEF TypeByte
    <3> QED
      BY <1>5, <2>3, <3>1
  <2>4. q = 9
    <3>1. q # 2 /\ q # 3 /\ q # 4 /\ q # 5 /\ q # 6 /\ q # 7 /\ q # 8
      BY <1>5, <2>1, SMT
    <3>2. q # 10
      BY <1>5, <1>6, <2>1, SMT
    <3>3. q # 11 /\ q # 12
      BY <1>5, <2>1, SMT
    <3>4. q # 13 /\ q # 14 /\ q # 15 /\ q # 16
      BY <1>7, <2>1, SMT
    <3> QED
      BY <2>2, <3>1, <3>2, <3>3, <3>4
  <2> QED
    BY <2>3, <2>4
<1> HIDE DEF data
<1> QED
  BY <1>1, <1>3, <1>8, AddressedReply, Zenon

\* A response keeps no image, whatever the address of the client.
LEMMA ResponseReply ==
    ASSUME NEW m, NEW a \in Word, NEW p \in Seq(Byte), NoHeaderImage(p),
           Addressed(m, DoIPPayloadType.DiagnosticMessage, serverAddress, a, p)
    PROVE  Reply(m)
<1>1. /\ DoIPPayloadType.DiagnosticMessage \div 256 = 128
      /\ DoIPPayloadType.DiagnosticMessage % 256 = 1
      /\ serverAddress \div 256 = 14 /\ serverAddress % 256 = 0
  BY SMT DEF DoIPPayloadType, serverAddress
<1>2. /\ m \in Seq(Byte) /\ Len(m) = 12 + Len(p)
      /\ m[2] = 252 /\ m[3] = 128 /\ m[4] = 1 /\ m[5] = 0 /\ m[6] = 0
      /\ m[9] = 14 /\ m[10] = 0
      /\ \A i \in 1..Len(p) : m[12 + i] = p[i]
  BY <1>1 DEF Addressed
<1>6. /\ m[2] = 252 /\ m[3] = 128 /\ m[4] = 1 /\ m[5] = 0 /\ m[6] = 0
      /\ m[9] = 14 /\ m[10] = 0
  BY <1>2
<1>3. Len(p) \in Nat
  BY LenProperties
<1>4. m[7] \in Nat /\ m[8] \in Nat /\ m[11] \in Nat /\ m[12] \in Nat
  <2>1. 7 \in 1..Len(m) /\ 8 \in 1..Len(m) /\ 11 \in 1..Len(m) /\ 12 \in 1..Len(m)
    BY <1>2, <1>3, SMT
  <2>2. m[7] \in Byte /\ m[8] \in Byte /\ m[11] \in Byte /\ m[12] \in Byte
    BY <1>2, <2>1, ElementOfSeq
  <2> QED
    BY <2>2, ByteIsNat, Zenon
<1>5. HeaderFree(m)
  <2> SUFFICES ASSUME NEW q \in 2..Len(m) - 1, HeaderImage(m, q)
               PROVE  q + 1 = Len(m) \/ ~TypeByte(m[q + 2])
    BY DEF HeaderFree
  <2>1. m[q] \in 1..4 /\ m[q] + m[q + 1] = 255
    BY DEF HeaderImage
  <2>2. \/ q = 2 \/ q = 3 \/ q = 4 \/ q = 5 \/ q = 6 \/ q = 7 \/ q = 8 \/ q = 9 \/ q = 10
        \/ q = 11 \/ q = 12 \/ q >= 13
    BY <1>2, <1>3, SMT
  <2>3. q = 7 \/ q = 11 \/ q = 12 \/ q >= 13
    <3>1. q # 2 /\ q # 3 /\ q # 4 /\ q # 5 /\ q # 6 /\ q # 9 /\ q # 10
      BY <1>6, <2>1, SMTT(30)
    <3>2. q # 8
      BY <1>4, <1>6, <2>1, SMT
    <3> QED
      BY <2>2, <3>1, <3>2
  <2>4. CASE q = 7
    <3>1. 7 + 2 = 9 /\ ~TypeByte(14)
      BY SMT DEF TypeByte
    <3> QED
      BY <1>2, <2>4, <3>1
  <2>5. ASSUME Len(p) >= 1
        PROVE  m[13] = p[1] /\ ~TypeByte(p[1]) /\ p[1] \notin 251..254
    <3>1. 1 \in 1..Len(p) /\ 12 + 1 = 13
      BY <1>3, <2>5, SMT
    <3>2. p # <<>>
      BY <1>3, <2>5, EmptyBytes, SMT
    <3>3. ~TypeByte(p[1]) /\ p[1] \notin 251..254
      BY <3>2 DEF NoHeaderImage
    <3> QED
      BY <1>2, <3>1, <3>3
  <2>6. CASE q = 11
    <3>1. CASE Len(p) = 0
      BY <1>2, <2>6, <3>1, SMT
    <3>2. CASE Len(p) >= 1
      <4>1. 11 + 2 = 13
        BY SMT
      <4> QED
        BY <2>5, <2>6, <3>2, <4>1
    <3> QED
      BY <1>3, <3>1, <3>2, SMT
  <2>7. CASE q = 12
    <3>1. Len(p) >= 1
      BY <1>2, <1>3, <2>7, SMT
    <3>2. m[12] \in 1..4 /\ m[12] + m[13] = 255
      <4>1. 12 + 1 = 13
        BY SMT
      <4> QED
        BY <2>1, <2>7, <4>1
    <3>3. m[13] \in Byte
      <4>1. 13 \in 1..Len(m)
        BY <1>2, <1>3, <3>1, SMT
      <4> QED
        BY <1>2, <4>1, ElementOfSeq
    <3>4. m[13] \in 251..254
      <4> DEFINE x == m[12]
                 y == m[13]
      <4>1. x \in 1..4 /\ x + y = 255 /\ y \in Nat
        BY <3>2, <3>3, ByteIsNat
      <4> HIDE DEF x, y
      <4>2. y \in 251..254
        BY <4>1, SMT
      <4> QED
        BY <4>2 DEF y
    <3> QED
      BY <2>5, <3>1, <3>4
  <2>8. CASE q >= 13
    <3> DEFINE j == q - 12
    <3>1. /\ j \in 1..Len(p) - 1 /\ j \in 1..Len(p) /\ j + 1 \in 1..Len(p)
          /\ 12 + j = q /\ 12 + (j + 1) = q + 1
          /\ j + 1 = Len(p) \/ j + 2 \in 1..Len(p)
          /\ 12 + (j + 2) = q + 2
          /\ j + 1 = Len(p) => q + 1 = Len(m)
      BY <1>2, <1>3, <2>8, SMT
    <3> HIDE DEF j
    <3>2. m[q] = p[j] /\ m[q + 1] = p[j + 1]
      BY <1>2, <3>1
    <3>3. HeaderImage(p, j)
      BY <2>1, <3>2 DEF HeaderImage
    <3>4. j + 1 = Len(p) \/ ~TypeByte(p[j + 2])
      BY <3>1, <3>3 DEF NoHeaderImage
    <3>5. CASE j + 1 = Len(p)
      BY <3>1, <3>5
    <3>6. CASE j + 1 # Len(p)
      <4>1. m[q + 2] = p[j + 2]
        BY <1>2, <3>1, <3>6
      <4> QED
        BY <3>4, <3>6, <4>1
    <3> QED
      BY <3>5, <3>6
  <2> QED
    BY <2>3, <2>4, <2>6, <2>7, <2>8
<1> QED
  BY <1>5, AddressedReply, Zenon

\* A stream that is not empty begins in the middle, or at the beginning, of one
\* of the messages.
LEMMA CurrentMessage ==
    ASSUME NEW s \in Seq(Byte), NEW msgs \in Seq(Seq(Byte)), NEW pos, Layout(s, msgs, pos),
           s # <<>>, pos[0] <= 0
    PROVE  \E i \in 1..Len(msgs) : pos[i - 1] <= 0 /\ pos[i] > 0
<1> DEFINE R == Len(msgs)
           S == {i \in 1..R : pos[i] <= 0}
           c == Cardinality(S)
<1>1. /\ pos \in [0..R -> Int] /\ pos[R] = Len(s)
      /\ \A i \in 0..R, j \in 0..R : i <= j => pos[i] <= pos[j]
  BY DEF Layout
<1>2. R \in Nat /\ Len(s) \in Nat /\ Len(s) # 0
  BY LenProperties, EmptySeq
<1>3. S \in SUBSET (1..R) /\ IsFiniteSet(1..R)
  <2>1. 1 \in Int /\ R \in Int
    BY <1>2, SMT
  <2> QED
    BY <2>1, FS_Interval
<1>4. IsFiniteSet(S) /\ c \in Nat
  BY <1>2, <1>3, RankBounds
<1>5. Cardinality(1..R) = R /\ c <= R /\ (c = R => S = 1..R)
  <2>1. Cardinality(1..R) = R
    <3>1. 1 \in Int /\ R \in Int
      BY <1>2, SMT
    <3>2. Cardinality(1..R) = IF 1 > R THEN 0 ELSE R - 1 + 1
      BY <3>1, FS_Interval
    <3> HIDE DEF R
    <3> QED
      BY <1>2, <3>2, SMT
  <2> QED
    BY <1>3, <2>1, FS_Subset, ZenonT(40)
<1> HIDE DEF R, c
<1>6. pos[R] > 0
  BY <1>1, <1>2, SMT
<1>7. c < R
  <2>1. c # R
    <3> SUFFICES ASSUME c = R
                 PROVE  FALSE
      OBVIOUS
    <3>1. CASE R = 0
      BY <1>1, <1>6, <3>1, SMT
    <3>2. CASE R # 0
      <4>1. R \in 1..R
        BY <1>2, <3>2, SMT
      <4>2. pos[R] <= 0
        BY <1>5, <4>1
      <4> QED
        BY <1>1, <1>2, <1>6, <4>2, SMT
    <3> QED
      BY <3>1, <3>2
  <2> QED
    BY <1>2, <1>4, <1>5, <2>1, SMT
<1>8. c + 1 \in 1..R /\ c + 1 \in 0..R /\ c \in 0..R /\ (c + 1) - 1 = c
  BY <1>2, <1>4, <1>7, SMT
<1>9. pos[c + 1] > 0
  <2> SUFFICES ASSUME ~(pos[c + 1] > 0)
               PROVE  FALSE
    OBVIOUS
  <2>1. pos[c + 1] <= 0
    BY <1>1, <1>8, SMT
  <2>2. ASSUME NEW j \in 1..c + 1
        PROVE  j \in S
    <3>1. j \in 0..R /\ j \in 1..R /\ j <= c + 1
      BY <1>2, <1>4, <1>7, SMT
    <3>2. pos[j] <= pos[c + 1] /\ pos[j] \in Int /\ pos[c + 1] \in Int
      BY <1>1, <1>8, <3>1
    <3>3. pos[j] <= 0
      BY <2>1, <3>2, SMT
    <3> QED
      BY <3>1, <3>3
  <2>3. (1..c + 1) \in SUBSET S
    BY <2>2
  <2>4. Cardinality(1..c + 1) <= c
    BY <1>4, <2>3, FS_Subset DEF c
  <2>5. Cardinality(1..c + 1) = c + 1
    <3>1. 1 \in Int /\ c + 1 \in Int
      BY <1>4, SMT
    <3>2. Cardinality(1..c + 1) = IF 1 > c + 1 THEN 0 ELSE (c + 1) - 1 + 1
      BY <3>1, FS_Interval
    <3> QED
      BY <1>4, <3>2, SMT
  <2> QED
    BY <1>4, <2>4, <2>5, SMT
<1>10. pos[c] <= 0
  <2> SUFFICES ASSUME ~(pos[c] <= 0)
               PROVE  FALSE
    OBVIOUS
  <2>1. c # 0
    OBVIOUS
  <2>2. ASSUME NEW j \in S
        PROVE  j \in 1..c - 1
    <3>1. j \in 1..R /\ pos[j] <= 0 /\ j \in 0..R
      BY <1>2, SMT
    <3>2. ~(c <= j)
      <4> SUFFICES ASSUME c <= j
                   PROVE  FALSE
        OBVIOUS
      <4>1. pos[c] <= pos[j] /\ pos[c] \in Int /\ pos[j] \in Int
        BY <1>1, <1>8, <3>1
      <4> QED
        BY <3>1, <4>1, SMT
    <3> QED
      BY <1>2, <1>4, <3>1, <3>2, SMT
  <2>3. S \in SUBSET (1..c - 1) /\ c - 1 \in Nat
    BY <1>4, <2>1, <2>2, SMT
  <2>4. 1 \in Int /\ c - 1 \in Int
    BY <2>3, SMT
  <2>5. IsFiniteSet(1..c - 1) /\ Cardinality(1..c - 1) = IF 1 > c - 1 THEN 0 ELSE c - 1 - 1 + 1
    BY <2>4, FS_Interval
  <2>6. c <= Cardinality(1..c - 1)
    BY <2>3, <2>5, FS_Subset DEF c
  <2> QED
    BY <1>4, <2>1, <2>5, <2>6, SMT
<1> QED
  BY <1>8, <1>9, <1>10 DEF R

\* The first byte of a valid payload type.
LEMMA TypeBytes ==
    ASSUME NEW c \in Byte, NEW d \in Byte, isValidPayloadType(U16(c, d))
    PROVE  TypeByte(c)
  BY SMT DEF isValidPayloadType, U16, TypeByte, Byte

\* What a part of the stream of replies is parsed to: the message the stream
\* begins with, if it begins with a whole one.
LEMMA ChunkParsed ==
    ASSUME NEW s \in Seq(Byte), NEW msgs \in Seq(Seq(Byte)), NEW pos, Layout(s, msgs, pos),
           \A j \in 1..Len(msgs) : Reply(msgs[j]),
           NEW i \in 1..Len(msgs), pos[i - 1] <= 0, pos[i] > 0,
           NEW k \in 0..Len(s), tryParse(Slice(s, 0, k)) # None
    PROVE  tryParse(Slice(s, 0, k)) = Some(msgs[i]) /\ pos[i] <= k
<1> DEFINE R == Len(msgs)
           r == msgs[i]
           L == Len(r)
           x == pos[i - 1]
           q == 1 - x
           d == Slice(s, 0, k)
           m == Value(tryParse(d))
<1>1. R \in Nat /\ Len(s) \in Nat /\ k \in Nat /\ k <= Len(s)
  BY LenProperties, SMT
<1>2. d \in Seq(Byte) /\ Len(d) = k /\ \A j \in 1..k : d[j] = s[j]
  <2>1. 0 \in Nat /\ 0 + k <= Len(s) /\ \A j \in 1..k : 0 + j = j
    BY <1>1, SMT
  <2>2. d \in Seq(Byte) /\ Len(d) = k /\ \A j \in 1..k : d[j] = s[0 + j]
    BY <1>1, <2>1, SliceBytes, Zenon
  <2> HIDE DEF d
  <2> QED
    BY <2>1, <2>2
<1> HIDE DEF d
<1>3. tryParse(d) # None
  BY DEF d
<1>4. /\ tryParseHeader(d) # None /\ tryParse(d) = Some(m)
      /\ m \in Seq(Byte) /\ Len(m) <= k /\ Len(m) = 8 + Value(tryParseHeader(d)).length
      /\ Len(m) \in Nat /\ \A j \in 1..Len(m) : m[j] = d[j]
  BY <1>2, <1>3, MessageParsed
<1>5. /\ k >= 8 /\ d[1] \in 1..4 /\ d[1] + d[2] = 255
      /\ isValidPayloadType(U16(d[3], d[4]))
      /\ Value(tryParseHeader(d)).length = U32(d[5], d[6], d[7], d[8])
  BY <1>2, <1>4, HeaderParsed
<1>6. TypeByte(d[3]) /\ d[2] \in Byte
  <2>1. 2 \in 1..Len(d) /\ 3 \in 1..Len(d) /\ 4 \in 1..Len(d)
    BY <1>1, <1>2, <1>5, SMT
  <2>2. d[2] \in Byte /\ d[3] \in Byte /\ d[4] \in Byte
    BY <1>2, <2>1, ElementOfSeq
  <2> QED
    BY <1>5, <2>2, TypeBytes
<1>7. /\ pos \in [0..R -> Int] /\ pos[R] = Len(s)
      /\ \A j \in 1..R : pos[j] = pos[j - 1] + Len(msgs[j])
      /\ \A j \in 1..R : \A n \in 1..Len(msgs[j]) :
             pos[j - 1] + n >= 1 => s[pos[j - 1] + n] = msgs[j][n]
  BY DEF Layout
<1>8. /\ Reply(r) /\ r \in Seq(Byte) /\ L \in Nat /\ L >= 12
      /\ r[1] = 3 /\ r[2] = 252 /\ U32(r[5], r[6], r[7], r[8]) = L - 8 /\ HeaderFree(r)
  <2>1. Reply(r)
    BY Zenon
  <2> HIDE DEF r
  <2>2. /\ r \in Seq(Byte) /\ L >= 12 /\ r[1] = 3 /\ r[2] = 252
        /\ U32(r[5], r[6], r[7], r[8]) = L - 8 /\ HeaderFree(r)
    BY <2>1, Zenon DEF Reply
  <2>3. L \in Nat
    BY <2>2, LenProperties
  <2> QED
    BY <2>1, <2>2, <2>3, Zenon
<1>9. i - 1 \in 0..R /\ i \in 0..R /\ i \in Nat
  BY <1>1, SMT DEF R
<1>10. x \in Int /\ pos[i] = x + L /\ pos[i] > 0 /\ x <= 0
  BY <1>7, <1>9
<1> HIDE DEF R, r, L, x
<1>0. L \in Nat /\ L >= 12
  BY <1>8
<1>11. q \in 1..L /\ x = 1 - q /\ pos[i] = L - q + 1
  <2> DEFINE z == pos[i]
  <2>1. x \in Int /\ z = x + L /\ z > 0 /\ x <= 0
    BY <1>10
  <2> HIDE DEF z
  <2>2. q \in 1..L /\ x = 1 - q /\ z = L - q + 1
    BY <1>0, <2>1, SMT
  <2> QED
    BY <2>2 DEF z
<1> HIDE DEF q
<1>12. ASSUME NEW j \in 1..k, q + j - 1 <= L
       PROVE  d[j] = r[q + j - 1]
  <2>1. q + j - 1 \in 1..L /\ x + (q + j - 1) = j /\ j >= 1
    BY <1>1, <1>8, <1>11, <1>12, SMT
  <2>2. s[x + (q + j - 1)] = r[q + j - 1]
    <3>1. \A n \in 1..L : x + n >= 1 => s[x + n] = r[n]
      BY <1>7 DEF x, r, L, R
    <3> QED
      BY <2>1, <3>1
  <2> QED
    BY <1>2, <2>1, <2>2
\* Behind the message, the next one begins.
<1>13. ASSUME NEW j \in 1..k, j = pos[i] + 1
       PROVE  d[j] = 3
  <2>1. i # R
    <3> SUFFICES ASSUME i = R
                 PROVE  FALSE
      OBVIOUS
    <3>1. pos[i] = Len(s)
      BY <1>7
    <3> QED
      BY <1>1, <1>13, <3>1, SMT
  <2>2. i + 1 \in 1..R /\ (i + 1) - 1 = i
    BY <1>1, <1>9, <2>1, SMT
  <2>3. Reply(msgs[i + 1])
    BY <2>2 DEF R
  <2>4. msgs[i + 1][1] = 3 /\ 1 \in 1..Len(msgs[i + 1])
    <3>1. msgs[i + 1][1] = 3 /\ Len(msgs[i + 1]) >= 12 /\ Len(msgs[i + 1]) \in Nat
      BY <2>3, LenProperties DEF Reply
    <3> QED
      BY <3>1, SMT
  <2>5. pos[i] + 1 >= 1
    BY <1>1, <1>13, SMT
  <2>6. s[pos[i] + 1] = 3
    BY <1>7, <2>2, <2>4, <2>5
  <2> QED
    BY <1>2, <1>13, <2>6
<1>14. CASE q = 1
  <2>1. \A j \in 1..k : q + j - 1 = j
    BY <1>1, <1>14, SMT
  <2>2. ASSUME NEW j \in 1..k, j <= L
        PROVE  d[j] = r[j]
    BY <1>12, <2>1, <2>2
  <2>3. d[5] = r[5] /\ d[6] = r[6] /\ d[7] = r[7] /\ d[8] = r[8]
    <3>1. /\ 5 \in 1..k /\ 6 \in 1..k /\ 7 \in 1..k /\ 8 \in 1..k
          /\ 5 <= L /\ 6 <= L /\ 7 <= L /\ 8 <= L
      BY <1>1, <1>5, <1>8, SMT
    <3> QED
      BY <2>2, <3>1
  <2>4. Len(m) = L
    <3>1. Len(m) = 8 + (L - 8)
      BY <1>4, <1>5, <1>8, <2>3
    <3> QED
      BY <1>8, <3>1, SMT
  <2>5. \A j \in 1..L : m[j] = r[j]
    <3>1. ASSUME NEW j \in 1..L
          PROVE  m[j] = r[j]
      <4>1. j \in 1..k /\ j <= L
        BY <1>1, <1>4, <1>8, <2>4, SMTT(30)
      <4> QED
        BY <1>4, <2>2, <2>4, <4>1
    <3> QED
      BY <3>1
  <2>6. m = r
    <3> HIDE DEF m
    <3>1. m \in Seq(Byte) /\ r \in Seq(Byte) /\ Len(m) = Len(r) /\ \A j \in 1..Len(m) : m[j] = r[j]
      BY <1>4, <1>8, <2>4, <2>5 DEF L
    <3> QED
      BY <3>1, SeqEqual, Zenon
  <2>7. pos[i] <= k
    BY <1>1, <1>4, <1>8, <1>11, <1>14, <2>4, SMTT(30)
  <2> QED
    BY <1>4, <2>6, <2>7 DEF r, d
<1>15. CASE q = L
  <2>1. 2 \in 1..k /\ 2 = pos[i] + 1
    BY <1>1, <1>5, <1>8, <1>11, <1>15, SMT
  <2>2. d[2] = 3
    BY <1>13, <2>1
  <2> DEFINE y == d[1]
  <2>3. y \in 1..4 /\ y + 3 = 255
    BY <1>5, <2>2
  <2> HIDE DEF y
  <2> QED
    BY <2>3, SMT
<1>16. CASE q \in 2..L - 1
  <2>1. /\ 1 \in 1..k /\ 2 \in 1..k /\ 3 \in 1..k
        /\ q + 1 - 1 = q /\ q + 2 - 1 = q + 1 /\ q + 1 - 1 <= L /\ q + 2 - 1 <= L
    BY <1>1, <1>5, <1>8, <1>16, SMT
  <2>2. d[1] = r[q] /\ d[2] = r[q + 1]
    BY <1>12, <2>1
  <2>3. HeaderImage(r, q)
    BY <1>5, <2>2 DEF HeaderImage
  <2>4. q + 1 = L \/ ~TypeByte(r[q + 2])
    BY <1>8, <1>16, <2>3 DEF HeaderFree, L
  <2>5. CASE q + 1 = L
    <3>1. 3 = pos[i] + 1
      BY <1>8, <1>11, <2>5, SMT
    <3>2. d[3] = 3
      BY <1>13, <2>1, <3>1
    <3>3. ~TypeByte(3)
      BY SMT DEF TypeByte
    <3> QED
      BY <1>6, <3>2, <3>3
  <2>6. CASE q + 1 # L
    <3>1. q + 3 - 1 <= L /\ q + 3 - 1 = q + 2
      BY <1>8, <1>16, <2>6, SMT
    <3>2. d[3] = r[q + 2]
      BY <1>12, <2>1, <3>1
    <3> QED
      BY <1>6, <2>4, <2>6, <3>2
  <2> QED
    BY <2>5, <2>6
<1> QED
  <2>1. q \in 1..L
    BY <1>11
  <2>2. q = 1 \/ q = L \/ q \in 2..L - 1
    BY <1>0, <2>1, SMT
  <2> QED
    BY <1>14, <1>15, <1>16, <2>2

\* The responses of the ECUs hold no image of a DoIP header. The UDS mock's never
\* do; what an ECU answers is not up to this code.
BusWithoutHeaders == \A b \in BusResponses : NoHeaderImage(b)

\* The client took the messages of these numbers, and read beyond them.
Took(pos, taken) ==
    /\ Layout(toClient, replies, pos) /\ pos[0] <= 0
    /\ taken \in SUBSET (1..Len(replies)) /\ \A i \in taken : pos[i] <= 0
    /\ Cardinality(taken) = Len(got)
    /\ \A i \in taken : got[Rank(taken, i)] = replies[i]

ReadInv ==
    /\ \A i \in 1..Len(replies) : Reply(replies[i])
    /\ \A i \in 1..Len(rx) : NoHeaderImage(rx[i])
    /\ \E pos, taken : Took(pos, taken)

LEMMA NothingRead ==
    ASSUME toClient = <<>>, replies = <<>>, got = <<>>, rx = <<>>
    PROVE  ReadInv
<1> DEFINE pos == [i \in 0..0 |-> 0]
<1>1. Layout(toClient, replies, pos) /\ pos[0] <= 0
  <2>1. pos[0] <= 0
    BY SMT
  <2> QED
    BY <2>1, LayoutEmpty
<1>2. \A i : i \notin 1..Len(replies) /\ i \notin 1..Len(rx)
  BY EmptyBytes, SMT
<1>3. Cardinality({}) = Len(got)
  BY EmptyBytes, FS_EmptySet
<1> HIDE DEF pos
<1>4. Took(pos, {})
  BY <1>1, <1>3 DEF Took
<1> QED
  BY <1>2, <1>4 DEF ReadInv

LEMMA NothingReadNext ==
    ASSUME toClient' = <<>>, replies' = <<>>, got' = <<>>, rx' = <<>>
    PROVE  ReadInv'
<1> DEFINE pos == [i \in 0..0 |-> 0]
<1>1. Layout(toClient', replies', pos) /\ pos[0] <= 0
  <2>1. pos[0] <= 0
    BY SMT
  <2> QED
    BY <2>1, LayoutEmpty
<1>2. \A i : i \notin 1..Len(replies') /\ i \notin 1..Len(rx')
  BY EmptyBytes, SMT
<1>3. Cardinality({}) = Len(got')
  BY EmptyBytes, FS_EmptySet
<1> HIDE DEF pos
<1>4. Took(pos, {})'
  BY <1>1, <1>3 DEF Took
<1> QED
  BY <1>2, <1>4 DEF ReadInv

LEMMA ReadKept ==
    ASSUME ReadInv, UNCHANGED <<toClient, replies, got>>,
           (\A i \in 1..Len(rx) : NoHeaderImage(rx[i]))'
    PROVE  ReadInv'
  BY DEF ReadInv, Took

\* The connection sends.
LEMMA ReadSend ==
    ASSUME Typed, ReadInv, NEW m, Reply(m), Send(m), UNCHANGED got,
           (\A i \in 1..Len(rx) : NoHeaderImage(rx[i]))'
    PROVE  ReadInv'
<1> DEFINE R == Len(replies)
           all == Append(replies, m)
<1>1. m \in Seq(Byte) /\ replies' = all /\ toClient' = toClient \o m
  BY DEF Reply, Send
<1>2. replies \in Seq(Seq(Byte)) /\ toClient \in Seq(Byte)
  BY DEF Typed
<1>3. /\ R \in Nat /\ Len(all) = R + 1 /\ all[R + 1] = m
      /\ \A i \in 1..R : all[i] = replies[i]
  BY <1>1, <1>2, AppendMessage
<1>4. PICK pos, taken : Took(pos, taken)
  BY DEF ReadInv
<1>5. /\ Layout(toClient, replies, pos) /\ pos[0] <= 0
      /\ taken \in SUBSET (1..R) /\ \A i \in taken : pos[i] <= 0
      /\ Cardinality(taken) = Len(got)
      /\ \A i \in taken : got[Rank(taken, i)] = replies[i]
  BY <1>4 DEF Took
<1> DEFINE next == [i \in 0..R + 1 |-> IF i = R + 1 THEN Len(toClient) + Len(m) ELSE pos[i]]
<1>6. Layout(toClient \o m, all, next)
  BY <1>1, <1>2, <1>5, LayoutSend
<1> HIDE DEF R, all
<1>7. ASSUME NEW i \in 0..R
      PROVE  next[i] = pos[i]
  BY <1>3, SMT
<1> HIDE DEF next
<1>8. /\ 0 \in 0..R /\ (\A i \in 1..R : i \in 0..R /\ i \in 1..R + 1)
      /\ \A i \in 1..R + 1 : i \in 1..R \/ i = R + 1
  BY <1>3, SMT
<1>9. PICK p : p = next
  OBVIOUS
<1>10. /\ p[0] <= 0 /\ taken \in SUBSET (1..R + 1) /\ \A i \in taken : p[i] <= 0
  BY <1>5, <1>7, <1>8, <1>9
<1>11. \A i \in taken : got[Rank(taken, i)] = all[i]
  BY <1>3, <1>5
<1>12. Took(p, taken)'
  BY <1>1, <1>3, <1>5, <1>6, <1>9, <1>10, <1>11 DEF Took
<1>13. (\A i \in 1..Len(replies) : Reply(replies[i]))'
  <2>1. \A i \in 1..R : Reply(replies[i])
    BY DEF ReadInv, R
  <2>2. \A i \in 1..R + 1 : Reply(all[i])
    BY <1>3, <1>8, <2>1
  <2> QED
    BY <1>1, <1>3, <2>2
<1> QED
  BY <1>12, <1>13 DEF ReadInv

\* A write to a connection that the server closed may empty the stream.
LEMMA ReadWrite ==
    ASSUME Typed, ReadInv, UNCHANGED <<replies, got, rx>>,
           toClient' = toClient \/ toClient' = <<>>
    PROVE  ReadInv'
<1>1. CASE toClient' = toClient
  BY <1>1, ReadKept DEF ReadInv
<1>2. CASE toClient' = <<>>
  <2> DEFINE k == Len(toClient)
             R == Len(replies)
  <2>1. toClient \in Seq(Byte) /\ replies \in Seq(Seq(Byte)) /\ k \in Nat /\ R \in Nat
    BY LenProperties DEF Typed
  <2>2. k \in 0..Len(toClient)
    BY <2>1, SMT
  <2>3. Rest(toClient, k) = <<>>
    <3>1. Rest(toClient, k) \in Seq(Byte) /\ Len(Rest(toClient, k)) = Len(toClient) - k
      BY <2>1, <2>2, RestBytes, Zenon
    <3>2. Len(toClient) - k = 0
      BY <2>1, SMT
    <3> QED
      BY <3>1, <3>2, EmptySeq
  <2>4. PICK pos, taken : Took(pos, taken)
    BY DEF ReadInv
  <2>5. /\ Layout(toClient, replies, pos) /\ pos[0] <= 0
        /\ taken \in SUBSET (1..R) /\ \A i \in taken : pos[i] <= 0
        /\ Cardinality(taken) = Len(got)
        /\ \A i \in taken : got[Rank(taken, i)] = replies[i]
    BY <2>4 DEF Took
  <2> DEFINE next == [i \in 0..R |-> pos[i] - k]
  <2>6. Layout(<<>>, replies, next)
    BY <2>1, <2>2, <2>3, <2>5, LayoutRead
  <2>7. pos \in [0..R -> Int]
    BY <2>5 DEF Layout
  <2> HIDE DEF k, R
  <2>8. ASSUME NEW i \in 0..R, pos[i] <= 0
        PROVE  next[i] <= 0
    <3>1. next[i] = pos[i] - k /\ pos[i] \in Int
      BY <2>7
    <3> HIDE DEF next
    <3> QED
      BY <2>1, <2>8, <3>1, SMT
  <2>9. 0 \in 0..R /\ \A i \in 1..R : i \in 0..R
    BY <2>1, SMT
  <2> HIDE DEF next
  <2>10. PICK p : p = next
    OBVIOUS
  <2>11. p[0] <= 0 /\ \A i \in taken : p[i] <= 0
    BY <2>5, <2>8, <2>9, <2>10
  <2>12. Took(p, taken)'
    BY <1>2, <2>5, <2>6, <2>10, <2>11 DEF Took, R
  <2> QED
    BY <2>12 DEF ReadInv
<1> QED
  BY <1>1, <1>2

\* The client reads a part of the stream and takes the message it begins with, if
\* it begins with one.
LEMMA ReadReceive ==
    ASSUME Typed, ReadInv, receiveMessage
    PROVE  ReadInv'
<1>1. PICK n \in SegmentSizes :
          LET k == Smaller(Smaller(n, _maxDataSize), Len(toClient))
          IN  /\ toClient' = Rest(toClient, k)
              /\ got' = got \o tryParse(Slice(toClient, 0, k))
  BY DEF receiveMessage
<1> DEFINE k == Smaller(Smaller(n, _maxDataSize), Len(toClient))
           parsed == tryParse(Slice(toClient, 0, k))
           R == Len(replies)
<1>2. toClient' = Rest(toClient, k) /\ got' = got \o parsed
  BY <1>1
<1>3. /\ toClient \in Seq(Byte) /\ replies \in Seq(Seq(Byte)) /\ got \in Seq(Seq(Byte))
      /\ Len(toClient) \in Nat /\ R \in Nat /\ Len(got) \in Nat
  BY LenProperties DEF Typed
<1>4. k \in 0..Len(toClient) /\ k \in Nat
  <2>1. n \in Nat /\ _maxDataSize \in Nat
    BY SegmentSizesAssumption, SMT DEF _maxDataSize
  <2>2. Smaller(n, _maxDataSize) \in Nat
    BY <2>1, SmallerBounds
  <2>3. k \in Nat /\ k <= Len(toClient)
    BY <1>3, <2>2, SmallerBounds
  <2> HIDE DEF k
  <2> QED
    BY <1>3, <2>3, SMT
<1>5. UNCHANGED <<replies, rx>> /\ toClient # <<>>
  BY DEF receiveMessage, connectionVars, downstreamVars
<1> HIDE DEF k
<1>6. PICK pos, taken : Took(pos, taken)
  BY DEF ReadInv
<1>7. /\ Layout(toClient, replies, pos) /\ pos[0] <= 0
      /\ taken \in SUBSET (1..R) /\ \A i \in taken : pos[i] <= 0
      /\ Cardinality(taken) = Len(got)
      /\ \A i \in taken : got[Rank(taken, i)] = replies[i]
  BY <1>6 DEF Took
<1>8. /\ pos \in [0..R -> Int]
      /\ \A i \in 0..R, j \in 0..R : i <= j => pos[i] <= pos[j]
  BY <1>7 DEF Layout
<1> DEFINE next == [i \in 0..R |-> pos[i] - k]
<1>9. Layout(Rest(toClient, k), replies, next)
  BY <1>3, <1>4, <1>7, LayoutRead
<1>10. PICK i \in 1..R : pos[i - 1] <= 0 /\ pos[i] > 0
  BY <1>3, <1>5, <1>7, CurrentMessage
<1>11. parsed # None => parsed = Some(replies[i]) /\ pos[i] <= k
  BY <1>3, <1>4, <1>7, <1>10, ChunkParsed DEF ReadInv
<1> HIDE DEF R, parsed
<1>12. ASSUME NEW j \in 0..R, pos[j] <= k
       PROVE  next[j] <= 0
  <2>1. next[j] = pos[j] - k /\ pos[j] \in Int
    BY <1>8
  <2> HIDE DEF next
  <2> QED
    BY <1>4, <1>12, <2>1, SMT
<1>13. ASSUME NEW j \in 0..R, pos[j] <= 0
       PROVE  next[j] <= 0
  <2>1. pos[j] \in Int
    BY <1>8
  <2>2. pos[j] <= k
    BY <1>4, <1>13, <2>1, SMT
  <2> QED
    BY <1>12, <2>2
<1>14. 0 \in 0..R /\ i \in 0..R /\ i - 1 \in 0..R /\ i - 1 \in Nat /\ (i - 1) + 1 = i
       /\ \A j \in 1..R : j \in 0..R
  BY <1>3, SMT
<1> HIDE DEF next
<1>15. PICK p : p = next
  OBVIOUS
<1>16. Layout(toClient', replies', p)
  BY <1>2, <1>5, <1>9, <1>15
<1>17. p[0] <= 0 /\ \A j \in taken : p[j] <= 0
  BY <1>7, <1>13, <1>14, <1>15
<1>18. CASE parsed = None
  <2>1. got' = got
    BY <1>2, <1>3, <1>18, ConcatEmptySeq DEF None
  <2>2. Took(p, taken)'
    BY <1>5, <1>7, <1>16, <1>17, <2>1 DEF Took, R
  <2> QED
    BY <1>5, <2>2 DEF ReadInv
<1>19. CASE parsed # None
  <2>1. parsed = <<replies[i]>> /\ pos[i] <= k
    BY <1>11, <1>19 DEF Some
  <2>2. replies[i] \in Seq(Byte)
    BY <1>3, <1>10, ElementOfSeq DEF R
  <2> DEFINE all == got \o <<replies[i]>>
             G == Len(got)
             more == taken \cup {i}
  <2>3. /\ Len(all) = G + 1 /\ all[G + 1] = replies[i]
        /\ \A j \in 1..G : all[j] = got[j]
    <3>1. /\ <<replies[i]>> \in Seq(Seq(Byte)) /\ Len(<<replies[i]>>) = 1
          /\ <<replies[i]>>[1] = replies[i]
      BY <2>2, OneMessage
    <3>2. all = Append(got, replies[i])
      BY <1>3, <2>2, AppendIsConcat
    <3> QED
      BY <1>3, <2>2, <3>2, AppendMessage
  <2>4. got' = all
    BY <1>2, <2>1
  <2> HIDE DEF all, G
  <2>5. taken \in SUBSET (1..(i - 1))
    <3>1. ASSUME NEW j \in taken
          PROVE  j \in 1..(i - 1)
      <4>1. j \in 1..R /\ j \in 0..R /\ pos[j] <= 0
        BY <1>7, <1>14
      <4>2. ~(i <= j)
        <5> SUFFICES ASSUME i <= j
                     PROVE  FALSE
          OBVIOUS
        <5>1. pos[i] <= pos[j] /\ pos[i] \in Int /\ pos[j] \in Int /\ pos[i] > 0
          BY <1>8, <1>10, <1>14, <4>1
        <5> QED
          BY <4>1, <5>1, SMT
      <4> QED
        BY <1>3, <4>1, <4>2, SMT
    <3> QED
      BY <3>1
  <2>6. /\ Cardinality(more) = Cardinality(taken) + 1
        /\ \A j \in taken : Rank(more, j) = Rank(taken, j)
        /\ Rank(more, i) = Cardinality(taken) + 1
    BY <1>14, <2>5, RankAdd, ZenonT(40)
  <2>7. \A j \in taken : Rank(taken, j) \in 1..G
    BY <1>3, <1>7, RankBounds DEF G
  <2>8. \A j \in more : all[Rank(more, j)] = replies[j]
    BY <1>7, <2>3, <2>6, <2>7 DEF G
  <2>9. more \in SUBSET (1..R) /\ Cardinality(more) = Len(all)
    BY <1>7, <2>3, <2>6 DEF G
  <2>10. \A j \in more : p[j] <= 0
    BY <1>12, <1>14, <1>15, <1>17, <2>1
  <2> HIDE DEF more
  <2>11. Took(p, more)'
    BY <1>5, <1>16, <1>17, <2>4, <2>8, <2>9, <2>10 DEF Took, R, more
  <2> QED
    BY <1>5, <2>11 DEF ReadInv
<1> QED
  BY <1>18, <1>19

LEMMA ReadStep ==
    ASSUME BusWithoutHeaders
    PROVE  WireInv /\ ReadInv /\ [Next]_vars => ReadInv'
<1> SUFFICES ASSUME WireInv, ReadInv, [Next]_vars
             PROVE  ReadInv'
  OBVIOUS
<1>1. Typed /\ OneInProgress
  BY TypedNow DEF WireInv
<1>0. \A i : i \notin 1..Len(<<>>)
  BY EmptyBytes, SMT
<1>2. CASE Discover \/ UNCHANGED vars
  BY <1>2, ReadKept DEF ReadInv, Discover, vars, connectionVars, downstreamVars, history
<1>3. CASE Connects
  BY <1>3, NothingReadNext DEF Connects, startTcpConnection, reconnectServer, NewConnection
<1>4. CASE Writes
  <2>1. UNCHANGED <<replies, got, rx>> /\ (toClient' = toClient \/ toClient' = <<>>)
    BY <1>4 DEF Writes, Write, connectionVars, downstreamVars
  <2> QED
    BY <1>1, <2>1, ReadWrite
<1>5. CASE receiveMessage
  BY <1>1, <1>5, ReadReceive
<1>6. CASE receiveError \/ receiveEmpty
  BY <1>6, ReadKept DEF ReadInv, receiveError, receiveEmpty, connectionVars, downstreamVars, history
<1>7. CASE receiveExactly
  <2>1. PICK k \in Nat : Reading(k)
    BY <1>1, <1>7, ReadingSome DEF WireInv
  <2>2. k \in 0..Len(toServer) /\ Receive(Bytes(k))
    BY <2>1 DEF Reading, Bytes
  <2>3. Bytes(k) \in Seq(Byte)
    BY <1>1, <2>2, BytesRead
  <2>4. UNCHANGED <<toClient, replies, got>>
    BY <1>7 DEF receiveExactly
  <2>5. rx' = <<>> \/ rx' = rx
    BY <2>2, <2>3, ReceiveOutcomes DEF Complete, GiveUp, StopWorker, downstreamVars
  <2>6. (\A i \in 1..Len(rx) : NoHeaderImage(rx[i]))'
    BY <1>0, <2>5 DEF ReadInv
  <2> QED
    BY <2>4, <2>6, ReadKept
<1>8. CASE Dispatches
  <2>1. /\ CloseConnection \/ Ignore \/ Answered \/ Acknowledged
        /\ got' = got
    BY <1>1, <1>8, DispatchOutcomes
  <2>2. CASE CloseConnection \/ Ignore
    <3>1. UNCHANGED <<toClient, replies>> /\ (rx' = <<>> \/ rx' = rx)
      BY <2>2 DEF CloseConnection, Ignore, StopWorker, downstreamVars
    <3>2. (\A i \in 1..Len(rx) : NoHeaderImage(rx[i]))'
      BY <1>0, <3>1 DEF ReadInv
    <3> QED
      BY <2>1, <3>1, <3>2, ReadKept
  <2>3. CASE Answered \/ Acknowledged
    <3>1. PICK m : (Ack(m) \/ Activation(m)) /\ Send(m) /\ rx' = rx
      BY <2>3 DEF Answered, Acknowledged, downstreamVars
    <3>2. Reply(m)
      BY <3>1, AckReply, ActivationReply
    <3>3. (\A i \in 1..Len(rx) : NoHeaderImage(rx[i]))'
      BY <3>1 DEF ReadInv
    <3> QED
      BY <1>1, <2>1, <3>1, <3>2, <3>3, ReadSend
  <2> QED
    BY <2>1, <2>2, <2>3
<1>9. CASE Moves
  BY <1>9, MovesNothing, ReadKept DEF ReadInv, history
<1>12. CASE Enqueue
  BY <1>12, ReadKept DEF ReadInv, Enqueue
<1>10. CASE \E r : Provided(r)
  <2>1. PICK r : Provided(r)
    BY <1>10
  <2>2. UNCHANGED <<toClient, replies, got>>
    BY <2>1 DEF Provided, Provide, history
  <2>3. Len(rx') = 1 /\ rx'[1] = r
    BY <1>1, <2>1, ProvideQueues
  <2>4. NoHeaderImage(r)
    <3>1. CASE provider = "uds"
      BY <2>1, <3>1 DEF Provided
    <3>2. CASE provider = "can"
      <4>1. r \in BusResponses \/ r = <<>>
        BY <2>1, <3>2 DEF Provided
      <4>2. NoHeaderImage(<<>>)
        BY EmptyResponse DEF MockResponse
      <4> QED
        BY <4>1, <4>2 DEF BusWithoutHeaders
    <3> QED
      BY <1>1, <3>1, <3>2 DEF Typed
  <2>5. \A i \in 1..1 : i = 1
    BY SMT
  <2>6. (\A i \in 1..Len(rx) : NoHeaderImage(rx[i]))'
    BY <2>3, <2>4, <2>5
  <2> QED
    BY <2>2, <2>6, ReadKept
<1>11. CASE receiveDownstreamResponse
  <2> DEFINE m == makeDiagnosticMessage(serverAddress, clientAddress, rx[1])
  <2>1. /\ Len(rx) = 1 /\ rx' = <<>> /\ rx[1] \in Seq(Byte) /\ got' = got
        /\ Send(m) \/ UNCHANGED <<replies, toClient>>
        /\ Addressed(m, DoIPPayloadType.DiagnosticMessage, serverAddress, clientAddress, rx[1])
    BY <1>1, <1>11, RespondQueues
  <2> HIDE DEF m
  <2>2. NoHeaderImage(rx[1]) /\ clientAddress \in Word
    <3>1. 1 \in 1..1
      BY SMT
    <3> QED
      BY <1>1, <2>1, <3>1 DEF ReadInv, Typed
  <2>3. Reply(m)
    BY <2>1, <2>2, ResponseReply
  <2>4. (\A i \in 1..Len(rx) : NoHeaderImage(rx[i]))'
    BY <1>0, <2>1
  <2>5. CASE Send(m)
    BY <1>1, <2>1, <2>3, <2>4, <2>5, ReadSend
  <2>6. CASE UNCHANGED <<replies, toClient>>
    BY <2>1, <2>4, <2>6, ReadKept
  <2> QED
    BY <2>1, <2>5, <2>6
<1> QED
  BY <1>2, <1>3, <1>4, <1>5, <1>6, <1>7, <1>8, <1>9, <1>10, <1>11, <1>12, Steps

LEMMA TakenReplies == ReadInv => ClientReadsReplies
  BY DEF ReadInv, Took, ClientReadsReplies

\* However TCP cuts what the server sends, what DoIPClient::receiveMessage takes for
\* a message is one the server sent, in order and at most once, though the client
\* throws away what follows the first message of a read and reads on in the middle
\* of the next: as long as no response from the bus holds the image of a header.
THEOREM RepliesRead == BusWithoutHeaders => (Spec => []ClientReadsReplies)
<1> SUFFICES ASSUME BusWithoutHeaders
             PROVE  Spec => []ClientReadsReplies
  OBVIOUS
<1>1. Init => ReadInv
  BY NothingRead DEF Init
<1>2. WireInv /\ ReadInv /\ [Next]_vars => ReadInv'
  BY ReadStep
<1>3. ReadInv => ClientReadsReplies
  BY TakenReplies
<1> QED
  BY <1>1, <1>2, <1>3, WireInvariant, PTL DEF Spec

=============================================================================
