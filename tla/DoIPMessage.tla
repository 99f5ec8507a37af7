---------------------------- MODULE DoIPMessage ----------------------------
(***************************************************************************)
(* DoIP messages (inc/DoIPMessage.h, inc/DoIPPayloadType.h): a header of    *)
(* eight bytes and the payload in one byte string, how they are built and   *)
(* parsed, the fields read from them, and the factories that make them.     *)
(***************************************************************************)
EXTENDS Identifiers

DOIP_HEADER_SIZE == 8
DOIP_DIAG_HEADER_SIZE == DOIP_HEADER_SIZE + 4

PROTOCOL_VERSION == 3
PROTOCOL_VERSION_INV == 255 - PROTOCOL_VERSION

DoIPPayloadType ==
    [NegativeAck |-> 0, VehicleIdentificationRequest |-> 1,
     VehicleIdentificationRequestWithEid |-> 2,
     VehicleIdentificationRequestWithVin |-> 3,
     VehicleIdentificationResponse |-> 4, RoutingActivationRequest |-> 5,
     RoutingActivationResponse |-> 6, AliveCheckRequest |-> 7,
     AliveCheckResponse |-> 8, EntityStatusRequest |-> 16385,
     EntityStatusResponse |-> 16386, DiagnosticPowerModeRequest |-> 16387,
     DiagnosticPowerModeResponse |-> 16388, DiagnosticMessage |-> 32769,
     DiagnosticMessageAck |-> 32770, DiagnosticMessageNegativeAck |-> 32771,
     PeriodicDiagnosticMessage |-> 32772]

isValidPayloadType(value) == value \in 0..8 \cup 16385..16388 \cup 32769..32772

toPayloadType(value) == IF isValidPayloadType(value) THEN Some(value) ELSE None

-----------------------------------------------------------------------------
(* Building and parsing.                                                   *)

buildMessage(payloadType, payload) ==
    writeU32BE(writeU16BE(<<PROTOCOL_VERSION, PROTOCOL_VERSION_INV>>, payloadType),
               Len(payload)) \o payload

\* Versions 1 to 4 of the standard, followed by the complement.
isValidProtocolVersion(data) ==
    /\ Len(data) >= 2
    /\ At(data, 0) \in 1..4
    /\ At(data, 0) + At(data, 1) = 255

\* The payload type and length, if the header is valid.
tryParseHeader(data) ==
    IF Len(data) < DOIP_HEADER_SIZE \/ ~isValidProtocolVersion(data)
        \/ toPayloadType(readU16BE(data, 2)) = None
    THEN None
    ELSE Some([type |-> readU16BE(data, 2), length |-> readU32BE(data, 4)])

\* Mutant: the length in the header is not compared with the data.
tryParseUnchecked(data) == IF tryParseHeader(data) = None THEN None ELSE Some(data)

\* The message at the beginning of the data; what follows it is ignored.
tryParse(data) ==
    LET header == tryParseHeader(data)
    IN  IF header = None THEN None
        ELSE IF Len(data) < DOIP_HEADER_SIZE + Value(header).length THEN None
        ELSE Some(Slice(data, 0, DOIP_HEADER_SIZE + Value(header).length))

-----------------------------------------------------------------------------
(* Fields of a message.                                                    *)

getPayloadType(msg) ==
    IF Len(msg) < DOIP_HEADER_SIZE THEN DoIPPayloadType.NegativeAck
    ELSE readU16BE(msg, 2)

getPayload(msg) == Rest(msg, DOIP_HEADER_SIZE)

getDiagnosticMessagePayload(msg) == Rest(msg, DOIP_DIAG_HEADER_SIZE)

\* The length in the header.
getPayloadLengthFromHeader(msg) == IF Len(msg) < DOIP_HEADER_SIZE THEN 0 ELSE readU32BE(msg, 4)

isValid(msg) ==
    /\ Len(msg) >= DOIP_HEADER_SIZE
    /\ isValidProtocolVersion(msg)
    /\ Len(getPayload(msg)) = getPayloadLengthFromHeader(msg)

hasSourceAddress(msg) ==
    /\ getPayloadType(msg) \in {DoIPPayloadType.DiagnosticMessage,
                                DoIPPayloadType.RoutingActivationRequest,
                                DoIPPayloadType.RoutingActivationResponse,
                                DoIPPayloadType.AliveCheckResponse}
    /\ Len(getPayload(msg)) >= 2

getSourceAddress(msg) ==
    IF hasSourceAddress(msg) THEN Some(readAddressFrom(getPayload(msg), 0)) ELSE None

getTargetAddress(msg) ==
    IF /\ getPayloadType(msg) = DoIPPayloadType.DiagnosticMessage
       /\ Len(getPayload(msg)) >= 4
    THEN Some(readAddressFrom(getPayload(msg), 2)) ELSE None

\* Mutant: getGid asks for the size getEid needs.
IdentificationFieldShortGid ==
    [la  |-> [least |-> 19, from |-> 17, size |-> 2],
     vin |-> [least |-> 17, from |-> 0,  size |-> 17],
     eid |-> [least |-> 25, from |-> 19, size |-> 6],
     gid |-> [least |-> 25, from |-> 25, size |-> 6],
     far |-> [least |-> 31, from |-> 31, size |-> 1]]

\* The fields of a vehicle identification response: the payload size that
\* getLogicalAddress, getVin, getEid, getGid and getFurtherActionRequest ask
\* for, and where in the payload they read.
IdentificationField ==
    [la  |-> [least |-> 19, from |-> 17, size |-> 2],
     vin |-> [least |-> 17, from |-> 0,  size |-> 17],
     eid |-> [least |-> 25, from |-> 19, size |-> 6],
     gid |-> [least |-> 31, from |-> 25, size |-> 6],
     far |-> [least |-> 31, from |-> 31, size |-> 1]]

hasField(msg, f) ==
    /\ getPayloadType(msg) = DoIPPayloadType.VehicleIdentificationResponse
    /\ Len(getPayload(msg)) >= IdentificationField[f].least

\* Bytes read behind the end of the message are whatever memory holds.
getField(msg, f, memory) ==
    IF hasField(msg, f)
    THEN Some(Slice(getPayload(msg) \o memory,
                    IdentificationField[f].from, IdentificationField[f].size))
    ELSE None

-----------------------------------------------------------------------------
(* The factories of namespace message.                                     *)

makeVehicleIdentificationRequest ==
    buildMessage(DoIPPayloadType.VehicleIdentificationRequest, <<>>)

makeVehicleIdentificationResponse(vin, logicalAddress, eid, gid, far, syncStatus) ==
    buildMessage(DoIPPayloadType.VehicleIdentificationResponse,
        writeEnum(writeEnum(writeU16BE(vin, logicalAddress) \o eid \o gid, far), syncStatus))

makeDiagnosticMessage(sa, ta, msgPayload) ==
    buildMessage(DoIPPayloadType.DiagnosticMessage, U16BE(sa) \o U16BE(ta) \o msgPayload)

DIAGNOSTIC_MESSAGE_ACK == 0

makeDiagnosticPositiveResponse(sa, ta, msgPayload) ==
    buildMessage(DoIPPayloadType.DiagnosticMessageAck,
        U16BE(sa) \o U16BE(ta) \o <<DIAGNOSTIC_MESSAGE_ACK>> \o msgPayload)

makeDiagnosticNegativeResponse(sa, ta, nack, msgPayload) ==
    buildMessage(DoIPPayloadType.DiagnosticMessageNegativeAck,
        U16BE(sa) \o U16BE(ta) \o <<nack>> \o msgPayload)

makeAliveCheckRequest == buildMessage(DoIPPayloadType.AliveCheckRequest, <<>>)

makeAliveCheckResponse(sa) ==
    buildMessage(DoIPPayloadType.AliveCheckResponse, U16BE(sa))

makeRoutingActivationRequest(ea, actType) ==
    buildMessage(DoIPPayloadType.RoutingActivationRequest,
        writeEnum(U16BE(ea), actType) \o <<0, 0, 0, 0>>)
=============================================================================
