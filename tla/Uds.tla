-------------------------------- MODULE Uds --------------------------------
(***************************************************************************)
(* The UDS mock (src/uds/UdsMock.cpp, inc/uds): the table of services with  *)
(* the lengths of their requests and responses, the registry of handlers,   *)
(* and how a request is validated, dispatched and answered. A registry maps *)
(* service ids to handlers; a response is a code and data.                  *)
(***************************************************************************)
EXTENDS ByteArray

UdsService ==
    [DiagnosticSessionControl |-> 16, ECUReset |-> 17,
     ClearDiagnosticInformation |-> 20, ReadDTCInformation |-> 25,
     ReadDataByIdentifier |-> 34, ReadMemoryByAddress |-> 35,
     ReadScalingDataByIdentifier |-> 36, SecurityAccess |-> 39,
     CommunicationControl |-> 40, ReadDataByPeriodicIdentifier |-> 42,
     DynamicallyDefineDataIdentifier |-> 44, WriteDataByIdentifier |-> 46,
     RequestDownload |-> 52, TransferData |-> 54, RequestTransferExit |-> 55,
     WriteMemoryByAddress |-> 61, TesterPresent |-> 62,
     AccessTimingParameters |-> 131, SecuredDataTransmission |-> 132,
     ControlDTCSetting |-> 133, ResponseOnEvent |-> 134, LinkControl |-> 135]

\* The response codes the mock and its provider use.
UdsResponseCode ==
    [OK |-> 0, ServiceNotSupported |-> 17,
     IncorrectMessageLengthOrInvalidFormat |-> 19, RequestOutOfRange |-> 49,
     GeneralProgrammingFailure |-> 114]

UDS_POSITIVE_RESPONSE_OFFSET == 64
NegativeResponseIndicator == 127
MAX_UDS_MESSAGE_LENGTH == 4095

-----------------------------------------------------------------------------
(* The table of services.                                                  *)

\* The services that set no upper limit to request and response.
Unlimited(names, minReq, minRsp) ==
    {[service |-> UdsService[n], minReq |-> minReq, maxReq |-> MAX_UDS_MESSAGE_LENGTH,
      minRsp |-> minRsp, maxRsp |-> MAX_UDS_MESSAGE_LENGTH] : n \in names}

\* The services whose request has exactly two bytes.
SubFunctionOnly(names, rsp) ==
    {[service |-> UdsService[n], minReq |-> 2, maxReq |-> 2,
      minRsp |-> rsp, maxRsp |-> rsp] : n \in names}

UDS_SERVICE_DESCRIPTORS ==
    SubFunctionOnly({"DiagnosticSessionControl"}, 6)
    \cup SubFunctionOnly({"ECUReset", "TesterPresent", "RequestTransferExit"}, 2)
    \cup Unlimited({"SecurityAccess", "CommunicationControl", "AccessTimingParameters",
                    "SecuredDataTransmission", "ControlDTCSetting", "ResponseOnEvent",
                    "LinkControl", "ReadDTCInformation"}, 2, 3)
    \cup Unlimited({"ReadScalingDataByIdentifier", "ReadDataByPeriodicIdentifier",
                    "DynamicallyDefineDataIdentifier", "ClearDiagnosticInformation",
                    "TransferData"}, 3, 3)
    \cup Unlimited({"ReadDataByIdentifier"}, 3, 4)
    \cup Unlimited({"ReadMemoryByAddress"}, 4, 4)
    \cup Unlimited({"WriteDataByIdentifier", "WriteMemoryByAddress"}, 4, 3)
    \cup Unlimited({"RequestDownload"}, 6, 5)

\* The descriptor of a service, if there is one.
findServiceDescriptor(sid) ==
    LET found == {d \in UDS_SERVICE_DESCRIPTORS : d.service = sid}
    IN  IF found = {} THEN None ELSE Some(CHOOSE d \in found : TRUE)

-----------------------------------------------------------------------------
(* The registry.                                                           *)

NoServices == [sid \in {} |-> "default"]

registerService(handlers, sid, handler) ==
    [s \in DOMAIN handlers \cup {sid} |-> IF s = sid THEN handler ELSE handlers[s]]

\* Every service but the three of a download gets a handler that answers
\* ServiceNotSupported without data.
DefaultServices ==
    {UdsService[n] : n \in DOMAIN UdsService \
                          {"RequestDownload", "TransferData", "RequestTransferExit"}}

registerDefaultServices(handlers) ==
    [s \in DOMAIN handlers \cup DefaultServices |->
        IF s \in DefaultServices THEN "default" ELSE handlers[s]]

-----------------------------------------------------------------------------
(* The handlers. The typed ones read their argument from the request.      *)

SubFunction(request) == At(request, 1)
DataIdentifier(request) == readU16BE(request, 1)

Positive(data) == [code |-> UdsResponseCode.OK, data |-> data]
Negative(code) == [code |-> code, data |-> <<>>]

\* UdsMockProvider's session control: the session, P2 = 2000 ms and
\* P2* = 400 * 10 ms.
SessionParameters(request) ==
    Positive(writeU16BE(writeU16BE(<<SubFunction(request)>>, 2000), 400))

\* UdsMockProvider knows one identifier, the VIN 1HGCM82633A123456.
VinIdentifier == 61840
MockVin == <<49, 72, 71, 67, 77, 56, 50, 54, 51, 51, 65, 49, 50, 51, 52, 53, 54>>

ReadVin(request) ==
    IF DataIdentifier(request) = VinIdentifier
    THEN Positive(U16BE(VinIdentifier) \o MockVin)
    ELSE Negative(UdsResponseCode.RequestOutOfRange)

\* What a handler returns for a request.
handle(handler, request) ==
    CASE handler = "default"       -> Negative(UdsResponseCode.ServiceNotSupported)
      [] handler = "session"       -> SessionParameters(request)
      [] handler = "subFunction"   -> Positive(<<SubFunction(request)>>)
      [] handler = "readVin"       -> ReadVin(request)
      [] handler = "writeAccepted" -> Positive(U16BE(DataIdentifier(request)))

\* The services of UdsMockProvider: the defaults, five of them replaced.
UdsMockProvider ==
    LET Replace(handlers, name, handler) ==
            registerService(handlers, UdsService[name], handler)
    IN  Replace(Replace(Replace(Replace(Replace(registerDefaultServices(NoServices),
            "DiagnosticSessionControl", "session"),
            "ReadDataByIdentifier", "readVin"),
            "TesterPresent", "subFunction"),
            "ECUReset", "subFunction"),
            "WriteDataByIdentifier", "writeAccepted")

-----------------------------------------------------------------------------
(* Answering a request.                                                    *)

\* Mutant: a refusal does not name the service.
makeResponseUnnamed(request, responseCode, extraData) ==
    IF responseCode # UdsResponseCode.OK
    THEN <<NegativeResponseIndicator, 0, responseCode>>
    ELSE <<(At(request, 0) + UDS_POSITIVE_RESPONSE_OFFSET) % 256>> \o extraData

makeResponse(request, responseCode, extraData) ==
    IF responseCode # UdsResponseCode.OK
    THEN <<NegativeResponseIndicator, At(request, 0), responseCode>>
    ELSE <<(At(request, 0) + UDS_POSITIVE_RESPONSE_OFFSET) % 256>> \o extraData

\* The length of the response is checked whatever code the handler returned.
handleDiagnosticRequest(handlers, request) ==
    LET sid   == At(request, 0)
        found == findServiceDescriptor(sid)
        desc  == Value(found)
        resp  == handle(handlers[sid], request)
    IN  IF request = <<>> THEN <<>>
        ELSE IF found = None
          THEN makeResponse(request, UdsResponseCode.ServiceNotSupported, <<>>)
        ELSE IF Len(request) \notin desc.minReq..desc.maxReq
          THEN makeResponse(request,
                   UdsResponseCode.IncorrectMessageLengthOrInvalidFormat, <<>>)
        ELSE IF sid \notin DOMAIN handlers
          THEN makeResponse(request, UdsResponseCode.ServiceNotSupported, <<>>)
        ELSE IF Len(resp.data) + 1 \notin desc.minRsp..desc.maxRsp
          THEN makeResponse(request, UdsResponseCode.GeneralProgrammingFailure, <<>>)
        ELSE makeResponse(request, resp.code, resp.data)
=============================================================================
