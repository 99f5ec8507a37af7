---------------------------- MODULE MCExchange ----------------------------
(***************************************************************************)
(* A small instance of Exchange.                                           *)
(***************************************************************************)
EXTENDS Exchange

Lowercase == <<119, 118, 119, 49>>      \* "wvw1"

Mac == <<2, 66, 172, 17, 0, 2>>

MCInterfaces ==
    << [loopback |-> TRUE, readable |-> TRUE, mac |-> EidZero],
       [loopback |-> FALSE, readable |-> TRUE, mac |-> EidZero],
       [loopback |-> FALSE, readable |-> TRUE, mac |-> Mac] >>

\* A configuration made by the setters.
MCConfigs ==
    { setLogicalGatewayAddress(
          setGid(setDefaultEid(setVin(DefaultServerConfig, Lowercase), MCInterfaces),
                 <<9, 9, 6, 5, 4, 3, 2, 1>>), 3584) }

\* Another vehicle leaves out the further action; one is cut short.
OtherVehicle ==
    getPayload(makeVehicleIdentificationResponse(DoIpVin(<<88>>), 17, DoIpEid(<<7>>),
                                                 DoIpEid(<<8>>), 16, 0))

MCForeignDatagrams ==
    { buildMessage(DoIPPayloadType.VehicleIdentificationResponse, Slice(OtherVehicle, 0, n)) :
        n \in {25, 31} }

\* Read the VIN, read something else, nothing.
MCRequests == { <<34, 241, 144>>, <<34, 1, 2>>, <<>> }

\* A message of version 2 the server does not support, a diagnostic message of
\* another tester, one without addresses, a payload that is too long.
MCForeignBytes ==
    { <<2, 253>> \o Rest(makeAliveCheckRequest, 2),
      makeDiagnosticMessage(1, serverAddress, <<62, 0>>),
      buildMessage(DoIPPayloadType.DiagnosticMessage, <<224>>),
      <<3, 252, 128, 1, 0, 0, 16, 0>> }

MCBusResponses == { <<98, 1, 2, 3>> }
=============================================================================
