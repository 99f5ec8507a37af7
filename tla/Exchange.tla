------------------------------ MODULE Exchange ------------------------------
(***************************************************************************)
(* A client and a server talking over TCP, byte for byte: DoIPClient, the   *)
(* server's TcpConnectionTransport, the part of the connection that answers *)
(* and the provider behind DoIPDownstreamServerModel (the UDS mock or       *)
(* CAN ISO-TP). A read returns any part of what is there. The model follows *)
(* the client's current connection; timers and the other threads of the     *)
(* connection are in Connection, descriptors in ServerThreads.              *)
(***************************************************************************)
EXTENDS Discovery, Uds, FiniteSets

CONSTANTS
    Requests,       \* the UDS requests the client sends
    ForeignBytes,   \* what other test equipment writes
    BusResponses,   \* what an ECU answers on the CAN bus
    Providers,      \* subset of {"uds", "can"}
    SegmentSizes,   \* bound: how many bytes a read may return
    MaxWrites       \* bound: writes of the client per connection

\* A UDS message has at most 4095 bytes; CanIsoTpProvider reads up to 4096.
ASSUME RequestsAssumption ==
    \A r \in Requests : r \in Seq(Byte) /\ Len(r) <= MAX_UDS_MESSAGE_LENGTH

ASSUME BusResponsesAssumption ==
    \A r \in BusResponses : r \in Seq(Byte) /\ Len(r) <= 4096

ASSUME ProvidersAssumption == Providers \subseteq {"uds", "can"}

\* A read that returns nothing is a closed connection.
ASSUME SegmentSizesAssumption == SegmentSizes \subseteq Nat \ {0}

VARIABLES
    cpc,            \* the client: "discover", "connected", "terminated"
    csk,            \* its socket: "open", "reset" (an error is due), "broken"
    emptyMessageCounter,
    toServer, toClient,     \* bytes in flight
    fd,             \* the server's descriptor: "none", "open", "closed", "leaked"
    inbuf, inmsg,   \* bytes receiveExactly has, the message being dispatched
    state, clientAddress,   \* of the connection
    hpc,            \* the handler within a request: "idle", "store", "pending"
    provider, tx, rx,       \* the provider, its request and response queues
    callback,       \* m_downstreamCallback is set
    wpc,            \* the worker: "loop", "state", "clear"
    up,             \* the server process runs
    written, delivered, accepted, replies, got      \* history, per connection

clientVars == <<cpc, csk, emptyMessageCounter>>
downstreamVars == <<tx, rx, callback, wpc>>
connectionVars == <<fd, inbuf, inmsg, state, clientAddress, hpc, downstreamVars>>
history == <<written, delivered, accepted, replies, got>>
vars == <<discoveryVars, clientVars, toServer, toClient, connectionVars, provider, up, history>>

DOIP_MAXIMUM_MTU == 4095
SourceAddress == 57344      \* m_sourceAddress of the client
serverAddress == 3584       \* of the DoIPServerModel

-----------------------------------------------------------------------------
(* Connecting.                                                             *)

\* A fresh connection at both ends: the constructor opens the model, which
\* starts the provider, and waits for routing activation. The client address
\* is not assigned, and not read before it is.
NewConnection ==
    /\ csk' = "open" /\ emptyMessageCounter' = 0
    /\ toServer' = <<>> /\ toClient' = <<>>
    /\ inbuf' = <<>> /\ inmsg' = <<>>
    /\ state' = "WaitRoutingActivation"
    /\ clientAddress' = clientAddress
    /\ hpc' = "idle"
    /\ tx' = <<>> /\ rx' = <<>> /\ callback' = FALSE /\ wpc' = "loop"
    /\ written' = <<>> /\ delivered' = <<>> /\ accepted' = <<>>
    /\ replies' = <<>> /\ got' = <<>>

\* CanIsoTpProvider::start throws if the bus cannot be opened, inside the
\* noexcept callback onOpenConnection: the server process ends.
ConnectTo ==
    \/ /\ fd' = "open" /\ up' = up
    \/ /\ provider = "can"
       /\ fd' = "closed" /\ up' = FALSE

\* startTcpConnection, once the client is done with discovery (an exception there
\* ends it); it tries until the server accepts.
startTcpConnection ==
    /\ cpc = "discover" /\ ~listening /\ ~requesting /\ ~torn /\ up
    /\ cpc' = "connected"
    /\ NewConnection
    /\ ConnectTo
    /\ UNCHANGED <<discoveryVars, provider>>

-----------------------------------------------------------------------------
(* The client writes.                                                      *)

\* Writing to a connection the server closed succeeds once, and what was not
\* read may be lost; the next write raises SIGPIPE.
Write(bytes) ==
    /\ cpc = "connected" /\ Len(written) < MaxWrites
    /\ \/ /\ fd # "closed"
          /\ toServer' = toServer \o bytes
          /\ written' = Append(written, bytes)
          /\ UNCHANGED <<cpc, csk, toClient>>
       \/ /\ fd = "closed" /\ csk = "open"
          /\ csk' = "reset"
          /\ toClient' \in {toClient, <<>>}
          /\ written' = Append(written, bytes)
          /\ UNCHANGED <<cpc, toServer>>
       \/ /\ fd = "closed" /\ csk # "open"
          /\ cpc' = "terminated"
          /\ UNCHANGED <<csk, toServer, toClient, written>>
    /\ UNCHANGED <<discoveryVars, emptyMessageCounter, connectionVars, provider, up,
                   delivered, accepted, replies, got>>

sendRoutingActivationRequest == Write(makeRoutingActivationRequest(SourceAddress, 0))

sendDiagnosticMessage(payload) ==
    Write(makeDiagnosticMessage(SourceAddress, readU16BE(identity.la, 0), payload))

sendAliveCheckResponse == Write(makeAliveCheckResponse(SourceAddress))

ForeignWrite == \E bytes \in ForeignBytes : Write(bytes)

-----------------------------------------------------------------------------
(* The client reads: at most one message of what a read returns is used.   *)

receiveMessage ==
    /\ cpc = "connected" /\ toClient # <<>>
    /\ \E n \in SegmentSizes :
        LET k      == Smaller(Smaller(n, _maxDataSize), Len(toClient))
            parsed == tryParse(Slice(toClient, 0, k))
        IN  /\ toClient' = Rest(toClient, k)
            /\ got' = got \o parsed
    /\ UNCHANGED <<discoveryVars, clientVars, toServer, connectionVars, provider, up,
                   written, delivered, accepted, replies>>

receiveError ==
    /\ cpc = "connected" /\ toClient = <<>> /\ csk = "reset"
    /\ csk' = "broken"
    /\ UNCHANGED <<discoveryVars, cpc, emptyMessageCounter, toServer, toClient,
                   connectionVars, provider, up, history>>

\* The server closed: a read returns nothing. After five of these reconnectServer
\* closes the socket and connects again.
TooManyEmptyMessages == 5

\* Mutant: the counter is not compared with its limit.
receiveEmptyUnlimited ==
    /\ cpc = "connected" /\ toClient = <<>> /\ fd = "closed" /\ csk # "reset"
    /\ emptyMessageCounter' = emptyMessageCounter + 1
    /\ UNCHANGED <<discoveryVars, cpc, csk, toServer, toClient, connectionVars, provider,
                   up, history>>

receiveEmpty ==
    /\ cpc = "connected" /\ toClient = <<>> /\ fd = "closed" /\ csk # "reset"
    /\ emptyMessageCounter + 1 < TooManyEmptyMessages
    /\ emptyMessageCounter' = emptyMessageCounter + 1
    /\ UNCHANGED <<discoveryVars, cpc, csk, toServer, toClient, connectionVars, provider,
                   up, history>>

\* Mutant: the counter is compared before it is incremented.
reconnectTooLate ==
    /\ cpc = "connected" /\ toClient = <<>> /\ fd = "closed" /\ csk # "reset"
    /\ emptyMessageCounter = TooManyEmptyMessages
    /\ up
    /\ NewConnection
    /\ ConnectTo
    /\ UNCHANGED <<discoveryVars, cpc, provider>>

reconnectServer ==
    /\ cpc = "connected" /\ toClient = <<>> /\ fd = "closed" /\ csk # "reset"
    /\ emptyMessageCounter + 1 = TooManyEmptyMessages
    /\ up
    /\ NewConnection
    /\ ConnectTo
    /\ UNCHANGED <<discoveryVars, cpc, provider>>

-----------------------------------------------------------------------------
(* TcpConnectionTransport: receiveMessage reads a header, then its payload. *)

\* The bytes receiveExactly still waits for.
Remaining ==
    IF Len(inbuf) < DOIP_HEADER_SIZE THEN DOIP_HEADER_SIZE - Len(inbuf)
    ELSE DOIP_HEADER_SIZE + Value(tryParseHeader(inbuf)).length - Len(inbuf)

AcceptableHeader(bytes) ==
    LET header == tryParseHeader(bytes)
    IN  HasValue(header) /\ Value(header).length <= DOIP_MAXIMUM_MTU

\* The stream has no writes, only bytes: other test equipment writes messages, up
\* to a header that is refused.
ASSUME ForeignBytesAssumption ==
    \A bytes \in ForeignBytes :
        /\ bytes \in Seq(Byte) /\ Len(bytes) >= DOIP_HEADER_SIZE
        /\ AcceptableHeader(bytes) =>
               Len(bytes) = DOIP_HEADER_SIZE + Value(tryParseHeader(bytes)).length

\* onCloseConnection stops the worker and joins it. What it leaves in the queues
\* is not read again.
StopWorker == tx' = <<>> /\ rx' = <<>> /\ callback' = FALSE /\ wpc' = "loop"

\* The header is not acceptable: the active flag is cleared, so neither
\* closeConnection nor the destructor closes the descriptor. A response of the
\* worker's last iteration is not sent, but may still change the state.
GiveUp ==
    /\ fd' = "leaked"
    /\ inbuf' = <<>>
    /\ \/ state' = "Closed"
       \/ callback /\ wpc # "clear" /\ state' = "RoutingActivated"
    /\ StopWorker
    /\ UNCHANGED <<inmsg, clientAddress, hpc, delivered>>

\* Mutant: the buffer is not emptied for the next message.
CompleteKeepingBuffer(bytes) ==
    LET msg == buildMessage(getPayloadType(bytes), getPayload(bytes))
    IN  /\ inmsg' = Some(msg)
        /\ delivered' = Append(delivered, msg)
        /\ inbuf' = Slice(bytes, 0, DOIP_HEADER_SIZE)
        /\ UNCHANGED <<fd, state, clientAddress, hpc, downstreamVars>>

\* A complete message is built anew from its type and payload.
Complete(bytes) ==
    LET msg == buildMessage(getPayloadType(bytes), getPayload(bytes))
    IN  /\ inmsg' = Some(msg)
        /\ delivered' = Append(delivered, msg)
        /\ inbuf' = <<>>
        /\ UNCHANGED <<fd, state, clientAddress, hpc, downstreamVars>>

ReadOn(bytes) ==
    /\ inbuf' = bytes
    /\ UNCHANGED <<fd, inmsg, state, clientAddress, hpc, downstreamVars, delivered>>

Receive(bytes) ==
    IF Len(bytes) < DOIP_HEADER_SIZE
    THEN ReadOn(bytes)
    ELSE IF ~AcceptableHeader(bytes) THEN GiveUp
    ELSE IF Len(bytes) = DOIP_HEADER_SIZE + Value(tryParseHeader(bytes)).length
    THEN Complete(bytes)
    ELSE ReadOn(bytes)

receiveExactly ==
    /\ up /\ fd = "open" /\ inmsg = <<>> /\ toServer # <<>>
    /\ \E n \in SegmentSizes :
        LET k == Smaller(Smaller(n, Remaining), Len(toServer))
        IN  /\ toServer' = Rest(toServer, k)
            /\ Receive(inbuf \o Slice(toServer, 0, k))
    /\ UNCHANGED <<discoveryVars, clientVars, toClient, provider, up, written, accepted,
                   replies, got>>

-----------------------------------------------------------------------------
(* The connection answers.                                                 *)

Send(msg) ==
    /\ replies' = Append(replies, msg)
    /\ toClient' = toClient \o msg

RouteActivated == 16

\* sendRoutingActivationResponse
RoutingActivationResponse(sourceAddress) ==
    buildMessage(DoIPPayloadType.RoutingActivationResponse,
        U16BE(sourceAddress) \o U16BE(serverAddress) \o <<RouteActivated, 0, 0, 0, 0>>)

DoIPNegativeDiagnosticAck ==
    [InvalidSourceAddress |-> 2, UnknownTargetAddress |-> 3, DiagnosticMessageTooLarge |-> 4,
     OutOfMemory |-> 5, TargetUnreachable |-> 6, UnknownNetwork |-> 7,
     TransportProtocolError |-> 8, TargetBusy |-> 9]

\* closeConnection(InvalidMessage) closes the descriptor. Unread bytes make the
\* kernel reset the connection.
CloseConnection ==
    /\ fd' = "closed" /\ state' = "Closed"
    /\ csk' = IF toServer # <<>> THEN "reset" ELSE csk
    /\ inmsg' = <<>>
    /\ StopWorker
    /\ UNCHANGED <<clientAddress, hpc, replies, toClient>>

Dispatching(s) == up /\ inmsg # <<>> /\ hpc = "idle" /\ state = s

handleWaitRoutingActivation ==
    /\ Dispatching("WaitRoutingActivation")
    /\ LET msg == Value(inmsg)
           sa  == getSourceAddress(msg)
       IN  IF \/ sa = None
              \/ getPayloadType(msg) # DoIPPayloadType.RoutingActivationRequest
           THEN CloseConnection
           ELSE /\ clientAddress' = Value(sa)
                /\ Send(RoutingActivationResponse(Value(sa)))
                /\ state' = "RoutingActivated"
                /\ inmsg' = <<>>
                /\ UNCHANGED <<csk, fd, hpc, downstreamVars>>
    /\ UNCHANGED <<discoveryVars, cpc, emptyMessageCounter, toServer, inbuf, provider, up,
                   written, delivered, accepted, got>>

sendDiagnosticMessageResponse(sourceAddress, ack) ==
    Send(IF ack = None
         THEN makeDiagnosticPositiveResponse(sourceAddress, serverAddress, <<>>)
         ELSE makeDiagnosticNegativeResponse(sourceAddress, serverAddress, Value(ack), <<>>))

\* The downstream model refuses no message.
onDiagnosticMessage(msg) == None

\* The request is acknowledged and its callback stored; the handler is not done.
ServeDiagnostic(msg) ==
    /\ sendDiagnosticMessageResponse(Value(getSourceAddress(msg)), onDiagnosticMessage(msg))
    /\ callback' = TRUE
    /\ hpc' = "store"
    /\ UNCHANGED <<csk, fd, inmsg, state, tx, rx, wpc, clientAddress>>

Refuse(sourceAddress, nack) ==
    /\ sendDiagnosticMessageResponse(sourceAddress, Some(nack))
    /\ inmsg' = <<>>
    /\ UNCHANGED <<csk, fd, state, hpc, downstreamVars, clientAddress>>

Ignore ==
    /\ inmsg' = <<>>
    /\ UNCHANGED <<csk, fd, state, hpc, downstreamVars, clientAddress, replies, toClient>>

handleRoutingActivated ==
    /\ Dispatching("RoutingActivated")
    /\ LET msg == Value(inmsg)
           sa  == getSourceAddress(msg)
       IN  CASE getPayloadType(msg) = DoIPPayloadType.AliveCheckResponse -> Ignore
             [] getPayloadType(msg) \notin {DoIPPayloadType.AliveCheckResponse,
                                            DoIPPayloadType.DiagnosticMessage}
                    -> Refuse(ZERO_ADDRESS, DoIPNegativeDiagnosticAck.TransportProtocolError)
             [] getPayloadType(msg) = DoIPPayloadType.DiagnosticMessage
                    -> IF sa = None THEN CloseConnection
                       ELSE IF Value(sa) # clientAddress
                       THEN Refuse(Value(sa), DoIPNegativeDiagnosticAck.InvalidSourceAddress)
                       ELSE ServeDiagnostic(msg)
    /\ UNCHANGED <<discoveryVars, cpc, emptyMessageCounter, toServer, inbuf, provider, up,
                   written, delivered, accepted, got>>

\* onDownstreamRequest queues the user data and returns Pending, ...
Enqueue ==
    /\ up /\ hpc = "store"
    /\ LET request == getDiagnosticMessagePayload(Value(inmsg))
       IN  tx' = Append(tx, request) /\ accepted' = Append(accepted, request)
    /\ hpc' = "pending"
    /\ UNCHANGED <<discoveryVars, clientVars, toServer, toClient, fd, inbuf, inmsg, state,
                   clientAddress, rx, callback, wpc, provider, up, written, delivered,
                   replies, got>>

\* ... and the connection waits, whatever the worker did meanwhile.
AwaitResponse ==
    /\ up /\ hpc = "pending"
    /\ state' = "WaitDownstreamResponse"
    /\ inmsg' = <<>>
    /\ hpc' = "idle"
    /\ UNCHANGED <<discoveryVars, clientVars, toServer, toClient, fd, inbuf, clientAddress,
                   downstreamVars, provider, up, history>>

\* A message that arrives while a response is awaited is dropped.
handleWaitDownstreamResponse ==
    /\ Dispatching("WaitDownstreamResponse")
    /\ inmsg' = <<>>
    /\ UNCHANGED <<discoveryVars, clientVars, toServer, toClient, fd, inbuf, state,
                   clientAddress, hpc, downstreamVars, provider, up, history>>

-----------------------------------------------------------------------------
(* The worker of the downstream model and the provider.                    *)

\* sendRequest calls back before it returns: the payload is queued.
Provide(response) ==
    /\ up /\ wpc = "loop" /\ tx # <<>>
    /\ rx' = Append(rx, response)
    /\ tx' = Tail(tx)
    /\ UNCHANGED <<discoveryVars, clientVars, toServer, toClient, fd, inbuf, inmsg, state,
                   clientAddress, hpc, callback, wpc, provider, up, history>>

\* UdsMockProvider::sendRequest answers at once.
UdsSendRequest ==
    /\ provider = "uds"
    /\ Provide(handleDiagnosticRequest(UdsMockProvider, Head(tx)))

\* CanIsoTpProvider::sendRequest waits for the ECU as long as it takes; a failed
\* send or receive gives an empty payload, its status is dropped.
CanSendRequest ==
    /\ provider = "can"
    /\ \E response \in BusResponses \cup {<<>>} : Provide(response)

\* Mutant: an empty response is not worth a message.
receiveDownstreamResponseUnlessEmpty ==
    /\ up /\ wpc = "loop" /\ rx # <<>>
    /\ IF callback /\ Head(rx) # <<>>
       THEN /\ Send(makeDiagnosticMessage(serverAddress, clientAddress, Head(rx)))
            /\ wpc' = "state"
       ELSE UNCHANGED <<replies, toClient, wpc>>
    /\ rx' = Tail(rx)
    /\ UNCHANGED <<discoveryVars, clientVars, toServer, fd, inbuf, inmsg, state,
                   clientAddress, hpc, tx, callback, provider, up, written, delivered,
                   accepted, got>>

\* The callback, if there is one, is called: receiveDownstreamResponse sends the
\* response, ...
receiveDownstreamResponse ==
    /\ up /\ wpc = "loop" /\ rx # <<>>
    /\ IF callback
       THEN /\ Send(makeDiagnosticMessage(serverAddress, clientAddress, Head(rx)))
            /\ wpc' = "state"
       ELSE UNCHANGED <<replies, toClient, wpc>>
    /\ rx' = Tail(rx)
    /\ UNCHANGED <<discoveryVars, clientVars, toServer, fd, inbuf, inmsg, state,
                   clientAddress, hpc, tx, callback, provider, up, written, delivered,
                   accepted, got>>

\* ... goes to RoutingActivated ...
ReadyAgain ==
    /\ up /\ wpc = "state"
    /\ state' = "RoutingActivated"
    /\ wpc' = "clear"
    /\ UNCHANGED <<discoveryVars, clientVars, toServer, toClient, fd, inbuf, inmsg,
                   clientAddress, hpc, tx, rx, callback, provider, up, history>>

\* ... and returns; the worker forgets the callback, were it another request's.
ClearCallback ==
    /\ up /\ wpc = "clear"
    /\ callback' = FALSE
    /\ wpc' = "loop"
    /\ UNCHANGED <<discoveryVars, clientVars, toServer, toClient, fd, inbuf, inmsg, state,
                   clientAddress, hpc, tx, rx, provider, up, history>>

-----------------------------------------------------------------------------

Init ==
    /\ DiscoveryInit
    /\ cpc = "discover" /\ csk = "open" /\ emptyMessageCounter = 0
    /\ toServer = <<>> /\ toClient = <<>>
    /\ fd = "none" /\ inbuf = <<>> /\ inmsg = <<>>
    /\ state = "Closed" /\ clientAddress = ZERO_ADDRESS
    /\ hpc = "idle" /\ provider \in Providers /\ up = TRUE
    /\ tx = <<>> /\ rx = <<>> /\ callback = FALSE /\ wpc = "loop"
    /\ written = <<>> /\ delivered = <<>> /\ accepted = <<>>
    /\ replies = <<>> /\ got = <<>>

Discover ==
    /\ cpc = "discover"
    /\ DiscoveryNext
    /\ UNCHANGED <<clientVars, toServer, toClient, connectionVars, provider, up, history>>

HandlerThread ==
    \/ receiveExactly
    \/ handleWaitRoutingActivation
    \/ handleRoutingActivated
    \/ Enqueue
    \/ AwaitResponse
    \/ handleWaitDownstreamResponse

Responds == receiveDownstreamResponse \/ ReadyAgain \/ ClearCallback

ClientReads ==
    \/ receiveMessage
    \/ receiveError
    \/ receiveEmpty
    \/ reconnectServer

Next ==
    \/ Discover
    \/ startTcpConnection
    \/ sendRoutingActivationRequest
    \/ \E payload \in Requests : sendDiagnosticMessage(payload)
    \/ sendAliveCheckResponse
    \/ ForeignWrite
    \/ ClientReads
    \/ HandlerThread
    \/ UdsSendRequest
    \/ CanSendRequest
    \/ Responds

Worker == UdsSendRequest \/ Responds

\* The worker of the server runs, and the client keeps reading.
Spec ==
    /\ Init /\ [][Next]_vars
    /\ WF_vars(Worker)
    /\ WF_vars(ClientReads)

-----------------------------------------------------------------------------
(* Properties.                                                             *)

\* The variables have their types; no read or answer leaves the range of a byte.
TypeOK ==
    /\ cpc \in {"discover", "connected", "terminated"}
    /\ csk \in {"open", "reset", "broken"}
    /\ emptyMessageCounter \in 0..TooManyEmptyMessages - 1
    /\ fd \in {"none", "open", "closed", "leaked"}
    /\ state \in {"WaitRoutingActivation", "RoutingActivated", "WaitDownstreamResponse", "Closed"}
    /\ hpc \in {"idle", "store", "pending"} /\ wpc \in {"loop", "state", "clear"}
    /\ callback \in BOOLEAN
    /\ clientAddress \in DoIPAddress /\ provider \in {"uds", "can"} /\ up \in BOOLEAN
    /\ toServer \in Seq(Byte) /\ toClient \in Seq(Byte) /\ inbuf \in Seq(Byte)
    /\ \A q \in {inmsg, tx, rx} : q \in Seq(Seq(Byte)) /\ Len(q) <= 1
    /\ \A h \in {written, delivered, accepted, replies, got} : h \in Seq(Seq(Byte))
    /\ DiscoveryTypeOK

\* What was written is a message as ISO 13400 lays it out, of a known type and a
\* length the server can take.
WellFormed(bytes) ==
    /\ Len(bytes) >= 8
    /\ bytes[1] \in 1..4 /\ bytes[2] = 255 - bytes[1]
    /\ \E t \in DOMAIN DoIPPayloadType : U16BE(DoIPPayloadType[t]) = SubSeq(bytes, 3, 4)
    /\ SubSeq(bytes, 5, 8) = U32BE(Len(bytes) - 8)
    /\ Len(bytes) - 8 <= DOIP_MAXIMUM_MTU

\* However TCP cuts the stream, receiveMessage delivers what was written, message
\* by message, in order, with the version replaced by the server's own; nothing
\* behind the first thing that is no message; and when the stream is read, it
\* waits for no more: everything was delivered.
StreamFidelity ==
    /\ Len(delivered) <= Len(written)
    /\ \A i \in 1..Len(delivered) :
           /\ WellFormed(written[i])
           /\ delivered[i] = <<PROTOCOL_VERSION, PROTOCOL_VERSION_INV>>
                                \o SubSeq(written[i], 3, Len(written[i]))
    /\ (/\ fd = "open" /\ toServer = <<>>
        /\ \A i \in 1..Len(written) : WellFormed(written[i]))
           => (inbuf = <<>> /\ Len(delivered) = Len(written))

\* The diagnostic messages among the replies, and their user data.
DiagnosticReplies ==
    {i \in 1..Len(replies) :
        SubSeq(replies[i], 3, 4) = U16BE(DoIPPayloadType.DiagnosticMessage)}

UserData(msg) == SubSeq(msg, 13, Len(msg))

\* The place of an element in a set of numbers.
Rank(numbers, n) == Cardinality({m \in numbers : m <= n})

\* A response belongs to a request: none to none; a refusal names the service and
\* a reason; a positive response has the service's id and a length its
\* descriptor allows, and the request too.
Answers(response, request) ==
    IF request = <<>> THEN response = <<>>
    ELSE \/ /\ Len(response) = 3 /\ response[1] = 127
            /\ response[2] = request[1] /\ response[3] # 0
         \/ /\ response # <<>> /\ response[1] = request[1] + 64
            /\ \E d \in UDS_SERVICE_DESCRIPTORS :
                   /\ d.service = request[1]
                   /\ Len(request) \in d.minReq..d.maxReq
                   /\ Len(response) \in d.minRsp..d.maxRsp

\* The replies with a response: a diagnostic message without user data has none.
Responses == {i \in DiagnosticReplies : UserData(replies[i]) # <<>>}

\* One request is with the provider at a time, and the connection takes no other.
\* A response is for one request, in order and at most once, however many requests
\* lose theirs to the shared callback; the UDS mock's responses fit their requests.
AnsweredInOrder ==
    /\ (tx # <<>> \/ rx # <<>>) => (state = "WaitDownstreamResponse" \/ hpc = "pending")
    /\ \E served \in SUBSET (1..Len(accepted)) :
           /\ Cardinality(served) = Cardinality(Responses)
           /\ provider = "uds" =>
                  \A i \in Responses, n \in served :
                      Rank(Responses, i) = Rank(served, n)
                          => Answers(UserData(replies[i]), accepted[n])

\* What the client takes for a message is one the server sent, in order and at
\* most once: a part of a message, or what it cut off, is never taken for one.
ClientReadsReplies ==
    \E taken \in SUBSET (1..Len(replies)) :
        /\ Cardinality(taken) = Len(got)
        /\ \A i \in taken : got[Rank(taken, i)] = replies[i]

\* The response of a request is lost: the worker is done with it, and the
\* callback is gone.
ResponseLost == ~callback /\ tx = <<>> /\ rx = <<>>

\* A connection that waits for the UDS mock is ready again as soon as the worker is
\* done, also when the response is empty, unless the response was lost to the
\* shared callback: it never waits with the callback still stored.
ReadyUnlessLost ==
    (provider = "uds" /\ state = "WaitDownstreamResponse")
        ~> (state # "WaitDownstreamResponse" \/ ResponseLost)

\* A client whose connection the server closed connects again, or is gone: the
\* counter of empty reads reaches its limit also after errors and leftovers.
ClientReconnects ==
    (cpc = "connected" /\ fd = "closed") ~> (fd # "closed" \/ cpc = "terminated" \/ ~up)

=============================================================================
