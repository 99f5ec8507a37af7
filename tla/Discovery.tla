----------------------------- MODULE Discovery -----------------------------
(***************************************************************************)
(* How a client learns of a vehicle: the server announces its configured    *)
(* identity in UDP datagrams (DoIPServer::udpAnnouncementThread), the       *)
(* network loses, repeats and reorders them, other vehicles announce too,   *)
(* and DoIPClient::receiveVehicleAnnouncement takes the fields out of the   *)
(* datagram it reads. A vehicle identification request is not answered: the  *)
(* server never reads from its UDP socket.                                  *)
(***************************************************************************)
EXTENDS DoIPMessage

CONSTANTS
    Configs,            \* configurations the server may be started with
    ForeignDatagrams    \* what other hosts send to the announcement port

\* The identifiers of a configuration have the length of their types.
ASSUME ConfigsAssumption ==
    Configs \subseteq [vin : [1..VIN_LENGTH -> Byte], logicalAddress : DoIPAddress,
                       eid : [1..EID_LENGTH -> Byte], gid : [1..EID_LENGTH -> Byte]]

\* Other hosts send bytes, whatever they mean.
ASSUME ForeignDatagramsAssumption == ForeignDatagrams \subseteq Seq(Byte)

VARIABLES
    config,             \* m_config of the server
    datagrams,          \* datagrams the client's socket may still receive
    inbox,              \* the same for the client's other socket, port 13400
    listening,          \* the announcement socket of the client is bound
    requesting,         \* the other one is
    identity,           \* what the client knows of the vehicle
    torn                \* parsing an announcement threw

discoveryVars == <<config, datagrams, inbox, listening, requesting, identity, torn>>

-----------------------------------------------------------------------------
(* The configuration of the server.                                        *)

\* The first interface with a MAC address that can be read and is not zero,
\* the loopback interface left out.
getFirstMacAddress(interfaces) ==
    LET good == {i \in 1..Len(interfaces) :
                    /\ ~interfaces[i].loopback
                    /\ interfaces[i].readable
                    /\ interfaces[i].mac # EidZero}
    IN  IF good = {} THEN None
        ELSE Some(interfaces[CHOOSE i \in good : \A j \in good : i <= j].mac)

\* setDefaultEid: the EID is the MAC address, zero if there is none.
setDefaultEid(cfg, interfaces) ==
    LET mac == getFirstMacAddress(interfaces)
    IN  [cfg EXCEPT !.eid = IF mac = None THEN EidZero ELSE DoIpEid(Value(mac))]

\* setVin(string); setGid, and setEid alike, take 64 bits and keep the lower 48.
setVin(cfg, string) == [cfg EXCEPT !.vin = DoIpVin(string)]
setGid(cfg, bytes) == [cfg EXCEPT !.gid = IntegralId(EID_LENGTH, bytes)]
setLogicalGatewayAddress(cfg, address) == [cfg EXCEPT !.logicalAddress = address]

DefaultServerConfig ==
    [vin |-> VinZero, logicalAddress |-> 40, eid |-> EidZero, gid |-> EidZero]

-----------------------------------------------------------------------------
(* The announcement and the client.                                        *)

NoFurtherAction == 0
GidVinSynchronized == 0

Announcement ==
    makeVehicleIdentificationResponse(config.vin, config.logicalAddress, config.eid,
                                      config.gid, NoFurtherAction, GidVinSynchronized)

\* One round of udpAnnouncementThread, for a client that listens. What was sent
\* stays in the set: it may be received again, later, or not at all.
Announce ==
    /\ listening /\ Announcement \notin datagrams
    /\ datagrams' = datagrams \cup {Announcement}
    /\ UNCHANGED <<config, inbox, listening, requesting, identity, torn>>

ForeignDatagram ==
    /\ listening
    /\ \E d \in ForeignDatagrams \ datagrams : datagrams' = datagrams \cup {d}
    /\ UNCHANGED <<config, inbox, listening, requesting, identity, torn>>

\* startAnnouncementListener: a failed bind is reported, not handled.
startAnnouncementListener ==
    /\ ~listening
    /\ listening' = TRUE
    /\ UNCHANGED <<config, datagrams, inbox, requesting, identity, torn>>

\* The integral constructors leave every byte zero, in the VIN too.
UnknownVehicle ==
    [vin |-> IntegralId(VIN_LENGTH, <<0, 0, 0, 0>>), eid |-> EidZero, gid |-> EidZero,
     la |-> U16BE(ZERO_ADDRESS), far |-> <<NoFurtherAction>>]

\* The order in which parseVehicleIdentificationResponse assigns the fields. It
\* reads all of them, warns if one is missing, and assigns until that one throws.
AssignmentOrder == [vin |-> 1, eid |-> 2, gid |-> 3, la |-> 4, far |-> 5]

\* Mutant: a missing field is skipped.
parseSkippingMissingFields(msg, memory) ==
    /\ identity' = [f \in DOMAIN identity |->
                        IF hasField(msg, f) THEN Value(getField(msg, f, memory))
                        ELSE identity[f]]
    /\ UNCHANGED torn

parseVehicleIdentificationResponse(msg, memory) ==
    /\ identity' = [f \in DOMAIN identity |->
                        IF \A g \in DOMAIN identity :
                               AssignmentOrder[g] <= AssignmentOrder[f] => hasField(msg, g)
                        THEN Value(getField(msg, f, memory)) ELSE identity[f]]
    /\ torn' = (torn \/ \E f \in DOMAIN identity : ~hasField(msg, f))

\* A datagram is read into the buffer and cut there; only a vehicle
\* identification response has an effect.
_maxDataSize == 64

receiveVehicleAnnouncement ==
    /\ listening /\ ~torn
    /\ \E d \in datagrams :
        LET parsed == tryParse(Slice(d, 0, Smaller(Len(d), _maxDataSize)))
        IN  /\ HasValue(parsed)
            /\ getPayloadType(Value(parsed)) = DoIPPayloadType.VehicleIdentificationResponse
            /\ \E memory \in {<<0>>, <<255>>} :
                    parseVehicleIdentificationResponse(Value(parsed), memory)
    /\ UNCHANGED <<config, datagrams, inbox, listening, requesting>>

startUdpConnection ==
    /\ ~requesting
    /\ requesting' = TRUE
    /\ UNCHANGED <<config, datagrams, inbox, listening, identity, torn>>

\* The request is a broadcast to the port the client itself is bound to; other
\* vehicles may answer it.
sendVehicleIdentificationRequest ==
    /\ requesting
    /\ \E heard \in SUBSET ({makeVehicleIdentificationRequest} \cup ForeignDatagrams) :
            inbox' = inbox \cup heard
    /\ UNCHANGED <<config, datagrams, listening, requesting, identity, torn>>

\* Whatever arrives is logged if it can be parsed, and changes nothing else.
receiveUdpMessage ==
    /\ requesting
    /\ \E d \in inbox : inbox' = inbox \ {d}
    /\ UNCHANGED <<config, datagrams, listening, requesting, identity, torn>>

\* closeUdpConnection closes both sockets: what was not read is lost.
closeUdpConnection ==
    /\ listening \/ requesting
    /\ listening' = FALSE /\ requesting' = FALSE
    /\ datagrams' = {} /\ inbox' = {}
    /\ UNCHANGED <<config, identity, torn>>

DiscoveryInit ==
    /\ config \in Configs
    /\ datagrams = {} /\ inbox = {}
    /\ listening = FALSE /\ requesting = FALSE
    /\ identity = UnknownVehicle
    /\ torn = FALSE

DiscoveryNext ==
    \/ Announce
    \/ ForeignDatagram
    \/ startAnnouncementListener
    \/ receiveVehicleAnnouncement
    \/ startUdpConnection
    \/ sendVehicleIdentificationRequest
    \/ receiveUdpMessage
    \/ closeUdpConnection

-----------------------------------------------------------------------------
(* Properties.                                                             *)

\* The types of the variables, a part of the type invariant of Exchange.
DiscoveryTypeOK ==
    /\ config \in Configs
    /\ datagrams \subseteq Seq(Byte) /\ inbox \subseteq Seq(Byte)
    /\ listening \in BOOLEAN /\ requesting \in BOOLEAN /\ torn \in BOOLEAN
    /\ identity \in [vin : [1..VIN_LENGTH -> Byte], la : [1..2 -> Byte],
                     eid : [1..EID_LENGTH -> Byte], gid : [1..EID_LENGTH -> Byte],
                     far : [1..1 -> Byte]]

\* The identity a datagram carries, read off its layout up to the end its
\* header gives.
IdentityOf(d) ==
    LET end == 8 + getPayloadLengthFromHeader(d)
        Part(from, to) == SubSeq(d, 8 + from, Smaller(8 + to, end))
    IN  [vin |-> Part(1, 17), la |-> Part(18, 19), eid |-> Part(20, 25),
         gid |-> Part(26, 31), far |-> Part(32, 32)]

ConfiguredIdentity ==
    [vin |-> config.vin, la |-> U16BE(config.logicalAddress), eid |-> config.eid,
     gid |-> config.gid, far |-> <<NoFurtherAction>>]

\* Whatever is lost, repeated, reordered or cut, the client knows nothing, or
\* exactly what the server was configured with, or what one other host
\* announced; never a mixture, unless an incomplete announcement made
\* parseVehicleIdentificationResponse throw in the middle. The further action
\* of an announcement without one is not known.
IdentityIntact ==
    \/ torn
    \/ \E source \in {UnknownVehicle, ConfiguredIdentity}
                        \cup {IdentityOf(d) : d \in ForeignDatagrams} :
            \A f \in DOMAIN identity :
                identity[f] = source[f] \/ (f = "far" /\ source[f] = <<>>)

\* The getters of DoIPMessage read inside the payload, but for one:
\* getFurtherActionRequest reads one byte behind a payload of 31 bytes.
FieldReadsInBounds ==
    \A d \in datagrams : \A f \in DOMAIN IdentificationField :
        hasField(d, f) =>
            LET field == IdentificationField[f]
            IN  \/ field.from + field.size <= Len(getPayload(d))
                \/ f = "far" /\ Len(getPayload(d)) = 31
=============================================================================
