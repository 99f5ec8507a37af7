------------------------- MODULE ConnectionLifecycle -------------------------
(***************************************************************************)
(* What the server promises the application about a connection, in terms   *)
(* of the DoIPServerModel callbacks: it is opened, may be given a client   *)
(* by routing activation, has the diagnostic messages of that client only  *)
(* handed over, and is closed once, for one reason.  The close may come    *)
(* from another thread than the messages, so the message in hand at that   *)
(* moment, and no other, may still activate routing or be handed over.     *)
(***************************************************************************)
CONSTANTS Conn, Addr, NoAddr, Reason

VARIABLES
    phase,    \* idle, open, last (closed, a message in hand), closed
    client,   \* the client routing activation was granted to
    serving,  \* source of the message the application was handed last
    reason    \* the reason onCloseConnection was called with

vars == <<phase, client, serving, reason>>

Init ==
    /\ phase = [c \in Conn |-> "idle"]
    /\ client = [c \in Conn |-> NoAddr]
    /\ serving = [c \in Conn |-> NoAddr]
    /\ reason = [c \in Conn |-> "None"]

\* onOpenConnection
Open(c) ==
    /\ phase[c] = "idle"
    /\ phase' = [phase EXCEPT ![c] = "open"]
    /\ UNCHANGED <<client, serving, reason>>

\* The connection gets on with the message in hand; after the close it was
\* the last one.
Proceed(c) ==
    \/ phase[c] = "open" /\ UNCHANGED phase
    \/ phase[c] = "last" /\ phase' = [phase EXCEPT ![c] = "closed"]

\* Routing activation of client a.
Activate(c, a) ==
    /\ Proceed(c)
    /\ client[c] = NoAddr
    /\ client' = [client EXCEPT ![c] = a]
    /\ UNCHANGED <<serving, reason>>

\* onDiagnosticMessage
Serve(c) ==
    /\ Proceed(c)
    /\ client[c] # NoAddr
    /\ serving' = [serving EXCEPT ![c] = client[c]]
    /\ UNCHANGED <<client, reason>>

\* The message in hand came to nothing.
Discard(c) ==
    /\ phase[c] = "last"
    /\ phase' = [phase EXCEPT ![c] = "closed"]
    /\ UNCHANGED <<client, serving, reason>>

\* The server turns to the next message.
Done(c) ==
    /\ serving' = [serving EXCEPT ![c] = NoAddr]
    /\ UNCHANGED <<phase, client, reason>>

\* onCloseConnection, with or without a message in hand.
Close(c, r) ==
    /\ phase[c] = "open"
    /\ \E p \in {"last", "closed"} : phase' = [phase EXCEPT ![c] = p]
    /\ reason' = [reason EXCEPT ![c] = r]
    /\ UNCHANGED <<client, serving>>

Next ==
    \E c \in Conn :
        \/ Open(c)
        \/ \E a \in Addr : Activate(c, a)
        \/ Serve(c)
        \/ Discard(c)
        \/ Done(c)
        \/ \E r \in Reason \ {"None"} : Close(c, r)

Spec == Init /\ [][Next]_vars
=============================================================================
