--------------------------- MODULE ServerThreads ---------------------------
(***************************************************************************)
(* The threads of DoIPServer and the descriptors they share: the thread     *)
(* that sets the server up and stops it, the listener, the announcer, one   *)
(* handler per connection, and the timer thread that closes connections.    *)
(* The kernel hands out the lowest free descriptor, so a number that was    *)
(* closed soon names something else. What the connections say is in         *)
(* Connection and Exchange.                                                 *)
(***************************************************************************)
EXTENDS Integers, Sequences, FiniteSets

CONSTANTS
    MaxConnections,     \* bound: clients that connect
    MaxDescriptors      \* descriptors the process may have (RLIMIT_NOFILE)

ASSUME BoundsAssumption == MaxConnections \in Nat /\ MaxDescriptors \in Nat

Conn == 1..MaxConnections
Descriptor == 1..MaxDescriptors

\* What an open descriptor refers to: a connection or one of two sockets.
Tcp == 0
Udp == -1
Free == -2
NoSocket == 0       \* the value -1 of a socket variable

\* The threads in m_workerThreads; a connection stands for its handler.
Listener == 0
Announcer == -1

VARIABLES
    descriptors,            \* the kernel's table
    peer,                   \* clients: "none", "waiting", "accepted", "reset"
    \* TcpServerTransport
    m_tcpServerSocket, m_udpSocket, m_isActive,
    \* DoIPServer
    m_tcpRunning, m_udpRunning, m_workerThreads,
    mpc, join,              \* the thread that owns the server
    lpc,                    \* the listener
    apc,                    \* the announcer
    \* per connection: TcpConnectionTransport, DoIPConnection, its handler
    m_socket, active, m_isClosing,  \* the latter: by whom
    hpc, argument, reading,
    replying,               \* a reply is being written, with this descriptor
    tpc,                    \* the timer thread: what it does to which connection
    up,                     \* the process runs
    \* history
    failed,                 \* connections of which a read or write failed while open
    hasty                   \* what a client or the bus did at a bad moment

transportVars == <<m_tcpServerSocket, m_udpSocket, m_isActive>>
runVars == <<m_tcpRunning, m_udpRunning>>
mainVars == <<mpc, join>>
connVars == <<m_socket, active, m_isClosing, hpc, argument, reading, replying>>
history == <<failed, hasty>>
vars == <<descriptors, peer, transportVars, runVars, m_workerThreads, mainVars, lpc, apc,
          connVars, tpc, up, history>>

serverVars == <<transportVars, runVars, m_workerThreads, mainVars, lpc, apc, tpc>>

\* The process ends.
Crash == up' = FALSE /\ UNCHANGED <<descriptors, peer, serverVars, connVars, failed>>

-----------------------------------------------------------------------------
(* The kernel.                                                             *)

FreeDescriptors == {d \in Descriptor : descriptors[d] = Free}
LowestFree(d) == d \in FreeDescriptors /\ \A e \in FreeDescriptors : d <= e

Close(table, ds) == [d \in Descriptor |-> IF d \in ds THEN Free ELSE table[d]]

\* Closing the listening socket resets the clients that were not accepted yet.
PeersOf(table) ==
    [c \in Conn |-> IF peer[c] = "waiting" /\ \A d \in Descriptor : table[d] # Tcp
                    THEN "reset" ELSE peer[c]]

Connect(c) ==
    /\ up /\ peer[c] = "none" /\ \A b \in 1..c - 1 : peer[b] # "none"
    /\ mpc # "bind" /\ \E d \in Descriptor : descriptors[d] = Tcp
    /\ peer' = [peer EXCEPT ![c] = "waiting"]
    /\ UNCHANGED <<descriptors, transportVars, runVars, m_workerThreads, mainVars, lpc, apc, connVars, tpc, up, history>>

-----------------------------------------------------------------------------
(* Setting up. A step that fails closes what the steps before it opened.   *)

Idle == up /\ mpc = "ready"
Started(thread) == \E i \in 1..Len(m_workerThreads) : m_workerThreads[i] = thread

threadsOfOthers == <<lpc, apc, connVars, tpc>>

\* The application sets a server up again only after it has stopped it.
setupTcpSocket ==
    /\ Idle
    /\ ~m_tcpRunning /\ ~Started(Listener) /\ lpc \in {"none", "ended"}
    /\ \/ \E d \in Descriptor :
          /\ LowestFree(d)
          /\ descriptors' = [descriptors EXCEPT ![d] = Tcp]
          /\ m_tcpServerSocket' = d
          /\ mpc' = "bind"
       \/ /\ m_tcpServerSocket' = NoSocket
          /\ UNCHANGED <<mpc, descriptors>>
    /\ UNCHANGED <<peer, m_udpSocket, m_isActive, runVars, m_workerThreads, join,
                   threadsOfOthers, up, history>>

\* bind and listen
BindTcp ==
    /\ up /\ mpc = "bind"
    /\ \/ /\ mpc' = "udp"
          /\ UNCHANGED <<descriptors, m_tcpServerSocket>>
       \/ /\ descriptors' = Close(descriptors, {m_tcpServerSocket})
          /\ m_tcpServerSocket' = NoSocket
          /\ mpc' = "ready"
    /\ UNCHANGED <<peer, m_udpSocket, m_isActive, runVars, m_workerThreads, join,
                   threadsOfOthers, up, history>>

\* What setup does when setupUdpSocket failed.
UndoTcp ==
    /\ descriptors' = Close(descriptors, {m_tcpServerSocket})
    /\ m_tcpServerSocket' = NoSocket /\ m_udpSocket' = NoSocket
    /\ mpc' = "ready"
    /\ UNCHANGED m_isActive

\* Mutant: the socket that was set up before stays open.
OpenUdpLeaving ==
    /\ up /\ mpc = "udp"
    /\ \/ \E d \in Descriptor :
          /\ LowestFree(d)
          /\ descriptors' = [descriptors EXCEPT ![d] = Udp]
          /\ m_udpSocket' = d
          /\ m_isActive' = TRUE /\ mpc' = "start"
          /\ UNCHANGED m_tcpServerSocket
       \/ /\ UNCHANGED descriptors
          /\ m_tcpServerSocket' = NoSocket /\ m_udpSocket' = NoSocket
          /\ mpc' = "ready"
          /\ UNCHANGED m_isActive
    /\ peer' = PeersOf(descriptors')
    /\ UNCHANGED <<runVars, m_workerThreads, join, threadsOfOthers, up, history>>

\* TcpServerTransport::setupUdpSocket and the end of setup.
OpenUdp ==
    /\ up /\ mpc = "udp"
    /\ \/ \E d \in Descriptor :
          /\ LowestFree(d)
          /\ descriptors' = [descriptors EXCEPT ![d] = Udp]
          /\ m_udpSocket' = d
          /\ m_isActive' = TRUE /\ mpc' = "start"
          /\ UNCHANGED m_tcpServerSocket
       \/ UndoTcp
    /\ peer' = PeersOf(descriptors')
    /\ UNCHANGED <<runVars, m_workerThreads, join, threadsOfOthers, up, history>>

\* emplace_back starts the thread before it has extended the vector.
StartListener ==
    /\ up /\ mpc = "start"
    /\ m_tcpRunning' = TRUE
    /\ lpc' = "loop"
    /\ mpc' = "appendListener"
    /\ UNCHANGED <<descriptors, peer, transportVars, m_udpRunning, m_workerThreads, join, apc, connVars, tpc, up, history>>

\* DoIPServer::setupUdpSocket relies on setupTcpSocket for the socket.
setupUdpSocket ==
    /\ Idle
    /\ Started(Listener)
    /\ ~m_udpRunning /\ ~Started(Announcer) /\ apc \in {"none", "ended"}
    /\ m_udpRunning' = TRUE
    /\ apc' = "loop"
    /\ mpc' = "appendAnnouncer"
    /\ UNCHANGED <<descriptors, peer, transportVars, m_tcpRunning, m_workerThreads, join, lpc, connVars, tpc, up, history>>

\* The end of emplace_back. When two threads are in it at once, the vector is
\* torn, and the process ends, at the latest when a lost thread is destroyed; or
\* it goes well, as if one had waited for the other.
Emplace(thread, overlap) ==
    IF overlap
    THEN /\ up' = FALSE
         /\ hasty' = hasty \cup {"connected during setup"}
         /\ UNCHANGED m_workerThreads
    ELSE /\ m_workerThreads' = Append(m_workerThreads, thread)
         /\ UNCHANGED <<up, hasty>>

MainAppending == mpc \in {"appendListener", "appendAnnouncer"}

MainAppended ==
    /\ up /\ MainAppending
    /\ Emplace(IF mpc = "appendListener" THEN Listener ELSE Announcer, lpc = "append")
    /\ mpc' = "ready"
    /\ UNCHANGED <<descriptors, peer, transportVars, runVars, join, threadsOfOthers,
                   failed>>

-----------------------------------------------------------------------------
(* Closing and stopping.                                                   *)

\* TcpServerTransport::closeSocket. The listener and the announcer cannot tell
\* its steps apart: nothing reuses the two descriptors in between.
closeSocket ==
    IF m_isActive
    THEN /\ m_isActive' = FALSE
         /\ descriptors' = Close(descriptors, {m_tcpServerSocket, m_udpSocket})
         /\ m_tcpServerSocket' = NoSocket /\ m_udpSocket' = NoSocket
         /\ peer' = PeersOf(descriptors')
    ELSE UNCHANGED <<m_isActive, descriptors, m_tcpServerSocket, m_udpSocket, peer>>

closeTcpSocket ==
    /\ Idle /\ m_isActive
    /\ closeSocket
    /\ UNCHANGED <<runVars, m_workerThreads, mainVars, threadsOfOthers, up, history>>

closeUdpSocket ==
    /\ Idle /\ m_udpRunning
    /\ m_udpRunning' = FALSE
    /\ UNCHANGED <<descriptors, peer, transportVars, m_tcpRunning, m_workerThreads, mainVars,
                   threadsOfOthers, up, history>>

Iterator(next, end, stale) == [next |-> next, end |-> end, stale |-> stale]
NotJoining == Iterator(1, 0, FALSE)

\* Mutant: the loop ends one thread early.
stopSkippingLast ==
    /\ Idle
    /\ m_udpRunning' = FALSE /\ m_tcpRunning' = FALSE
    /\ mpc' = "join"
    /\ join' = Iterator(1, Len(SubSeq(m_workerThreads, 2, Len(m_workerThreads))), FALSE)
    /\ UNCHANGED <<descriptors, peer, transportVars, m_workerThreads,
                   threadsOfOthers, up, history>>

\* stop() takes the end of the vector before it joins the first thread. The
\* destructor calls it when a flag is set.
stop ==
    /\ Idle
    /\ m_udpRunning' = FALSE /\ m_tcpRunning' = FALSE
    /\ mpc' = "join"
    /\ join' = Iterator(1, Len(m_workerThreads), FALSE)
    /\ UNCHANGED <<descriptors, peer, transportVars, m_workerThreads,
                   threadsOfOthers, up, history>>

Ended(thread) ==
    IF thread = Listener THEN lpc = "ended"
    ELSE IF thread = Announcer THEN apc = "ended" ELSE hpc[thread] = "ended"

\* Mutant: the iterator is advanced twice.
JoinEveryOther ==
    /\ up /\ mpc = "join" /\ join.next <= join.end
    /\ \/ /\ ~join.stale /\ Ended(m_workerThreads[join.next])
          /\ join' = Iterator(join.next + 2, join.end, FALSE)
          /\ up' = up
       \/ /\ join.stale
          /\ join' = Iterator(join.end + 1, join.end, TRUE)
          /\ up' \in BOOLEAN
    /\ UNCHANGED <<descriptors, peer, transportVars, runVars, m_workerThreads, mpc,
                   threadsOfOthers, history>>

\* Behind a reallocation the loop reads freed memory: moved-from threads, which
\* are not joinable, or anything.
JoinNext ==
    /\ up /\ mpc = "join" /\ join.next <= join.end
    /\ \/ /\ ~join.stale /\ Ended(m_workerThreads[join.next])
          /\ join' = Iterator(join.next + 1, join.end, FALSE)
          /\ up' = up
       \/ /\ join.stale
          /\ join' = Iterator(join.end + 1, join.end, TRUE)
          /\ up' \in BOOLEAN
    /\ UNCHANGED <<descriptors, peer, transportVars, runVars, m_workerThreads, mpc,
                   threadsOfOthers, history>>

\* clear() destroys the threads: std::terminate if one was not joined.
ClearAndClose ==
    /\ up /\ mpc = "join" /\ join.next > join.end
    /\ IF join.stale \/ Len(m_workerThreads) > join.end
       THEN /\ up' = FALSE
            /\ UNCHANGED <<m_isActive, descriptors, m_tcpServerSocket, m_udpSocket, peer,
                           m_workerThreads, mpc, join>>
       ELSE /\ m_workerThreads' = <<>>
            /\ closeSocket
            /\ mpc' = "ready"
            /\ join' = NotJoining
            /\ UNCHANGED up
    /\ UNCHANGED <<runVars, threadsOfOthers, history>>

\* The destructor, which is stop() first if a flag is set. Without a flag it
\* neither stops nor joins.
Destroy ==
    /\ Idle /\ ~m_tcpRunning /\ ~m_udpRunning
    /\ IF m_workerThreads = <<>>
       THEN mpc' = "destroyed" /\ closeSocket /\ UNCHANGED up
       ELSE /\ up' = FALSE
            /\ UNCHANGED <<mpc, m_isActive, descriptors, m_tcpServerSocket, m_udpSocket, peer>>
    /\ UNCHANGED <<runVars, m_workerThreads, join, threadsOfOthers, history>>

-----------------------------------------------------------------------------
(* The listener and the announcer.                                         *)

ListenerLoop ==
    /\ up /\ lpc = "loop"
    /\ lpc' = IF m_tcpRunning THEN "accept" ELSE "ended"
    /\ UNCHANGED <<descriptors, peer, transportVars, runVars, m_workerThreads, mainVars, apc, connVars, tpc, up, history>>

Waiting == {c \in Conn : peer[c] = "waiting"}
Acceptable == m_isActive /\ m_tcpServerSocket # NoSocket /\ Waiting # {} /\ FreeDescriptors # {}

\* Mutant: the connection gets the listening socket.
acceptWrongSocket ==
    /\ up /\ lpc = "accept" /\ Acceptable
    /\ \E d \in Descriptor, c \in Waiting :
           /\ LowestFree(d) /\ \A w \in Waiting : c <= w
           /\ descriptors' = [descriptors EXCEPT ![d] = c]
           /\ m_socket' = [m_socket EXCEPT ![c] = m_tcpServerSocket]
           /\ active' = [active EXCEPT ![c] = TRUE]
           /\ peer' = [peer EXCEPT ![c] = "accepted"]
           /\ hpc' = [hpc EXCEPT ![c] = "loop"]
    /\ lpc' = "append"
    /\ UNCHANGED <<transportVars, runVars, m_workerThreads, mainVars, apc,
                   m_isClosing, argument, reading, replying, tpc, up, history>>

\* waitForTcpConnection and the construction of the connection and its thread.
acceptConnection ==
    /\ up /\ lpc = "accept" /\ Acceptable
    /\ \E d \in Descriptor, c \in Waiting :
           /\ LowestFree(d) /\ \A w \in Waiting : c <= w
           /\ descriptors' = [descriptors EXCEPT ![d] = c]
           /\ m_socket' = [m_socket EXCEPT ![c] = d]
           /\ active' = [active EXCEPT ![c] = TRUE]
           /\ peer' = [peer EXCEPT ![c] = "accepted"]
           /\ hpc' = [hpc EXCEPT ![c] = "loop"]
    /\ lpc' = "append"
    /\ UNCHANGED <<transportVars, runVars, m_workerThreads, mainVars, apc,
                   m_isClosing, argument, reading, replying, tpc, up, history>>

\* The constructor calls onOpenConnection, which is noexcept and starts the
\* provider; start() throws when the CAN socket cannot be opened.
onOpenConnectionThrows ==
    /\ up /\ lpc = "accept" /\ Acceptable
    /\ hasty' = hasty \cup {"no bus"}
    /\ Crash

\* Mutant: the loop ends instead of trying again.
NothingToAcceptEnds ==
    /\ up /\ lpc = "accept" /\ ~Acceptable
    /\ lpc' = "ended"
    /\ UNCHANGED <<descriptors, peer, transportVars, runVars, m_workerThreads, mainVars, apc, connVars, tpc, up, history>>

\* No client, no descriptor left, or the transport closed: wait and try again.
NothingToAccept ==
    /\ up /\ lpc = "accept" /\ ~Acceptable
    /\ lpc' = "loop"
    /\ UNCHANGED <<descriptors, peer, transportVars, runVars, m_workerThreads, mainVars, apc, connVars, tpc, up, history>>

\* The connection that was accepted last.
Newest(c) == hpc[c] # "none" /\ \A b \in Conn : hpc[b] # "none" => b <= c

\* Mutant: the thread is detached, as a comment in tcpListenerThread has it.
ListenerDetaches ==
    /\ up /\ lpc = "append"
    /\ lpc' = "loop"
    /\ UNCHANGED <<descriptors, peer, transportVars, runVars, m_workerThreads, mainVars, apc,
                   connVars, tpc, up, history>>

\* While stop() iterates, its iterators stay as they were; the vector may be
\* reallocated.
ListenerAppended ==
    /\ up /\ lpc = "append"
    /\ \E c \in Conn :
        /\ Newest(c)
        /\ IF mpc = "join"
           THEN /\ m_workerThreads' = Append(m_workerThreads, c)
                /\ \E reallocated \in BOOLEAN :
                        join' = Iterator(join.next, join.end, join.stale \/ reallocated)
                /\ hasty' = hasty \cup {"connected during stop"}
                /\ UNCHANGED up
           ELSE /\ Emplace(c, MainAppending)
                /\ UNCHANGED join
    /\ lpc' = "loop"
    /\ UNCHANGED <<descriptors, peer, transportVars, runVars, mpc, apc,
                   connVars, tpc, failed>>

\* The rounds of udpAnnouncementThread are in Discovery and leave nothing here; it
\* ends when all are done, or at once when the flag is cleared.
udpAnnouncementThread ==
    /\ up /\ apc = "loop"
    /\ apc' = "ended"
    /\ UNCHANGED <<descriptors, peer, transportVars, runVars, m_workerThreads, mainVars, lpc,
                   connVars, tpc, up, history>>

-----------------------------------------------------------------------------
(* The handler of a connection: connectionHandlerThread and the transport.  *)
(* The socket variable is read first and the system call made later, with   *)
(* what was read.                                                           *)

At(c, where) == up /\ hpc[c] = where
Goto(c, where) == hpc' = [hpc EXCEPT ![c] = where]

\* A system call will be made with what the socket variable holds now.
Load(c) == argument' = [argument EXCEPT ![c] = m_socket[c]]
Forget(c) == argument' = [argument EXCEPT ![c] = NoSocket]
BadDescriptor(d) == d \notin Descriptor \ FreeDescriptors

\* A failed read or write clears the flag, and nothing else.
Fail(c) ==
    /\ active' = [active EXCEPT ![c] = FALSE]
    /\ failed' = IF active[c] THEN failed \cup {c} ELSE failed

\* Mutant: the loop does not look at the flag of the server.
HandlerLoopUnchecked(c) ==
    /\ At(c, "loop")
    /\ IF active[c] THEN Goto(c, "recv") /\ Load(c)
       ELSE Goto(c, "close") /\ UNCHANGED argument
    /\ UNCHANGED <<descriptors, peer, serverVars, m_socket, active, m_isClosing, reading, replying,
                   up, history>>

\* The loop condition, then receiveMessage up to its first recv.
HandlerLoop(c) ==
    /\ At(c, "loop")
    /\ IF m_tcpRunning /\ active[c] THEN Goto(c, "recv") /\ Load(c)
       ELSE Goto(c, "close") /\ UNCHANGED argument
    /\ UNCHANGED <<descriptors, peer, serverVars, m_socket, active, m_isClosing, reading, replying,
                   up, history>>

\* recv holds on to the connection it was called for: a close does not wake it.
EnterRecv(c) ==
    /\ At(c, "recv")
    /\ IF BadDescriptor(argument[c])
       THEN Goto(c, "close") /\ Fail(c) /\ UNCHANGED reading
       ELSE /\ Goto(c, "blocked")
            /\ reading' = [reading EXCEPT ![c] = descriptors[argument[c]]]
            /\ UNCHANGED <<active, failed>>
    /\ Forget(c)
    /\ UNCHANGED <<descriptors, peer, serverVars, m_socket, m_isClosing, replying, up, hasty>>

\* A part of a message, after which receiveExactly reads again, or the whole, and
\* handleMessage: the connection goes on, or is to be closed, and the loop ends.
RecvData(c) ==
    /\ At(c, "blocked")
    /\ \/ Goto(c, "recv") /\ Load(c)
       \/ (Goto(c, "loop") \/ Goto(c, "close")) /\ UNCHANGED argument
    /\ reading' = [reading EXCEPT ![c] = Free]
    /\ UNCHANGED <<descriptors, peer, serverVars, m_socket, active, m_isClosing, replying, up,
                   history>>

\* When the timer thread has begun to close the connection, its state may be
\* Closed, whose handler is empty: std::bad_function_call leaves the thread.
CallsEmptyHandler(c) ==
    /\ At(c, "blocked") /\ m_isClosing[c] = "timer"
    /\ Crash /\ UNCHANGED hasty

\* The client has gone, or sent what is no message.
RecvFails(c) ==
    /\ At(c, "blocked")
    /\ Goto(c, "close") /\ Fail(c)
    /\ reading' = [reading EXCEPT ![c] = Free]
    /\ UNCHANGED <<descriptors, peer, serverVars, m_socket, m_isClosing, argument, replying,
                   up, hasty>>

\* The handler, or the worker of the downstream model beside it, answers.
NoReply == -1

StartReply(c) ==
    /\ up /\ hpc[c] \in {"loop", "recv", "blocked", "close"}
    /\ active[c] /\ replying[c] = NoReply
    /\ replying' = [replying EXCEPT ![c] = m_socket[c]]
    /\ UNCHANGED <<descriptors, peer, serverVars, m_socket, active, m_isClosing, hpc, argument,
                   reading, up, history>>

\* The transport may be gone already: whatever uses it may end the process.
Survives(c) == IF hpc[c] = "ended" THEN up' \in BOOLEAN ELSE up' = up

\* A write on a connection the client has left fails, or raises SIGPIPE, which
\* the process does not handle.
WriteReply(c) ==
    /\ up /\ replying[c] # NoReply
    /\ replying' = [replying EXCEPT ![c] = NoReply]
    /\ \/ Fail(c) /\ Survives(c) /\ UNCHANGED hasty
       \/ /\ ~BadDescriptor(replying[c])
          /\ Survives(c)
          /\ UNCHANGED <<active, failed, hasty>>
       \/ /\ ~BadDescriptor(replying[c])
          /\ up' = FALSE
          /\ hasty' = hasty \cup {"left unanswered"}
          /\ UNCHANGED <<active, failed>>
    /\ UNCHANGED <<descriptors, peer, serverVars, m_socket, m_isClosing, hpc, argument, reading>>

\* Mutant: the flag is not consulted.
CloseSocketUnchecked(c) ==
    IF m_socket[c] # NoSocket
    THEN /\ active' = [active EXCEPT ![c] = FALSE]
         /\ descriptors' = Close(descriptors, {m_socket[c]})
    ELSE UNCHANGED <<active, descriptors>>

\* TcpConnectionTransport::close and shutdownSocket: who clears the flag closes.
CloseSocket(c) ==
    IF active[c]
    THEN /\ active' = [active EXCEPT ![c] = FALSE]
         /\ descriptors' = Close(descriptors, {m_socket[c]})
    ELSE UNCHANGED <<active, descriptors>>

ForgetSocket(c) == m_socket' = IF active[c] THEN [m_socket EXCEPT ![c] = NoSocket] ELSE m_socket

\* closeConnection by the handler, unless the timer thread was faster. Who finds
\* the flag cleared does not use the socket variable.
HandlerCloses(c) ==
    /\ At(c, "close") /\ Goto(c, "destroy")
    /\ IF m_isClosing[c] = "no"
       THEN /\ m_isClosing' = [m_isClosing EXCEPT ![c] = "handler"]
            /\ CloseSocket(c) /\ ForgetSocket(c)
       ELSE UNCHANGED <<m_isClosing, active, descriptors, m_socket>>
    /\ UNCHANGED <<peer, serverVars, argument, reading, replying, up, history>>

\* The end of closeConnection, which joins the worker; then the destructors of
\* connection and transport, and the end of the thread.
HandlerEnds(c) ==
    /\ At(c, "destroy") /\ Goto(c, "ended")
    /\ m_isClosing[c] = "handler" => replying[c] = NoReply
    /\ CloseSocket(c) /\ ForgetSocket(c)
    /\ UNCHANGED <<peer, serverVars, m_isClosing, argument, reading, replying, up, history>>

-----------------------------------------------------------------------------
(* The timer thread calls back what it collected: the connection may have   *)
(* been idle and is closed, or the handler has destroyed it in the meantime, *)
(* and the process may end.                                                  *)

Timer(step, c) == [step |-> step, conn |-> c]
TimerIdle == Timer("idle", 0)

TimerAlone ==
    UNCHANGED <<peer, transportVars, runVars, m_workerThreads, mainVars, lpc, apc,
                hpc, argument, reading, replying, history>>

TimerCloses(c) ==
    /\ up /\ tpc.step = "idle"
    /\ hpc[c] \notin {"none", "ended"} /\ m_isClosing[c] = "no"
    /\ m_isClosing' = [m_isClosing EXCEPT ![c] = "timer"]
    /\ tpc' = Timer("shut", c)
    /\ UNCHANGED <<descriptors, m_socket, active, up>>
    /\ TimerAlone

\* A callback that was collected before the handler's stopAll, or a timer armed
\* by a transition that crossed it, is called when the connection is gone: that
\* changes nothing here, or ends the process.
TimerCallsDestroyed(c) ==
    /\ up /\ tpc.step = "idle" /\ hpc[c] = "ended"
    /\ Crash /\ UNCHANGED hasty

TimerShuts ==
    /\ up /\ tpc.step = "shut"
    /\ CloseSocket(tpc.conn)
    /\ tpc' = Timer(IF active[tpc.conn] THEN "forget" ELSE "join", tpc.conn)
    /\ Survives(tpc.conn)
    /\ UNCHANGED <<m_socket, m_isClosing>>
    /\ TimerAlone

TimerForgets ==
    /\ up /\ tpc.step = "forget"
    /\ m_socket' = [m_socket EXCEPT ![tpc.conn] = NoSocket]
    /\ tpc' = Timer("join", tpc.conn)
    /\ Survives(tpc.conn)
    /\ UNCHANGED <<descriptors, active, m_isClosing>>
    /\ TimerAlone

TimerJoins ==
    /\ up /\ tpc.step = "join" /\ replying[tpc.conn] = NoReply
    /\ tpc' = TimerIdle
    /\ Survives(tpc.conn)
    /\ UNCHANGED <<descriptors, m_socket, active, m_isClosing>>
    /\ TimerAlone

-----------------------------------------------------------------------------

Init ==
    /\ descriptors = [d \in Descriptor |-> Free]
    /\ peer = [c \in Conn |-> "none"]
    /\ m_tcpServerSocket = NoSocket /\ m_udpSocket = NoSocket /\ m_isActive = FALSE
    /\ m_tcpRunning = FALSE /\ m_udpRunning = FALSE /\ m_workerThreads = <<>>
    /\ mpc = "ready"
    /\ join = NotJoining
    /\ lpc = "none" /\ apc = "none"
    /\ m_socket = [c \in Conn |-> NoSocket]
    /\ active = [c \in Conn |-> FALSE] /\ m_isClosing = [c \in Conn |-> "no"]
    /\ hpc = [c \in Conn |-> "none"]
    /\ argument = [c \in Conn |-> NoSocket] /\ reading = [c \in Conn |-> Free]
    /\ replying = [c \in Conn |-> NoReply]
    /\ tpc = TimerIdle
    /\ up = TRUE
    /\ failed = {} /\ hasty = {}

\* What the application decides to do, and the rest of what it began.
Application ==
    \/ setupTcpSocket
    \/ setupUdpSocket
    \/ closeTcpSocket
    \/ closeUdpSocket
    \/ stop
    \/ Destroy

Main ==
    \/ BindTcp
    \/ OpenUdp
    \/ StartListener
    \/ MainAppended
    \/ JoinNext
    \/ ClearAndClose

ListenerThread ==
    \/ ListenerLoop
    \/ acceptConnection
    \/ onOpenConnectionThrows
    \/ NothingToAccept
    \/ ListenerAppended

\* What the handler does by itself, and what it waits for.
HandlerRuns(c) ==
    \/ HandlerLoop(c)
    \/ EnterRecv(c)
    \/ HandlerCloses(c)
    \/ HandlerEnds(c)

\* The rest of a close that the timer thread began.
TimerClosing ==
    \/ TimerShuts
    \/ TimerForgets
    \/ TimerJoins

Next ==
    \/ Application
    \/ Main
    \/ ListenerThread
    \/ udpAnnouncementThread
    \/ TimerClosing
    \/ \E c \in Conn :
        \/ Connect(c)
        \/ HandlerRuns(c)
        \/ RecvData(c)
        \/ CallsEmptyHandler(c)
        \/ RecvFails(c)
        \/ StartReply(c)
        \/ WriteReply(c)
        \/ TimerCloses(c)
        \/ TimerCallsDestroyed(c)

\* Every thread that can go on does; clients need neither send, read nor go away.
Spec ==
    /\ Init /\ [][Next]_vars
    /\ WF_vars(Main)
    /\ WF_vars(ListenerThread)
    /\ WF_vars(udpAnnouncementThread)
    /\ WF_vars(TimerClosing)
    /\ \A c \in Conn : WF_vars(HandlerRuns(c))

-----------------------------------------------------------------------------
(* Properties.                                                             *)

Socket == 0..MaxDescriptors

\* The variables have their types, and stop() stays inside the list of threads.
TypeOK ==
    /\ descriptors \in [Descriptor -> Conn \cup {Tcp, Udp, Free}]
    /\ peer \in [Conn -> {"none", "waiting", "accepted", "reset"}]
    /\ m_tcpServerSocket \in Socket /\ m_udpSocket \in Socket /\ m_isActive \in BOOLEAN
    /\ m_tcpRunning \in BOOLEAN /\ m_udpRunning \in BOOLEAN
    /\ m_workerThreads \in Seq(Conn \cup {Listener, Announcer})
    /\ mpc \in {"ready", "bind", "udp", "start", "appendListener", "appendAnnouncer",
                "join", "destroyed"}
    /\ join \in [next : Nat, end : Nat, stale : BOOLEAN]
    /\ join.next \in 1..join.end + 1 /\ join.end <= Len(m_workerThreads)
    /\ lpc \in {"none", "loop", "accept", "append", "ended"}
    /\ apc \in {"none", "loop", "ended"}
    /\ m_socket \in [Conn -> Socket] /\ argument \in [Conn -> Socket]
    /\ active \in [Conn -> BOOLEAN] /\ m_isClosing \in [Conn -> {"no", "handler", "timer"}]
    /\ hpc \in [Conn -> {"none", "loop", "recv", "blocked", "close", "destroy",
                         "ended"}]
    /\ reading \in [Conn -> Conn \cup {Tcp, Udp, Free}]
    /\ replying \in [Conn -> Socket \cup {NoReply}]
    /\ tpc \in [step : {"idle", "shut", "forget", "join"}, conn : Conn \cup {0}]
    /\ up \in BOOLEAN
    /\ failed \subseteq Conn
    /\ hasty \subseteq {"connected during setup", "connected during stop",
                        "left unanswered", "no bus"}

\* The timer thread is between ::close and the assignment of -1.
Forgetting(c) == tpc.step = "forget" /\ tpc.conn = c

\* Every open descriptor is named by the variable of the object it belongs to,
\* and no variable names a descriptor of another one, but for the moment between
\* ::close and the assignment of -1, when the number may have been given away:
\* whoever closes, nobody closes what is not theirs or closes twice.
DescriptorOwnership ==
    /\ \A d \in Descriptor :
        /\ descriptors[d] = Tcp => m_tcpServerSocket = d
        /\ descriptors[d] = Udp => m_udpSocket = d
        /\ \A c \in Conn : descriptors[d] = c => m_socket[c] = d
    /\ m_tcpServerSocket # NoSocket => descriptors[m_tcpServerSocket] = Tcp
    /\ m_udpSocket # NoSocket => descriptors[m_udpSocket] = Udp
    /\ \A c \in Conn :
        m_socket[c] # NoSocket => (descriptors[m_socket[c]] = c \/ Forgetting(c))

\* A connection that is gone has given its descriptor back, or it had a failed
\* read or write; a server that has stopped or was not set up has none open.
LeakOnlyAfterFailure ==
    /\ \A c \in Conn : \A d \in Descriptor :
        (hpc[c] = "ended" /\ descriptors[d] = c) => c \in failed
    /\ (mpc \in {"ready", "destroyed"} /\ ~m_isActive) =>
           \A d \in Descriptor : descriptors[d] \notin {Tcp, Udp}

\* What a system call of the connection that was begun works on.
Target(c) ==
    {reading[c]} \cup {descriptors[d] : d \in {argument[c], replying[c]} \cap Descriptor}

\* A connection reads from and writes to the stream of its own client until it is
\* closed. While it is being closed a call that has the descriptor's number
\* already may hit another client's stream, and one of the server's own sockets
\* only if the connection was destroyed under the timer thread.
OwnStream ==
    \A c \in Conn :
        \/ Target(c) \subseteq {c, Free}
        \/ m_isClosing[c] # "no" /\ Target(c) \subseteq Conn \cup {Free}
        \/ m_isClosing[c] = "timer" /\ hpc[c] = "ended"

\* Whenever no thread is listed (before the first setup, after a stop), none
\* runs and no client waits.
StopJoinsAll ==
    (up /\ mpc \in {"ready", "destroyed"} /\ m_workerThreads = <<>>)
    => /\ lpc \in {"none", "ended"} /\ apc \in {"none", "ended"}
       /\ \A c \in Conn : hpc[c] \in {"none", "ended"} /\ peer[c] # "waiting"

\* The step that ends the process is one of these: a client connects while
\* setupTcpSocket or setupUdpSocket extends the list of threads, or has left
\* before it was answered, or the bus of a new connection cannot be opened;
\* stop() works on a list that a client's connecting has extended; a message
\* comes when the timer thread has begun to close the connection; a callback is
\* called for a destroyed connection; or the handler has destroyed a connection
\* under the timer thread's close, which goes on, or whose worker still replies.
\* A handler that closes itself leaves no worker behind, and whenever no flag is
\* set the destructor finds no thread to join.
ServerSurvives ==
    [][(up /\ ~up') =>
        \/ hasty' # hasty
        \/ (JoinNext \/ ClearAndClose) /\ "connected during stop" \in hasty
        \/ \E c \in Conn :
            \/ CallsEmptyHandler(c) \/ TimerCallsDestroyed(c)
            \/ /\ hpc[c] = "ended" /\ m_isClosing[c] = "timer"
               /\ (tpc.conn = c /\ TimerClosing) \/ WriteReply(c)]_vars

\* stop() returns if no client keeps its handler waiting for ever, for a message,
\* for the rest of one, or to take a reply.
StopReturns ==
    (\A c \in Conn : []<>(hpc[c] \notin {"recv", "blocked"}) /\ []<>(replying[c] = NoReply))
        => (mpc = "join" ~> (mpc # "join" \/ ~up))

\* The clients that wait, of which there are finitely many, are all accepted,
\* while the server runs and has descriptors.
ClientAccepted ==
    Waiting # {} ~> (Waiting = {} \/ ~m_tcpRunning \/ FreeDescriptors = {} \/ ~up)
=============================================================================
