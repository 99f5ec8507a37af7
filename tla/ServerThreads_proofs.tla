------------------------ MODULE ServerThreads_proofs ------------------------
(***************************************************************************)
(* The safety properties of ServerThreads, for any number of connections    *)
(* and descriptors. The inductive invariant says what holds of a connection *)
(* at each place of its handler and of the timer thread, who owns which       *)
(* descriptor, what the transport of the server has open, which threads are   *)
(* listed and what stop() has joined, and which streams a connection can      *)
(* reach.                                                                     *)
(***************************************************************************)
EXTENDS ServerThreads, TLAPS

-----------------------------------------------------------------------------
(* The inductive invariant.                                                *)

\* A connection, its handler, and the timer thread if it is closing it.
ConnInv ==
    /\ \A c \in Conn :
        /\ hpc[c] = "none" => (/\ m_socket[c] = NoSocket /\ replying[c] = NoReply
                               /\ c \notin failed /\ m_isClosing[c] = "no")
        /\ hpc[c] \in {"none", "ended"} => ~active[c]
        /\ peer[c] # "accepted" => hpc[c] = "none"
        /\ hpc[c] # "recv" => argument[c] = NoSocket
        /\ hpc[c] # "blocked" => reading[c] = Free
        /\ hpc[c] \in {"destroy", "ended"} => m_isClosing[c] # "no"
        /\ (hpc[c] = "ended" /\ replying[c] # NoReply) => m_isClosing[c] = "timer"
    /\ tpc.step # "idle" =>
           /\ tpc.conn \in Conn
           /\ m_isClosing[tpc.conn] = "timer" /\ hpc[tpc.conn] # "none"

\* An open descriptor of a connection is the one its variable names, and the
\* connection is active or failed; an active connection has one.
Owned(c) ==
    /\ \A d \in Descriptor :
           descriptors[d] = c =>
               (m_socket[c] = d /\ (active[c] \/ c \in failed) /\ ~Forgetting(c))
    /\ m_socket[c] # NoSocket => (descriptors[m_socket[c]] = c \/ Forgetting(c))
    /\ active[c] => (m_socket[c] # NoSocket /\ ~Forgetting(c))

ConnOwned == \A c \in Conn : Owned(c)

\* The same for the two sockets of the server.
ServerOwned ==
    /\ \A d \in Descriptor :
        /\ descriptors[d] = Tcp => m_tcpServerSocket = d
        /\ descriptors[d] = Udp => m_udpSocket = d
    /\ m_tcpServerSocket # NoSocket => descriptors[m_tcpServerSocket] = Tcp
    /\ m_udpSocket # NoSocket => descriptors[m_udpSocket] = Udp

\* The sockets of the server are open together, but while they are set up.
TransportInv ==
    /\ m_isActive => (m_tcpServerSocket # NoSocket /\ m_udpSocket # NoSocket)
    /\ (~m_isActive /\ mpc \notin {"bind", "udp"})
           => (m_tcpServerSocket = NoSocket /\ m_udpSocket = NoSocket)
    /\ mpc \in {"bind", "udp"}
           => (m_tcpServerSocket # NoSocket /\ m_udpSocket = NoSocket /\ ~m_isActive)
    /\ \A c \in Conn :
           peer[c] = "waiting" => (mpc # "bind" /\ m_tcpServerSocket # NoSocket)

\* Clients are accepted in the order in which they connect.
PeerOrder ==
    \A b, c \in Conn :
        /\ (peer[b] = "accepted" /\ peer[c] = "waiting") => b < c
        /\ (peer[b] # "none" /\ peer[c] = "none") => b < c

\* A thread that runs is in the list, or about to be put there.
Listed ==
    up =>
    /\ lpc \in {"loop", "accept", "append"} => (Started(Listener) \/ mpc = "appendListener")
    /\ apc = "loop" => (Started(Announcer) \/ mpc = "appendAnnouncer")
    /\ \A c \in Conn :
        hpc[c] \notin {"none", "ended"} => (Started(c) \/ (lpc = "append" /\ Newest(c)))

\* m_tcpRunning tells, but for setting up and stopping, if there is something to
\* stop.
Flags ==
    up =>
    /\ (mpc \in {"ready", "bind", "udp", "start", "destroyed"} /\ ~m_tcpRunning)
           => (m_workerThreads = <<>>)
    /\ (mpc \notin {"start", "join"} /\ ~m_tcpRunning) => ~m_isActive
    /\ mpc \in {"bind", "udp", "start", "join", "destroyed"} => ~m_tcpRunning
    /\ mpc \in {"appendListener", "appendAnnouncer"} => m_tcpRunning
    /\ (mpc \in {"ready", "appendAnnouncer"} /\ m_tcpRunning) => Started(Listener)

\* The threads that stop() has passed have ended.
Joined ==
    (up /\ mpc = "join" /\ ~join.stale) =>
        \A i \in 1..join.next - 1 : Ended(m_workerThreads[i])

ThreadInv == Listed /\ Flags /\ Joined

\* What stop() may miss was connected while it worked.
JoinInv ==
    /\ join.stale => "connected during stop" \in hasty
    /\ (mpc = "join" /\ Len(m_workerThreads) > join.end) => "connected during stop" \in hasty

\* What else was recorded has ended the process.
Recorded == up => hasty \subseteq {"connected during stop"}

\* Until it ends, a connection reaches streams of clients only; until it is
\* closed, its own.
ClientsOnly(d) == d \in Descriptor => descriptors[d] \in Conn \cup {Free}

Stream(c) ==
    /\ m_isClosing[c] = "no" =>
           (/\ argument[c] \in {NoSocket, m_socket[c]}
            /\ replying[c] \in {NoReply, m_socket[c]}
            /\ reading[c] \in {c, Free})
    /\ hpc[c] # "ended" =>
           (/\ reading[c] \in Conn \cup {Free}
            /\ ClientsOnly(argument[c]) /\ ClientsOnly(replying[c]) /\ ClientsOnly(m_socket[c]))

StreamInv == \A c \in Conn : Stream(c)

IInv ==
    /\ TypeOK
    /\ ConnInv
    /\ ConnOwned
    /\ ServerOwned
    /\ TransportInv
    /\ PeerOrder
    /\ ThreadInv
    /\ JoinInv
    /\ Recorded
    /\ StreamInv

-----------------------------------------------------------------------------
(* The type invariant in four parts.                                       *)

TypeServer ==
    /\ m_tcpServerSocket \in Socket /\ m_udpSocket \in Socket /\ m_isActive \in BOOLEAN
    /\ m_tcpRunning \in BOOLEAN /\ m_udpRunning \in BOOLEAN
    /\ mpc \in {"ready", "bind", "udp", "start", "appendListener", "appendAnnouncer",
                "join", "destroyed"}
    /\ lpc \in {"none", "loop", "accept", "append", "ended"}
    /\ apc \in {"none", "loop", "ended"}
    /\ up \in BOOLEAN
    /\ hasty \subseteq {"connected during setup", "connected during stop",
                        "left unanswered", "no bus"}

TypeThreads ==
    /\ m_workerThreads \in Seq(Conn \cup {Listener, Announcer})
    /\ join \in [next : Nat, end : Nat, stale : BOOLEAN]
    /\ join.next \in 1..join.end + 1 /\ join.end <= Len(m_workerThreads)

TypeKernel ==
    /\ descriptors \in [Descriptor -> Conn \cup {Tcp, Udp, Free}]
    /\ m_socket \in [Conn -> Socket] /\ argument \in [Conn -> Socket]
    /\ reading \in [Conn -> Conn \cup {Tcp, Udp, Free}]
    /\ replying \in [Conn -> Socket \cup {NoReply}]

TypeConn ==
    /\ active \in [Conn -> BOOLEAN] /\ m_isClosing \in [Conn -> {"no", "handler", "timer"}]
    /\ hpc \in [Conn -> {"none", "loop", "recv", "blocked", "close", "destroy",
                         "ended"}]
    /\ peer \in [Conn -> {"none", "waiting", "accepted", "reset"}]
    /\ tpc \in [step : {"idle", "shut", "forget", "join"}, conn : Conn \cup {0}]
    /\ failed \subseteq Conn

-----------------------------------------------------------------------------
(* Facts about the sets and operators.                                     *)

\* Descriptors and connections are told apart from the marks.
LEMMA Marks ==
    /\ NoSocket \in Socket /\ Descriptor \subseteq Socket /\ NoSocket \notin Descriptor
    /\ \A d \in Socket : d # NoSocket => d \in Descriptor
    /\ NoReply \notin Socket
    /\ Tcp \notin Conn /\ Udp \notin Conn /\ Free \notin Conn
    /\ Listener \notin Conn /\ Announcer \notin Conn /\ Listener # Announcer
    /\ Tcp # Udp /\ Tcp # Free /\ Udp # Free
    /\ Conn \subseteq Int /\ Descriptor \subseteq Int
  BY BoundsAssumption DEF NoSocket, Socket, Descriptor, NoReply, Tcp, Udp, Free, Conn, Listener, Announcer

\* No descriptor is a mark.
LEMMA NoMark == NoSocket \notin Descriptor /\ NoReply \notin Descriptor
  BY Marks

\* Closing frees descriptors and changes nothing else.
LEMMA Closed ==
    ASSUME TypeKernel, NEW ds
    PROVE  /\ Close(descriptors, ds) \in [Descriptor -> Conn \cup {Tcp, Udp, Free}]
           /\ \A d \in Descriptor :
                  Close(descriptors, ds)[d] = IF d \in ds THEN Free ELSE descriptors[d]
  BY DEF TypeKernel, Close

\* A client that still waits has a listening socket to wait at.
LEMMA Peers ==
    ASSUME TypeConn, NEW table
    PROVE  /\ PeersOf(table) \in [Conn -> {"none", "waiting", "accepted", "reset"}]
           /\ \A c \in Conn :
                  \/ PeersOf(table)[c] = peer[c]
                  \/ PeersOf(table)[c] = "reset" /\ peer[c] = "waiting"
           /\ \A c \in Conn :
                  PeersOf(table)[c] = "waiting" => \E d \in Descriptor : table[d] = Tcp
  BY DEF TypeConn, PeersOf

\* What Append does to the list of threads.
LEMMA Appended ==
    ASSUME NEW S, NEW q \in Seq(S), NEW t \in S
    PROVE  /\ Append(q, t) \in Seq(S)
           /\ Len(q) \in Nat
           /\ Len(Append(q, t)) = Len(q) + 1
           /\ \A i \in 1..Len(q) : Append(q, t)[i] = q[i]
           /\ Append(q, t)[Len(q) + 1] = t
  OBVIOUS

\* What closing the server's sockets does.
LEMMA ServerCloses ==
    ASSUME TypeServer, TypeKernel, TypeConn, closeSocket
    PROVE  /\ m_isActive' = FALSE
           /\ \A d \in Descriptor :
                  descriptors'[d] = IF m_isActive /\ d \in {m_tcpServerSocket, m_udpSocket}
                                    THEN Free ELSE descriptors[d]
           /\ m_isActive => (m_tcpServerSocket' = NoSocket /\ m_udpSocket' = NoSocket)
           /\ ~m_isActive => UNCHANGED <<descriptors, m_tcpServerSocket, m_udpSocket, peer>>
           /\ \A c \in Conn : \/ peer'[c] = peer[c]
                              \/ peer'[c] = "reset" /\ peer[c] = "waiting"
           /\ m_isActive => \A c \in Conn :
                  peer'[c] = "waiting" => \E d \in Descriptor : descriptors'[d] = Tcp
  <1>1. CASE m_isActive
    BY <1>1, Closed, Peers DEF closeSocket
  <1>2. CASE ~m_isActive
    BY <1>2 DEF closeSocket, TypeServer
  <1> QED
    BY <1>1, <1>2

\* Only the server's own descriptors are freed by it.
LEMMA OnlyServerSockets ==
    ASSUME TypeServer, TypeKernel, TypeConn, ServerOwned, closeSocket
    PROVE  \A d \in Descriptor :
               \/ descriptors'[d] = descriptors[d]
               \/ descriptors[d] \in {Tcp, Udp} /\ descriptors'[d] = Free
  <1>1. \A d \in Descriptor : d \in {m_tcpServerSocket, m_udpSocket} => descriptors[d] \in {Tcp, Udp}
    BY Marks DEF ServerOwned
  <1> QED
    BY <1>1, ServerCloses

\* The steps that only end the process.
LEMMA Crashed ==
    ASSUME \/ onOpenConnectionThrows
           \/ \E c \in Conn : CallsEmptyHandler(c) \/ TimerCallsDestroyed(c)
    PROVE  /\ up' = FALSE
           /\ hasty' = hasty \/ hasty' = hasty \cup {"no bus"}
           /\ UNCHANGED <<descriptors, peer, m_tcpServerSocket, m_udpSocket, m_isActive,
                          m_tcpRunning, m_udpRunning, m_workerThreads, mpc, join, lpc, apc,
                          m_socket, active, m_isClosing, hpc, argument, reading, replying, tpc,
                          failed>>
  BY DEF onOpenConnectionThrows, CallsEmptyHandler, TimerCallsDestroyed, Crash, serverVars,
         transportVars, runVars, mainVars, connVars

\* A step that changes nothing that a connection's ownership depends on.
LEMMA OwnedSame ==
    ASSUME TypeKernel, NEW b \in Conn, Owned(b),
           m_socket'[b] = m_socket[b], active'[b] = active[b],
           b \in failed <=> b \in failed', Forgetting(b)' <=> Forgetting(b),
           \A d \in Descriptor : descriptors'[d] = b <=> descriptors[d] = b
    PROVE  Owned(b)'
  <1>1. m_socket[b] # NoSocket => m_socket[b] \in Descriptor
    BY Marks DEF TypeKernel
  <1> QED
    BY <1>1 DEF Owned

\* Without threads in the list nothing runs.
LEMMA NobodyRuns ==
    ASSUME ThreadInv, up, m_workerThreads = <<>>,
           mpc \in {"ready", "bind", "udp", "start", "destroyed"}
    PROVE  /\ lpc \notin {"loop", "accept", "append"} /\ apc # "loop"
           /\ \A b \in Conn : hpc[b] \in {"none", "ended"}
  <1>1. ASSUME NEW t PROVE ~Started(t)
    BY DEF Started
  <1> QED
    BY <1>1 DEF ThreadInv, Listed

\* A step that takes what a connection reaches from what it reached before.
LEMMA StreamKept ==
    ASSUME NEW b \in Conn, Stream(b),
           \A d \in Descriptor :
               descriptors[d] \in Conn \cup {Free} => descriptors'[d] \in Conn \cup {Free},
           hpc'[b] # "ended" => hpc[b] # "ended",
           m_isClosing'[b] = "no" => (m_isClosing[b] = "no" /\ m_socket'[b] = m_socket[b]),
           m_socket'[b] \in {m_socket[b], NoSocket},
           argument'[b] \in {argument[b], NoSocket, m_socket[b]},
           replying'[b] \in {replying[b], NoReply, m_socket[b]},
           m_isClosing[b] = "no" => reading'[b] \in {b, Free},
           hpc[b] # "ended" => reading'[b] \in Conn \cup {Free}
    PROVE  Stream(b)'
  <1>1. m_isClosing'[b] = "no" =>
            /\ argument'[b] \in {NoSocket, m_socket'[b]}
            /\ replying'[b] \in {NoReply, m_socket'[b]}
            /\ reading'[b] \in {b, Free}
    BY DEF Stream
  <1>2. ASSUME NEW d \in {argument'[b], replying'[b], m_socket'[b]}, hpc'[b] # "ended", d \in Descriptor
        PROVE  descriptors'[d] \in Conn \cup {Free}
    <2>1. d \in {argument[b], replying[b], m_socket[b]}
      BY <1>2, NoMark
    <2>2. descriptors[d] \in Conn \cup {Free}
      BY <1>2, <2>1 DEF Stream, ClientsOnly
    <2> QED
      BY <1>2, <2>2
  <1>3. hpc'[b] # "ended" =>
            /\ reading'[b] \in Conn \cup {Free}
            /\ ClientsOnly(argument[b])' /\ ClientsOnly(replying[b])' /\ ClientsOnly(m_socket[b])'
    BY <1>2 DEF ClientsOnly
  <1> QED
    BY <1>1, <1>3 DEF Stream

\* The parts of an iterator.
LEMMA Iterators ==
    ASSUME NEW n \in Nat, NEW e \in Nat, NEW s \in BOOLEAN
    PROVE  /\ Iterator(n, e, s) \in [next : Nat, end : Nat, stale : BOOLEAN]
           /\ Iterator(n, e, s).next = n /\ Iterator(n, e, s).end = e
           /\ Iterator(n, e, s).stale = s
  BY DEF Iterator

\* Putting a thread into the list takes none out.
LEMMA StartedAppended ==
    ASSUME TypeThreads, NEW t \in Conn \cup {Listener, Announcer},
           m_workerThreads' = Append(m_workerThreads, t)
    PROVE  /\ Started(t)'
           /\ \A x \in Conn \cup {Listener, Announcer} : Started(x) => Started(x)'
           /\ \A i \in 1..Len(m_workerThreads) : m_workerThreads'[i] = m_workerThreads[i]
  <1>1. /\ Len(m_workerThreads) \in Nat /\ Len(m_workerThreads') = Len(m_workerThreads) + 1
        /\ m_workerThreads'[Len(m_workerThreads) + 1] = t
    BY Appended DEF TypeThreads
  <1>2. \A i \in 1..Len(m_workerThreads) : m_workerThreads'[i] = m_workerThreads[i]
    BY Appended DEF TypeThreads
  <1>3. Started(t)'
    BY <1>1 DEF Started
  <1>4. ASSUME NEW x \in Conn \cup {Listener, Announcer}, Started(x) PROVE Started(x)'
    <2>1. PICK i \in 1..Len(m_workerThreads) : m_workerThreads[i] = x
      BY <1>4 DEF Started
    <2>2. i \in 1..Len(m_workerThreads') /\ m_workerThreads'[i] = x
      BY <1>1, <1>2, <2>1
    <2> QED
      BY <2>2 DEF Started
  <1> QED
    BY <1>2, <1>3, <1>4

\* A thread that has ended is only started again by the thread that stops.
LEMMA EndedStays ==
    ASSUME NEW t \in Conn \cup {Listener, Announcer}, Ended(t),
           lpc = "ended" => lpc' = "ended", apc = "ended" => apc' = "ended",
           \A c \in Conn : hpc[c] = "ended" => hpc'[c] = "ended"
    PROVE  Ended(t)'
  BY DEF Ended

\* When stop() is through, every listed thread has ended.
LEMMA AllEnded ==
    ASSUME TypeThreads, ThreadInv, up, mpc = "join", ~join.stale, join.next > join.end,
           Len(m_workerThreads) <= join.end
    PROVE  /\ lpc \notin {"loop", "accept", "append"} /\ apc # "loop"
           /\ \A b \in Conn : hpc[b] \in {"none", "ended"}
  <1>1. ASSUME NEW t, Started(t) PROVE Ended(t)
    <2>1. PICK i \in 1..Len(m_workerThreads) : m_workerThreads[i] = t
      BY <1>1 DEF Started
    <2>2. i \in 1..join.next - 1
      BY <2>1 DEF TypeThreads
    <2> QED
      BY <2>1, <2>2 DEF ThreadInv, Joined
  <1>2. lpc \notin {"loop", "accept", "append"} /\ apc # "loop"
    BY <1>1, Marks DEF ThreadInv, Listed, Ended
  <1>3. ASSUME NEW b \in Conn PROVE hpc[b] \in {"none", "ended"}
    <2>1. Started(b) => hpc[b] = "ended"
      BY <1>1, Marks DEF Ended
    <2> QED
      BY <1>2, <2>1 DEF ThreadInv, Listed
  <1> QED
    BY <1>2, <1>3

\* stop() need not look back: no thread starts again behind it.
LEMMA StillJoined ==
    ASSUME TypeThreads, Joined, up, UNCHANGED <<mpc, join, m_workerThreads>>,
           lpc = "ended" => lpc' = "ended", apc = "ended" => apc' = "ended",
           \A c \in Conn : hpc[c] = "ended" => hpc'[c] = "ended"
    PROVE  Joined'
  <1>1. ASSUME NEW i \in 1..join.next - 1, mpc = "join", ~join.stale
        PROVE  Ended(m_workerThreads[i])'
    <2>1. PICK t \in Conn \cup {Listener, Announcer} : t = m_workerThreads[i] /\ t = m_workerThreads'[i]
      BY DEF TypeThreads
    <2>2. Ended(t)
      BY <1>1, <2>1 DEF Joined
    <2>3. Ended(t)'
      BY <2>2, EndedStays
    <2> QED
      BY <2>1, <2>3
  <1> QED
    BY <1>1 DEF Joined

\* The server, its flags and its main threads keep their types.
LEMMA TypeServerKept == TypeServer /\ Next => TypeServer'
  <1> SUFFICES ASSUME TypeServer, Next PROVE TypeServer'
    OBVIOUS
  <1> USE DEF TypeServer, transportVars, runVars, mainVars, connVars, history, threadsOfOthers, serverVars, TimerAlone
  <1>1. CASE setupTcpSocket
    BY <1>1, Marks DEF setupTcpSocket, Idle, LowestFree, FreeDescriptors
  <1>2. CASE BindTcp
    BY <1>2, Marks DEF BindTcp
  <1>3. CASE OpenUdp
    BY <1>3, Marks DEF OpenUdp, UndoTcp, LowestFree, FreeDescriptors
  <1>4. CASE StartListener
    BY <1>4, Marks DEF StartListener
  <1>5. CASE setupUdpSocket
    BY <1>5, Marks DEF setupUdpSocket, Idle
  <1>6. CASE MainAppended
    BY <1>6, Marks DEF MainAppended, Emplace, MainAppending
  <1>7. CASE closeTcpSocket
    BY <1>7, Marks DEF closeTcpSocket, Idle, closeSocket
  <1>8. CASE closeUdpSocket
    BY <1>8, Marks DEF closeUdpSocket, Idle
  <1>9. CASE stop
    BY <1>9, Marks DEF stop, Idle, Iterator
  <1>10. CASE JoinNext
    BY <1>10, Marks DEF JoinNext, Iterator
  <1>11. CASE ClearAndClose
    BY <1>11, Marks DEF ClearAndClose, closeSocket
  <1>12. CASE Destroy
    BY <1>12, Marks DEF Destroy, Idle, closeSocket
  <1>13. CASE ListenerLoop
    BY <1>13, Marks DEF ListenerLoop
  <1>14. CASE acceptConnection
    BY <1>14, Marks DEF acceptConnection, Waiting, Acceptable, LowestFree, FreeDescriptors
  <1>15. CASE NothingToAccept
    BY <1>15, Marks DEF NothingToAccept
  <1>16. CASE ListenerAppended
    BY <1>16, Marks DEF ListenerAppended, Emplace, MainAppending, Iterator
  <1>17. CASE udpAnnouncementThread
    BY <1>17, Marks DEF udpAnnouncementThread
  <1>18. CASE TimerShuts
    BY <1>18, Marks DEF TimerShuts, CloseSocket, Timer, Survives
  <1>19. CASE TimerForgets
    BY <1>19, Marks DEF TimerForgets, Timer, Survives
  <1>20. CASE TimerJoins
    BY <1>20, Marks DEF TimerJoins, Timer, TimerIdle, Survives
  <1>21. ASSUME NEW c \in Conn, Connect(c) PROVE TypeServer'
    BY <1>21, Marks DEF Connect
  <1>22. ASSUME NEW c \in Conn, HandlerLoop(c) PROVE TypeServer'
    BY <1>22, Marks DEF HandlerLoop, At, Goto, Load
  <1>23. ASSUME NEW c \in Conn, EnterRecv(c) PROVE TypeServer'
    BY <1>23, Marks DEF EnterRecv, At, Goto, Fail, Forget
  <1>24. ASSUME NEW c \in Conn, HandlerCloses(c) PROVE TypeServer'
    BY <1>24, Marks DEF HandlerCloses, At, Goto, CloseSocket, ForgetSocket
  <1>25. ASSUME NEW c \in Conn, HandlerEnds(c) PROVE TypeServer'
    BY <1>25, Marks DEF HandlerEnds, At, Goto, CloseSocket, ForgetSocket
  <1>26. ASSUME NEW c \in Conn, RecvData(c) PROVE TypeServer'
    BY <1>26, Marks DEF RecvData, At, Goto, Load
  <1>27. ASSUME NEW c \in Conn, RecvFails(c) PROVE TypeServer'
    BY <1>27, Marks DEF RecvFails, At, Goto, Fail
  <1>28. ASSUME NEW c \in Conn, StartReply(c) PROVE TypeServer'
    BY <1>28, Marks DEF StartReply
  <1>29. ASSUME NEW c \in Conn, WriteReply(c) PROVE TypeServer'
    BY <1>29, Marks DEF WriteReply, Fail, Survives
  <1>30. ASSUME NEW c \in Conn, TimerCloses(c) PROVE TypeServer'
    BY <1>30, Marks DEF TimerCloses, Timer, TimerIdle
  <1>31. CASE \/ onOpenConnectionThrows
              \/ \E c \in Conn : CallsEmptyHandler(c) \/ TimerCallsDestroyed(c)
    <2>1. up' \in BOOLEAN
      BY <1>31, Crashed, Zenon
    <2>2. hasty' \subseteq {"connected during setup", "connected during stop",
                            "left unanswered", "no bus"}
      BY <1>31, Crashed, Zenon
    <2>3. UNCHANGED <<m_tcpServerSocket, m_udpSocket, m_isActive, m_tcpRunning, m_udpRunning, mpc,
                      lpc, apc>>
      BY <1>31, Crashed, Zenon
    <2> QED
      BY <2>1, <2>2, <2>3
  <1> QED
    BY <1>1, <1>2, <1>3, <1>4, <1>5, <1>6, <1>7, <1>8, <1>9, <1>10, <1>11, <1>12, <1>13, <1>14, <1>15, <1>16, <1>17, <1>18, <1>19, <1>20, <1>21, <1>22, <1>23, <1>24, <1>25, <1>26, <1>27, <1>28, <1>29, <1>30, <1>31 DEF Next, Application, Main, ListenerThread, HandlerRuns, TimerClosing

\* The list of threads and the iterator of stop() keep their types.
LEMMA TypeThreadsKept == TypeServer /\ TypeThreads /\ Next => TypeThreads'
  <1> SUFFICES ASSUME TypeServer, TypeThreads, Next PROVE TypeThreads'
    OBVIOUS
  <1> USE DEF TypeThreads, transportVars, runVars, mainVars, connVars, history, threadsOfOthers, serverVars, TimerAlone
  <1>1. CASE setupTcpSocket
    BY <1>1 DEF setupTcpSocket, Idle, LowestFree, FreeDescriptors
  <1>2. CASE BindTcp
    BY <1>2 DEF BindTcp
  <1>3. CASE OpenUdp
    BY <1>3 DEF OpenUdp, UndoTcp, LowestFree, FreeDescriptors
  <1>4. CASE StartListener
    BY <1>4 DEF StartListener
  <1>5. CASE setupUdpSocket
    BY <1>5 DEF setupUdpSocket, Idle
  <1>6. CASE MainAppended
    <2> DEFINE t == IF mpc = "appendListener" THEN Listener ELSE Announcer
    <2>1. t \in Conn \cup {Listener, Announcer}
      BY <1>6
    <2>2. m_workerThreads' \in {m_workerThreads, Append(m_workerThreads, t)}
      BY <1>6 DEF MainAppended, Emplace
    <2>3. /\ m_workerThreads' \in Seq(Conn \cup {Listener, Announcer})
          /\ Len(m_workerThreads) \in Nat /\ Len(m_workerThreads') \in Nat
          /\ Len(m_workerThreads') >= Len(m_workerThreads)
      BY <2>1, <2>2, Appended
    <2>4. join' = join
      BY <1>6 DEF MainAppended
    <2> QED
      BY <2>3, <2>4
  <1>7. CASE closeTcpSocket
    BY <1>7 DEF closeTcpSocket, Idle
  <1>8. CASE closeUdpSocket
    BY <1>8 DEF closeUdpSocket, Idle
  <1>9. CASE stop
    BY <1>9 DEF stop, Idle, Iterator
  <1>10. CASE JoinNext
    <2>1. m_workerThreads' = m_workerThreads /\ Len(m_workerThreads) \in Nat
      BY <1>10 DEF JoinNext
    <2>2. join.next \in Nat /\ join.end \in Nat /\ join.next <= join.end
      BY <1>10 DEF JoinNext
    <2>3. join' = Iterator(join.next + 1, join.end, FALSE) \/ join' = Iterator(join.end + 1, join.end, TRUE)
      BY <1>10 DEF JoinNext
    <2> QED
      <3>1. CASE join' = Iterator(join.next + 1, join.end, FALSE)
        <4>1. join' \in [next : Nat, end : Nat, stale : BOOLEAN] /\ join'.next = join.next + 1 /\ join'.end = join.end
          BY <2>2, <3>1 DEF Iterator
        <4> QED
          BY <2>1, <2>2, <4>1
      <3>2. CASE join' = Iterator(join.end + 1, join.end, TRUE)
        <4>1. join' \in [next : Nat, end : Nat, stale : BOOLEAN] /\ join'.next = join.end + 1 /\ join'.end = join.end
          BY <2>2, <3>2 DEF Iterator
        <4> QED
          BY <2>1, <2>2, <4>1
      <3> QED
        BY <2>3, <3>1, <3>2
  <1>11. CASE ClearAndClose
    <2>1. \/ m_workerThreads' = <<>> /\ join' = Iterator(1, 0, FALSE)
          \/ UNCHANGED <<m_workerThreads, join>>
      BY <1>11 DEF ClearAndClose, NotJoining
    <2>3. CASE join' = Iterator(1, 0, FALSE) /\ m_workerThreads' = <<>>
      <3>1. join' \in [next : Nat, end : Nat, stale : BOOLEAN] /\ join'.next = 1 /\ join'.end = 0
        BY <2>3 DEF Iterator
      <3>2. join'.next \in 1..join'.end + 1
        BY <3>1
      <3>3. m_workerThreads' \in Seq(Conn \cup {Listener, Announcer}) /\ Len(m_workerThreads') = 0
        BY <2>3
      <3> QED
        BY <3>1, <3>2, <3>3
    <2> QED
      BY <2>1, <2>3
  <1>12. CASE Destroy
    BY <1>12 DEF Destroy, Idle
  <1>13. CASE ListenerLoop
    BY <1>13 DEF ListenerLoop
  <1>14. CASE acceptConnection
    BY <1>14 DEF acceptConnection, Waiting, Acceptable, LowestFree, FreeDescriptors
  <1>15. CASE NothingToAccept
    BY <1>15 DEF NothingToAccept
  <1>16. CASE ListenerAppended
    <2>0. PICK c \in Conn : Newest(c) /\ m_workerThreads' \in {m_workerThreads, Append(m_workerThreads, c)}
      BY <1>16 DEF ListenerAppended, Emplace
    <2>3. /\ m_workerThreads' \in Seq(Conn \cup {Listener, Announcer})
          /\ Len(m_workerThreads) \in Nat /\ Len(m_workerThreads') \in Nat
          /\ Len(m_workerThreads') >= Len(m_workerThreads)
      <3>1. Append(m_workerThreads, c) \in Seq(Conn \cup {Listener, Announcer})
        BY Appended
      <3>2. Len(m_workerThreads) \in Nat /\ Len(Append(m_workerThreads, c)) = Len(m_workerThreads) + 1
        BY Appended
      <3>3. CASE m_workerThreads' = Append(m_workerThreads, c)
        BY <3>1, <3>2, <3>3
      <3>4. CASE m_workerThreads' = m_workerThreads
        BY <3>2, <3>4
      <3> QED
        BY <2>0, <3>3, <3>4
    <2>4. join' = join \/ \E stale \in BOOLEAN : join' = Iterator(join.next, join.end, stale)
      BY <1>16 DEF ListenerAppended
    <2> QED
      BY <2>3, <2>4, Iterators
  <1>17. CASE udpAnnouncementThread
    BY <1>17 DEF udpAnnouncementThread
  <1>18. CASE TimerShuts
    BY <1>18 DEF TimerShuts, CloseSocket, Timer, Survives
  <1>19. CASE TimerForgets
    BY <1>19 DEF TimerForgets, Timer, Survives
  <1>20. CASE TimerJoins
    BY <1>20 DEF TimerJoins, Timer, TimerIdle, Survives
  <1>21. ASSUME NEW c \in Conn, Connect(c) PROVE TypeThreads'
    BY <1>21 DEF Connect
  <1>22. ASSUME NEW c \in Conn, HandlerLoop(c) PROVE TypeThreads'
    BY <1>22 DEF HandlerLoop, At, Goto, Load
  <1>23. ASSUME NEW c \in Conn, EnterRecv(c) PROVE TypeThreads'
    BY <1>23 DEF EnterRecv, At, Goto, Fail, Forget
  <1>24. ASSUME NEW c \in Conn, HandlerCloses(c) PROVE TypeThreads'
    BY <1>24 DEF HandlerCloses, At, Goto, CloseSocket, ForgetSocket
  <1>25. ASSUME NEW c \in Conn, HandlerEnds(c) PROVE TypeThreads'
    BY <1>25 DEF HandlerEnds, At, Goto, CloseSocket, ForgetSocket
  <1>26. ASSUME NEW c \in Conn, RecvData(c) PROVE TypeThreads'
    BY <1>26 DEF RecvData, At, Goto, Load
  <1>27. ASSUME NEW c \in Conn, RecvFails(c) PROVE TypeThreads'
    BY <1>27 DEF RecvFails, At, Goto, Fail
  <1>28. ASSUME NEW c \in Conn, StartReply(c) PROVE TypeThreads'
    BY <1>28 DEF StartReply
  <1>29. ASSUME NEW c \in Conn, WriteReply(c) PROVE TypeThreads'
    BY <1>29 DEF WriteReply, Fail, Survives
  <1>30. ASSUME NEW c \in Conn, TimerCloses(c) PROVE TypeThreads'
    BY <1>30 DEF TimerCloses, Timer, TimerIdle
  <1>31. CASE \/ onOpenConnectionThrows
              \/ \E c \in Conn : CallsEmptyHandler(c) \/ TimerCallsDestroyed(c)
    BY <1>31, Crashed DEF TypeThreads
  <1> QED
    BY <1>1, <1>2, <1>3, <1>4, <1>5, <1>6, <1>7, <1>8, <1>9, <1>10, <1>11, <1>12, <1>13, <1>14, <1>15, <1>16, <1>17, <1>18, <1>19, <1>20, <1>21, <1>22, <1>23, <1>24, <1>25, <1>26, <1>27, <1>28, <1>29, <1>30, <1>31 DEF Next, Application, Main, ListenerThread, HandlerRuns, TimerClosing

\* The descriptor table and the socket variables keep their types.
LEMMA TypeKernelKept == TypeServer /\ TypeKernel /\ Next => TypeKernel'
  <1> SUFFICES ASSUME TypeServer, TypeKernel, Next PROVE TypeKernel'
    OBVIOUS
  <1> USE DEF TypeKernel, transportVars, runVars, mainVars, connVars, history, threadsOfOthers, serverVars, TimerAlone
  <1>1. CASE setupTcpSocket
    BY <1>1, Marks, Closed DEF setupTcpSocket, Idle, LowestFree, FreeDescriptors
  <1>2. CASE BindTcp
    BY <1>2, Marks, Closed DEF BindTcp
  <1>3. CASE OpenUdp
    BY <1>3, Marks, Closed DEF OpenUdp, UndoTcp, LowestFree, FreeDescriptors
  <1>4. CASE StartListener
    BY <1>4, Marks, Closed DEF StartListener
  <1>5. CASE setupUdpSocket
    BY <1>5, Marks, Closed DEF setupUdpSocket, Idle
  <1>6. CASE MainAppended
    BY <1>6, Marks, Closed DEF MainAppended, Emplace, MainAppending
  <1>7. CASE closeTcpSocket
    BY <1>7, Marks, Closed DEF closeTcpSocket, Idle, closeSocket
  <1>8. CASE closeUdpSocket
    BY <1>8, Marks, Closed DEF closeUdpSocket, Idle
  <1>9. CASE stop
    BY <1>9, Marks, Closed DEF stop, Idle, Iterator
  <1>10. CASE JoinNext
    BY <1>10, Marks, Closed DEF JoinNext, Iterator
  <1>11. CASE ClearAndClose
    <2>1. descriptors' \in {descriptors, Close(descriptors, {m_tcpServerSocket, m_udpSocket})}
      BY <1>11 DEF ClearAndClose, closeSocket
    <2>2. UNCHANGED <<m_socket, argument, reading, replying>>
      BY <1>11 DEF ClearAndClose
    <2> QED
      BY <2>1, <2>2, Closed
  <1>12. CASE Destroy
    <2>1. descriptors' \in {descriptors, Close(descriptors, {m_tcpServerSocket, m_udpSocket})}
      BY <1>12 DEF Destroy, closeSocket
    <2>2. UNCHANGED <<m_socket, argument, reading, replying>>
      BY <1>12 DEF Destroy
    <2> QED
      BY <2>1, <2>2, Closed
  <1>13. CASE ListenerLoop
    BY <1>13, Marks, Closed DEF ListenerLoop
  <1>14. CASE acceptConnection
    BY <1>14, Marks, Closed DEF acceptConnection, Waiting, Acceptable, LowestFree, FreeDescriptors
  <1>15. CASE NothingToAccept
    BY <1>15, Marks, Closed DEF NothingToAccept
  <1>16. CASE ListenerAppended
    BY <1>16, Marks, Closed DEF ListenerAppended, Emplace, MainAppending, Iterator
  <1>17. CASE udpAnnouncementThread
    BY <1>17, Marks, Closed DEF udpAnnouncementThread
  <1>18. CASE TimerShuts
    BY <1>18, Marks, Closed DEF TimerShuts, CloseSocket, Timer, Survives
  <1>19. CASE TimerForgets
    BY <1>19, Marks, Closed DEF TimerForgets, Timer, Survives
  <1>20. CASE TimerJoins
    BY <1>20, Marks, Closed DEF TimerJoins, Timer, TimerIdle, Survives
  <1>21. ASSUME NEW c \in Conn, Connect(c) PROVE TypeKernel'
    BY <1>21, Marks, Closed DEF Connect
  <1>22. ASSUME NEW c \in Conn, HandlerLoop(c) PROVE TypeKernel'
    BY <1>22, Marks, Closed DEF HandlerLoop, At, Goto, Load
  <1>23. ASSUME NEW c \in Conn, EnterRecv(c) PROVE TypeKernel'
    <2>1. argument' = [argument EXCEPT ![c] = NoSocket]
      BY <1>23 DEF EnterRecv, Forget
    <2>2. UNCHANGED <<descriptors, m_socket, replying>>
      BY <1>23 DEF EnterRecv
    <2>3. \/ reading' = reading
          \/ /\ argument[c] \in Descriptor
             /\ reading' = [reading EXCEPT ![c] = descriptors[argument[c]]]
      BY <1>23, Marks DEF EnterRecv, BadDescriptor, FreeDescriptors
    <2> QED
      BY <2>1, <2>2, <2>3, Marks
  <1>24. ASSUME NEW c \in Conn, HandlerCloses(c) PROVE TypeKernel'
    BY <1>24, Marks, Closed DEF HandlerCloses, At, Goto, CloseSocket, ForgetSocket
  <1>25. ASSUME NEW c \in Conn, HandlerEnds(c) PROVE TypeKernel'
    BY <1>25, Marks, Closed DEF HandlerEnds, At, Goto, CloseSocket, ForgetSocket
  <1>26. ASSUME NEW c \in Conn, RecvData(c) PROVE TypeKernel'
    BY <1>26, Marks, Closed DEF RecvData, At, Goto, Load
  <1>27. ASSUME NEW c \in Conn, RecvFails(c) PROVE TypeKernel'
    BY <1>27, Marks, Closed DEF RecvFails, At, Goto, Fail
  <1>28. ASSUME NEW c \in Conn, StartReply(c) PROVE TypeKernel'
    BY <1>28, Marks, Closed DEF StartReply
  <1>29. ASSUME NEW c \in Conn, WriteReply(c) PROVE TypeKernel'
    BY <1>29, Marks, Closed DEF WriteReply, Fail, Survives
  <1>30. ASSUME NEW c \in Conn, TimerCloses(c) PROVE TypeKernel'
    BY <1>30, Marks, Closed DEF TimerCloses, Timer, TimerIdle
  <1>31. CASE \/ onOpenConnectionThrows
              \/ \E c \in Conn : CallsEmptyHandler(c) \/ TimerCallsDestroyed(c)
    BY <1>31, Crashed DEF TypeKernel
  <1> QED
    BY <1>1, <1>2, <1>3, <1>4, <1>5, <1>6, <1>7, <1>8, <1>9, <1>10, <1>11, <1>12, <1>13, <1>14, <1>15, <1>16, <1>17, <1>18, <1>19, <1>20, <1>21, <1>22, <1>23, <1>24, <1>25, <1>26, <1>27, <1>28, <1>29, <1>30, <1>31 DEF Next, Application, Main, ListenerThread, HandlerRuns, TimerClosing

\* The connections, the clients and the timer thread keep their types.
LEMMA TypeConnKept == TypeConn /\ Next => TypeConn'
  <1> SUFFICES ASSUME TypeConn, Next PROVE TypeConn'
    OBVIOUS
  <1> USE DEF TypeConn, transportVars, runVars, mainVars, connVars, history, threadsOfOthers, serverVars, TimerAlone
  <1>1. CASE setupTcpSocket
    BY <1>1 DEF setupTcpSocket, Idle, LowestFree, FreeDescriptors
  <1>2. CASE BindTcp
    BY <1>2 DEF BindTcp
  <1>3. CASE OpenUdp
    BY <1>3, Peers DEF OpenUdp, UndoTcp, LowestFree, FreeDescriptors
  <1>4. CASE StartListener
    BY <1>4 DEF StartListener
  <1>5. CASE setupUdpSocket
    BY <1>5 DEF setupUdpSocket, Idle
  <1>6. CASE MainAppended
    BY <1>6 DEF MainAppended, Emplace, MainAppending
  <1>7. CASE closeTcpSocket
    BY <1>7, Peers DEF closeTcpSocket, Idle, closeSocket
  <1>8. CASE closeUdpSocket
    BY <1>8 DEF closeUdpSocket, Idle
  <1>9. CASE stop
    BY <1>9 DEF stop, Idle, Iterator
  <1>10. CASE JoinNext
    BY <1>10 DEF JoinNext, Iterator
  <1>11. CASE ClearAndClose
    BY <1>11, Peers DEF ClearAndClose, closeSocket
  <1>12. CASE Destroy
    BY <1>12, Peers DEF Destroy, Idle, closeSocket
  <1>13. CASE ListenerLoop
    BY <1>13 DEF ListenerLoop
  <1>14. CASE acceptConnection
    BY <1>14 DEF acceptConnection, Waiting, Acceptable, LowestFree, FreeDescriptors
  <1>15. CASE NothingToAccept
    BY <1>15 DEF NothingToAccept
  <1>16. CASE ListenerAppended
    BY <1>16 DEF ListenerAppended, Emplace, MainAppending, Iterator
  <1>17. CASE udpAnnouncementThread
    BY <1>17 DEF udpAnnouncementThread
  <1>18. CASE TimerShuts
    BY <1>18 DEF TimerShuts, CloseSocket, Timer, Survives
  <1>19. CASE TimerForgets
    BY <1>19 DEF TimerForgets, Timer, Survives
  <1>20. CASE TimerJoins
    BY <1>20 DEF TimerJoins, Timer, TimerIdle, Survives
  <1>21. ASSUME NEW c \in Conn, Connect(c) PROVE TypeConn'
    BY <1>21 DEF Connect
  <1>22. ASSUME NEW c \in Conn, HandlerLoop(c) PROVE TypeConn'
    BY <1>22 DEF HandlerLoop, At, Goto, Load
  <1>23. ASSUME NEW c \in Conn, EnterRecv(c) PROVE TypeConn'
    <2>1. hpc' \in {[hpc EXCEPT ![c] = "close"], [hpc EXCEPT ![c] = "blocked"]}
      BY <1>23 DEF EnterRecv, Goto
    <2>2. /\ active' \in {active, [active EXCEPT ![c] = FALSE]}
          /\ failed' \in {failed, failed \cup {c}}
      BY <1>23 DEF EnterRecv, Fail
    <2> QED
      BY <1>23, <2>1, <2>2 DEF EnterRecv
  <1>24. ASSUME NEW c \in Conn, HandlerCloses(c) PROVE TypeConn'
    BY <1>24 DEF HandlerCloses, At, Goto, CloseSocket, ForgetSocket
  <1>25. ASSUME NEW c \in Conn, HandlerEnds(c) PROVE TypeConn'
    BY <1>25 DEF HandlerEnds, At, Goto, CloseSocket, ForgetSocket
  <1>26. ASSUME NEW c \in Conn, RecvData(c) PROVE TypeConn'
    BY <1>26 DEF RecvData, At, Goto, Load
  <1>27. ASSUME NEW c \in Conn, RecvFails(c) PROVE TypeConn'
    BY <1>27 DEF RecvFails, At, Goto, Fail
  <1>28. ASSUME NEW c \in Conn, StartReply(c) PROVE TypeConn'
    BY <1>28 DEF StartReply
  <1>29. ASSUME NEW c \in Conn, WriteReply(c) PROVE TypeConn'
    BY <1>29 DEF WriteReply, Fail, Survives
  <1>30. ASSUME NEW c \in Conn, TimerCloses(c) PROVE TypeConn'
    BY <1>30 DEF TimerCloses, Timer, TimerIdle
  <1>31. CASE \/ onOpenConnectionThrows
              \/ \E c \in Conn : CallsEmptyHandler(c) \/ TimerCallsDestroyed(c)
    BY <1>31, Crashed DEF TypeConn
  <1> QED
    BY <1>1, <1>2, <1>3, <1>4, <1>5, <1>6, <1>7, <1>8, <1>9, <1>10, <1>11, <1>12, <1>13, <1>14, <1>15, <1>16, <1>17, <1>18, <1>19, <1>20, <1>21, <1>22, <1>23, <1>24, <1>25, <1>26, <1>27, <1>28, <1>29, <1>30, <1>31 DEF Next, Application, Main, ListenerThread, HandlerRuns, TimerClosing

\* Each step keeps what holds of a connection and its handler.
LEMMA ConnInvKept == TypeServer /\ TypeConn /\ TypeKernel /\ ConnInv /\ Next => ConnInv'
  <1> SUFFICES ASSUME TypeServer, TypeConn, TypeKernel, ConnInv, Next PROVE ConnInv'
    OBVIOUS
  <1> USE DEF TypeConn, TypeKernel, ConnInv, transportVars, runVars, mainVars, connVars, history, threadsOfOthers, serverVars, TimerAlone
  <1>1. CASE setupTcpSocket
    BY <1>1 DEF setupTcpSocket, Idle, LowestFree, FreeDescriptors
  <1>2. CASE BindTcp
    BY <1>2 DEF BindTcp
  <1>3. CASE OpenUdp
    BY <1>3, Peers DEF OpenUdp, UndoTcp, LowestFree, FreeDescriptors
  <1>4. CASE StartListener
    BY <1>4 DEF StartListener
  <1>5. CASE setupUdpSocket
    BY <1>5 DEF setupUdpSocket, Idle
  <1>6. CASE MainAppended
    BY <1>6 DEF MainAppended, Emplace, MainAppending
  <1>7. CASE closeTcpSocket
    BY <1>7, Peers DEF closeTcpSocket, Idle, closeSocket
  <1>8. CASE closeUdpSocket
    BY <1>8 DEF closeUdpSocket, Idle
  <1>9. CASE stop
    BY <1>9 DEF stop, Idle, Iterator
  <1>10. CASE JoinNext
    BY <1>10 DEF JoinNext, Iterator
  <1>11. CASE ClearAndClose
    <2>1. \A b \in Conn : peer'[b] = peer[b] \/ (peer'[b] = "reset" /\ peer[b] = "waiting")
      BY <1>11, ServerCloses DEF ClearAndClose
    <2>2. UNCHANGED <<connVars, tpc, failed>>
      BY <1>11 DEF ClearAndClose
    <2> QED
      BY <2>1, <2>2
  <1>12. CASE Destroy
    <2>1. \A b \in Conn : peer'[b] = peer[b] \/ (peer'[b] = "reset" /\ peer[b] = "waiting")
      BY <1>12, ServerCloses DEF Destroy
    <2>2. UNCHANGED <<connVars, tpc, failed>>
      BY <1>12 DEF Destroy
    <2> QED
      BY <2>1, <2>2
  <1>13. CASE ListenerLoop
    BY <1>13 DEF ListenerLoop
  <1>14. CASE acceptConnection
    BY <1>14 DEF acceptConnection, Waiting, Acceptable, LowestFree, FreeDescriptors
  <1>15. CASE NothingToAccept
    BY <1>15 DEF NothingToAccept
  <1>16. CASE ListenerAppended
    BY <1>16 DEF ListenerAppended, Emplace, MainAppending, Iterator
  <1>17. CASE udpAnnouncementThread
    BY <1>17 DEF udpAnnouncementThread
  <1>18. CASE TimerShuts
    BY <1>18 DEF TimerShuts, CloseSocket, Timer, Survives
  <1>19. CASE TimerForgets
    BY <1>19 DEF TimerForgets, Timer, Survives
  <1>20. CASE TimerJoins
    BY <1>20 DEF TimerJoins, Timer, TimerIdle, Survives
  <1>21. ASSUME NEW c \in Conn, Connect(c) PROVE ConnInv'
    BY <1>21 DEF Connect
  <1>22. ASSUME NEW c \in Conn, HandlerLoop(c) PROVE ConnInv'
    BY <1>22 DEF HandlerLoop, At, Goto, Load
  <1>23. ASSUME NEW c \in Conn, EnterRecv(c) PROVE ConnInv'
    BY <1>23 DEF EnterRecv, At, Goto, Fail, Forget
  <1>24. ASSUME NEW c \in Conn, HandlerCloses(c) PROVE ConnInv'
    BY <1>24 DEF HandlerCloses, At, Goto, CloseSocket, ForgetSocket
  <1>25. ASSUME NEW c \in Conn, HandlerEnds(c) PROVE ConnInv'
    BY <1>25 DEF HandlerEnds, At, Goto, CloseSocket, ForgetSocket
  <1>26. ASSUME NEW c \in Conn, RecvData(c) PROVE ConnInv'
    BY <1>26 DEF RecvData, At, Goto, Load
  <1>27. ASSUME NEW c \in Conn, RecvFails(c) PROVE ConnInv'
    BY <1>27 DEF RecvFails, At, Goto, Fail
  <1>28. ASSUME NEW c \in Conn, StartReply(c) PROVE ConnInv'
    BY <1>28 DEF StartReply
  <1>29. ASSUME NEW c \in Conn, WriteReply(c) PROVE ConnInv'
    <2>1. /\ replying' = [replying EXCEPT ![c] = NoReply]
          /\ active' \in {active, [active EXCEPT ![c] = FALSE]}
          /\ failed' = failed \/ (active[c] /\ failed' = failed \cup {c})
      BY <1>29 DEF WriteReply, Fail
    <2>2. UNCHANGED <<peer, m_socket, m_isClosing, hpc, argument, reading, tpc>>
      BY <1>29 DEF WriteReply
    <2> QED
      BY <2>1, <2>2
  <1>30. ASSUME NEW c \in Conn, TimerCloses(c) PROVE ConnInv'
    BY <1>30 DEF TimerCloses, Timer, TimerIdle
  <1>31. CASE \/ onOpenConnectionThrows
              \/ \E c \in Conn : CallsEmptyHandler(c) \/ TimerCallsDestroyed(c)
    <2>1. UNCHANGED <<peer, m_socket, active, m_isClosing, hpc, argument, reading, replying, tpc, failed>>
      BY <1>31, Crashed
    <2> QED
      BY <2>1 DEF ConnInv
  <1> QED
    BY <1>1, <1>2, <1>3, <1>4, <1>5, <1>6, <1>7, <1>8, <1>9, <1>10, <1>11, <1>12, <1>13, <1>14, <1>15, <1>16, <1>17, <1>18, <1>19, <1>20, <1>21, <1>22, <1>23, <1>24, <1>25, <1>26, <1>27, <1>28, <1>29, <1>30, <1>31 DEF Next, Application, Main, ListenerThread, HandlerRuns, TimerClosing

\* No step frees or takes a descriptor of another connection.
LEMMA ConnOwnedKept ==
    ASSUME TypeServer, TypeConn, TypeKernel, ConnInv, TransportInv, ServerOwned, ConnOwned, Next
    PROVE  ConnOwned'
  <1> USE DEF transportVars, runVars, mainVars, connVars, history, threadsOfOthers, serverVars, TimerAlone
  <1>0. UNCHANGED <<descriptors, m_socket, active, failed, tpc>> => ConnOwned'
    BY DEF ConnOwned, Owned, Forgetting
  <1>1. CASE setupTcpSocket
    <2>1. \A d \in Descriptor :
              descriptors'[d] = descriptors[d] \/ (descriptors[d] = Free /\ descriptors'[d] = Tcp)
      BY <1>1, Marks, Closed DEF setupTcpSocket, LowestFree, FreeDescriptors, TypeKernel
    <2>2. UNCHANGED <<m_socket, active, failed, tpc>>
      BY <1>1 DEF setupTcpSocket
    <2>3. ASSUME NEW b \in Conn PROVE Owned(b)'
      <3>1. \A d \in Descriptor : descriptors'[d] = b <=> descriptors[d] = b
        BY <2>1, Marks
      <3> QED
        BY <2>2, <3>1, OwnedSame DEF ConnOwned, Forgetting
    <2> QED
      BY <2>3 DEF ConnOwned
  <1>2. CASE BindTcp
    <2>1. \/ descriptors' = Close(descriptors, {m_tcpServerSocket})
          \/ UNCHANGED descriptors
      BY <1>2 DEF BindTcp
    <2>2. m_tcpServerSocket \in Descriptor /\ descriptors[m_tcpServerSocket] = Tcp
      BY <1>2, Marks DEF BindTcp, TransportInv, ServerOwned, TypeServer
    <2>3. \A d \in Descriptor :
              \/ descriptors'[d] = descriptors[d]
              \/ descriptors[d] \in {Tcp, Free} /\ descriptors'[d] \in {Udp, Free}
      BY <2>1, <2>2, Closed DEF TypeKernel
    <2>4. UNCHANGED <<m_socket, active, failed, tpc>>
      BY <1>2 DEF BindTcp
    <2>5. ASSUME NEW b \in Conn PROVE Owned(b)'
      <3>1. \A d \in Descriptor : descriptors'[d] = b <=> descriptors[d] = b
        BY <2>3, Marks
      <3> QED
        BY <2>4, <3>1, OwnedSame DEF ConnOwned, Forgetting
    <2> QED
      BY <2>5 DEF ConnOwned
  <1>3. CASE OpenUdp
    <2>1. \/ descriptors' = Close(descriptors, {m_tcpServerSocket})
          \/ \E d \in Descriptor : descriptors[d] = Free /\ descriptors' = [descriptors EXCEPT ![d] = Udp]
      BY <1>3 DEF OpenUdp, UndoTcp, LowestFree, FreeDescriptors
    <2>2. m_tcpServerSocket \in Descriptor /\ descriptors[m_tcpServerSocket] = Tcp
      BY <1>3, Marks DEF OpenUdp, TransportInv, ServerOwned, TypeServer
    <2>3. \A d \in Descriptor :
              \/ descriptors'[d] = descriptors[d]
              \/ descriptors[d] \in {Tcp, Free} /\ descriptors'[d] \in {Udp, Free}
      BY <2>1, <2>2, Closed DEF TypeKernel
    <2>4. UNCHANGED <<m_socket, active, failed, tpc>>
      BY <1>3 DEF OpenUdp
    <2>5. ASSUME NEW b \in Conn PROVE Owned(b)'
      <3>1. \A d \in Descriptor : descriptors'[d] = b <=> descriptors[d] = b
        BY <2>3, Marks
      <3> QED
        BY <2>4, <3>1, OwnedSame DEF ConnOwned, Forgetting
    <2> QED
      BY <2>5 DEF ConnOwned
  <1>4. CASE StartListener
    BY <1>0, <1>4 DEF StartListener
  <1>5. CASE setupUdpSocket
    BY <1>0, <1>5 DEF setupUdpSocket
  <1>6. CASE MainAppended
    BY <1>0, <1>6 DEF MainAppended, Emplace
  <1>7. CASE closeTcpSocket
    <2>1. closeSocket \/ UNCHANGED descriptors
      BY <1>7 DEF closeTcpSocket
    <2>2. \A d \in Descriptor :
              \/ descriptors'[d] = descriptors[d]
              \/ descriptors[d] \in {Tcp, Udp} /\ descriptors'[d] = Free
      BY <2>1, OnlyServerSockets
    <2>3. UNCHANGED <<m_socket, active, failed, tpc>>
      BY <1>7 DEF closeTcpSocket
    <2>5. ASSUME NEW b \in Conn PROVE Owned(b)'
      <3>1. \A d \in Descriptor : descriptors'[d] = b <=> descriptors[d] = b
        BY <2>2, Marks
      <3> QED
        BY <2>3, <3>1, OwnedSame DEF ConnOwned, Forgetting
    <2> QED
      BY <2>5 DEF ConnOwned
  <1>8. CASE closeUdpSocket
    BY <1>0, <1>8 DEF closeUdpSocket
  <1>9. CASE stop
    BY <1>0, <1>9 DEF stop
  <1>10. CASE JoinNext
    BY <1>0, <1>10 DEF JoinNext
  <1>11. CASE ClearAndClose
    <2>1. closeSocket \/ UNCHANGED descriptors
      BY <1>11 DEF ClearAndClose
    <2>2. \A d \in Descriptor :
              \/ descriptors'[d] = descriptors[d]
              \/ descriptors[d] \in {Tcp, Udp} /\ descriptors'[d] = Free
      BY <2>1, OnlyServerSockets
    <2>3. UNCHANGED <<m_socket, active, failed, tpc>>
      BY <1>11 DEF ClearAndClose
    <2>5. ASSUME NEW b \in Conn PROVE Owned(b)'
      <3>1. \A d \in Descriptor : descriptors'[d] = b <=> descriptors[d] = b
        BY <2>2, Marks
      <3> QED
        BY <2>3, <3>1, OwnedSame DEF ConnOwned, Forgetting
    <2> QED
      BY <2>5 DEF ConnOwned
  <1>12. CASE Destroy
    <2>1. closeSocket \/ UNCHANGED descriptors
      BY <1>12 DEF Destroy
    <2>2. \A d \in Descriptor :
              \/ descriptors'[d] = descriptors[d]
              \/ descriptors[d] \in {Tcp, Udp} /\ descriptors'[d] = Free
      BY <2>1, OnlyServerSockets
    <2>3. UNCHANGED <<m_socket, active, failed, tpc>>
      BY <1>12 DEF Destroy
    <2>5. ASSUME NEW b \in Conn PROVE Owned(b)'
      <3>1. \A d \in Descriptor : descriptors'[d] = b <=> descriptors[d] = b
        BY <2>2, Marks
      <3> QED
        BY <2>3, <3>1, OwnedSame DEF ConnOwned, Forgetting
    <2> QED
      BY <2>5 DEF ConnOwned
  <1>13. CASE ListenerLoop
    BY <1>0, <1>13 DEF ListenerLoop
  <1>14. CASE acceptConnection
    <2>1. PICK d \in Descriptor, b \in Conn :
            /\ descriptors[d] = Free /\ peer[b] = "waiting"
            /\ descriptors' = [descriptors EXCEPT ![d] = b]
            /\ m_socket' = [m_socket EXCEPT ![b] = d]
            /\ active' = [active EXCEPT ![b] = TRUE]
      BY <1>14 DEF acceptConnection, LowestFree, FreeDescriptors, Waiting
    <2>2. hpc[b] = "none" /\ m_socket[b] = NoSocket /\ ~active[b] /\ b \notin failed
      BY <2>1 DEF ConnInv
    <2>3. ~Forgetting(b) /\ \A e \in Descriptor : descriptors[e] # b
      BY <2>2 DEF ConnInv, ConnOwned, Owned, Forgetting
    <2>4. UNCHANGED <<failed, tpc>>
      BY <1>14 DEF acceptConnection
    <2> QED
      BY <2>1, <2>2, <2>3, <2>4, Marks DEF ConnOwned, Owned, Forgetting, TypeKernel, TypeConn
  <1>15. CASE NothingToAccept
    BY <1>0, <1>15 DEF NothingToAccept
  <1>16. CASE ListenerAppended
    BY <1>0, <1>16 DEF ListenerAppended, Emplace
  <1>17. CASE udpAnnouncementThread
    BY <1>0, <1>17 DEF udpAnnouncementThread
  <1>18. CASE TimerShuts
    <2>1. PICK c \in Conn : tpc.step = "shut" /\ tpc.conn = c /\ UNCHANGED <<m_socket, failed>>
      BY <1>18 DEF TimerShuts, ConnInv
    <2>2. CASE active[c]
      <3>1. /\ descriptors' = Close(descriptors, {m_socket[c]})
            /\ active' = [active EXCEPT ![c] = FALSE]
            /\ tpc'.step = "forget" /\ tpc'.conn = c
        BY <1>18, <2>1, <2>2 DEF TimerShuts, CloseSocket, Timer
      <3>2. m_socket[c] \in Descriptor /\ descriptors[m_socket[c]] = c
        BY <2>1, <2>2, Marks DEF ConnOwned, Owned, TypeKernel
      <3>3. \A d \in Descriptor : descriptors'[d] = IF d = m_socket[c] THEN Free ELSE descriptors[d]
        BY <3>1, Closed
      <3>4. ASSUME NEW b \in Conn, b # c
            PROVE  /\ active'[b] = active[b]
                   /\ \A d \in Descriptor : descriptors'[d] = b <=> descriptors[d] = b
                   /\ ~Forgetting(b) /\ ~Forgetting(b)'
        BY <2>1, <3>1, <3>2, <3>3, <3>4, Marks, SMTT(30) DEF TypeKernel, TypeConn, Forgetting
      <3>5. \A d \in Descriptor : descriptors'[d] # c
        BY <3>2, <3>3, Marks DEF ConnOwned, Owned
      <3>6. active'[c] = FALSE /\ Forgetting(c)'
        BY <3>1 DEF TypeConn, Forgetting
      <3>7. ASSUME NEW b \in Conn, b # c PROVE Owned(b)'
        BY <2>1, <3>4, <3>7, OwnedSame DEF ConnOwned
      <3>8. Owned(c)'
        BY <3>5, <3>6 DEF Owned
      <3> QED
        BY <3>7, <3>8 DEF ConnOwned
    <2>3. CASE ~active[c]
      <3>1. tpc'.step = "join" /\ UNCHANGED <<active, descriptors>>
        BY <1>18, <2>1, <2>3 DEF TimerShuts, CloseSocket, Timer
      <3> QED
        BY <2>1, <3>1 DEF ConnOwned, Owned, Forgetting
    <2> QED
      BY <2>2, <2>3
  <1>19. CASE TimerForgets
    <2>1. /\ tpc.step = "forget" /\ tpc.conn \in Conn
          /\ m_socket' = [m_socket EXCEPT ![tpc.conn] = NoSocket]
          /\ tpc'.step = "join" /\ UNCHANGED <<descriptors, active, failed>>
      BY <1>19 DEF TimerForgets, Timer, ConnInv
    <2> QED
      BY <2>1 DEF ConnOwned, Owned, Forgetting, TypeKernel
  <1>20. CASE TimerJoins
    BY <1>20 DEF TimerJoins, TimerIdle, Timer, ConnOwned, Owned, Forgetting
  <1>21. ASSUME NEW c \in Conn, Connect(c) PROVE ConnOwned'
    BY <1>0, <1>21 DEF Connect
  <1>22. ASSUME NEW c \in Conn, HandlerLoop(c) PROVE ConnOwned'
    BY <1>0, <1>22 DEF HandlerLoop
  <1>23. ASSUME NEW c \in Conn, EnterRecv(c) PROVE ConnOwned'
    <2>1. /\ UNCHANGED <<descriptors, m_socket, tpc>>
          /\ \/ UNCHANGED <<active, failed>>
             \/ /\ active' = [active EXCEPT ![c] = FALSE]
                /\ failed' = IF active[c] THEN failed \cup {c} ELSE failed
      BY <1>23 DEF EnterRecv, Fail
    <2> QED
      BY <2>1 DEF ConnOwned, Owned, Forgetting, TypeConn
  <1>24. ASSUME NEW c \in Conn, HandlerCloses(c) PROVE ConnOwned'
    <2>1. CASE active[c] /\ m_isClosing[c] = "no"
      <3>1. /\ descriptors' = Close(descriptors, {m_socket[c]})
            /\ m_socket' = [m_socket EXCEPT ![c] = NoSocket]
            /\ active' = [active EXCEPT ![c] = FALSE]
            /\ UNCHANGED <<failed, tpc>>
        BY <1>24, <2>1 DEF HandlerCloses, CloseSocket, ForgetSocket
      <3>2. m_socket[c] \in Descriptor /\ descriptors[m_socket[c]] = c
        BY <2>1, Marks DEF ConnOwned, Owned, TypeKernel
      <3>3. \A d \in Descriptor : descriptors'[d] = IF d = m_socket[c] THEN Free ELSE descriptors[d]
        BY <3>1, Closed
      <3>4. ASSUME NEW b \in Conn, b # c
            PROVE  /\ m_socket'[b] = m_socket[b] /\ active'[b] = active[b]
                   /\ \A d \in Descriptor : descriptors'[d] = b <=> descriptors[d] = b
                   /\ descriptors[m_socket[b]] = b => m_socket[b] # m_socket[c]
        BY <3>1, <3>2, <3>3, <3>4, Marks DEF TypeKernel, TypeConn
      <3>5. \A d \in Descriptor : descriptors'[d] # c
        BY <3>2, <3>3, Marks DEF ConnOwned, Owned
      <3>6. m_socket'[c] = NoSocket /\ active'[c] = FALSE
        BY <3>1 DEF TypeKernel, TypeConn
      <3>7. ASSUME NEW b \in Conn, b # c PROVE Owned(b)'
        BY <3>1, <3>4, <3>7, OwnedSame DEF ConnOwned, Forgetting
      <3>8. Owned(c)'
        BY <3>5, <3>6 DEF Owned
      <3> QED
        BY <3>7, <3>8 DEF ConnOwned
    <2>2. CASE ~(active[c] /\ m_isClosing[c] = "no")
      BY <1>0, <1>24, <2>2 DEF HandlerCloses, CloseSocket, ForgetSocket
    <2> QED
      BY <2>1, <2>2
  <1>25. ASSUME NEW c \in Conn, HandlerEnds(c) PROVE ConnOwned'
    <2>1. CASE active[c]
      <3>1. /\ descriptors' = Close(descriptors, {m_socket[c]})
            /\ m_socket' = [m_socket EXCEPT ![c] = NoSocket]
            /\ active' = [active EXCEPT ![c] = FALSE]
            /\ UNCHANGED <<failed, tpc>>
        BY <1>25, <2>1 DEF HandlerEnds, CloseSocket, ForgetSocket
      <3>2. m_socket[c] \in Descriptor /\ descriptors[m_socket[c]] = c
        BY <2>1, Marks DEF ConnOwned, Owned, TypeKernel
      <3>3. \A d \in Descriptor : descriptors'[d] = IF d = m_socket[c] THEN Free ELSE descriptors[d]
        BY <3>1, Closed
      <3>4. ASSUME NEW b \in Conn, b # c
            PROVE  /\ m_socket'[b] = m_socket[b] /\ active'[b] = active[b]
                   /\ \A d \in Descriptor : descriptors'[d] = b <=> descriptors[d] = b
                   /\ descriptors[m_socket[b]] = b => m_socket[b] # m_socket[c]
        BY <3>1, <3>2, <3>3, <3>4, Marks DEF TypeKernel, TypeConn
      <3>5. \A d \in Descriptor : descriptors'[d] # c
        BY <3>2, <3>3, Marks DEF ConnOwned, Owned
      <3>6. m_socket'[c] = NoSocket /\ active'[c] = FALSE
        BY <3>1 DEF TypeKernel, TypeConn
      <3>7. ASSUME NEW b \in Conn, b # c PROVE Owned(b)'
        BY <3>1, <3>4, <3>7, OwnedSame DEF ConnOwned, Forgetting
      <3>8. Owned(c)'
        BY <3>5, <3>6 DEF Owned
      <3> QED
        BY <3>7, <3>8 DEF ConnOwned
    <2>2. CASE ~(active[c])
      BY <1>0, <1>25, <2>2 DEF HandlerEnds, CloseSocket, ForgetSocket
    <2> QED
      BY <2>1, <2>2
  <1>26. ASSUME NEW c \in Conn, RecvData(c) PROVE ConnOwned'
    BY <1>0, <1>26 DEF RecvData
  <1>27. ASSUME NEW c \in Conn, RecvFails(c) PROVE ConnOwned'
    <2>1. /\ UNCHANGED <<descriptors, m_socket, tpc>>
          /\ \/ UNCHANGED <<active, failed>>
             \/ /\ active' = [active EXCEPT ![c] = FALSE]
                /\ failed' = IF active[c] THEN failed \cup {c} ELSE failed
      BY <1>27 DEF RecvFails, Fail
    <2> QED
      BY <2>1 DEF ConnOwned, Owned, Forgetting, TypeConn
  <1>28. ASSUME NEW c \in Conn, StartReply(c) PROVE ConnOwned'
    BY <1>0, <1>28 DEF StartReply
  <1>29. ASSUME NEW c \in Conn, WriteReply(c) PROVE ConnOwned'
    <2>1. /\ UNCHANGED <<descriptors, m_socket, tpc>>
          /\ \/ UNCHANGED <<active, failed>>
             \/ /\ active' = [active EXCEPT ![c] = FALSE]
                /\ failed' = IF active[c] THEN failed \cup {c} ELSE failed
      BY <1>29 DEF WriteReply, Fail
    <2> QED
      BY <2>1 DEF ConnOwned, Owned, Forgetting, TypeConn
  <1>30. ASSUME NEW c \in Conn, TimerCloses(c) PROVE ConnOwned'
    BY <1>30 DEF TimerCloses, Timer, ConnOwned, Owned, Forgetting
  <1>31. CASE \/ onOpenConnectionThrows
              \/ \E c \in Conn : CallsEmptyHandler(c) \/ TimerCallsDestroyed(c)
    <2>1. UNCHANGED <<descriptors, m_socket, active, tpc, failed>>
      BY <1>31, Crashed, Zenon
    <2> QED
      BY <2>1 DEF ConnOwned, Owned, Forgetting
  <1> QED
    BY <1>1, <1>2, <1>3, <1>4, <1>5, <1>6, <1>7, <1>8, <1>9, <1>10, <1>11, <1>12, <1>13, <1>14, <1>15, <1>16, <1>17, <1>18, <1>19, <1>20, <1>21, <1>22, <1>23, <1>24, <1>25, <1>26, <1>27, <1>28, <1>29, <1>30, <1>31 DEF Next, Application, Main, ListenerThread, HandlerRuns, TimerClosing

\* No step but its own frees or takes a socket of the server.
LEMMA ServerOwnedKept ==
    ASSUME TypeServer, TypeConn, TypeKernel, ConnInv, ConnOwned, TransportInv, ThreadInv, ServerOwned, Next
    PROVE  ServerOwned'
  <1> USE DEF transportVars, runVars, mainVars, connVars, history, threadsOfOthers, serverVars, TimerAlone
  <1>0. UNCHANGED <<descriptors, m_tcpServerSocket, m_udpSocket>> => ServerOwned'
    BY DEF ServerOwned
  <1>1. CASE setupTcpSocket
    <2>1. m_tcpServerSocket = NoSocket /\ m_udpSocket = NoSocket
      BY <1>1 DEF setupTcpSocket, Idle, ThreadInv, Flags, TransportInv
    <2>2. m_udpSocket' = m_udpSocket /\
          \/ m_tcpServerSocket' = NoSocket /\ UNCHANGED descriptors
          \/ \E d \in Descriptor : /\ descriptors[d] = Free /\ m_tcpServerSocket' = d
                                   /\ descriptors' = [descriptors EXCEPT ![d] = Tcp]
      BY <1>1 DEF setupTcpSocket, LowestFree, FreeDescriptors
    <2> QED
      BY <2>1, <2>2, Marks DEF ServerOwned, TypeKernel
  <1>2. CASE BindTcp
    <2>1. m_tcpServerSocket \in Descriptor /\ m_udpSocket = NoSocket
      BY <1>2, Marks DEF BindTcp, TransportInv, TypeServer
    <2>2. m_udpSocket' = m_udpSocket /\
          \/ UNCHANGED <<m_tcpServerSocket, descriptors>>
          \/ m_tcpServerSocket' = NoSocket /\ descriptors' = Close(descriptors, {m_tcpServerSocket})
      BY <1>2 DEF BindTcp
    <2> QED
      BY <2>1, <2>2, Marks, Closed DEF ServerOwned
  <1>3. CASE OpenUdp
    <2>1. m_tcpServerSocket \in Descriptor /\ m_udpSocket = NoSocket
      BY <1>3, Marks DEF OpenUdp, TransportInv, TypeServer
    <2>2. \/ /\ m_tcpServerSocket' = NoSocket /\ m_udpSocket' = NoSocket
             /\ descriptors' = Close(descriptors, {m_tcpServerSocket})
          \/ m_tcpServerSocket' = m_tcpServerSocket /\
             \E d \in Descriptor : /\ descriptors[d] = Free /\ m_udpSocket' = d
                                   /\ descriptors' = [descriptors EXCEPT ![d] = Udp]
      BY <1>3 DEF OpenUdp, UndoTcp, LowestFree, FreeDescriptors
    <2>3. CASE /\ m_tcpServerSocket' = NoSocket /\ m_udpSocket' = NoSocket
               /\ descriptors' = Close(descriptors, {m_tcpServerSocket})
      BY <2>1, <2>3, Marks, Closed DEF ServerOwned
    <2>4. ASSUME m_tcpServerSocket' = m_tcpServerSocket, NEW d \in Descriptor,
                 descriptors[d] = Free, m_udpSocket' = d, descriptors' = [descriptors EXCEPT ![d] = Udp]
          PROVE  ServerOwned'
      BY <2>1, <2>4, Marks DEF ServerOwned, TypeKernel
    <2> QED
      BY <2>2, <2>3, <2>4
  <1>4. CASE StartListener
    BY <1>0, <1>4 DEF StartListener
  <1>5. CASE setupUdpSocket
    BY <1>0, <1>5 DEF setupUdpSocket
  <1>6. CASE MainAppended
    BY <1>0, <1>6 DEF MainAppended, Emplace
  <1>7. CASE closeTcpSocket
    <2>1. closeSocket \/ UNCHANGED <<descriptors, m_tcpServerSocket, m_udpSocket>>
      BY <1>7 DEF closeTcpSocket
    <2>2. CASE closeSocket
      <3>1. CASE m_isActive
        <4>1. \A d \in Descriptor : descriptors'[d] =
                  IF d \in {m_tcpServerSocket, m_udpSocket} THEN Free ELSE descriptors[d]
          BY <2>2, <3>1, ServerCloses
        <4>2. m_tcpServerSocket' = NoSocket /\ m_udpSocket' = NoSocket
          BY <2>2, <3>1, ServerCloses
        <4> QED
          BY <4>1, <4>2, Marks DEF ServerOwned
      <3>2. CASE ~m_isActive
        BY <1>0, <2>2, <3>2, ServerCloses
      <3> QED
        BY <3>1, <3>2
    <2> QED
      BY <1>0, <2>1, <2>2
  <1>8. CASE closeUdpSocket
    BY <1>0, <1>8 DEF closeUdpSocket
  <1>9. CASE stop
    BY <1>0, <1>9 DEF stop
  <1>10. CASE JoinNext
    BY <1>0, <1>10 DEF JoinNext
  <1>11. CASE ClearAndClose
    <2>1. closeSocket \/ UNCHANGED <<descriptors, m_tcpServerSocket, m_udpSocket>>
      BY <1>11 DEF ClearAndClose
    <2>2. CASE closeSocket
      <3>1. CASE m_isActive
        <4>1. \A d \in Descriptor : descriptors'[d] =
                  IF d \in {m_tcpServerSocket, m_udpSocket} THEN Free ELSE descriptors[d]
          BY <2>2, <3>1, ServerCloses
        <4>2. m_tcpServerSocket' = NoSocket /\ m_udpSocket' = NoSocket
          BY <2>2, <3>1, ServerCloses
        <4> QED
          BY <4>1, <4>2, Marks DEF ServerOwned
      <3>2. CASE ~m_isActive
        BY <1>0, <2>2, <3>2, ServerCloses
      <3> QED
        BY <3>1, <3>2
    <2> QED
      BY <1>0, <2>1, <2>2
  <1>12. CASE Destroy
    <2>1. closeSocket \/ UNCHANGED <<descriptors, m_tcpServerSocket, m_udpSocket>>
      BY <1>12 DEF Destroy
    <2>2. CASE closeSocket
      <3>1. CASE m_isActive
        <4>1. \A d \in Descriptor : descriptors'[d] =
                  IF d \in {m_tcpServerSocket, m_udpSocket} THEN Free ELSE descriptors[d]
          BY <2>2, <3>1, ServerCloses
        <4>2. m_tcpServerSocket' = NoSocket /\ m_udpSocket' = NoSocket
          BY <2>2, <3>1, ServerCloses
        <4> QED
          BY <4>1, <4>2, Marks DEF ServerOwned
      <3>2. CASE ~m_isActive
        BY <1>0, <2>2, <3>2, ServerCloses
      <3> QED
        BY <3>1, <3>2
    <2> QED
      BY <1>0, <2>1, <2>2
  <1>13. CASE ListenerLoop
    BY <1>0, <1>13 DEF ListenerLoop
  <1>14. CASE acceptConnection
    <2>1. \A d \in Descriptor :
              \/ descriptors'[d] = descriptors[d]
              \/ descriptors[d] \in Conn \cup {Free} /\ descriptors'[d] \in Conn \cup {Free}
      BY <1>14, Marks DEF acceptConnection, LowestFree, FreeDescriptors, Waiting, TypeKernel
    <2>2. UNCHANGED <<m_tcpServerSocket, m_udpSocket>>
      BY <1>14 DEF acceptConnection
    <2> QED
      BY <2>1, <2>2, Marks DEF ServerOwned, TypeServer
  <1>15. CASE NothingToAccept
    BY <1>0, <1>15 DEF NothingToAccept
  <1>16. CASE ListenerAppended
    BY <1>0, <1>16 DEF ListenerAppended, Emplace
  <1>17. CASE udpAnnouncementThread
    BY <1>0, <1>17 DEF udpAnnouncementThread
  <1>18. CASE TimerShuts
    <2>1. \A d \in Descriptor :
              \/ descriptors'[d] = descriptors[d]
              \/ descriptors[d] \in Conn \cup {Free} /\ descriptors'[d] \in Conn \cup {Free}
      <3>0. PICK c \in Conn : tpc.conn = c
        BY <1>18 DEF TimerShuts, ConnInv
      <3>1. descriptors' = descriptors \/ (active[c] /\ descriptors' = Close(descriptors, {m_socket[c]}))
        BY <3>0, <1>18 DEF TimerShuts, CloseSocket
      <3>2. active[c] => (m_socket[c] \in Descriptor /\ descriptors[m_socket[c]] = c)
        BY Marks DEF ConnOwned, Owned, TypeKernel
      <3> QED
        BY <3>1, <3>2, Closed
    <2>2. UNCHANGED <<m_tcpServerSocket, m_udpSocket>>
      BY <1>18 DEF TimerShuts
    <2> QED
      BY <2>1, <2>2, Marks DEF ServerOwned, TypeServer
  <1>19. CASE TimerForgets
    BY <1>0, <1>19 DEF TimerForgets
  <1>20. CASE TimerJoins
    BY <1>0, <1>20 DEF TimerJoins
  <1>21. ASSUME NEW c \in Conn, Connect(c) PROVE ServerOwned'
    BY <1>0, <1>21 DEF Connect
  <1>22. ASSUME NEW c \in Conn, HandlerLoop(c) PROVE ServerOwned'
    BY <1>0, <1>22 DEF HandlerLoop
  <1>23. ASSUME NEW c \in Conn, EnterRecv(c) PROVE ServerOwned'
    BY <1>0, <1>23 DEF EnterRecv
  <1>24. ASSUME NEW c \in Conn, HandlerCloses(c) PROVE ServerOwned'
    <2>1. \A d \in Descriptor :
              \/ descriptors'[d] = descriptors[d]
              \/ descriptors[d] \in Conn \cup {Free} /\ descriptors'[d] \in Conn \cup {Free}
      <3>1. descriptors' = descriptors \/ (active[c] /\ descriptors' = Close(descriptors, {m_socket[c]}))
        BY <1>24 DEF HandlerCloses, CloseSocket
      <3>2. active[c] => (m_socket[c] \in Descriptor /\ descriptors[m_socket[c]] = c)
        BY Marks DEF ConnOwned, Owned, TypeKernel
      <3> QED
        BY <3>1, <3>2, Closed
    <2>2. UNCHANGED <<m_tcpServerSocket, m_udpSocket>>
      BY <1>24 DEF HandlerCloses
    <2> QED
      BY <2>1, <2>2, Marks DEF ServerOwned, TypeServer
  <1>25. ASSUME NEW c \in Conn, HandlerEnds(c) PROVE ServerOwned'
    <2>1. \A d \in Descriptor :
              \/ descriptors'[d] = descriptors[d]
              \/ descriptors[d] \in Conn \cup {Free} /\ descriptors'[d] \in Conn \cup {Free}
      <3>1. descriptors' = descriptors \/ (active[c] /\ descriptors' = Close(descriptors, {m_socket[c]}))
        BY <1>25 DEF HandlerEnds, CloseSocket
      <3>2. active[c] => (m_socket[c] \in Descriptor /\ descriptors[m_socket[c]] = c)
        BY Marks DEF ConnOwned, Owned, TypeKernel
      <3> QED
        BY <3>1, <3>2, Closed
    <2>2. UNCHANGED <<m_tcpServerSocket, m_udpSocket>>
      BY <1>25 DEF HandlerEnds
    <2> QED
      BY <2>1, <2>2, Marks DEF ServerOwned, TypeServer
  <1>26. ASSUME NEW c \in Conn, RecvData(c) PROVE ServerOwned'
    BY <1>0, <1>26 DEF RecvData
  <1>27. ASSUME NEW c \in Conn, RecvFails(c) PROVE ServerOwned'
    BY <1>0, <1>27 DEF RecvFails
  <1>28. ASSUME NEW c \in Conn, StartReply(c) PROVE ServerOwned'
    BY <1>0, <1>28 DEF StartReply
  <1>29. ASSUME NEW c \in Conn, WriteReply(c) PROVE ServerOwned'
    BY <1>0, <1>29 DEF WriteReply
  <1>30. ASSUME NEW c \in Conn, TimerCloses(c) PROVE ServerOwned'
    BY <1>0, <1>30 DEF TimerCloses
  <1>31. CASE \/ onOpenConnectionThrows
              \/ \E c \in Conn : CallsEmptyHandler(c) \/ TimerCallsDestroyed(c)
    BY <1>31, Crashed DEF ServerOwned
  <1> QED
    BY <1>1, <1>2, <1>3, <1>4, <1>5, <1>6, <1>7, <1>8, <1>9, <1>10, <1>11, <1>12, <1>13, <1>14, <1>15, <1>16, <1>17, <1>18, <1>19, <1>20, <1>21, <1>22, <1>23, <1>24, <1>25, <1>26, <1>27, <1>28, <1>29, <1>30, <1>31 DEF Next, Application, Main, ListenerThread, HandlerRuns, TimerClosing

\* The sockets of the server are opened and closed together.
LEMMA TransportInvKept ==
    ASSUME TypeServer, TypeConn, TypeKernel, ConnInv, ConnOwned, ServerOwned, ThreadInv, TransportInv, Next
    PROVE  TransportInv'
  <1> USE DEF transportVars, runVars, mainVars, connVars, history, threadsOfOthers, serverVars, TimerAlone
  <1>0. UNCHANGED <<m_isActive, m_tcpServerSocket, m_udpSocket, mpc, peer>> => TransportInv'
    BY DEF TransportInv
  <1>1. CASE setupTcpSocket
    <2>1. m_tcpServerSocket = NoSocket /\ m_udpSocket = NoSocket /\ ~m_isActive
      BY <1>1 DEF setupTcpSocket, Idle, ThreadInv, Flags, TransportInv
    <2> QED
      BY <1>1, <2>1, Marks DEF setupTcpSocket, Idle, TransportInv
  <1>2. CASE BindTcp
    BY <1>2, Marks DEF BindTcp, TransportInv
  <1>3. CASE OpenUdp
    <2>1. ~m_isActive /\ \A b \in Conn : peer'[b] = "waiting" => m_tcpServerSocket' # NoSocket
      <3>1. \A b \in Conn : peer'[b] = "waiting" => \E d \in Descriptor : descriptors'[d] = Tcp
        BY <1>3, Peers DEF OpenUdp
      <3>2. \A d \in Descriptor : descriptors'[d] = Tcp => m_tcpServerSocket' # NoSocket
        BY ServerOwnedKept, Marks DEF ServerOwned
      <3> QED
        BY <1>3, <3>1, <3>2 DEF OpenUdp, TransportInv
    <2> QED
      BY <1>3, <2>1, Marks DEF OpenUdp, UndoTcp, TransportInv
  <1>4. CASE StartListener
    BY <1>4 DEF StartListener, TransportInv
  <1>5. CASE setupUdpSocket
    BY <1>5 DEF setupUdpSocket, Idle, TransportInv
  <1>6. CASE MainAppended
    BY <1>6 DEF MainAppended, MainAppending, TransportInv
  <1>7. CASE closeTcpSocket
    <2>1. \/ closeSocket /\ mpc' \in {"ready", "destroyed"} /\ mpc \in {"ready", "join"}
          \/ UNCHANGED <<m_isActive, m_tcpServerSocket, m_udpSocket, peer, mpc>>
      BY <1>7 DEF closeTcpSocket, Idle, mainVars
    <2>2. CASE closeSocket /\ mpc' \in {"ready", "destroyed"} /\ mpc \in {"ready", "join"}
      <3>1. CASE m_isActive
        <4>1. /\ m_isActive' = FALSE /\ m_tcpServerSocket' = NoSocket /\ m_udpSocket' = NoSocket
              /\ \A b \in Conn : peer'[b] = "waiting" => \E d \in Descriptor : descriptors'[d] = Tcp
          BY <2>2, <3>1, ServerCloses
        <4>2. \A d \in Descriptor : descriptors'[d] # Tcp
          BY <4>1, ServerOwnedKept, Marks DEF ServerOwned
        <4> QED
          BY <2>2, <4>1, <4>2 DEF TransportInv
      <3>2. CASE ~m_isActive
        <4>1. UNCHANGED <<m_tcpServerSocket, m_udpSocket, peer>> /\ m_isActive' = FALSE
          BY <2>2, <3>2, ServerCloses
        <4> QED
          BY <2>2, <3>2, <4>1 DEF TransportInv
      <3> QED
        BY <3>1, <3>2
    <2> QED
      BY <1>0, <2>1, <2>2
  <1>8. CASE closeUdpSocket
    BY <1>0, <1>8 DEF closeUdpSocket
  <1>9. CASE stop
    BY <1>9 DEF stop, Idle, TransportInv
  <1>10. CASE JoinNext
    BY <1>0, <1>10 DEF JoinNext
  <1>11. CASE ClearAndClose
    <2>1. \/ closeSocket /\ mpc' \in {"ready", "destroyed"} /\ mpc \in {"ready", "join"}
          \/ UNCHANGED <<m_isActive, m_tcpServerSocket, m_udpSocket, peer, mpc>>
      BY <1>11 DEF ClearAndClose, Idle
    <2>2. CASE closeSocket /\ mpc' \in {"ready", "destroyed"} /\ mpc \in {"ready", "join"}
      <3>1. CASE m_isActive
        <4>1. /\ m_isActive' = FALSE /\ m_tcpServerSocket' = NoSocket /\ m_udpSocket' = NoSocket
              /\ \A b \in Conn : peer'[b] = "waiting" => \E d \in Descriptor : descriptors'[d] = Tcp
          BY <2>2, <3>1, ServerCloses
        <4>2. \A d \in Descriptor : descriptors'[d] # Tcp
          BY <4>1, ServerOwnedKept, Marks DEF ServerOwned
        <4> QED
          BY <2>2, <4>1, <4>2 DEF TransportInv
      <3>2. CASE ~m_isActive
        <4>1. UNCHANGED <<m_tcpServerSocket, m_udpSocket, peer>> /\ m_isActive' = FALSE
          BY <2>2, <3>2, ServerCloses
        <4> QED
          BY <2>2, <3>2, <4>1 DEF TransportInv
      <3> QED
        BY <3>1, <3>2
    <2> QED
      BY <1>0, <2>1, <2>2
  <1>12. CASE Destroy
    <2>1. \/ closeSocket /\ mpc' \in {"ready", "destroyed"} /\ mpc \in {"ready", "join"}
          \/ UNCHANGED <<m_isActive, m_tcpServerSocket, m_udpSocket, peer, mpc>>
      BY <1>12 DEF Destroy, Idle
    <2>2. CASE closeSocket /\ mpc' \in {"ready", "destroyed"} /\ mpc \in {"ready", "join"}
      <3>1. CASE m_isActive
        <4>1. /\ m_isActive' = FALSE /\ m_tcpServerSocket' = NoSocket /\ m_udpSocket' = NoSocket
              /\ \A b \in Conn : peer'[b] = "waiting" => \E d \in Descriptor : descriptors'[d] = Tcp
          BY <2>2, <3>1, ServerCloses
        <4>2. \A d \in Descriptor : descriptors'[d] # Tcp
          BY <4>1, ServerOwnedKept, Marks DEF ServerOwned
        <4> QED
          BY <2>2, <4>1, <4>2 DEF TransportInv
      <3>2. CASE ~m_isActive
        <4>1. UNCHANGED <<m_tcpServerSocket, m_udpSocket, peer>> /\ m_isActive' = FALSE
          BY <2>2, <3>2, ServerCloses
        <4> QED
          BY <2>2, <3>2, <4>1 DEF TransportInv
      <3> QED
        BY <3>1, <3>2
    <2> QED
      BY <1>0, <2>1, <2>2
  <1>13. CASE ListenerLoop
    BY <1>0, <1>13 DEF ListenerLoop
  <1>14. CASE acceptConnection
    BY <1>14 DEF acceptConnection, Waiting, TransportInv, TypeConn
  <1>15. CASE NothingToAccept
    BY <1>0, <1>15 DEF NothingToAccept
  <1>16. CASE ListenerAppended
    BY <1>0, <1>16 DEF ListenerAppended, Emplace
  <1>17. CASE udpAnnouncementThread
    BY <1>0, <1>17 DEF udpAnnouncementThread
  <1>18. CASE TimerShuts
    BY <1>0, <1>18 DEF TimerShuts
  <1>19. CASE TimerForgets
    BY <1>0, <1>19 DEF TimerForgets
  <1>20. CASE TimerJoins
    BY <1>0, <1>20 DEF TimerJoins
  <1>21. ASSUME NEW c \in Conn, Connect(c) PROVE TransportInv'
    <2>1. m_tcpServerSocket # NoSocket
      BY <1>21, Marks DEF Connect, ServerOwned
    <2> QED
      BY <1>21, <2>1 DEF Connect, TransportInv, TypeConn
  <1>22. ASSUME NEW c \in Conn, HandlerLoop(c) PROVE TransportInv'
    BY <1>0, <1>22 DEF HandlerLoop
  <1>23. ASSUME NEW c \in Conn, EnterRecv(c) PROVE TransportInv'
    BY <1>0, <1>23 DEF EnterRecv
  <1>24. ASSUME NEW c \in Conn, HandlerCloses(c) PROVE TransportInv'
    BY <1>0, <1>24 DEF HandlerCloses
  <1>25. ASSUME NEW c \in Conn, HandlerEnds(c) PROVE TransportInv'
    BY <1>0, <1>25 DEF HandlerEnds
  <1>26. ASSUME NEW c \in Conn, RecvData(c) PROVE TransportInv'
    BY <1>0, <1>26 DEF RecvData
  <1>27. ASSUME NEW c \in Conn, RecvFails(c) PROVE TransportInv'
    BY <1>0, <1>27 DEF RecvFails
  <1>28. ASSUME NEW c \in Conn, StartReply(c) PROVE TransportInv'
    BY <1>0, <1>28 DEF StartReply
  <1>29. ASSUME NEW c \in Conn, WriteReply(c) PROVE TransportInv'
    BY <1>0, <1>29 DEF WriteReply
  <1>30. ASSUME NEW c \in Conn, TimerCloses(c) PROVE TransportInv'
    BY <1>0, <1>30 DEF TimerCloses
  <1>31. CASE \/ onOpenConnectionThrows
              \/ \E c \in Conn : CallsEmptyHandler(c) \/ TimerCallsDestroyed(c)
    <2>1. UNCHANGED <<m_tcpServerSocket, m_udpSocket, m_isActive, mpc, peer>>
      BY <1>31, Crashed
    <2> QED
      BY <2>1 DEF TransportInv
  <1> QED
    BY <1>1, <1>2, <1>3, <1>4, <1>5, <1>6, <1>7, <1>8, <1>9, <1>10, <1>11, <1>12, <1>13, <1>14, <1>15, <1>16, <1>17, <1>18, <1>19, <1>20, <1>21, <1>22, <1>23, <1>24, <1>25, <1>26, <1>27, <1>28, <1>29, <1>30, <1>31 DEF Next, Application, Main, ListenerThread, HandlerRuns, TimerClosing

\* Clients stay in the order in which they connect.
LEMMA PeerOrderKept ==
    ASSUME TypeServer, TypeConn, TypeKernel, PeerOrder, Next
    PROVE  PeerOrder'
  <1> USE DEF transportVars, runVars, mainVars, connVars, history, threadsOfOthers, serverVars, TimerAlone
  <1>0. UNCHANGED <<peer>> => PeerOrder'
    BY DEF PeerOrder
  <1>1. CASE setupTcpSocket
    BY <1>0, <1>1 DEF setupTcpSocket
  <1>2. CASE BindTcp
    BY <1>0, <1>2 DEF BindTcp
  <1>3. CASE OpenUdp
    <2>1. \A b \in Conn : peer'[b] = peer[b] \/ (peer'[b] = "reset" /\ peer[b] = "waiting")
      BY <1>3, Peers DEF OpenUdp
    <2> QED
      BY <2>1 DEF PeerOrder
  <1>4. CASE StartListener
    BY <1>0, <1>4 DEF StartListener
  <1>5. CASE setupUdpSocket
    BY <1>0, <1>5 DEF setupUdpSocket
  <1>6. CASE MainAppended
    BY <1>0, <1>6 DEF MainAppended, Emplace
  <1>7. CASE closeTcpSocket
    <2>1. \A b \in Conn : peer'[b] = peer[b] \/ (peer'[b] = "reset" /\ peer[b] = "waiting")
      BY <1>7, ServerCloses DEF closeTcpSocket
    <2> QED
      BY <2>1 DEF PeerOrder
  <1>8. CASE closeUdpSocket
    BY <1>0, <1>8 DEF closeUdpSocket
  <1>9. CASE stop
    BY <1>0, <1>9 DEF stop
  <1>10. CASE JoinNext
    BY <1>0, <1>10 DEF JoinNext
  <1>11. CASE ClearAndClose
    <2>1. \A b \in Conn : peer'[b] = peer[b] \/ (peer'[b] = "reset" /\ peer[b] = "waiting")
      BY <1>11, ServerCloses DEF ClearAndClose
    <2> QED
      BY <2>1 DEF PeerOrder
  <1>12. CASE Destroy
    <2>1. \A b \in Conn : peer'[b] = peer[b] \/ (peer'[b] = "reset" /\ peer[b] = "waiting")
      BY <1>12, ServerCloses DEF Destroy
    <2> QED
      BY <2>1 DEF PeerOrder
  <1>13. CASE ListenerLoop
    BY <1>0, <1>13 DEF ListenerLoop
  <1>14. CASE acceptConnection
    <2>1. PICK c \in Conn :
            /\ peer[c] = "waiting" /\ \A w \in Conn : peer[w] = "waiting" => c <= w
            /\ peer' = [peer EXCEPT ![c] = "accepted"]
      BY <1>14 DEF acceptConnection, Waiting
    <2>2. \A b \in Conn : peer'[b] = IF b = c THEN "accepted" ELSE peer[b]
      BY <2>1 DEF TypeConn
    <2>3. \A w \in Conn : (peer[w] = "waiting" /\ w # c) => c < w
      BY <2>1, Marks
    <2> QED
      BY <2>1, <2>2, <2>3 DEF PeerOrder
  <1>15. CASE NothingToAccept
    BY <1>0, <1>15 DEF NothingToAccept
  <1>16. CASE ListenerAppended
    BY <1>0, <1>16 DEF ListenerAppended, Emplace
  <1>17. CASE udpAnnouncementThread
    BY <1>0, <1>17 DEF udpAnnouncementThread
  <1>18. CASE TimerShuts
    BY <1>0, <1>18 DEF TimerShuts
  <1>19. CASE TimerForgets
    BY <1>0, <1>19 DEF TimerForgets
  <1>20. CASE TimerJoins
    BY <1>0, <1>20 DEF TimerJoins
  <1>21. ASSUME NEW c \in Conn, Connect(c) PROVE PeerOrder'
    <2>1. /\ peer[c] = "none" /\ peer' = [peer EXCEPT ![c] = "waiting"]
          /\ \A b \in 1..c - 1 : peer[b] # "none"
      BY <1>21 DEF Connect
    <2>2. ASSUME NEW b \in Conn, peer[b] = "none", b # c PROVE c < b
      BY <2>1, <2>2, BoundsAssumption DEF Conn
    <2>3. \A b \in Conn : peer'[b] = IF b = c THEN "waiting" ELSE peer[b]
      BY <2>1 DEF TypeConn
    <2> QED
      BY <2>1, <2>2, <2>3 DEF PeerOrder
  <1>22. ASSUME NEW c \in Conn, HandlerLoop(c) PROVE PeerOrder'
    BY <1>0, <1>22 DEF HandlerLoop
  <1>23. ASSUME NEW c \in Conn, EnterRecv(c) PROVE PeerOrder'
    BY <1>0, <1>23 DEF EnterRecv
  <1>24. ASSUME NEW c \in Conn, HandlerCloses(c) PROVE PeerOrder'
    BY <1>0, <1>24 DEF HandlerCloses
  <1>25. ASSUME NEW c \in Conn, HandlerEnds(c) PROVE PeerOrder'
    BY <1>0, <1>25 DEF HandlerEnds
  <1>26. ASSUME NEW c \in Conn, RecvData(c) PROVE PeerOrder'
    BY <1>0, <1>26 DEF RecvData
  <1>27. ASSUME NEW c \in Conn, RecvFails(c) PROVE PeerOrder'
    BY <1>0, <1>27 DEF RecvFails
  <1>28. ASSUME NEW c \in Conn, StartReply(c) PROVE PeerOrder'
    BY <1>0, <1>28 DEF StartReply
  <1>29. ASSUME NEW c \in Conn, WriteReply(c) PROVE PeerOrder'
    BY <1>0, <1>29 DEF WriteReply
  <1>30. ASSUME NEW c \in Conn, TimerCloses(c) PROVE PeerOrder'
    BY <1>0, <1>30 DEF TimerCloses
  <1>31. CASE \/ onOpenConnectionThrows
              \/ \E c \in Conn : CallsEmptyHandler(c) \/ TimerCallsDestroyed(c)
    BY <1>31, Crashed DEF PeerOrder
  <1> QED
    BY <1>1, <1>2, <1>3, <1>4, <1>5, <1>6, <1>7, <1>8, <1>9, <1>10, <1>11, <1>12, <1>13, <1>14, <1>15, <1>16, <1>17, <1>18, <1>19, <1>20, <1>21, <1>22, <1>23, <1>24, <1>25, <1>26, <1>27, <1>28, <1>29, <1>30, <1>31 DEF Next, Application, Main, ListenerThread, HandlerRuns, TimerClosing

\* What stop() may miss was connected while it worked.
LEMMA JoinInvKept ==
    ASSUME TypeThreads, JoinInv, Next
    PROVE  JoinInv'
  <1> USE DEF transportVars, runVars, mainVars, connVars, history, threadsOfOthers, serverVars, TimerAlone
  <1>0. UNCHANGED <<join, m_workerThreads, mpc, hasty>> => JoinInv'
    BY DEF JoinInv
  <1>1. CASE setupTcpSocket
    BY <1>1 DEF setupTcpSocket, UndoTcp, JoinInv
  <1>2. CASE BindTcp
    BY <1>2 DEF BindTcp, UndoTcp, JoinInv
  <1>3. CASE OpenUdp
    BY <1>3 DEF OpenUdp, UndoTcp, JoinInv
  <1>4. CASE StartListener
    BY <1>4 DEF StartListener, UndoTcp, JoinInv
  <1>5. CASE setupUdpSocket
    BY <1>5 DEF setupUdpSocket, UndoTcp, JoinInv
  <1>6. CASE MainAppended
    <2>1. mpc' = "ready" /\ join' = join /\ hasty \subseteq hasty'
      BY <1>6 DEF MainAppended, Emplace
    <2> QED
      BY <2>1 DEF JoinInv
  <1>7. CASE closeTcpSocket
    BY <1>0, <1>7 DEF closeTcpSocket
  <1>8. CASE closeUdpSocket
    BY <1>0, <1>8 DEF closeUdpSocket
  <1>9. CASE stop
    <2>1. join'.stale = FALSE /\ join'.end = Len(m_workerThreads')
      BY <1>9 DEF stop, Iterator
    <2>2. Len(m_workerThreads') \in Nat
      BY <1>9 DEF stop, TypeThreads
    <2>3. ~(Len(m_workerThreads') > join'.end)
      BY <2>1, <2>2
    <2> QED
      BY <2>1, <2>3 DEF JoinInv
  <1>10. CASE JoinNext
    <2>1. (join'.stale => join.stale) /\ join'.end = join.end
      <3>1. CASE join' = Iterator(join.next + 1, join.end, FALSE)
        BY <3>1 DEF Iterator
      <3>2. CASE join.stale /\ join' = Iterator(join.end + 1, join.end, TRUE)
        BY <3>2 DEF Iterator
      <3> QED
        BY <1>10, <3>1, <3>2 DEF JoinNext
    <2>2. UNCHANGED <<mpc, m_workerThreads, hasty>>
      BY <1>10 DEF JoinNext
    <2> QED
      BY <2>1, <2>2 DEF JoinInv
  <1>11. CASE ClearAndClose
    <2>1. \/ UNCHANGED <<mpc, join, m_workerThreads, hasty>>
          \/ mpc' = "ready" /\ join' = Iterator(1, 0, FALSE)
      BY <1>11 DEF ClearAndClose, NotJoining
    <2>2. ~Iterator(1, 0, FALSE).stale
      BY DEF Iterator
    <2> QED
      BY <1>0, <2>1, <2>2 DEF JoinInv
  <1>12. CASE Destroy
    <2>1. UNCHANGED <<join, m_workerThreads>> /\ hasty \subseteq hasty' /\ (mpc' = mpc \/ mpc' = "destroyed")
      BY <1>12 DEF Destroy
    <2> QED
      BY <2>1 DEF JoinInv
  <1>13. CASE ListenerLoop
    BY <1>0, <1>13 DEF ListenerLoop
  <1>14. CASE acceptConnection
    BY <1>0, <1>14 DEF acceptConnection
  <1>15. CASE NothingToAccept
    BY <1>0, <1>15 DEF NothingToAccept
  <1>16. CASE ListenerAppended
    <2>1. \/ "connected during stop" \in hasty'
          \/ mpc' # "join" /\ hasty \subseteq hasty' /\ join' = join
      BY <1>16 DEF ListenerAppended, Emplace
    <2> QED
      BY <2>1 DEF JoinInv
  <1>17. CASE udpAnnouncementThread
    BY <1>0, <1>17 DEF udpAnnouncementThread
  <1>18. CASE TimerShuts
    BY <1>0, <1>18 DEF TimerShuts
  <1>19. CASE TimerForgets
    BY <1>0, <1>19 DEF TimerForgets
  <1>20. CASE TimerJoins
    BY <1>0, <1>20 DEF TimerJoins
  <1>21. ASSUME NEW c \in Conn, Connect(c) PROVE JoinInv'
    BY <1>0, <1>21 DEF Connect
  <1>22. ASSUME NEW c \in Conn, HandlerLoop(c) PROVE JoinInv'
    BY <1>0, <1>22 DEF HandlerLoop
  <1>23. ASSUME NEW c \in Conn, EnterRecv(c) PROVE JoinInv'
    BY <1>0, <1>23 DEF EnterRecv
  <1>24. ASSUME NEW c \in Conn, HandlerCloses(c) PROVE JoinInv'
    BY <1>0, <1>24 DEF HandlerCloses
  <1>25. ASSUME NEW c \in Conn, HandlerEnds(c) PROVE JoinInv'
    BY <1>0, <1>25 DEF HandlerEnds
  <1>26. ASSUME NEW c \in Conn, RecvData(c) PROVE JoinInv'
    BY <1>0, <1>26 DEF RecvData
  <1>27. ASSUME NEW c \in Conn, RecvFails(c) PROVE JoinInv'
    BY <1>0, <1>27 DEF RecvFails
  <1>28. ASSUME NEW c \in Conn, StartReply(c) PROVE JoinInv'
    BY <1>0, <1>28 DEF StartReply
  <1>29. ASSUME NEW c \in Conn, WriteReply(c) PROVE JoinInv'
    <2>1. UNCHANGED <<join, m_workerThreads, mpc>> /\ hasty \subseteq hasty'
      BY <1>29 DEF WriteReply
    <2> QED
      BY <2>1 DEF JoinInv
  <1>30. ASSUME NEW c \in Conn, TimerCloses(c) PROVE JoinInv'
    BY <1>0, <1>30 DEF TimerCloses
  <1>31. CASE \/ onOpenConnectionThrows
              \/ \E c \in Conn : CallsEmptyHandler(c) \/ TimerCallsDestroyed(c)
    BY <1>31, Crashed DEF JoinInv
  <1> QED
    BY <1>1, <1>2, <1>3, <1>4, <1>5, <1>6, <1>7, <1>8, <1>9, <1>10, <1>11, <1>12, <1>13, <1>14, <1>15, <1>16, <1>17, <1>18, <1>19, <1>20, <1>21, <1>22, <1>23, <1>24, <1>25, <1>26, <1>27, <1>28, <1>29, <1>30, <1>31 DEF Next, Application, Main, ListenerThread, HandlerRuns, TimerClosing

\* A step lets no connection reach what it could not reach before.
LEMMA StreamInvKept ==
    ASSUME TypeServer, TypeThreads, TypeConn, TypeKernel, ConnInv, ConnOwned, TransportInv, ThreadInv, StreamInv, Next
    PROVE  StreamInv'
  <1> USE DEF transportVars, runVars, mainVars, connVars, history, threadsOfOthers, serverVars, TimerAlone
  <1>0. UNCHANGED <<descriptors, m_socket, argument, replying, reading, m_isClosing, hpc>> => StreamInv'
    BY DEF StreamInv, Stream, ClientsOnly
  <1>1. CASE setupTcpSocket
    <2>0. up /\ mpc \in {"ready", "udp"} /\ m_workerThreads = <<>>
      BY <1>1 DEF setupTcpSocket, Idle, ThreadInv, Flags
    <2>1. \A b \in Conn : hpc[b] \in {"none", "ended"}
      BY <2>0, NobodyRuns
    <2>2. \A b \in Conn : /\ argument[b] = NoSocket /\ reading[b] = Free
                          /\ hpc[b] = "none" => (replying[b] = NoReply /\ m_socket[b] = NoSocket)
      BY <2>1 DEF ConnInv
    <2>3. UNCHANGED connVars
      BY <1>1 DEF setupTcpSocket
    <2>4. ASSUME NEW b \in Conn PROVE Stream(b)'
      <3>1. Stream(b)
        BY DEF StreamInv
      <3>2. CASE hpc[b] = "ended"
        BY <2>3, <3>1, <3>2 DEF Stream
      <3>3. CASE hpc[b] = "none"
        BY <2>1, <2>2, <2>3, <3>1, <3>3, NoMark DEF Stream, ClientsOnly
      <3> QED
        BY <2>1, <3>2, <3>3
    <2> QED
      BY <2>4 DEF StreamInv
  <1>2. CASE BindTcp
    <2>1. \A d \in Descriptor : descriptors[d] \in Conn \cup {Free} => descriptors'[d] \in Conn \cup {Free}
      BY <1>2, Closed DEF BindTcp
    <2>2. UNCHANGED connVars
      BY <1>2 DEF BindTcp
    <2> QED
      BY <2>1, <2>2 DEF StreamInv, Stream, ClientsOnly
  <1>3. CASE OpenUdp
    <2>0. up /\ mpc \in {"ready", "udp"} /\ m_workerThreads = <<>>
      BY <1>3 DEF OpenUdp, Idle, ThreadInv, Flags
    <2>1. \A b \in Conn : hpc[b] \in {"none", "ended"}
      BY <2>0, NobodyRuns
    <2>2. \A b \in Conn : /\ argument[b] = NoSocket /\ reading[b] = Free
                          /\ hpc[b] = "none" => (replying[b] = NoReply /\ m_socket[b] = NoSocket)
      BY <2>1 DEF ConnInv
    <2>3. UNCHANGED connVars
      BY <1>3 DEF OpenUdp
    <2>4. ASSUME NEW b \in Conn PROVE Stream(b)'
      <3>1. Stream(b)
        BY DEF StreamInv
      <3>2. CASE hpc[b] = "ended"
        BY <2>3, <3>1, <3>2 DEF Stream
      <3>3. CASE hpc[b] = "none"
        BY <2>1, <2>2, <2>3, <3>1, <3>3, NoMark DEF Stream, ClientsOnly
      <3> QED
        BY <2>1, <3>2, <3>3
    <2> QED
      BY <2>4 DEF StreamInv
  <1>4. CASE StartListener
    BY <1>0, <1>4 DEF StartListener
  <1>5. CASE setupUdpSocket
    BY <1>0, <1>5 DEF setupUdpSocket
  <1>6. CASE MainAppended
    BY <1>0, <1>6 DEF MainAppended, Emplace
  <1>7. CASE closeTcpSocket
    <2>1. \A d \in Descriptor : descriptors[d] \in Conn \cup {Free} => descriptors'[d] \in Conn \cup {Free}
      BY <1>7, ServerCloses DEF closeTcpSocket
    <2>2. UNCHANGED connVars
      BY <1>7 DEF closeTcpSocket
    <2> QED
      BY <2>1, <2>2 DEF StreamInv, Stream, ClientsOnly
  <1>8. CASE closeUdpSocket
    BY <1>0, <1>8 DEF closeUdpSocket
  <1>9. CASE stop
    BY <1>0, <1>9 DEF stop
  <1>10. CASE JoinNext
    BY <1>0, <1>10 DEF JoinNext
  <1>11. CASE ClearAndClose
    <2>1. \A d \in Descriptor : descriptors[d] \in Conn \cup {Free} => descriptors'[d] \in Conn \cup {Free}
      BY <1>11, ServerCloses DEF ClearAndClose
    <2>2. UNCHANGED connVars
      BY <1>11 DEF ClearAndClose
    <2> QED
      BY <2>1, <2>2 DEF StreamInv, Stream, ClientsOnly
  <1>12. CASE Destroy
    <2>1. \A d \in Descriptor : descriptors[d] \in Conn \cup {Free} => descriptors'[d] \in Conn \cup {Free}
      BY <1>12, ServerCloses DEF Destroy
    <2>2. UNCHANGED connVars
      BY <1>12 DEF Destroy
    <2> QED
      BY <2>1, <2>2 DEF StreamInv, Stream, ClientsOnly
  <1>13. CASE ListenerLoop
    BY <1>0, <1>13 DEF ListenerLoop
  <1>14. CASE acceptConnection
    <2>1. PICK d \in Descriptor, b \in Conn :
            /\ peer[b] = "waiting"
            /\ descriptors' = [descriptors EXCEPT ![d] = b]
            /\ m_socket' = [m_socket EXCEPT ![b] = d]
            /\ hpc' = [hpc EXCEPT ![b] = "loop"]
      BY <1>14 DEF acceptConnection, Waiting
    <2>2. hpc[b] = "none" /\ argument[b] = NoSocket /\ replying[b] = NoReply /\ reading[b] = Free
      BY <2>1 DEF ConnInv
    <2>3. UNCHANGED <<m_isClosing, argument, replying, reading>>
      BY <1>14 DEF acceptConnection
    <2>4. /\ \A e \in Descriptor : descriptors'[e] = IF e = d THEN b ELSE descriptors[e]
          /\ \A c \in Conn : /\ m_socket'[c] = IF c = b THEN d ELSE m_socket[c]
                             /\ hpc'[c] # "ended" => hpc[c] # "ended"
      BY <2>1, <2>2 DEF TypeKernel, TypeConn
    <2> QED
      BY <2>1, <2>2, <2>3, <2>4, NoMark DEF StreamInv, Stream, ClientsOnly
  <1>15. CASE NothingToAccept
    BY <1>0, <1>15 DEF NothingToAccept
  <1>16. CASE ListenerAppended
    BY <1>0, <1>16 DEF ListenerAppended, Emplace
  <1>17. CASE udpAnnouncementThread
    BY <1>0, <1>17 DEF udpAnnouncementThread
  <1>18. CASE TimerShuts
    <2>1. \A d \in Descriptor : descriptors[d] \in Conn \cup {Free} => descriptors'[d] \in Conn \cup {Free}
      BY <1>18, Closed DEF TimerShuts, CloseSocket
    <2>2. UNCHANGED <<m_socket, m_isClosing, argument, replying, reading, hpc>>
      BY <1>18 DEF TimerShuts
    <2> QED
      BY <2>1, <2>2 DEF StreamInv, Stream, ClientsOnly
  <1>19. CASE TimerForgets
    <2>1. PICK c \in Conn : tpc.conn = c /\ m_isClosing[c] = "timer"
      BY <1>19 DEF TimerForgets, ConnInv
    <2>2. /\ m_socket' = [m_socket EXCEPT ![c] = NoSocket]
          /\ UNCHANGED <<descriptors, m_isClosing, argument, replying, reading, hpc>>
      BY <1>19, <2>1 DEF TimerForgets
    <2>3. \A b \in Conn : m_socket'[b] = IF b = c THEN NoSocket ELSE m_socket[b]
      BY <2>2 DEF TypeKernel
    <2> QED
      BY <2>1, <2>2, <2>3, NoMark DEF StreamInv, Stream, ClientsOnly
  <1>20. CASE TimerJoins
    BY <1>0, <1>20 DEF TimerJoins
  <1>21. ASSUME NEW c \in Conn, Connect(c) PROVE StreamInv'
    BY <1>0, <1>21 DEF Connect
  <1>22. ASSUME NEW c \in Conn, HandlerLoop(c) PROVE StreamInv'
    <2>1. argument' = argument \/ argument' = [argument EXCEPT ![c] = m_socket[c]]
      BY <1>22 DEF HandlerLoop, Load
    <2>2. reading' = reading \/ reading' = [reading EXCEPT ![c] = Free]
      BY <1>22 DEF HandlerLoop
    <2>3. UNCHANGED <<descriptors, m_socket, m_isClosing, replying>> /\ hpc[c] # "ended"
      BY <1>22 DEF HandlerLoop, At
    <2>4. \A b \in Conn : /\ argument'[b] = argument[b] \/ (b = c /\ argument'[b] = m_socket[b])
                          /\ reading'[b] = reading[b] \/ reading'[b] = Free
                          /\ hpc'[b] # "ended" => hpc[b] # "ended"
      BY <1>22, <2>1, <2>2, <2>3 DEF HandlerLoop, Goto, TypeKernel, TypeConn
    <2>5. ASSUME NEW b \in Conn PROVE Stream(b)'
      <3>1. Stream(b)
        BY DEF StreamInv
      <3>2. /\ m_isClosing[b] = "no" => reading'[b] \in {b, Free}
            /\ hpc[b] # "ended" => reading'[b] \in Conn \cup {Free}
        BY <2>4, <3>1 DEF Stream
      <3> QED
        BY <2>3, <2>4, <3>1, <3>2, StreamKept
    <2> QED
      BY <2>5 DEF StreamInv
  <1>23. ASSUME NEW c \in Conn, EnterRecv(c) PROVE StreamInv'
    <2>1. /\ argument' = [argument EXCEPT ![c] = NoSocket] /\ hpc[c] # "ended"
          /\ UNCHANGED <<descriptors, m_socket, m_isClosing, replying>>
      BY <1>23 DEF EnterRecv, Forget, At
    <2>2. \/ reading' = reading
          \/ /\ argument[c] \in Descriptor /\ descriptors[argument[c]] # Free
             /\ reading' = [reading EXCEPT ![c] = descriptors[argument[c]]]
      BY <1>23, Marks DEF EnterRecv, BadDescriptor, FreeDescriptors
    <2>3. \A b \in Conn : /\ argument'[b] = IF b = c THEN NoSocket ELSE argument[b]
                          /\ hpc'[b] # "ended" => hpc[b] # "ended"
                          /\ \/ reading'[b] = reading[b]
                             \/ b = c /\ reading'[b] = descriptors[argument[b]] /\ argument[b] \in Descriptor
      BY <1>23, <2>1, <2>2 DEF EnterRecv, Goto, TypeKernel, TypeConn
    <2>4. m_isClosing[c] = "no" /\ argument[c] \in Descriptor => descriptors[argument[c]] = c
      BY NoMark DEF StreamInv, Stream, ClientsOnly, ConnOwned, Owned, ConnInv, Forgetting
    <2>5. argument[c] \in Descriptor => descriptors[argument[c]] \in Conn \cup {Free}
      BY <2>1 DEF StreamInv, Stream, ClientsOnly
    <2>6. ASSUME NEW b \in Conn PROVE Stream(b)'
      <3>1. Stream(b)
        BY DEF StreamInv
      <3>2. /\ m_isClosing[b] = "no" => reading'[b] \in {b, Free}
            /\ hpc[b] # "ended" => reading'[b] \in Conn \cup {Free}
        BY <2>3, <2>4, <2>5, <3>1 DEF Stream
      <3> QED
        BY <2>1, <2>3, <3>1, <3>2, StreamKept
    <2> QED
      BY <2>6 DEF StreamInv
  <1>24. ASSUME NEW c \in Conn, HandlerCloses(c) PROVE StreamInv'
    <2>1. \A d \in Descriptor : descriptors[d] \in Conn \cup {Free} => descriptors'[d] \in Conn \cup {Free}
      BY <1>24, Closed DEF HandlerCloses, CloseSocket
    <2>2. UNCHANGED <<argument, replying, reading>> /\ hpc' = [hpc EXCEPT ![c] = "destroy"]
      BY <1>24 DEF HandlerCloses, Goto
    <2>3. m_isClosing[c] # "no" \/ m_isClosing' = [m_isClosing EXCEPT ![c] = "handler"]
      BY <1>24 DEF HandlerCloses, At, ConnInv
    <2>4. \A b \in Conn : /\ m_socket'[b] = m_socket[b] \/ (b = c /\ m_socket'[b] = NoSocket)
                          /\ m_isClosing'[b] = "no" => (m_isClosing[b] = "no" /\ b # c)
                          /\ hpc'[b] # "ended" => hpc[b] # "ended"
      BY <1>24, <2>2, <2>3 DEF HandlerCloses, At, ForgetSocket, TypeKernel, TypeConn
    <2>5. ASSUME NEW b \in Conn PROVE Stream(b)'
      <3>1. Stream(b) /\ reading'[b] = reading[b]
        BY <2>2 DEF StreamInv
      <3>2. /\ m_isClosing[b] = "no" => reading[b] \in {b, Free}
            /\ hpc[b] # "ended" => reading[b] \in Conn \cup {Free}
        BY <3>1 DEF Stream
      <3> QED
        BY <2>1, <2>2, <2>4, <3>1, <3>2, StreamKept
    <2> QED
      BY <2>5 DEF StreamInv
  <1>25. ASSUME NEW c \in Conn, HandlerEnds(c) PROVE StreamInv'
    <2>1. \A d \in Descriptor : descriptors[d] \in Conn \cup {Free} => descriptors'[d] \in Conn \cup {Free}
      BY <1>25, Closed DEF HandlerEnds, CloseSocket
    <2>2. UNCHANGED <<argument, replying, reading>> /\ hpc' = [hpc EXCEPT ![c] = "ended"]
      BY <1>25 DEF HandlerEnds, Goto
    <2>3. m_isClosing[c] # "no" \/ m_isClosing' = [m_isClosing EXCEPT ![c] = "handler"]
      BY <1>25 DEF HandlerEnds, At, ConnInv
    <2>4. \A b \in Conn : /\ m_socket'[b] = m_socket[b] \/ (b = c /\ m_socket'[b] = NoSocket)
                          /\ m_isClosing'[b] = "no" => (m_isClosing[b] = "no" /\ b # c)
                          /\ hpc'[b] # "ended" => hpc[b] # "ended"
      BY <1>25, <2>2, <2>3 DEF HandlerEnds, At, ForgetSocket, TypeKernel, TypeConn
    <2>5. ASSUME NEW b \in Conn PROVE Stream(b)'
      <3>1. Stream(b) /\ reading'[b] = reading[b]
        BY <2>2 DEF StreamInv
      <3>2. /\ m_isClosing[b] = "no" => reading[b] \in {b, Free}
            /\ hpc[b] # "ended" => reading[b] \in Conn \cup {Free}
        BY <3>1 DEF Stream
      <3> QED
        BY <2>1, <2>2, <2>4, <3>1, <3>2, StreamKept
    <2> QED
      BY <2>5 DEF StreamInv
  <1>26. ASSUME NEW c \in Conn, RecvData(c) PROVE StreamInv'
    <2>1. argument' = argument \/ argument' = [argument EXCEPT ![c] = m_socket[c]]
      BY <1>26 DEF RecvData, Load
    <2>2. reading' = reading \/ reading' = [reading EXCEPT ![c] = Free]
      BY <1>26 DEF RecvData
    <2>3. UNCHANGED <<descriptors, m_socket, m_isClosing, replying>> /\ hpc[c] # "ended"
      BY <1>26 DEF RecvData, At
    <2>4. \A b \in Conn : /\ argument'[b] = argument[b] \/ (b = c /\ argument'[b] = m_socket[b])
                          /\ reading'[b] = reading[b] \/ reading'[b] = Free
                          /\ hpc'[b] # "ended" => hpc[b] # "ended"
      BY <1>26, <2>1, <2>2, <2>3 DEF RecvData, Goto, TypeKernel, TypeConn
    <2>5. ASSUME NEW b \in Conn PROVE Stream(b)'
      <3>1. Stream(b)
        BY DEF StreamInv
      <3>2. /\ m_isClosing[b] = "no" => reading'[b] \in {b, Free}
            /\ hpc[b] # "ended" => reading'[b] \in Conn \cup {Free}
        BY <2>4, <3>1 DEF Stream
      <3> QED
        BY <2>3, <2>4, <3>1, <3>2, StreamKept
    <2> QED
      BY <2>5 DEF StreamInv
  <1>27. ASSUME NEW c \in Conn, RecvFails(c) PROVE StreamInv'
    <2>1. argument' = argument \/ argument' = [argument EXCEPT ![c] = m_socket[c]]
      BY <1>27 DEF RecvFails, Load
    <2>2. reading' = reading \/ reading' = [reading EXCEPT ![c] = Free]
      BY <1>27 DEF RecvFails
    <2>3. UNCHANGED <<descriptors, m_socket, m_isClosing, replying>> /\ hpc[c] # "ended"
      BY <1>27 DEF RecvFails, At
    <2>4. \A b \in Conn : /\ argument'[b] = argument[b] \/ (b = c /\ argument'[b] = m_socket[b])
                          /\ reading'[b] = reading[b] \/ reading'[b] = Free
                          /\ hpc'[b] # "ended" => hpc[b] # "ended"
      BY <1>27, <2>1, <2>2, <2>3 DEF RecvFails, Goto, TypeKernel, TypeConn
    <2>5. ASSUME NEW b \in Conn PROVE Stream(b)'
      <3>1. Stream(b)
        BY DEF StreamInv
      <3>2. /\ m_isClosing[b] = "no" => reading'[b] \in {b, Free}
            /\ hpc[b] # "ended" => reading'[b] \in Conn \cup {Free}
        BY <2>4, <3>1 DEF Stream
      <3> QED
        BY <2>3, <2>4, <3>1, <3>2, StreamKept
    <2> QED
      BY <2>5 DEF StreamInv
  <1>28. ASSUME NEW c \in Conn, StartReply(c) PROVE StreamInv'
    <2>1. /\ replying' = [replying EXCEPT ![c] = m_socket[c]]
          /\ UNCHANGED <<descriptors, m_socket, m_isClosing, argument, reading, hpc>>
      BY <1>28 DEF StartReply
    <2>2. \A b \in Conn : replying'[b] = IF b = c THEN m_socket[b] ELSE replying[b]
      BY <2>1 DEF TypeKernel
    <2> QED
      BY <2>1, <2>2, NoMark DEF StreamInv, Stream, ClientsOnly
  <1>29. ASSUME NEW c \in Conn, WriteReply(c) PROVE StreamInv'
    <2>1. /\ replying' = [replying EXCEPT ![c] = NoReply]
          /\ UNCHANGED <<descriptors, m_socket, m_isClosing, argument, reading, hpc>>
      BY <1>29 DEF WriteReply
    <2>2. \A b \in Conn : replying'[b] = IF b = c THEN NoReply ELSE replying[b]
      BY <2>1 DEF TypeKernel
    <2>3. NoReply \notin Descriptor
      BY Marks
    <2> QED
      BY <2>1, <2>2, <2>3 DEF StreamInv, Stream, ClientsOnly
  <1>30. ASSUME NEW c \in Conn, TimerCloses(c) PROVE StreamInv'
    <2>1. /\ m_isClosing' = [m_isClosing EXCEPT ![c] = "timer"]
          /\ UNCHANGED <<descriptors, m_socket, argument, replying, reading, hpc>>
      BY <1>30 DEF TimerCloses
    <2>2. \A b \in Conn : m_isClosing'[b] = "no" => m_isClosing[b] = "no"
      BY <2>1 DEF TypeConn
    <2> QED
      BY <2>1, <2>2 DEF StreamInv, Stream, ClientsOnly
  <1>31. CASE \/ onOpenConnectionThrows
              \/ \E c \in Conn : CallsEmptyHandler(c) \/ TimerCallsDestroyed(c)
    BY <1>31, Crashed, Zenon DEF StreamInv, Stream, ClientsOnly
  <1> QED
    BY <1>1, <1>2, <1>3, <1>4, <1>5, <1>6, <1>7, <1>8, <1>9, <1>10, <1>11, <1>12, <1>13, <1>14, <1>15, <1>16, <1>17, <1>18, <1>19, <1>20, <1>21, <1>22, <1>23, <1>24, <1>25, <1>26, <1>27, <1>28, <1>29, <1>30, <1>31 DEF Next, Application, Main, ListenerThread, HandlerRuns, TimerClosing

\* A thread that runs stays listed.
LEMMA ListedKept ==
    ASSUME TypeServer, TypeThreads, TypeConn, ConnInv, PeerOrder, TransportInv, ThreadInv, Next
    PROVE  Listed'
  <1> USE DEF transportVars, runVars, mainVars, connVars, history, threadsOfOthers, serverVars, TimerAlone
  <1> Listed /\ Flags /\ Joined
    BY DEF ThreadInv
  <1>0. UNCHANGED <<up, lpc, apc, mpc, m_workerThreads, hpc>> => Listed'
    BY DEF Listed, Started, Newest
  <1>1. CASE setupTcpSocket
    BY <1>1 DEF setupTcpSocket, Idle, Listed, Started, Newest
  <1>2. CASE BindTcp
    BY <1>2 DEF BindTcp, Listed, Started, Newest
  <1>3. CASE OpenUdp
    BY <1>3 DEF OpenUdp, UndoTcp, Listed, Started, Newest
  <1>4. CASE StartListener
    <2>1. m_workerThreads = <<>> /\ apc # "loop" /\ \A b \in Conn : hpc[b] \in {"none", "ended"}
      BY <1>4, NobodyRuns DEF StartListener, ThreadInv, Flags, TypeServer
    <2> QED
      BY <1>4, <2>1 DEF StartListener, Listed
  <1>5. CASE setupUdpSocket
    BY <1>5 DEF setupUdpSocket, Idle, Listed, Started, Newest
  <1>6. CASE MainAppended
    <2>1. CASE lpc = "append"
      BY <1>6, <2>1 DEF MainAppended, Emplace, Listed
    <2>2. CASE lpc # "append"
      <3>1. /\ UNCHANGED <<lpc, apc, hpc, up>> /\ up
            /\ mpc \in {"appendListener", "appendAnnouncer"}
        BY <1>6, <2>2 DEF MainAppended, MainAppending, Emplace
      <3>2. PICK t \in {Listener, Announcer} :
                /\ t = IF mpc = "appendListener" THEN Listener ELSE Announcer
                /\ m_workerThreads' = Append(m_workerThreads, t)
        BY <1>6, <2>2 DEF MainAppended, Emplace
      <3>3. /\ Started(t)'
            /\ \A x \in Conn \cup {Listener, Announcer} : Started(x) => Started(x)'
        BY <3>2, StartedAppended
      <3>4. mpc = "appendListener" => Started(Listener)'
        BY <3>2, <3>3
      <3>5. mpc = "appendAnnouncer" => Started(Announcer)'
        BY <3>2, <3>3
      <3>6. \A b \in Conn : hpc[b] \notin {"none", "ended"} => Started(b)'
        BY <2>2, <3>1, <3>3 DEF Listed
      <3>7. /\ lpc \in {"loop", "accept", "append"} => Started(Listener)'
            /\ apc = "loop" => Started(Announcer)'
        BY <3>1, <3>3, <3>4, <3>5 DEF Listed
      <3> QED
        BY <3>1, <3>6, <3>7 DEF Listed
    <2> QED
      BY <2>1, <2>2
  <1>7. CASE closeTcpSocket
    BY <1>7 DEF closeTcpSocket, Idle, Listed, Started, Newest
  <1>8. CASE closeUdpSocket
    BY <1>8 DEF closeUdpSocket, Idle, Listed, Started, Newest
  <1>9. CASE stop
    BY <1>9 DEF stop, Idle, Listed, Started, Newest
  <1>10. CASE JoinNext
    <2>1. UNCHANGED <<lpc, apc, mpc, m_workerThreads, hpc>> /\ up
      BY <1>10 DEF JoinNext
    <2> QED
      BY <2>1 DEF Listed, Started, Newest
  <1>11. CASE ClearAndClose
    <2>1. CASE join.stale \/ Len(m_workerThreads) > join.end
      BY <1>11, <2>1 DEF ClearAndClose, Listed
    <2>2. CASE ~(join.stale \/ Len(m_workerThreads) > join.end)
      <3>1. up /\ mpc = "join" /\ join.next > join.end /\ UNCHANGED <<lpc, apc, hpc>>
        BY <1>11 DEF ClearAndClose
      <3>2. Len(m_workerThreads) <= join.end
        BY <2>2 DEF TypeThreads
      <3>3. /\ lpc \notin {"loop", "accept", "append"} /\ apc # "loop"
            /\ \A b \in Conn : hpc[b] \in {"none", "ended"}
        BY <2>2, <3>1, <3>2, AllEnded
      <3> QED
        BY <3>1, <3>3 DEF Listed
    <2> QED
      BY <2>1, <2>2
  <1>12. CASE Destroy
    BY <1>12 DEF Destroy, Idle, Listed, Started, Newest
  <1>13. CASE ListenerLoop
    BY <1>13 DEF ListenerLoop, Listed, Started, Newest
  <1>14. CASE acceptConnection
    <2>1. PICK c \in Conn : peer[c] = "waiting" /\ hpc' = [hpc EXCEPT ![c] = "loop"]
      BY <1>14 DEF acceptConnection, Waiting
    <2>2. UNCHANGED <<mpc, apc, m_workerThreads>> /\ lpc' = "append" /\ lpc = "accept" /\ up
      BY <1>14 DEF acceptConnection
    <2>3. \A b \in Conn : hpc'[b] = IF b = c THEN "loop" ELSE hpc[b]
      BY <2>1 DEF TypeConn
    <2>4. ASSUME NEW b \in Conn, hpc'[b] # "none" PROVE b <= c
      <3>1. CASE b = c
        BY <3>1, BoundsAssumption DEF Conn
      <3>2. CASE b # c
        <4>1. peer[b] = "accepted"
          BY <2>3, <2>4, <3>2 DEF ConnInv
        <4> QED
          BY <2>1, <4>1, BoundsAssumption DEF PeerOrder, Conn
      <3> QED
        BY <3>1, <3>2
    <2>5. Newest(c)'
      BY <2>3, <2>4 DEF Newest
    <2>6. \A b \in Conn : hpc[b] \notin {"none", "ended"} => Started(b)'
      BY <2>2 DEF Listed, Started
    <2> QED
      BY <2>2, <2>3, <2>5, <2>6 DEF Listed, Started
  <1>15. CASE NothingToAccept
    BY <1>15 DEF NothingToAccept, Listed, Started, Newest
  <1>16. CASE ListenerAppended
    <2>1. PICK c \in Conn :
            /\ Newest(c)
            /\ up' = FALSE \/ m_workerThreads' = Append(m_workerThreads, c)
      BY <1>16 DEF ListenerAppended, Emplace
    <2>2. UNCHANGED <<apc, hpc, mpc>> /\ lpc' = "loop" /\ lpc = "append" /\ up
      BY <1>16 DEF ListenerAppended
    <2>3. CASE m_workerThreads' = Append(m_workerThreads, c)
      <3>1. /\ Started(c)'
            /\ \A x \in Conn \cup {Listener, Announcer} : Started(x) => Started(x)'
        BY <2>3, StartedAppended
      <3>2. ASSUME NEW b \in Conn, Newest(b) PROVE b = c
        BY <2>1, <3>2, BoundsAssumption DEF Newest, Conn
      <3>3. \A b \in Conn : hpc[b] \notin {"none", "ended"} => Started(b)'
        BY <2>2, <3>1, <3>2 DEF Listed
      <3>4. /\ Started(Listener)' \/ mpc = "appendListener"
            /\ apc = "loop" => (Started(Announcer)' \/ mpc = "appendAnnouncer")
        BY <2>2, <3>1 DEF Listed
      <3> QED
        BY <2>2, <3>3, <3>4 DEF Listed
    <2>4. CASE up' = FALSE
      BY <2>4 DEF Listed
    <2> QED
      BY <2>1, <2>3, <2>4
  <1>17. CASE udpAnnouncementThread
    BY <1>17 DEF udpAnnouncementThread, Listed, Started, Newest
  <1>18. CASE TimerShuts
    <2>1. UNCHANGED <<lpc, apc, mpc, m_workerThreads, hpc>> /\ up
      BY <1>18 DEF TimerShuts
    <2> QED
      BY <2>1 DEF Listed, Started, Newest
  <1>19. CASE TimerForgets
    <2>1. UNCHANGED <<lpc, apc, mpc, m_workerThreads, hpc>> /\ up
      BY <1>19 DEF TimerForgets
    <2> QED
      BY <2>1 DEF Listed, Started, Newest
  <1>20. CASE TimerJoins
    <2>1. UNCHANGED <<lpc, apc, mpc, m_workerThreads, hpc>> /\ up
      BY <1>20 DEF TimerJoins
    <2> QED
      BY <2>1 DEF Listed, Started, Newest
  <1>21. ASSUME NEW c \in Conn, Connect(c) PROVE Listed'
    BY <1>0, <1>21 DEF Connect
  <1>22. ASSUME NEW c \in Conn, HandlerLoop(c) PROVE Listed'
    <2>1. UNCHANGED <<mpc, lpc, apc, m_workerThreads, up>> /\ hpc[c] \notin {"none", "ended"}
      BY <1>22 DEF HandlerLoop, At
    <2>2. \A b \in Conn : (hpc'[b] = hpc[b]) \/ (b = c /\ hpc'[b] # "none")
      BY <1>22 DEF HandlerLoop, Goto, TypeConn
    <2>3. \A b \in Conn : Newest(b) => Newest(b)'
      BY <2>1, <2>2 DEF Newest
    <2>4. \A b \in Conn : hpc'[b] \notin {"none", "ended"} => hpc[b] \notin {"none", "ended"}
      BY <2>1, <2>2
    <2> QED
      BY <2>1, <2>3, <2>4 DEF Listed, Started
  <1>23. ASSUME NEW c \in Conn, EnterRecv(c) PROVE Listed'
    <2>1. UNCHANGED <<mpc, lpc, apc, m_workerThreads, up>> /\ hpc[c] \notin {"none", "ended"}
      BY <1>23 DEF EnterRecv, At
    <2>2. \A b \in Conn : (hpc'[b] = hpc[b]) \/ (b = c /\ hpc'[b] # "none")
      BY <1>23 DEF EnterRecv, Goto, TypeConn
    <2>3. \A b \in Conn : Newest(b) => Newest(b)'
      BY <2>1, <2>2 DEF Newest
    <2>4. \A b \in Conn : hpc'[b] \notin {"none", "ended"} => hpc[b] \notin {"none", "ended"}
      BY <2>1, <2>2
    <2> QED
      BY <2>1, <2>3, <2>4 DEF Listed, Started
  <1>24. ASSUME NEW c \in Conn, HandlerCloses(c) PROVE Listed'
    <2>1. UNCHANGED <<mpc, lpc, apc, m_workerThreads, up>> /\ hpc[c] \notin {"none", "ended"}
      BY <1>24 DEF HandlerCloses, At
    <2>2. \A b \in Conn : (hpc'[b] = hpc[b]) \/ (b = c /\ hpc'[b] # "none")
      BY <1>24 DEF HandlerCloses, Goto, TypeConn
    <2>3. \A b \in Conn : Newest(b) => Newest(b)'
      BY <2>1, <2>2 DEF Newest
    <2>4. \A b \in Conn : hpc'[b] \notin {"none", "ended"} => hpc[b] \notin {"none", "ended"}
      BY <2>1, <2>2
    <2> QED
      BY <2>1, <2>3, <2>4 DEF Listed, Started
  <1>25. ASSUME NEW c \in Conn, HandlerEnds(c) PROVE Listed'
    <2>1. UNCHANGED <<mpc, lpc, apc, m_workerThreads, up>> /\ hpc[c] \notin {"none", "ended"}
      BY <1>25 DEF HandlerEnds, At
    <2>2. \A b \in Conn : (hpc'[b] = hpc[b]) \/ (b = c /\ hpc'[b] # "none")
      BY <1>25 DEF HandlerEnds, Goto, TypeConn
    <2>3. \A b \in Conn : Newest(b) => Newest(b)'
      BY <2>1, <2>2 DEF Newest
    <2>4. \A b \in Conn : hpc'[b] \notin {"none", "ended"} => hpc[b] \notin {"none", "ended"}
      BY <2>1, <2>2
    <2> QED
      BY <2>1, <2>3, <2>4 DEF Listed, Started
  <1>26. ASSUME NEW c \in Conn, RecvData(c) PROVE Listed'
    <2>1. UNCHANGED <<mpc, lpc, apc, m_workerThreads, up>> /\ hpc[c] \notin {"none", "ended"}
      BY <1>26 DEF RecvData, At
    <2>2. \A b \in Conn : (hpc'[b] = hpc[b]) \/ (b = c /\ hpc'[b] # "none")
      BY <1>26 DEF RecvData, Goto, TypeConn
    <2>3. \A b \in Conn : Newest(b) => Newest(b)'
      BY <2>1, <2>2 DEF Newest
    <2>4. \A b \in Conn : hpc'[b] \notin {"none", "ended"} => hpc[b] \notin {"none", "ended"}
      BY <2>1, <2>2
    <2> QED
      BY <2>1, <2>3, <2>4 DEF Listed, Started
  <1>27. ASSUME NEW c \in Conn, RecvFails(c) PROVE Listed'
    <2>1. UNCHANGED <<mpc, lpc, apc, m_workerThreads, up>> /\ hpc[c] \notin {"none", "ended"}
      BY <1>27 DEF RecvFails, At
    <2>2. \A b \in Conn : (hpc'[b] = hpc[b]) \/ (b = c /\ hpc'[b] # "none")
      BY <1>27 DEF RecvFails, Goto, TypeConn
    <2>3. \A b \in Conn : Newest(b) => Newest(b)'
      BY <2>1, <2>2 DEF Newest
    <2>4. \A b \in Conn : hpc'[b] \notin {"none", "ended"} => hpc[b] \notin {"none", "ended"}
      BY <2>1, <2>2
    <2> QED
      BY <2>1, <2>3, <2>4 DEF Listed, Started
  <1>28. ASSUME NEW c \in Conn, StartReply(c) PROVE Listed'
    BY <1>0, <1>28 DEF StartReply
  <1>29. ASSUME NEW c \in Conn, WriteReply(c) PROVE Listed'
    <2>1. UNCHANGED <<lpc, apc, mpc, m_workerThreads, hpc>> /\ up
      BY <1>29 DEF WriteReply
    <2> QED
      BY <2>1 DEF Listed, Started, Newest
  <1>30. ASSUME NEW c \in Conn, TimerCloses(c) PROVE Listed'
    BY <1>0, <1>30 DEF TimerCloses
  <1>31. CASE \/ onOpenConnectionThrows
              \/ \E c \in Conn : CallsEmptyHandler(c) \/ TimerCallsDestroyed(c)
    BY <1>31, Crashed DEF Listed
  <1> QED
    BY <1>1, <1>2, <1>3, <1>4, <1>5, <1>6, <1>7, <1>8, <1>9, <1>10, <1>11, <1>12, <1>13, <1>14, <1>15, <1>16, <1>17, <1>18, <1>19, <1>20, <1>21, <1>22, <1>23, <1>24, <1>25, <1>26, <1>27, <1>28, <1>29, <1>30, <1>31 DEF Next, Application, Main, ListenerThread, HandlerRuns, TimerClosing

\* The flag stays in step with the list.
LEMMA FlagsKept ==
    ASSUME TypeServer, TypeThreads, TypeConn, ConnInv, PeerOrder, TransportInv, ThreadInv, Next
    PROVE  Flags'
  <1> USE DEF transportVars, runVars, mainVars, connVars, history, threadsOfOthers, serverVars, TimerAlone
  <1> Listed /\ Flags /\ Joined
    BY DEF ThreadInv
  <1>0. UNCHANGED <<up, mpc, m_tcpRunning, m_isActive, m_workerThreads>> => Flags'
    BY DEF Flags, Started
  <1>1. CASE setupTcpSocket
    BY <1>1 DEF setupTcpSocket, Idle, Flags
  <1>2. CASE BindTcp
    BY <1>2 DEF BindTcp, Flags, Started, TypeServer
  <1>3. CASE OpenUdp
    <2>1. up /\ mpc = "udp" /\ UNCHANGED <<up, m_tcpRunning, m_workerThreads>>
      BY <1>3 DEF OpenUdp
    <2>2. \/ mpc' = "start"
          \/ mpc' = "ready" /\ m_isActive' = m_isActive
      BY <1>3 DEF OpenUdp, UndoTcp
    <2> QED
      BY <2>1, <2>2 DEF Flags
  <1>4. CASE StartListener
    BY <1>4 DEF StartListener, Flags
  <1>5. CASE setupUdpSocket
    <2>1. m_tcpRunning
      BY <1>5 DEF setupUdpSocket, Idle, Flags, Started
    <2> QED
      BY <1>5, <2>1 DEF setupUdpSocket, Idle, Flags, Started
  <1>6. CASE MainAppended
    <2>1. CASE up' = FALSE
      BY <2>1 DEF Flags
    <2>2. CASE up' # FALSE
      <3>1. PICK t \in {Listener, Announcer} :
                /\ t = IF mpc = "appendListener" THEN Listener ELSE Announcer
                /\ m_workerThreads' = Append(m_workerThreads, t)
        BY <1>6, <2>2 DEF MainAppended, Emplace
      <3>2. /\ Started(t)'
            /\ \A x \in Conn \cup {Listener, Announcer} : Started(x) => Started(x)'
        BY <3>1, StartedAppended
      <3>3. /\ up /\ mpc \in {"appendListener", "appendAnnouncer"}
            /\ mpc' = "ready" /\ UNCHANGED <<m_tcpRunning, m_isActive>>
        BY <1>6 DEF MainAppended, MainAppending
      <3>4. Started(Listener)'
        <4>1. CASE mpc = "appendListener"
          BY <3>1, <3>2, <4>1
        <4>2. CASE mpc = "appendAnnouncer"
          BY <3>2, <3>3, <4>2 DEF Flags
        <4> QED
          BY <3>3, <4>1, <4>2
      <3> QED
        BY <3>3, <3>4 DEF Flags
    <2> QED
      BY <2>1, <2>2
  <1>7. CASE closeTcpSocket
    <2>1. UNCHANGED <<up, mpc, m_tcpRunning, m_workerThreads>> /\ m_isActive' = FALSE
      BY <1>7 DEF closeTcpSocket, closeSocket
    <2> QED
      BY <2>1 DEF Flags, Started
  <1>8. CASE closeUdpSocket
    BY <1>8 DEF closeUdpSocket, Idle, Flags, Started, TypeServer
  <1>9. CASE stop
    BY <1>9 DEF stop, Flags
  <1>10. CASE JoinNext
    <2>1. UNCHANGED <<mpc, m_tcpRunning, m_isActive, m_workerThreads>> /\ up
      BY <1>10 DEF JoinNext
    <2> QED
      BY <2>1 DEF Flags, Started
  <1>11. CASE ClearAndClose
    <2>1. \/ up' = FALSE
          \/ m_workerThreads' = <<>> /\ m_isActive' = FALSE /\ mpc' = "ready"
      BY <1>11 DEF ClearAndClose, closeSocket, TypeServer
    <2>2. ~m_tcpRunning'
      BY <1>11 DEF ClearAndClose, Flags
    <2> QED
      BY <2>1, <2>2 DEF Flags
  <1>12. CASE Destroy
    <2>1. UNCHANGED <<m_tcpRunning, m_workerThreads>> /\ up /\ mpc = "ready" /\ ~m_tcpRunning
      BY <1>12 DEF Destroy, Idle
    <2>2. up' = FALSE \/ (mpc' = "destroyed" /\ m_isActive' = FALSE)
      BY <1>12, <2>1 DEF Destroy, closeSocket, Flags
    <2> QED
      BY <2>1, <2>2 DEF Flags
  <1>13. CASE ListenerLoop
    BY <1>0, <1>13 DEF ListenerLoop
  <1>14. CASE acceptConnection
    BY <1>0, <1>14 DEF acceptConnection
  <1>15. CASE NothingToAccept
    BY <1>0, <1>15 DEF NothingToAccept
  <1>16. CASE ListenerAppended
    <2>1. CASE up' = FALSE
      BY <2>1 DEF Flags
    <2>2. CASE up' # FALSE
      <3>1. PICK c \in Conn : m_workerThreads' = Append(m_workerThreads, c)
        BY <1>16, <2>2 DEF ListenerAppended, Emplace
      <3>2. \A x \in Conn \cup {Listener, Announcer} : Started(x) => Started(x)'
        BY <3>1, StartedAppended
      <3>3. up /\ lpc = "append" /\ UNCHANGED <<m_tcpRunning, m_isActive, mpc>>
        BY <1>16 DEF ListenerAppended
      <3>4. mpc \in {"ready", "bind", "udp", "start", "destroyed"} => m_tcpRunning
        BY <3>3, NobodyRuns DEF Flags
      <3> QED
        BY <3>2, <3>3, <3>4 DEF Flags
    <2> QED
      BY <2>1, <2>2
  <1>17. CASE udpAnnouncementThread
    BY <1>0, <1>17 DEF udpAnnouncementThread
  <1>18. CASE TimerShuts
    <2>1. UNCHANGED <<mpc, m_tcpRunning, m_isActive, m_workerThreads>> /\ up
      BY <1>18 DEF TimerShuts
    <2> QED
      BY <2>1 DEF Flags, Started
  <1>19. CASE TimerForgets
    <2>1. UNCHANGED <<mpc, m_tcpRunning, m_isActive, m_workerThreads>> /\ up
      BY <1>19 DEF TimerForgets
    <2> QED
      BY <2>1 DEF Flags, Started
  <1>20. CASE TimerJoins
    <2>1. UNCHANGED <<mpc, m_tcpRunning, m_isActive, m_workerThreads>> /\ up
      BY <1>20 DEF TimerJoins
    <2> QED
      BY <2>1 DEF Flags, Started
  <1>21. ASSUME NEW c \in Conn, Connect(c) PROVE Flags'
    BY <1>0, <1>21 DEF Connect
  <1>22. ASSUME NEW c \in Conn, HandlerLoop(c) PROVE Flags'
    BY <1>0, <1>22 DEF HandlerLoop
  <1>23. ASSUME NEW c \in Conn, EnterRecv(c) PROVE Flags'
    BY <1>0, <1>23 DEF EnterRecv
  <1>24. ASSUME NEW c \in Conn, HandlerCloses(c) PROVE Flags'
    BY <1>0, <1>24 DEF HandlerCloses
  <1>25. ASSUME NEW c \in Conn, HandlerEnds(c) PROVE Flags'
    BY <1>0, <1>25 DEF HandlerEnds
  <1>26. ASSUME NEW c \in Conn, RecvData(c) PROVE Flags'
    BY <1>0, <1>26 DEF RecvData
  <1>27. ASSUME NEW c \in Conn, RecvFails(c) PROVE Flags'
    BY <1>0, <1>27 DEF RecvFails
  <1>28. ASSUME NEW c \in Conn, StartReply(c) PROVE Flags'
    BY <1>0, <1>28 DEF StartReply
  <1>29. ASSUME NEW c \in Conn, WriteReply(c) PROVE Flags'
    <2>1. UNCHANGED <<mpc, m_tcpRunning, m_isActive, m_workerThreads>> /\ up
      BY <1>29 DEF WriteReply
    <2> QED
      BY <2>1 DEF Flags, Started
  <1>30. ASSUME NEW c \in Conn, TimerCloses(c) PROVE Flags'
    BY <1>0, <1>30 DEF TimerCloses
  <1>31. CASE \/ onOpenConnectionThrows
              \/ \E c \in Conn : CallsEmptyHandler(c) \/ TimerCallsDestroyed(c)
    BY <1>31, Crashed DEF Flags
  <1> QED
    BY <1>1, <1>2, <1>3, <1>4, <1>5, <1>6, <1>7, <1>8, <1>9, <1>10, <1>11, <1>12, <1>13, <1>14, <1>15, <1>16, <1>17, <1>18, <1>19, <1>20, <1>21, <1>22, <1>23, <1>24, <1>25, <1>26, <1>27, <1>28, <1>29, <1>30, <1>31 DEF Next, Application, Main, ListenerThread, HandlerRuns, TimerClosing

\* What stop() has passed stays ended.
LEMMA JoinedKept ==
    ASSUME TypeServer, TypeThreads, TypeConn, ConnInv, PeerOrder, TransportInv, ThreadInv, Next
    PROVE  Joined'
  <1> USE DEF transportVars, runVars, mainVars, connVars, history, threadsOfOthers, serverVars, TimerAlone
  <1> Listed /\ Flags /\ Joined
    BY DEF ThreadInv
  <1>0. UNCHANGED <<up, mpc, join, m_workerThreads, lpc, apc, hpc>> => Joined'
    BY DEF Joined, Ended
  <1>1. CASE setupTcpSocket
    <2>1. mpc' # "join"
      BY <1>1 DEF setupTcpSocket, Idle
    <2> QED
      BY <2>1 DEF Joined
  <1>2. CASE BindTcp
    <2>1. mpc' # "join"
      BY <1>2 DEF BindTcp
    <2> QED
      BY <2>1 DEF Joined
  <1>3. CASE OpenUdp
    <2>1. mpc' # "join"
      BY <1>3 DEF OpenUdp, UndoTcp
    <2> QED
      BY <2>1 DEF Joined
  <1>4. CASE StartListener
    <2>1. mpc' # "join"
      BY <1>4 DEF StartListener
    <2> QED
      BY <2>1 DEF Joined
  <1>5. CASE setupUdpSocket
    <2>1. mpc' # "join"
      BY <1>5 DEF setupUdpSocket, Idle
    <2> QED
      BY <2>1 DEF Joined
  <1>6. CASE MainAppended
    <2>1. mpc' # "join"
      BY <1>6 DEF MainAppended
    <2> QED
      BY <2>1 DEF Joined
  <1>7. CASE closeTcpSocket
    <2>1. mpc' # "join"
      BY <1>7 DEF closeTcpSocket, Idle
    <2> QED
      BY <2>1 DEF Joined
  <1>8. CASE closeUdpSocket
    <2>1. mpc' # "join"
      BY <1>8 DEF closeUdpSocket, Idle
    <2> QED
      BY <2>1 DEF Joined
  <1>9. CASE stop
    <2>1. join'.next = 1
      BY <1>9 DEF stop, Iterator
    <2> QED
      BY <2>1 DEF Joined
  <1>10. CASE JoinNext
    <2>1. UNCHANGED <<mpc, m_workerThreads, lpc, apc, hpc>> /\ up /\ mpc = "join"
      BY <1>10 DEF JoinNext
    <2>2. CASE join' = Iterator(join.end + 1, join.end, TRUE)
      <3>1. join'.stale
        BY <2>2 DEF Iterator
      <3> QED
        BY <3>1 DEF Joined
    <2>3. CASE /\ join' = Iterator(join.next + 1, join.end, FALSE)
              /\ ~join.stale /\ Ended(m_workerThreads[join.next])
      <3>1. join'.next = join.next + 1 /\ join.next \in Nat
        BY <2>3 DEF Iterator, TypeThreads
      <3>2. \A i \in 1..join.next : Ended(m_workerThreads[i])
        BY <2>1, <2>3, <3>1 DEF Joined
      <3>3. \A i \in 1..join'.next - 1 : Ended(m_workerThreads[i])'
        BY <2>1, <3>1, <3>2 DEF Ended
      <3> QED
        BY <3>3 DEF Joined
    <2> QED
      BY <1>10, <2>2, <2>3 DEF JoinNext
  <1>11. CASE ClearAndClose
    <2>1. mpc' # "join" \/ up' = FALSE
      BY <1>11 DEF ClearAndClose
    <2> QED
      BY <2>1 DEF Joined
  <1>12. CASE Destroy
    <2>1. mpc' # "join"
      BY <1>12 DEF Destroy, Idle
    <2> QED
      BY <2>1 DEF Joined
  <1>13. CASE ListenerLoop
    <2>1. UNCHANGED <<mpc, join, m_workerThreads>> /\ up
      BY <1>13 DEF ListenerLoop
    <2>2. /\ lpc = "ended" => lpc' = "ended"
          /\ apc = "ended" => apc' = "ended"
          /\ \A b \in Conn : hpc[b] = "ended" => hpc'[b] = "ended"
      BY <1>13 DEF ListenerLoop, Goto, TypeConn
    <2> QED
      BY <2>1, <2>2, StillJoined
  <1>14. CASE acceptConnection
    <2>1. UNCHANGED <<mpc, join, m_workerThreads>> /\ up
      BY <1>14 DEF acceptConnection
    <2>2. /\ lpc = "ended" => lpc' = "ended"
          /\ apc = "ended" => apc' = "ended"
          /\ \A b \in Conn : hpc[b] = "ended" => hpc'[b] = "ended"
      BY <1>14 DEF acceptConnection, Goto, TypeConn, ConnInv, Waiting
    <2> QED
      BY <2>1, <2>2, StillJoined
  <1>15. CASE NothingToAccept
    <2>1. UNCHANGED <<mpc, join, m_workerThreads>> /\ up
      BY <1>15 DEF NothingToAccept
    <2>2. /\ lpc = "ended" => lpc' = "ended"
          /\ apc = "ended" => apc' = "ended"
          /\ \A b \in Conn : hpc[b] = "ended" => hpc'[b] = "ended"
      BY <1>15 DEF NothingToAccept, Goto, TypeConn
    <2> QED
      BY <2>1, <2>2, StillJoined
  <1>16. CASE ListenerAppended
    <2>1. CASE up' = FALSE \/ mpc' # "join" \/ join'.stale
      BY <2>1 DEF Joined
    <2>2. CASE ~(up' = FALSE \/ mpc' # "join" \/ join'.stale)
      <3>1. PICK c \in Conn, s \in BOOLEAN :
                /\ m_workerThreads' = Append(m_workerThreads, c)
                /\ join' = Iterator(join.next, join.end, join.stale \/ s)
        BY <1>16, <2>2 DEF ListenerAppended
      <3>2. up /\ mpc = "join" /\ lpc = "append" /\ UNCHANGED <<apc, hpc>>
        BY <1>16, <2>2 DEF ListenerAppended
      <3>3. join'.next = join.next /\ ~join.stale
        BY <2>2, <3>1 DEF Iterator
      <3>4. \A i \in 1..Len(m_workerThreads) : m_workerThreads'[i] = m_workerThreads[i]
        BY <3>1, StartedAppended
      <3>5. ASSUME NEW i \in 1..join.next - 1 PROVE Ended(m_workerThreads[i])'
        <4>1. i \in 1..Len(m_workerThreads) /\ m_workerThreads[i] \in Conn \cup {Listener, Announcer}
          BY DEF TypeThreads
        <4>2. PICK t \in Conn \cup {Listener, Announcer} : t = m_workerThreads[i] /\ t = m_workerThreads'[i]
          BY <3>4, <4>1
        <4>3. Ended(t)
          BY <3>2, <3>3, <4>2 DEF Joined
        <4>4. Ended(t)'
          BY <3>2, <4>3, EndedStays
        <4> QED
          BY <4>2, <4>4
      <3> QED
        BY <3>3, <3>5 DEF Joined
    <2> QED
      BY <2>1, <2>2
  <1>17. CASE udpAnnouncementThread
    <2>1. UNCHANGED <<mpc, join, m_workerThreads>> /\ up
      BY <1>17 DEF udpAnnouncementThread
    <2>2. /\ lpc = "ended" => lpc' = "ended"
          /\ apc = "ended" => apc' = "ended"
          /\ \A b \in Conn : hpc[b] = "ended" => hpc'[b] = "ended"
      BY <1>17 DEF udpAnnouncementThread, Goto, TypeConn
    <2> QED
      BY <2>1, <2>2, StillJoined
  <1>18. CASE TimerShuts
    <2>1. UNCHANGED <<mpc, join, m_workerThreads>> /\ up
      BY <1>18 DEF TimerShuts
    <2>2. /\ lpc = "ended" => lpc' = "ended"
          /\ apc = "ended" => apc' = "ended"
          /\ \A b \in Conn : hpc[b] = "ended" => hpc'[b] = "ended"
      BY <1>18 DEF TimerShuts, Goto, TypeConn
    <2> QED
      BY <2>1, <2>2, StillJoined
  <1>19. CASE TimerForgets
    <2>1. UNCHANGED <<mpc, join, m_workerThreads>> /\ up
      BY <1>19 DEF TimerForgets
    <2>2. /\ lpc = "ended" => lpc' = "ended"
          /\ apc = "ended" => apc' = "ended"
          /\ \A b \in Conn : hpc[b] = "ended" => hpc'[b] = "ended"
      BY <1>19 DEF TimerForgets, Goto, TypeConn
    <2> QED
      BY <2>1, <2>2, StillJoined
  <1>20. CASE TimerJoins
    <2>1. UNCHANGED <<mpc, join, m_workerThreads>> /\ up
      BY <1>20 DEF TimerJoins
    <2>2. /\ lpc = "ended" => lpc' = "ended"
          /\ apc = "ended" => apc' = "ended"
          /\ \A b \in Conn : hpc[b] = "ended" => hpc'[b] = "ended"
      BY <1>20 DEF TimerJoins, Goto, TypeConn
    <2> QED
      BY <2>1, <2>2, StillJoined
  <1>21. ASSUME NEW c \in Conn, Connect(c) PROVE Joined'
    BY <1>0, <1>21 DEF Connect
  <1>22. ASSUME NEW c \in Conn, HandlerLoop(c) PROVE Joined'
    <2>1. UNCHANGED <<mpc, join, m_workerThreads>> /\ up
      BY <1>22 DEF HandlerLoop, At
    <2>2. /\ lpc = "ended" => lpc' = "ended"
          /\ apc = "ended" => apc' = "ended"
          /\ \A b \in Conn : hpc[b] = "ended" => hpc'[b] = "ended"
      BY <1>22 DEF HandlerLoop, Goto, TypeConn, At
    <2> QED
      BY <2>1, <2>2, StillJoined
  <1>23. ASSUME NEW c \in Conn, EnterRecv(c) PROVE Joined'
    <2>1. UNCHANGED <<mpc, join, m_workerThreads>> /\ up
      BY <1>23 DEF EnterRecv, At
    <2>2. /\ lpc = "ended" => lpc' = "ended"
          /\ apc = "ended" => apc' = "ended"
          /\ \A b \in Conn : hpc[b] = "ended" => hpc'[b] = "ended"
      BY <1>23 DEF EnterRecv, Goto, TypeConn, At
    <2> QED
      BY <2>1, <2>2, StillJoined
  <1>24. ASSUME NEW c \in Conn, HandlerCloses(c) PROVE Joined'
    <2>1. UNCHANGED <<mpc, join, m_workerThreads>> /\ up
      BY <1>24 DEF HandlerCloses, At
    <2>2. /\ lpc = "ended" => lpc' = "ended"
          /\ apc = "ended" => apc' = "ended"
          /\ \A b \in Conn : hpc[b] = "ended" => hpc'[b] = "ended"
      BY <1>24 DEF HandlerCloses, Goto, TypeConn, At
    <2> QED
      BY <2>1, <2>2, StillJoined
  <1>25. ASSUME NEW c \in Conn, HandlerEnds(c) PROVE Joined'
    <2>1. UNCHANGED <<mpc, join, m_workerThreads>> /\ up
      BY <1>25 DEF HandlerEnds, At
    <2>2. /\ lpc = "ended" => lpc' = "ended"
          /\ apc = "ended" => apc' = "ended"
          /\ \A b \in Conn : hpc[b] = "ended" => hpc'[b] = "ended"
      BY <1>25 DEF HandlerEnds, Goto, TypeConn, At
    <2> QED
      BY <2>1, <2>2, StillJoined
  <1>26. ASSUME NEW c \in Conn, RecvData(c) PROVE Joined'
    <2>1. UNCHANGED <<mpc, join, m_workerThreads>> /\ up
      BY <1>26 DEF RecvData, At
    <2>2. /\ lpc = "ended" => lpc' = "ended"
          /\ apc = "ended" => apc' = "ended"
          /\ \A b \in Conn : hpc[b] = "ended" => hpc'[b] = "ended"
      BY <1>26 DEF RecvData, Goto, TypeConn, At
    <2> QED
      BY <2>1, <2>2, StillJoined
  <1>27. ASSUME NEW c \in Conn, RecvFails(c) PROVE Joined'
    <2>1. UNCHANGED <<mpc, join, m_workerThreads>> /\ up
      BY <1>27 DEF RecvFails, At
    <2>2. /\ lpc = "ended" => lpc' = "ended"
          /\ apc = "ended" => apc' = "ended"
          /\ \A b \in Conn : hpc[b] = "ended" => hpc'[b] = "ended"
      BY <1>27 DEF RecvFails, Goto, TypeConn, At
    <2> QED
      BY <2>1, <2>2, StillJoined
  <1>28. ASSUME NEW c \in Conn, StartReply(c) PROVE Joined'
    BY <1>0, <1>28 DEF StartReply
  <1>29. ASSUME NEW c \in Conn, WriteReply(c) PROVE Joined'
    <2>1. UNCHANGED <<mpc, join, m_workerThreads>> /\ up
      BY <1>29 DEF WriteReply
    <2>2. /\ lpc = "ended" => lpc' = "ended"
          /\ apc = "ended" => apc' = "ended"
          /\ \A b \in Conn : hpc[b] = "ended" => hpc'[b] = "ended"
      BY <1>29 DEF WriteReply, Goto, TypeConn
    <2> QED
      BY <2>1, <2>2, StillJoined
  <1>30. ASSUME NEW c \in Conn, TimerCloses(c) PROVE Joined'
    BY <1>0, <1>30 DEF TimerCloses
  <1>31. CASE \/ onOpenConnectionThrows
              \/ \E c \in Conn : CallsEmptyHandler(c) \/ TimerCallsDestroyed(c)
    BY <1>31, Crashed DEF Joined
  <1> QED
    BY <1>1, <1>2, <1>3, <1>4, <1>5, <1>6, <1>7, <1>8, <1>9, <1>10, <1>11, <1>12, <1>13, <1>14, <1>15, <1>16, <1>17, <1>18, <1>19, <1>20, <1>21, <1>22, <1>23, <1>24, <1>25, <1>26, <1>27, <1>28, <1>29, <1>30, <1>31 DEF Next, Application, Main, ListenerThread, HandlerRuns, TimerClosing

-----------------------------------------------------------------------------
(* The inductive invariant holds.                                          *)

\* A step that leaves the process running records at most a client that
\* connected during stop().
LEMMA RecordedKept ==
    ASSUME Recorded, Next
    PROVE  Recorded'
  <1> DEFINE Goes == up /\ (hasty' = hasty \/ up' = FALSE \/ hasty' = hasty \cup {"connected during stop"})
  <1> USE DEF transportVars, runVars, mainVars, connVars, history, threadsOfOthers, serverVars
  <1>1. ASSUME setupTcpSocket PROVE Goes
    BY <1>1 DEF setupTcpSocket, Idle
  <1>2. ASSUME BindTcp PROVE Goes
    BY <1>2 DEF BindTcp
  <1>3. ASSUME OpenUdp PROVE Goes
    BY <1>3 DEF OpenUdp
  <1>4. ASSUME StartListener PROVE Goes
    BY <1>4 DEF StartListener
  <1>5. ASSUME setupUdpSocket PROVE Goes
    BY <1>5 DEF setupUdpSocket, Idle
  <1>6. ASSUME MainAppended PROVE Goes
    BY <1>6 DEF MainAppended, Emplace
  <1>7. ASSUME closeTcpSocket PROVE Goes
    BY <1>7 DEF closeTcpSocket, Idle
  <1>8. ASSUME closeUdpSocket PROVE Goes
    BY <1>8 DEF closeUdpSocket, Idle
  <1>9. ASSUME stop PROVE Goes
    BY <1>9 DEF stop, Idle
  <1>10. ASSUME JoinNext PROVE Goes
    BY <1>10 DEF JoinNext
  <1>11. ASSUME ClearAndClose PROVE Goes
    BY <1>11 DEF ClearAndClose
  <1>12. ASSUME Destroy PROVE Goes
    BY <1>12 DEF Destroy, Idle
  <1>13. ASSUME ListenerLoop PROVE Goes
    BY <1>13 DEF ListenerLoop
  <1>14. ASSUME acceptConnection PROVE Goes
    BY <1>14 DEF acceptConnection
  <1>15. ASSUME NothingToAccept PROVE Goes
    BY <1>15 DEF NothingToAccept
  <1>16. ASSUME ListenerAppended PROVE Goes
    BY <1>16 DEF ListenerAppended, Emplace
  <1>17. ASSUME udpAnnouncementThread PROVE Goes
    BY <1>17 DEF udpAnnouncementThread
  <1>18. ASSUME TimerShuts PROVE Goes
    BY <1>18 DEF TimerShuts, TimerAlone
  <1>19. ASSUME TimerForgets PROVE Goes
    BY <1>19 DEF TimerForgets, TimerAlone
  <1>20. ASSUME TimerJoins PROVE Goes
    BY <1>20 DEF TimerJoins, TimerAlone
  <1>21. ASSUME NEW c \in Conn, Connect(c) PROVE Goes
    BY <1>21 DEF Connect
  <1>22. ASSUME NEW c \in Conn, HandlerLoop(c) PROVE Goes
    BY <1>22 DEF HandlerLoop, At
  <1>23. ASSUME NEW c \in Conn, EnterRecv(c) PROVE Goes
    BY <1>23 DEF EnterRecv, At
  <1>24. ASSUME NEW c \in Conn, HandlerCloses(c) PROVE Goes
    BY <1>24 DEF HandlerCloses, At
  <1>25. ASSUME NEW c \in Conn, HandlerEnds(c) PROVE Goes
    BY <1>25 DEF HandlerEnds, At
  <1>26. ASSUME NEW c \in Conn, RecvData(c) PROVE Goes
    BY <1>26 DEF RecvData, At
  <1>27. ASSUME NEW c \in Conn, RecvFails(c) PROVE Goes
    BY <1>27 DEF RecvFails, At
  <1>28. ASSUME NEW c \in Conn, StartReply(c) PROVE Goes
    BY <1>28 DEF StartReply
  <1>29. ASSUME NEW c \in Conn, WriteReply(c) PROVE Goes
    BY <1>29 DEF WriteReply
  <1>30. ASSUME NEW c \in Conn, TimerCloses(c) PROVE Goes
    BY <1>30 DEF TimerCloses, TimerAlone
  <1>31. ASSUME onOpenConnectionThrows PROVE Goes
    BY <1>31 DEF onOpenConnectionThrows, Crash
  <1>32. ASSUME NEW c \in Conn, CallsEmptyHandler(c) \/ TimerCallsDestroyed(c) PROVE Goes
    BY <1>32 DEF CallsEmptyHandler, TimerCallsDestroyed, At, Crash
  <1>33. Goes
    BY <1>1, <1>2, <1>3, <1>4, <1>5, <1>6, <1>7, <1>8, <1>9, <1>10, <1>11, <1>12, <1>13, <1>14, <1>15, <1>16, <1>17, <1>18, <1>19, <1>20, <1>21, <1>22, <1>23, <1>24, <1>25, <1>26, <1>27, <1>28, <1>29, <1>30, <1>31, <1>32 DEF Next, Application, Main, ListenerThread, HandlerRuns, TimerClosing
  <1> QED
    BY <1>33 DEF Recorded

\* The type invariant, in the four parts the steps are proved with.
LEMMA TypeParts == TypeOK <=> (TypeServer /\ TypeThreads /\ TypeKernel /\ TypeConn)
  BY DEF TypeOK, TypeServer, TypeThreads, TypeKernel, TypeConn

\* The server that was not set up yet satisfies the invariant.
LEMMA InitIInv == Init => IInv
  <1> SUFFICES ASSUME Init PROVE IInv
    OBVIOUS
  <1>1. TypeServer /\ TypeConn
    BY Marks DEF Init, TypeServer, TypeConn, TimerIdle, Timer
  <1>2. TypeThreads
    <2>1. join \in [next : Nat, end : Nat, stale : BOOLEAN] /\ join.next = 1 /\ join.end = 0
      BY DEF Init, NotJoining, Iterator
    <2>2. m_workerThreads \in Seq(Conn \cup {Listener, Announcer}) /\ Len(m_workerThreads) = 0
      BY DEF Init
    <2> QED
      BY <2>1, <2>2 DEF TypeThreads
  <1>3. TypeKernel
    BY Marks DEF Init, TypeKernel
  <1>4. ConnInv /\ ~tpc.step = "forget"
    BY DEF Init, ConnInv, TimerIdle, Timer
  <1>5. ConnOwned /\ ServerOwned
    BY <1>4, Marks DEF Init, ConnOwned, Owned, ServerOwned, Forgetting
  <1>6. TransportInv /\ PeerOrder
    BY DEF Init, TransportInv, PeerOrder
  <1>7. ThreadInv
    BY DEF Init, ThreadInv, Listed, Flags, Joined
  <1>8. JoinInv /\ Recorded
    BY DEF Init, JoinInv, NotJoining, Iterator, Recorded
  <1>9. StreamInv
    BY Marks DEF Init, StreamInv, Stream, ClientsOnly
  <1> QED
    BY <1>1, <1>2, <1>3, <1>4, <1>5, <1>6, <1>7, <1>8, <1>9, TypeParts DEF IInv

\* Every step of the server, its threads and its clients keeps the invariant.
LEMMA NextIInv == IInv /\ Next => IInv'
  <1> SUFFICES ASSUME IInv, Next PROVE IInv'
    OBVIOUS
  <1>1. TypeServer /\ TypeThreads /\ TypeKernel /\ TypeConn
    BY TypeParts DEF IInv
  <1>2. /\ ConnInv /\ ConnOwned /\ ServerOwned /\ TransportInv /\ PeerOrder /\ ThreadInv
        /\ JoinInv /\ Recorded /\ StreamInv
    BY DEF IInv
  <1>3. TypeServer' /\ TypeThreads' /\ TypeKernel' /\ TypeConn'
    BY <1>1, TypeServerKept, TypeThreadsKept, TypeKernelKept, TypeConnKept
  <1>4. TypeOK'
    BY <1>3, TypeParts, PTL
  <1>5. ConnInv'
    BY <1>1, <1>2, ConnInvKept
  <1>6. ConnOwned' /\ ServerOwned'
    BY <1>1, <1>2, ConnOwnedKept, ServerOwnedKept
  <1>7. TransportInv' /\ PeerOrder'
    BY <1>1, <1>2, TransportInvKept, PeerOrderKept
  <1>8. Listed' /\ Flags' /\ Joined'
    BY <1>1, <1>2, ListedKept, FlagsKept, JoinedKept
  <1>9. JoinInv' /\ Recorded'
    BY <1>1, <1>2, JoinInvKept, RecordedKept
  <1>10. StreamInv'
    BY <1>1, <1>2, StreamInvKept
  <1> QED
    BY <1>4, <1>5, <1>6, <1>7, <1>8, <1>9, <1>10 DEF IInv, ThreadInv

\* A step that changes nothing does.
LEMMA StutterIInv == IInv /\ UNCHANGED vars => IInv'
  <1> SUFFICES ASSUME IInv, UNCHANGED vars PROVE IInv'
    OBVIOUS
  <1> USE DEF vars, transportVars, runVars, mainVars, connVars, history
  <1>1. TypeOK'
    <2>1. TypeServer /\ TypeThreads /\ TypeKernel /\ TypeConn
      BY TypeParts DEF IInv
    <2>2. TypeServer' /\ TypeThreads'
      BY <2>1, ZenonT(40) DEF TypeServer, TypeThreads
    <2>3. TypeKernel' /\ TypeConn'
      BY <2>1 DEF TypeKernel, TypeConn
    <2> QED
      BY <2>2, <2>3, TypeParts, PTL
  <1>2. ConnInv' /\ PeerOrder' /\ TransportInv'
    BY DEF IInv, ConnInv, PeerOrder, TransportInv
  <1>3. ConnOwned' /\ ServerOwned'
    BY DEF IInv, ConnOwned, Owned, ServerOwned, Forgetting
  <1>4. ThreadInv'
    BY DEF IInv, ThreadInv, Listed, Flags, Joined, Started, Newest, Ended
  <1>5. JoinInv' /\ Recorded'
    BY DEF IInv, JoinInv, Recorded
  <1>6. StreamInv'
    BY DEF IInv, StreamInv, Stream, ClientsOnly
  <1> QED
    BY <1>1, <1>2, <1>3, <1>4, <1>5, <1>6 DEF IInv

\* The inductive invariant holds of the threads of DoIPServer, for any number of
\* connections and descriptors.
THEOREM ServerInvariant == Spec => []IInv
  BY InitIInv, NextIInv, StutterIInv, PTL DEF Spec

-----------------------------------------------------------------------------
(* What follows from it.                                                   *)

\* The variables of the server, its threads and its connections keep their
\* types, and the loop of stop() stays inside m_workerThreads.
THEOREM ServerTypes == Spec => []TypeOK
  <1>1. IInv => TypeOK
    BY DEF IInv
  <1> QED
    BY <1>1, ServerInvariant, PTL

\* No close of the server, of a handler or of the timer thread frees a descriptor
\* that belongs to something else, whatever is reused in between.
THEOREM DescriptorsOwned == Spec => []DescriptorOwnership
  <1>1. IInv => DescriptorOwnership
    BY DEF IInv, ConnOwned, Owned, ServerOwned, DescriptorOwnership
  <1> QED
    BY <1>1, ServerInvariant, PTL

\* Descriptors are lost only by connections of which a read or write failed.
THEOREM LeaksOnlyAfterFailure == Spec => []LeakOnlyAfterFailure
  <1>1. IInv => LeakOnlyAfterFailure
    <2> SUFFICES ASSUME IInv PROVE LeakOnlyAfterFailure
      OBVIOUS
    <2>1. ASSUME NEW c \in Conn, NEW d \in Descriptor, hpc[c] = "ended", descriptors[d] = c
          PROVE  c \in failed
      BY <2>1 DEF IInv, ConnInv, ConnOwned, Owned
    <2>2. ASSUME mpc \in {"ready", "destroyed"}, ~m_isActive, NEW d \in Descriptor
          PROVE  descriptors[d] \notin {Tcp, Udp}
      BY <2>2, NoMark DEF IInv, ServerOwned, TransportInv
    <2> QED
      BY <2>1, <2>2 DEF LeakOnlyAfterFailure
  <1> QED
    BY <1>1, ServerInvariant, PTL

\* A connection that is not being closed reads and writes its own client's
\* stream, although descriptors are reused.
THEOREM StreamsOwn == Spec => []OwnStream
  <1>1. IInv => OwnStream
    <2> SUFFICES ASSUME IInv, NEW c \in Conn
                 PROVE  \/ Target(c) \subseteq {c, Free}
                        \/ m_isClosing[c] # "no" /\ Target(c) \subseteq Conn \cup {Free}
                        \/ m_isClosing[c] = "timer" /\ hpc[c] = "ended"
      BY DEF OwnStream
    <2>1. Stream(c) /\ Owned(c) /\ ConnInv
      BY DEF IInv, StreamInv, ConnOwned
    <2>2. CASE m_isClosing[c] = "no"
      <3>1. ~Forgetting(c)
        BY <2>1, <2>2 DEF ConnInv, Forgetting
      <3>2. \A d \in {argument[c], replying[c]} \cap Descriptor : descriptors[d] = c
        BY <2>1, <2>2, <3>1, NoMark DEF Stream, Owned
      <3>3. reading[c] \in {c, Free}
        BY <2>1, <2>2 DEF Stream
      <3> QED
        BY <3>2, <3>3 DEF Target
    <2>3. CASE m_isClosing[c] # "no" /\ hpc[c] # "ended"
      <3>1. \A d \in {argument[c], replying[c]} \cap Descriptor : descriptors[d] \in Conn \cup {Free}
        BY <2>1, <2>3 DEF Stream, ClientsOnly
      <3>2. reading[c] \in Conn \cup {Free}
        BY <2>1, <2>3 DEF Stream
      <3> QED
        BY <2>3, <3>1, <3>2 DEF Target
    <2>4. CASE m_isClosing[c] # "no" /\ hpc[c] = "ended" /\ m_isClosing[c] # "timer"
      <3>1. argument[c] = NoSocket /\ replying[c] = NoReply /\ reading[c] = Free
        BY <2>1, <2>4 DEF ConnInv
      <3> QED
        BY <3>1, NoMark DEF Target
    <2> QED
      BY <2>2, <2>3, <2>4
  <1> QED
    BY <1>1, ServerInvariant, PTL

\* When stop() has emptied m_workerThreads no thread of the server runs.
THEOREM StopJoins == Spec => []StopJoinsAll
  <1>1. IInv => StopJoinsAll
    <2> SUFFICES ASSUME IInv, up, mpc \in {"ready", "destroyed"}, m_workerThreads = <<>>
                 PROVE  /\ lpc \in {"none", "ended"} /\ apc \in {"none", "ended"}
                        /\ \A c \in Conn : hpc[c] \in {"none", "ended"} /\ peer[c] # "waiting"
      BY DEF StopJoinsAll
    <2>1. TypeServer /\ ThreadInv
      BY TypeParts DEF IInv
    <2>2. /\ lpc \notin {"loop", "accept", "append"} /\ apc # "loop"
          /\ \A b \in Conn : hpc[b] \in {"none", "ended"}
      BY <2>1, NobodyRuns
    <2>3. ~Started(Listener)
      BY DEF Started
    <2>4. ~m_tcpRunning /\ ~m_isActive
      BY <2>1, <2>3 DEF ThreadInv, Flags, TypeServer
    <2>5. \A c \in Conn : peer[c] # "waiting"
      BY <2>4 DEF IInv, TransportInv
    <2> QED
      BY <2>1, <2>2, <2>5 DEF TypeServer
  <1> QED
    BY <1>1, ServerInvariant, PTL

\* The steps that may end the process, as ServerSurvives has them.
Ends ==
    \/ hasty' # hasty
    \/ (JoinNext \/ ClearAndClose) /\ "connected during stop" \in hasty
    \/ \E c \in Conn :
        \/ CallsEmptyHandler(c) \/ TimerCallsDestroyed(c)
        \/ /\ hpc[c] = "ended" /\ m_isClosing[c] = "timer"
           /\ (tpc.conn = c /\ TimerClosing) \/ WriteReply(c)

\* Every other step leaves the process running.
LEMMA OthersSurvive ==
    ASSUME TypeThreads, ConnInv, JoinInv, ThreadInv, Recorded, Next, up
    PROVE  up' = up \/ Ends
  <1> USE DEF transportVars, runVars, mainVars, connVars, history, threadsOfOthers, serverVars, TimerAlone
  <1>0. ASSUME NEW x, x # "connected during stop", hasty' = hasty \cup {x} PROVE Ends
    <2>1. x \notin hasty
      BY <1>0 DEF Recorded
    <2> QED
      BY <1>0, <2>1 DEF Ends
  <1>1. CASE setupTcpSocket
    BY <1>1 DEF setupTcpSocket
  <1>2. CASE BindTcp
    BY <1>2 DEF BindTcp
  <1>3. CASE OpenUdp
    BY <1>3 DEF OpenUdp
  <1>4. CASE StartListener
    BY <1>4 DEF StartListener
  <1>5. CASE setupUdpSocket
    BY <1>5 DEF setupUdpSocket
  <1>6. CASE MainAppended
    <2>1. up' = up \/ hasty' = hasty \cup {"connected during setup"}
      BY <1>6 DEF MainAppended, Emplace
    <2> QED
      BY <1>0, <2>1
  <1>7. CASE closeTcpSocket
    BY <1>7 DEF closeTcpSocket
  <1>8. CASE closeUdpSocket
    BY <1>8 DEF closeUdpSocket
  <1>9. CASE stop
    BY <1>9 DEF stop
  <1>10. CASE JoinNext
    <2>1. up' = up \/ join.stale
      BY <1>10 DEF JoinNext
    <2> QED
      BY <1>10, <2>1 DEF JoinInv, Ends
  <1>11. CASE ClearAndClose
    <2>1. up' = up \/ join.stale \/ (mpc = "join" /\ Len(m_workerThreads) > join.end)
      BY <1>11 DEF ClearAndClose
    <2> QED
      BY <1>11, <2>1 DEF JoinInv, Ends
  <1>12. CASE Destroy
    <2>1. m_workerThreads = <<>>
      BY <1>12 DEF Destroy, Idle, ThreadInv, Flags
    <2> QED
      BY <1>12, <2>1 DEF Destroy
  <1>13. CASE ListenerLoop
    BY <1>13 DEF ListenerLoop
  <1>14. CASE acceptConnection
    BY <1>14 DEF acceptConnection
  <1>15. CASE NothingToAccept
    BY <1>15 DEF NothingToAccept
  <1>16. CASE ListenerAppended
    <2>1. up' = up \/ hasty' = hasty \cup {"connected during setup"}
      BY <1>16 DEF ListenerAppended, Emplace
    <2> QED
      BY <1>0, <2>1
  <1>17. CASE udpAnnouncementThread
    BY <1>17 DEF udpAnnouncementThread
  <1>18. CASE TimerShuts
    <2>1. tpc.conn \in Conn /\ m_isClosing[tpc.conn] = "timer"
      BY <1>18 DEF TimerShuts, ConnInv
    <2>2. up' = up \/ hpc[tpc.conn] = "ended"
      BY <1>18 DEF TimerShuts, Survives
    <2> QED
      BY <1>18, <2>1, <2>2 DEF Ends, TimerClosing
  <1>19. CASE TimerForgets
    <2>1. tpc.conn \in Conn /\ m_isClosing[tpc.conn] = "timer"
      BY <1>19 DEF TimerForgets, ConnInv
    <2>2. up' = up \/ hpc[tpc.conn] = "ended"
      BY <1>19 DEF TimerForgets, Survives
    <2> QED
      BY <1>19, <2>1, <2>2 DEF Ends, TimerClosing
  <1>20. CASE TimerJoins
    <2>1. tpc.conn \in Conn /\ m_isClosing[tpc.conn] = "timer"
      BY <1>20 DEF TimerJoins, ConnInv
    <2>2. up' = up \/ hpc[tpc.conn] = "ended"
      BY <1>20 DEF TimerJoins, Survives
    <2> QED
      BY <1>20, <2>1, <2>2 DEF Ends, TimerClosing
  <1>21. ASSUME NEW c \in Conn, Connect(c) PROVE up' = up
    BY <1>21 DEF Connect
  <1>22. ASSUME NEW c \in Conn, HandlerLoop(c) PROVE up' = up
    BY <1>22 DEF HandlerLoop
  <1>23. ASSUME NEW c \in Conn, EnterRecv(c) PROVE up' = up
    BY <1>23 DEF EnterRecv
  <1>24. ASSUME NEW c \in Conn, HandlerCloses(c) PROVE up' = up
    BY <1>24 DEF HandlerCloses
  <1>25. ASSUME NEW c \in Conn, HandlerEnds(c) PROVE up' = up
    BY <1>25 DEF HandlerEnds
  <1>26. ASSUME NEW c \in Conn, RecvData(c) PROVE up' = up
    BY <1>26 DEF RecvData
  <1>27. ASSUME NEW c \in Conn, RecvFails(c) PROVE up' = up
    BY <1>27 DEF RecvFails
  <1>28. ASSUME NEW c \in Conn, StartReply(c) PROVE up' = up
    BY <1>28 DEF StartReply
  <1>29. ASSUME NEW c \in Conn, WriteReply(c) PROVE up' = up \/ Ends
    <2>1. \/ up' = up
          \/ hpc[c] = "ended" /\ replying[c] # NoReply
          \/ hasty' = hasty \cup {"left unanswered"}
      BY <1>29 DEF WriteReply, Survives
    <2>2. (hpc[c] = "ended" /\ replying[c] # NoReply) => m_isClosing[c] = "timer"
      BY DEF ConnInv
    <2> QED
      BY <1>0, <1>29, <2>1, <2>2 DEF Ends
  <1>30. ASSUME NEW c \in Conn, TimerCloses(c) PROVE up' = up
    BY <1>30 DEF TimerCloses
  <1>31. ASSUME onOpenConnectionThrows PROVE Ends
    BY <1>0, <1>31 DEF onOpenConnectionThrows
  <1>32. ASSUME NEW c \in Conn, CallsEmptyHandler(c) \/ TimerCallsDestroyed(c) PROVE Ends
    BY <1>32 DEF Ends
  <1> QED
    BY <1>1, <1>2, <1>3, <1>4, <1>5, <1>6, <1>7, <1>8, <1>9, <1>10, <1>11, <1>12, <1>13, <1>14, <1>15, <1>16, <1>17, <1>18, <1>19, <1>20, <1>21, <1>22, <1>23, <1>24, <1>25, <1>26, <1>27, <1>28, <1>29, <1>30, <1>31, <1>32 DEF Next, Application, Main, ListenerThread, HandlerRuns, TimerClosing

\* The step that ends the process is one of those that ServerSurvives names, for
\* any number of connections and descriptors.
THEOREM Survival == Spec => ServerSurvives
  <1>1. ASSUME IInv, [Next]_vars, up, ~up' PROVE Ends
    <2>1. up' # up
      BY <1>1
    <2>2. Next
      BY <1>1, <2>1 DEF vars
    <2>3. TypeThreads /\ ConnInv /\ JoinInv /\ ThreadInv /\ Recorded
      BY <1>1, TypeParts DEF IInv
    <2> QED
      BY <1>1, <2>1, <2>2, <2>3, OthersSurvive
  <1>2. IInv /\ [Next]_vars => [(up /\ ~up') => Ends]_vars
    BY <1>1
  <1> QED
    BY <1>2, ServerInvariant, PTL DEF Spec, ServerSurvives, Ends
=============================================================================
