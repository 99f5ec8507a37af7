------------------------------ MODULE Connection ------------------------------
(***************************************************************************)
(* The TCP side of the DoIP server: every accepted connection with its     *)
(* state machine (DoIPDefaultConnection, DoIPConnection), the thread that  *)
(* serves it (DoIPServer::connectionHandlerThread), the one timer manager  *)
(* all connections share, and the application's downstream worker.         *)
(*                                                                         *)
(* Three threads act on one connection and share no lock:                  *)
(*   handler  receives a message, dispatches it to the handler of the      *)
(*            current state, and closes the connection when it leaves its  *)
(*            loop;                                                        *)
(*   timer    collects expired timers under the manager's mutex and runs   *)
(*            their callbacks later, without it;                           *)
(*   worker   delivers downstream responses.                               *)
(* Each of them may be inside transitionTo, which writes m_state, stops    *)
(* all timers, and then reads m_state again for the duration, the id of    *)
(* the timer and the enter handler.  A frame per thread says how far it    *)
(* is; the other threads can act between any two of these accesses.        *)
(*                                                                         *)
(* Time is abstract: an armed timer may expire at any moment, so           *)
(* restarting a timer that is armed changes nothing.                       *)
(***************************************************************************)
EXTENDS Naturals, FiniteSets

CONSTANTS
    Conn,               \* slots for accepted connections
    NoConn,             \* no connection
    Addr,               \* logical addresses (uint16_t values)
    NoAddr,             \* std::nullopt of getSourceAddress
    Requests,           \* the types of messages the clients send
    Disturbances,       \* what else happens: "leave" a client, "stop" the server
    RetryCount,         \* m_aliveCheckRetryCount
    DiagAcks,           \* what onDiagnosticMessage may answer
    DownstreamResults,  \* what onDownstreamRequest may answer, {} = no handler
    MaxOutstanding,     \* bound on unanswered downstream requests
    MaxRetry,           \* bound on the alive check counter (uint8_t)
    MaxOvertakes        \* bound on writes of m_state that overtake another thread

ASSUME ConnAssumption == NoConn \notin Conn
ASSUME AddrAssumption == Addr # {} /\ NoAddr \notin Addr
ASSUME RequestAssumption == Requests \subseteq
    {"RoutingActivationRequest", "DiagnosticMessage", "AliveCheckResponse", "Other"}
ASSUME DisturbanceAssumption == Disturbances \subseteq {"leave", "stop"}
ASSUME RetryAssumption == RetryCount \in 0..255
ASSUME AckAssumption == DiagAcks \subseteq {"ack", "nack"}
ASSUME ResultAssumption == DownstreamResults \subseteq {"Pending", "Handled", "Error"}
ASSUME BoundAssumption == 
    MaxOutstanding \in Nat /\ MaxRetry \in 2..255 /\ MaxOvertakes \in Nat

VARIABLES
    \* DoIPDefaultConnection, per connection
    state,        \* m_state->state
    retry,        \* m_aliveCheckRetry
    clientAddr,   \* m_routedClientAddress
    isOpen,       \* m_isOpen
    closeReason,  \* m_closeReason
    closing,      \* m_isClosing, and how far the thread that set it has come
    \* the transport, per connection
    active,       \* IConnectionTransport::isActive
    peer,         \* the client has not gone away
    \* the threads
    hpc,          \* where the handler thread of each connection is
    msg,          \* the message it received and has not handled yet
    frames,       \* per connection and thread: the transitionTo it is inside
    tpc,          \* the connection the timer thread closes or is about to close
    \* the timer manager
    timers,       \* m_timers: the connection whose callback each armed id holds
    collected,    \* callbacks collected by run(), not executed yet
    \* the application and the process
    outstanding,  \* downstream requests whose callback was not invoked yet
    running,      \* DoIPServer::m_tcpRunning
    crashed,      \* an exception left a thread: std::terminate
    \* history
    routed,       \* a routing activation was confirmed
    served,       \* source of the message in hand once onDiagnosticMessage got it
    acked,        \* the message in hand was answered by an ack or a nack
    closes,       \* calls of onCloseConnection
    overtakes     \* writes of m_state while another thread was inside transitionTo

machineVars == <<state, retry, clientAddr, isOpen, closeReason, closing>>
threadVars  == <<hpc, msg, frames, tpc>>
timerVars   == <<timers, collected>>
envVars     == <<active, peer, outstanding, running, crashed>>
historyVars == <<routed, served, acked, closes, overtakes>>
vars == <<machineVars, threadVars, timerVars, envVars, historyVars>>

-----------------------------------------------------------------------------
(***************************************************************************)
(* The states that are entered.  SocketInitialized is left inside the      *)
(* constructor.                                                            *)
(***************************************************************************)
State == {"WaitRoutingActivation", "RoutingActivated", "WaitAliveCheckResponse",
          "WaitDownstreamResponse", "Finalize", "Closed"}

\* The timer ids a state descriptor names; DownstreamResponse is never armed.
Timer == {"InitialInactivity", "GeneralInactivity", "AliveCheck", "UserDefined"}

\* STATE_DESCRIPTORS with the wrong timer for the first state.
TimerOfGeneralFirst == [s \in State |->
    CASE s = "WaitAliveCheckResponse" -> "AliveCheck"
      [] s \in {"WaitDownstreamResponse", "Finalize", "Closed"} -> "UserDefined"
      [] OTHER -> "GeneralInactivity"]

\* STATE_DESCRIPTORS: the timer of each state (UserDefined is the default of
\* the descriptor's constructor).
TimerOf == [s \in State |->
    CASE s = "WaitRoutingActivation"  -> "InitialInactivity"
      [] s = "RoutingActivated"       -> "GeneralInactivity"
      [] s = "WaitAliveCheckResponse" -> "AliveCheck"
      [] OTHER                        -> "UserDefined"]

\* The states whose getTimerDuration is zero.
Untimed == {"Finalize", "Closed"}

\* stateAfterTimeout
AfterTimeout(s) == IF s \in Untimed THEN "Closed" ELSE "Finalize"

\* The states with an enterStateHandler: it resets or increments the counter.
Counting == {"RoutingActivated", "WaitAliveCheckResponse"}

Reason == {"None", "InitialInactivityTimeout", "AliveCheckTimeout",
           "SocketError", "InvalidMessage", "ApplicationRequest"}

\* What the handlers tell apart of a parsed message; they do not look at the
\* source of the others.
Addressed == {"RoutingActivationRequest", "DiagnosticMessage"}
Message ==
    [type : Requests \cap Addressed, source : Addr \cup {NoAddr}]
    \cup [type : Requests \ Addressed, source : {NoAddr}]
NoMsg == [type |-> "None", source |-> NoAddr]

\* none -> opening -> loop -> receive -> dispatch -> one of the handlers
\* (waitRouting, routed, aliveCheck) -> loop.  answer and forward are inside
\* handleRoutingActivated, closing and leaving inside closeConnection (which
\* leads back to the loop, or out of it), exit is destroyed.
HandlerPc == {"none", "opening", "loop", "receive", "dispatch", "waitRouting",
              "routed", "answer", "forward", "aliveCheck", "closing", "leaving",
              "exit"}

NoTimers == [t \in Timer |-> NoConn]
Callback == Timer \X Conn

-----------------------------------------------------------------------------
(***************************************************************************)
(* transitionTo, which all three threads call.  A frame holds the place    *)
(* the thread has reached, the descriptor startStateTimer was given, and   *)
(* how many calls of transitionTo it is nested in: a state without         *)
(* duration is left at once by another call.                               *)
(***************************************************************************)
Thread == {"handler", "timer", "worker"}

\* compare :111, write :124, stop :157, duration :159, timer :175, add :174,
\* check :127, fetch :129, enter: the call.
FramePc == {"idle", "compare", "write", "stop", "duration", "timer", "add", "check",
            "fetch", "enter"}
Frame == [at : FramePc, to : State, depth : Nat]
NoFrame == [at |-> "idle", to |-> "Closed", depth |-> 0]

Idle(c, th) == frames[c][th].at = "idle"

\* The thread has written m_state and not left transitionTo yet.
Inside(c, th) ==
    frames[c][th].at \notin {"idle", "compare", "write"} \/ frames[c][th].depth > 0

At(c, th, pc) == ~crashed /\ frames[c][th].at = pc

\* The thread calls transitionTo(s).
Call(c, th, s) ==
    frames' = [frames EXCEPT ![c][th] = [at |-> "compare", to |-> s, depth |-> 0]]

Goto(c, th, pc) == frames' = [frames EXCEPT ![c][th].at = pc]

\* The thread reads m_state and goes on with the descriptor it found.
ReadState(c, th, pc) ==
    frames' = [frames EXCEPT ![c][th].at = pc, ![c][th].to = state[c]]

\* Back to the caller; a nested call was the last of its startStateTimer.
Return(c, th) ==
    frames' = [frames EXCEPT ![c][th] =
        IF @.depth = 0 THEN NoFrame
        ELSE [at |-> "check", to |-> @.to, depth |-> @.depth - 1]]

\* Only the frame changes.
OnlyFrame == UNCHANGED <<machineVars, hpc, msg, tpc, timerVars, envVars, historyVars>>

\* Nothing is done when the state is the current one.
TransitionTo(c, th) ==
    /\ At(c, th, "compare")
    /\ IF state[c] = frames[c][th].to THEN Return(c, th) ELSE Goto(c, th, "write")
    /\ OnlyFrame

\* m_state is written, whoever else is inside transitionTo.
WritesState(c, th) ==
    /\ At(c, th, "write")
    /\ state' = [state EXCEPT ![c] = frames[c][th].to]
    /\ \/ /\ \A u \in Thread \ {th} : ~Inside(c, u)
          /\ UNCHANGED overtakes
       \/ /\ \E u \in Thread \ {th} : Inside(c, u)
          /\ overtakes[c] < MaxOvertakes
          /\ overtakes' = [overtakes EXCEPT ![c] = @ + 1]
    /\ Goto(c, th, "stop")
    /\ UNCHANGED <<retry, clientAddr, isOpen, closeReason, closing, hpc, msg, tpc,
                   timerVars, envVars, routed, served, acked, closes>>

\* startStateTimer without stopAll(): the timer of the state that was left
\* stays in the manager.
StopAllSkipped == timers

\* stopAll() removes the timers of all connections.
StopAll == NoTimers

StartStateTimerStops(c, th) ==
    /\ At(c, th, "stop")
    /\ timers' = StopAll
    /\ Goto(c, th, "duration")
    /\ UNCHANGED <<machineVars, hpc, msg, tpc, collected, envVars, historyVars>>

\* The duration is that of the state m_state now names.  When it is zero,
\* transitionTo the stateAfterTimeout of the descriptor that was passed.
StartStateTimerReadsDuration(c, th) ==
    /\ At(c, th, "duration")
    /\ frames' = [frames EXCEPT ![c][th] =
           IF state[c] \in Untimed
           THEN [at |-> "compare", to |-> AfterTimeout(@.to), depth |-> @.depth + 1]
           ELSE [@ EXCEPT !.at = "timer"]]
    /\ OnlyFrame

\* The id of the timer is that of the state m_state now names.
StartStateTimerReadsTimer(c, th) ==
    /\ At(c, th, "timer")
    /\ ReadState(c, th, "add")
    /\ OnlyFrame

\* addTimer
StartStateTimerAdds(c, th) ==
    /\ At(c, th, "add")
    /\ timers' = [timers EXCEPT ![TimerOf[frames[c][th].to]] = c]
    /\ Goto(c, th, "check")
    /\ UNCHANGED <<machineVars, hpc, msg, tpc, collected, envVars, historyVars>>

\* if (m_state->enterStateHandler)
ChecksEnterHandler(c, th) ==
    /\ At(c, th, "check")
    /\ IF state[c] \in Counting THEN Goto(c, th, "fetch") ELSE Return(c, th)
    /\ OnlyFrame

\* m_state is read again for the handler to call.
FetchesEnterHandler(c, th) ==
    /\ At(c, th, "fetch")
    /\ ReadState(c, th, "enter")
    /\ OnlyFrame

\* The enter handler of RoutingActivated does not reset the counter.
EnterHandlerNoReset(c, s) ==
    retry' = [retry EXCEPT ![c] = IF s = "RoutingActivated" THEN @ ELSE @ + 1]

\* The enter handler of state s.
EnterHandler(c, s) ==
    retry' = [retry EXCEPT ![c] = IF s = "RoutingActivated" THEN 0 ELSE @ + 1]

CallsEnterHandler(c, th) ==
    /\ At(c, th, "enter")
    /\ frames[c][th].to \in Counting
    /\ frames[c][th].to = "RoutingActivated" \/ retry[c] < MaxRetry
    /\ EnterHandler(c, frames[c][th].to)
    /\ Return(c, th)
    /\ UNCHANGED <<state, clientAddr, isOpen, closeReason, closing, hpc, msg, tpc,
                   timerVars, envVars, historyVars>>

-----------------------------------------------------------------------------
(***************************************************************************)
(* closeConnection, which the handler and the timer thread call.           *)
(***************************************************************************)

\* How far the close is: inside transitionTo(Closed), before the transport is
\* closed, inside onCloseConnection, over.
ClosePc == {"no", "state", "transport", "notify", "done"}
Close == [at : ClosePc, by : {"handler", "timer"}, reason : Reason]
NoClose == [at |-> "no", by |-> "handler", reason |-> "None"]

\* closeConnection without the guard of DoIPConnection.
NeverClosing(c) == FALSE

\* compare_exchange on m_isClosing: somebody else has closed, or is closing.
AlreadyClosing(c) == closing[c].at # "no"

\* The thread is inside closeConnection.
InClose(c, th) == closing[c].at \in {"state", "transport", "notify"} /\ closing[c].by = th

\* The thread that set m_isClosing moves to Closed.
BeginClose(c, th, reason) ==
    /\ closing' = [closing EXCEPT ![c] = [at |-> "state", by |-> th, reason |-> reason]]
    /\ Call(c, th, "Closed")

\* closeConnection is back in its caller.
CloseReturns(c) ==
    /\ closing' = [closing EXCEPT ![c].at = "done"]
    /\ isOpen' = [isOpen EXCEPT ![c] = FALSE]
    /\ \/ /\ closing[c].by = "handler"
          /\ hpc' = [hpc EXCEPT ![c] = IF @ = "closing" THEN "loop" ELSE "exit"]
          /\ UNCHANGED tpc
       \/ /\ closing[c].by = "timer"
          /\ tpc' = NoConn
          /\ UNCHANGED hpc

\* The reason, then stopAll() once more.
CloseStopsTimers(c, th) ==
    /\ ~crashed /\ InClose(c, th) /\ closing[c].at = "state" /\ Idle(c, th)
    /\ closing' = [closing EXCEPT ![c].at = "transport"]
    /\ closeReason' = [closeReason EXCEPT ![c] = closing[c].reason]
    /\ timers' = StopAll
    /\ UNCHANGED <<state, retry, clientAddr, isOpen, threadVars, collected, envVars,
                   historyVars>>

\* closeConnection that leaves the transport to its destructor.
TransportKept(c) == active

\* close() of the transport.
TransportClosed(c) == [active EXCEPT ![c] = FALSE]

CloseClosesTransport(c, th) ==
    /\ ~crashed /\ InClose(c, th) /\ closing[c].at = "transport"
    /\ closing' = [closing EXCEPT ![c].at = "notify"]
    /\ active' = TransportClosed(c)
    /\ UNCHANGED <<state, retry, clientAddr, isOpen, closeReason, threadVars, timerVars,
                   peer, outstanding, running, crashed, historyVars>>

\* onCloseConnection, which joins the application's worker, then m_isOpen.
CloseNotifies(c, th) ==
    /\ ~crashed /\ InClose(c, th) /\ closing[c].at = "notify" /\ Idle(c, "worker")
    /\ CloseReturns(c)
    /\ closes' = [closes EXCEPT ![c] = @ + 1]
    /\ outstanding' = [outstanding EXCEPT ![c] = 0]
    /\ UNCHANGED <<state, retry, clientAddr, closeReason, msg, frames, timerVars,
                   active, peer, running, crashed, routed, served, acked, overtakes>>

\* The enter handler was taken away between the check and the call: the call
\* throws std::bad_function_call.  closeConnection catches it and skips the
\* rest of the close, run() catches it for the other callbacks of the timer
\* thread, and nothing catches it in the other threads.
CallsEmptyEnterHandler(c, th) ==
    /\ At(c, th, "enter")
    /\ frames[c][th].to \notin Counting
    /\ IF th = "timer" \/ InClose(c, th)
       THEN frames' = [frames EXCEPT ![c][th] = NoFrame] /\ UNCHANGED crashed
       ELSE crashed' = TRUE /\ UNCHANGED frames
    /\ IF InClose(c, th) THEN CloseReturns(c) ELSE UNCHANGED <<closing, isOpen, hpc, tpc>>
    /\ UNCHANGED <<state, retry, clientAddr, closeReason, msg, timerVars, active,
                   peer, outstanding, running, historyVars>>

\* A step inside transitionTo.
TransitionStep(c, th) ==
    \/ TransitionTo(c, th)
    \/ WritesState(c, th)
    \/ StartStateTimerStops(c, th)
    \/ StartStateTimerReadsDuration(c, th)
    \/ StartStateTimerReadsTimer(c, th)
    \/ StartStateTimerAdds(c, th)
    \/ ChecksEnterHandler(c, th)
    \/ FetchesEnterHandler(c, th)
    \/ CallsEnterHandler(c, th)
    \/ CallsEmptyEnterHandler(c, th)

CloseStep(c, th) ==
    \/ CloseStopsTimers(c, th)
    \/ CloseClosesTransport(c, th)
    \/ CloseNotifies(c, th)

-----------------------------------------------------------------------------
(***************************************************************************)
(* The handler thread.                                                     *)
(***************************************************************************)

\* The handler thread is at `pc' and not inside transitionTo.
HandlerAt(c, pc) == ~crashed /\ hpc[c] = pc /\ Idle(c, "handler")

\* sendProtocolMessage: the transport refuses when it is not active, and no
\* caller looks at the result.  When the client is gone the write may still
\* succeed, fail and mark the transport inactive, or raise SIGPIPE, which
\* nothing blocks.
Send(c) ==
    \/ UNCHANGED <<active, crashed>>
    \/ /\ active[c] /\ ~peer[c]
       /\ \/ active' = [active EXCEPT ![c] = FALSE] /\ UNCHANGED crashed
          \/ crashed' = TRUE /\ UNCHANGED active

\* sendDiagnosticMessageResponse
SendAck(c) ==
    /\ Send(c)
    /\ acked' = [acked EXCEPT ![c] = active[c]]

\* The message is dealt with but for the transitionTo that may be under way.
Handled(c) ==
    /\ hpc' = [hpc EXCEPT ![c] = "loop"]
    /\ msg' = [msg EXCEPT ![c] = NoMsg]
    /\ served' = [served EXCEPT ![c] = NoAddr]

\* waitForTcpConnection and the constructor, one at a time in the listener
\* thread: onOpenConnection, then the transition from SocketInitialized to
\* WaitRoutingActivation.
Accept(c) ==
    /\ ~crashed /\ hpc[c] = "none" /\ running
    /\ \A d \in Conn : hpc[d] # "opening"
    /\ hpc' = [hpc EXCEPT ![c] = "opening"]
    /\ state' = [state EXCEPT ![c] = "WaitRoutingActivation"]
    /\ frames' = [frames EXCEPT ![c]["handler"] =
           [at |-> "stop", to |-> "WaitRoutingActivation", depth |-> 0]]
    /\ isOpen' = [isOpen EXCEPT ![c] = TRUE]
    /\ active' = [active EXCEPT ![c] = TRUE]
    /\ peer' = [peer EXCEPT ![c] = TRUE]
    /\ UNCHANGED <<retry, clientAddr, closeReason, closing, msg, tpc, timerVars,
                   outstanding, running, crashed, historyVars>>

\* The handler thread is started.
Opened(c) ==
    /\ HandlerAt(c, "opening")
    /\ hpc' = [hpc EXCEPT ![c] = "loop"]
    /\ UNCHANGED <<machineVars, msg, frames, tpc, timerVars, envVars, historyVars>>

\* while (m_tcpRunning): receiveMessage on an active transport blocks.
EnterReceive(c) ==
    /\ HandlerAt(c, "loop") /\ running /\ active[c]
    /\ hpc' = [hpc EXCEPT ![c] = "receive"]
    /\ acked' = [acked EXCEPT ![c] = FALSE]
    /\ UNCHANGED <<machineVars, msg, frames, tpc, timerVars, envVars, routed, served,
                   closes, overtakes>>

\* The blocked receive returns a message.  The timer thread may have closed
\* the transport meanwhile: closing the descriptor does not end the recv.
ReceiveMessage(c, m) ==
    /\ HandlerAt(c, "receive") /\ peer[c]
    /\ hpc' = [hpc EXCEPT ![c] = "dispatch"]
    /\ msg' = [msg EXCEPT ![c] = m]
    /\ UNCHANGED <<machineVars, frames, tpc, timerVars, envVars, historyVars>>

\* The loop is left: closeConnection, then the connection is destroyed.
LeaveLoop(c, reason) ==
    /\ \/ /\ AlreadyClosing(c)
          /\ hpc' = [hpc EXCEPT ![c] = "exit"]
          /\ UNCHANGED <<closing, frames>>
       \/ /\ ~AlreadyClosing(c)
          /\ hpc' = [hpc EXCEPT ![c] = "leaving"]
          /\ BeginClose(c, "handler", reason)
    /\ UNCHANGED <<state, retry, clientAddr, isOpen, closeReason, msg, tpc, timerVars,
                   peer, outstanding, running, crashed, historyVars>>

\* receiveMessage returns std::nullopt at once: the transport is not active.
ReceiveRefused(c) ==
    /\ HandlerAt(c, "loop") /\ running /\ ~active[c]
    /\ LeaveLoop(c, "SocketError")
    /\ UNCHANGED active

\* The blocked receive returns std::nullopt: end of stream, an error, or bytes
\* that are no DoIP message; the transport is marked inactive.
ReceiveFails(c) ==
    /\ HandlerAt(c, "receive")
    /\ LeaveLoop(c, "SocketError")
    /\ active' = [active EXCEPT ![c] = FALSE]

\* The loop condition is false.
LoopEnds(c) ==
    /\ HandlerAt(c, "loop") /\ ~running
    /\ LeaveLoop(c, "ApplicationRequest")
    /\ UNCHANGED active

\* handleMessage: the message handler of the state m_state names.  That of
\* WaitDownstreamResponse drops the message, that of Finalize moves to Closed.
Dispatch(c) ==
    /\ HandlerAt(c, "dispatch")
    /\ \/ /\ state[c] \in {"WaitRoutingActivation", "RoutingActivated",
                           "WaitAliveCheckResponse"}
          /\ hpc' = [hpc EXCEPT ![c] =
                 CASE state[c] = "WaitRoutingActivation"  -> "waitRouting"
                   [] state[c] = "RoutingActivated"       -> "routed"
                   [] state[c] = "WaitAliveCheckResponse" -> "aliveCheck"]
          /\ UNCHANGED <<msg, served, frames>>
       \/ /\ state[c] = "WaitDownstreamResponse"
          /\ Handled(c)
          /\ UNCHANGED frames
       \/ /\ state[c] = "Finalize"
          /\ Handled(c)
          /\ Call(c, "handler", "Closed")
    /\ UNCHANGED <<machineVars, tpc, timerVars, envVars, routed, acked, closes,
                   overtakes>>

\* handleMessage in Closed: the descriptor has no handler, the call throws
\* std::bad_function_call and nothing in the thread catches it.
DispatchClosed(c) ==
    /\ HandlerAt(c, "dispatch")
    /\ state[c] = "Closed"
    /\ crashed' = TRUE
    /\ UNCHANGED <<machineVars, threadVars, timerVars, active, peer, outstanding,
                   running, historyVars>>

\* A handler closes the connection and goes back to the loop.
HandlerCloses(c, reason) ==
    /\ \/ /\ AlreadyClosing(c)
          /\ hpc' = [hpc EXCEPT ![c] = "loop"]
          /\ UNCHANGED <<closing, frames>>
       \/ /\ ~AlreadyClosing(c)
          /\ hpc' = [hpc EXCEPT ![c] = "closing"]
          /\ BeginClose(c, "handler", reason)
    /\ msg' = [msg EXCEPT ![c] = NoMsg]
    /\ UNCHANGED <<state, retry, clientAddr, isOpen, closeReason, tpc, timerVars,
                   envVars, historyVars>>

\* handleWaitRoutingActivation that does not ask for a source address.
ValidRoutingRequestNoSource(c) == msg[c].type = "RoutingActivationRequest"

\* The request handleWaitRoutingActivation accepts.
ValidRoutingRequest(c) ==
    msg[c].type = "RoutingActivationRequest" /\ msg[c].source # NoAddr

\* The request is answered and the state left as it is.
GrantRoutingNoTransition(c) ==
    /\ clientAddr' = [clientAddr EXCEPT ![c] = msg[c].source]
    /\ routed' = [routed EXCEPT ![c] = TRUE]
    /\ Send(c)
    /\ UNCHANGED frames

\* setClientAddress, sendRoutingActivationResponse, transitionTo.
GrantRouting(c) ==
    /\ clientAddr' = [clientAddr EXCEPT ![c] = msg[c].source]
    /\ routed' = [routed EXCEPT ![c] = TRUE]
    /\ Send(c)
    /\ Call(c, "handler", "RoutingActivated")

\* handleWaitRoutingActivation: anything but a valid request closes.
HandleWaitRoutingActivation(c) ==
    /\ HandlerAt(c, "waitRouting")
    /\ \/ /\ ValidRoutingRequest(c)
          /\ GrantRouting(c)
          /\ Handled(c)
          /\ UNCHANGED <<state, retry, isOpen, closeReason, closing, tpc, timerVars,
                         peer, outstanding, running, acked, closes, overtakes>>
       \/ /\ ~ValidRoutingRequest(c)
          /\ HandlerCloses(c, "InvalidMessage")

\* handleRoutingActivated that trusts the source address of the message.
RejectedSourceNone(c) == FALSE

\* handleRoutingActivated: the source is not the routed client.
RejectedSource(c) == msg[c].source # clientAddr[c]

\* handleRoutingActivated, everything but a diagnostic message of the
\* routed client.
RoutedRejects(c) ==
    /\ HandlerAt(c, "routed")
    /\ \/ /\ \/ /\ msg[c].type = "AliveCheckResponse"
                /\ UNCHANGED <<active, crashed, acked>>
             \/ /\ msg[c].type \notin {"AliveCheckResponse", "DiagnosticMessage"}
                /\ SendAck(c)
             \/ /\ msg[c].type = "DiagnosticMessage" /\ msg[c].source # NoAddr
                /\ RejectedSource(c)
                /\ SendAck(c)
          /\ Handled(c)
          /\ UNCHANGED <<machineVars, frames, tpc, timerVars, peer, outstanding,
                         running, routed, closes, overtakes>>
       \/ /\ msg[c].type = "DiagnosticMessage" /\ msg[c].source = NoAddr
          /\ HandlerCloses(c, "InvalidMessage")

\* handleRoutingActivated hands a diagnostic message of the routed client to
\* onDiagnosticMessage.
RoutedDiagnostic(c) ==
    /\ HandlerAt(c, "routed")
    /\ msg[c].type = "DiagnosticMessage" /\ msg[c].source # NoAddr
    /\ ~RejectedSource(c)
    /\ hpc' = [hpc EXCEPT ![c] = "answer"]
    /\ served' = [served EXCEPT ![c] = msg[c].source]
    /\ UNCHANGED <<machineVars, msg, frames, tpc, timerVars, envVars, routed, acked,
                   closes, overtakes>>

\* The application's decision is sent.  A nack ends in RoutingActivated; an
\* acknowledged message goes downstream when there is a downstream handler.
RoutedAnswers(c) ==
    /\ HandlerAt(c, "answer")
    /\ SendAck(c)
    /\ \/ /\ "nack" \in DiagAcks
          /\ Handled(c)
          /\ Call(c, "handler", "RoutingActivated")
       \/ /\ "ack" \in DiagAcks /\ DownstreamResults = {}
          /\ Handled(c)
          /\ UNCHANGED frames
       \/ /\ "ack" \in DiagAcks /\ DownstreamResults # {}
          /\ hpc' = [hpc EXCEPT ![c] = "forward"]
          /\ UNCHANGED <<msg, served, frames>>
    /\ UNCHANGED <<machineVars, tpc, timerVars, peer, outstanding, running, routed,
                   closes, overtakes>>

\* onDownstreamRequest, and the transition its result asks for.
RoutedForwards(c) ==
    /\ HandlerAt(c, "forward")
    /\ \/ /\ "Pending" \in DownstreamResults /\ outstanding[c] < MaxOutstanding
          /\ outstanding' = [outstanding EXCEPT ![c] = @ + 1]
          /\ Call(c, "handler", "WaitDownstreamResponse")
          /\ UNCHANGED <<active, crashed>>
       \/ /\ "Handled" \in DownstreamResults
          /\ Call(c, "handler", "RoutingActivated")
          /\ UNCHANGED <<active, crashed, outstanding>>
       \/ /\ "Error" \in DownstreamResults
          /\ Send(c)
          /\ Call(c, "handler", "RoutingActivated")
          /\ UNCHANGED outstanding
    /\ Handled(c)
    /\ UNCHANGED <<machineVars, tpc, timerVars, peer, running, routed, acked, closes,
                   overtakes>>

\* handleWaitAliveCheckResponse: a diagnostic message counts as a sign of
\* life and is not looked at further.
HandleWaitAliveCheckResponse(c) ==
    /\ HandlerAt(c, "aliveCheck")
    /\ \/ /\ msg[c].type \in {"DiagnosticMessage", "AliveCheckResponse"}
          /\ Call(c, "handler", "RoutingActivated")
          /\ UNCHANGED <<active, crashed, acked>>
       \/ /\ msg[c].type \notin {"DiagnosticMessage", "AliveCheckResponse"}
          /\ SendAck(c)
          /\ UNCHANGED frames
    /\ Handled(c)
    /\ UNCHANGED <<machineVars, tpc, timerVars, peer, outstanding, running, routed,
                   closes, overtakes>>

HandlerRuns(c) ==
    \/ TransitionStep(c, "handler")
    \/ CloseStep(c, "handler")
    \/ Opened(c)
    \/ EnterReceive(c)
    \/ ReceiveRefused(c)
    \/ LoopEnds(c)
    \/ Dispatch(c)
    \/ DispatchClosed(c)
    \/ HandleWaitRoutingActivation(c)
    \/ RoutedRejects(c)
    \/ RoutedDiagnostic(c)
    \/ RoutedAnswers(c)
    \/ RoutedForwards(c)
    \/ HandleWaitAliveCheckResponse(c)

-----------------------------------------------------------------------------
(***************************************************************************)
(* The timer thread: TimerManager::run and DoIPDefaultConnection's         *)
(* callbacks.                                                              *)
(***************************************************************************)

\* The thread executes no callback.
TimerThreadFree == ~crashed /\ tpc = NoConn /\ \A c \in Conn : Idle(c, "timer")

\* The expired timers stay in the map.
CollectExpiredNoErase(expired) ==
    /\ TimerThreadFree /\ collected = {}
    /\ expired # {}
    /\ \A t \in expired : timers[t] # NoConn
    /\ collected' = {<<t, timers[t]>> : t \in expired}
    /\ UNCHANGED <<machineVars, threadVars, timers, envVars, historyVars>>

\* run(): under the mutex, all expired one-shot timers leave the map and
\* their callbacks are put aside.
CollectExpired(expired) ==
    /\ TimerThreadFree /\ collected = {}
    /\ expired # {}
    /\ \A t \in expired : timers[t] # NoConn
    /\ collected' = {<<t, timers[t]>> : t \in expired}
    /\ timers' = [t \in Timer |-> IF t \in expired THEN NoConn ELSE timers[t]]
    /\ UNCHANGED <<machineVars, threadVars, envVars, historyVars>>

\* The timer thread takes the callback of timer t of connection c.
TakeCallback(t, c) ==
    /\ TimerThreadFree
    /\ <<t, c>> \in collected
    /\ collected' = collected \ {<<t, c>>}

\* The timer thread calls closeConnection.
TimerCloses(c, reason) ==
    \/ /\ AlreadyClosing(c)
       /\ tpc' = NoConn
       /\ UNCHANGED <<closing, frames>>
    \/ /\ ~AlreadyClosing(c)
       /\ tpc' = c
       /\ BeginClose(c, "timer", reason)

TimeoutInitialInactivity(c) ==
    /\ TakeCallback("InitialInactivity", c)
    /\ TimerCloses(c, "InitialInactivityTimeout")
    /\ UNCHANGED <<state, retry, clientAddr, isOpen, closeReason, hpc, msg, timers,
                   envVars, historyVars>>

\* sendAliveCheckRequest, then transitionTo.
TimeoutGeneralInactivity(c) ==
    /\ TakeCallback("GeneralInactivity", c)
    /\ Send(c)
    /\ Call(c, "timer", "WaitAliveCheckResponse")
    /\ UNCHANGED <<machineVars, hpc, msg, tpc, timers, peer, outstanding, running,
                   historyVars>>

\* The alive check gives up one timeout late.
RetriesLeftOffByOne(c) == retry[c] <= RetryCount

\* m_aliveCheckRetry < m_aliveCheckRetryCount
RetriesLeft(c) == retry[c] < RetryCount

TimeoutAliveCheck(c) ==
    /\ TakeCallback("AliveCheck", c)
    /\ \/ /\ RetriesLeft(c)
          /\ Call(c, "timer", "WaitAliveCheckResponse")
          /\ UNCHANGED tpc
       \/ /\ ~RetriesLeft(c)
          /\ tpc' = c
          /\ UNCHANGED frames
    /\ UNCHANGED <<machineVars, hpc, msg, timers, envVars, historyVars>>

\* The counter was found exhausted; it may have been reset since.
TimerGivesUp(c) ==
    /\ ~crashed /\ tpc = c /\ ~InClose(c, "timer") /\ Idle(c, "timer")
    /\ TimerCloses(c, "AliveCheckTimeout")
    /\ UNCHANGED <<state, retry, clientAddr, isOpen, closeReason, hpc, msg, timerVars,
                   envVars, historyVars>>

\* Only logged.
TimeoutUserDefined(c) ==
    /\ TakeCallback("UserDefined", c)
    /\ UNCHANGED <<machineVars, threadVars, timers, envVars, historyVars>>

\* The connection was destroyed by its handler thread while the timer thread
\* or the worker has still to do with it.  The memory may look intact (the
\* other actions) or the process dies.
UseOfDestroyed(c) ==
    /\ ~crashed /\ hpc[c] = "exit"
    /\ \/ tpc = c \/ ~Idle(c, "timer")
       \/ \E t \in Timer : <<t, c>> \in collected
       \/ outstanding[c] > 0 \/ ~Idle(c, "worker")
    /\ crashed' = TRUE
    /\ UNCHANGED <<machineVars, threadVars, timerVars, active, peer, outstanding,
                   running, historyVars>>

CallbacksRun ==
    \E c \in Conn :
        \/ TransitionStep(c, "timer")
        \/ CloseStep(c, "timer")
        \/ TimeoutInitialInactivity(c)
        \/ TimeoutGeneralInactivity(c)
        \/ TimeoutAliveCheck(c)
        \/ TimerGivesUp(c)
        \/ TimeoutUserDefined(c)

-----------------------------------------------------------------------------
(***************************************************************************)
(* The application's worker and the environment.                           *)
(***************************************************************************)

\* receiveDownstreamResponse: the response (or a nack for a failed request)
\* is sent and the state set, whatever the state is.
ReceiveDownstreamResponse(c) ==
    /\ ~crashed /\ outstanding[c] > 0 /\ Idle(c, "worker")
    /\ outstanding' = [outstanding EXCEPT ![c] = @ - 1]
    /\ Send(c)
    /\ Call(c, "worker", "RoutingActivated")
    /\ UNCHANGED <<machineVars, hpc, msg, tpc, timerVars, peer, running, historyVars>>

\* The client disconnects or resets the connection.
PeerLeaves(c) ==
    /\ ~crashed /\ peer[c] /\ "leave" \in Disturbances
    /\ peer' = [peer EXCEPT ![c] = FALSE]
    /\ UNCHANGED <<machineVars, threadVars, timerVars, active, outstanding,
                   running, crashed, historyVars>>

\* DoIPServer::stop clears m_tcpRunning.
Stop ==
    /\ ~crashed /\ running /\ "stop" \in Disturbances
    /\ running' = FALSE
    /\ UNCHANGED <<machineVars, threadVars, timerVars, active, peer,
                   outstanding, crashed, historyVars>>

-----------------------------------------------------------------------------
Init ==
    /\ state = [c \in Conn |-> "Closed"]
    /\ retry = [c \in Conn |-> 0]
    /\ clientAddr \in [Conn -> Addr]       \* never initialised by the code
    /\ isOpen = [c \in Conn |-> FALSE]
    /\ closeReason = [c \in Conn |-> "None"]
    /\ closing = [c \in Conn |-> NoClose]
    /\ active = [c \in Conn |-> FALSE]
    /\ peer = [c \in Conn |-> FALSE]
    /\ hpc = [c \in Conn |-> "none"]
    /\ msg = [c \in Conn |-> NoMsg]
    /\ frames = [c \in Conn |-> [th \in Thread |-> NoFrame]]
    /\ tpc = NoConn
    /\ timers = NoTimers
    /\ collected = {}
    /\ outstanding = [c \in Conn |-> 0]
    /\ running = TRUE
    /\ crashed = FALSE
    /\ routed = [c \in Conn |-> FALSE]
    /\ served = [c \in Conn |-> NoAddr]
    /\ acked = [c \in Conn |-> FALSE]
    /\ closes = [c \in Conn |-> 0]
    /\ overtakes = [c \in Conn |-> 0]

Next ==
    \/ \E c \in Conn :
          \/ Accept(c)
          \/ HandlerRuns(c)
          \/ \E m \in Message : ReceiveMessage(c, m)
          \/ ReceiveFails(c)
          \/ ReceiveDownstreamResponse(c)
          \/ TransitionStep(c, "worker")
          \/ UseOfDestroyed(c)
          \/ PeerLeaves(c)
    \/ \E expired \in SUBSET Timer : CollectExpired(expired)
    \/ CallbacksRun
    \/ Stop

Spec == Init /\ [][Next]_vars

(***************************************************************************)
(* Threads that can run do: the operating system schedules them.  A timer  *)
(* that stays armed expires, and run() collects every expired timer in its *)
(* next round, so no timer is passed over for ever.  Nothing is assumed of *)
(* the client (ReceiveMessage, PeerLeaves), of the downstream device       *)
(* (ReceiveDownstreamResponse), of a recv that blocks (ReceiveFails) or of *)
(* Stop.                                                                   *)
(***************************************************************************)
Expire(t) == \E expired \in SUBSET Timer : t \in expired /\ CollectExpired(expired)

Fairness ==
    /\ \A c \in Conn : WF_vars(HandlerRuns(c)) /\ WF_vars(TransitionStep(c, "worker"))
    /\ WF_vars(CallbacksRun)
    /\ \A t \in Timer : SF_vars(Expire(t))

FairSpec == Spec /\ Fairness

-----------------------------------------------------------------------------
(***************************************************************************)
(* Properties.                                                             *)
(***************************************************************************)

\* Every variable has its type; the thread-local ones agree with the thread.
TypeOK ==
    /\ state \in [Conn -> State]
    /\ retry \in [Conn -> Nat]
    /\ clientAddr \in [Conn -> Addr]
    /\ isOpen \in [Conn -> BOOLEAN]
    /\ closeReason \in [Conn -> Reason]
    /\ closing \in [Conn -> Close]
    /\ active \in [Conn -> BOOLEAN]
    /\ peer \in [Conn -> BOOLEAN]
    /\ hpc \in [Conn -> HandlerPc]
    /\ msg \in [Conn -> Message \cup {NoMsg}]
    /\ frames \in [Conn -> [Thread -> Frame]]
    /\ tpc \in Conn \cup {NoConn}
    /\ timers \in [Timer -> Conn \cup {NoConn}]
    /\ collected \subseteq Callback
    /\ outstanding \in [Conn -> Nat]
    /\ running \in BOOLEAN
    /\ crashed \in BOOLEAN
    /\ routed \in [Conn -> BOOLEAN]
    /\ served \in [Conn -> Addr \cup {NoAddr}]
    /\ acked \in [Conn -> BOOLEAN]
    /\ closes \in [Conn -> Nat]
    /\ overtakes \in [Conn -> Nat]

\* No thread is inside transitionTo, and none was overtaken there.
Settled(c) == overtakes[c] = 0 /\ \A th \in Thread : ~Inside(c, th)

\* The states in which the inactivity rules apply, and in which a timer has
\* to bring the connection down when the client stays silent.
Watched == {"WaitRoutingActivation", "RoutingActivated", "WaitAliveCheckResponse"}

\* As long as nobody closes it, a connection in a watched state has the timer
\* of that state armed, its expiry waiting to be handled, or the timer thread
\* about to act on it: there is always something that will end an idle
\* connection.  With one connection and at most one alive check this survives
\* every interleaving of the handler, stale timer callbacks and late downstream
\* responses in which no thread is overtaken inside transitionTo.
WatchedStateHasTimer ==
    \A c \in Conn :
        state[c] \in Watched /\ Settled(c) /\ ~AlreadyClosing(c) =>
            \/ timers[TimerOf[state[c]]] = c
            \/ <<TimerOf[state[c]], c>> \in collected
            \/ tpc = c \/ ~Idle(c, "timer")

\* Once no thread is inside transitionTo, an armed timer belongs to the state
\* its connection is in: no timer of an earlier state is left behind, also when
\* the manager is shared, unless a thread was overtaken between its stopAll and
\* its addTimer.
NoStrayTimer ==
    \A t \in Timer : timers[t] # NoConn /\ Settled(timers[t]) =>
        state[timers[t]] \notin Untimed /\ t = TimerOf[state[timers[t]]]

\* Only the client that was granted routing activation is ever served: no
\* diagnostic message of another source reaches onDiagnosticMessage, in
\* whatever order messages, timeouts and responses arrive.
ServedOnlyRoutedClient ==
    \A c \in Conn : served[c] # NoAddr => routed[c] /\ served[c] = clientAddr[c]

\* The states that follow routing activation are reached by no other way.
RoutingBeforeService ==
    \A c \in Conn :
        state[c] \in {"RoutingActivated", "WaitAliveCheckResponse",
                      "WaitDownstreamResponse"} \/ hpc[c] \in {"routed", "answer", "forward"}
            => routed[c]

\* The address granted by routing activation is never replaced.
RoutedAddressStable ==
    [][\A c \in Conn : routed[c] => routed'[c] /\ clientAddr'[c] = clientAddr[c]]_vars

\* onCloseConnection is called exactly once per connection, by whichever of
\* the handler and the timer thread wins, and m_isOpen is cleared with it; only
\* a closing thread overtaken inside transitionTo may fail to call it.  Without
\* the compare_exchange in DoIPConnection both would call it.
ClosedExactlyOnce ==
    \A c \in Conn :
        /\ closes[c] <= 1
        /\ closes[c] = 1 => AlreadyClosing(c) /\ ~isOpen[c]
        /\ AlreadyClosing(c) /\ closes[c] = 0 =>
               \/ InClose(c, "timer") /\ tpc = c
               \/ InClose(c, "handler") /\ hpc[c] \in {"closing", "leaving"}
               \/ overtakes[c] > 0

\* The reason the application is told stays the one getCloseReason reports.
CloseReasonStable ==
    [][\A c \in Conn : closeReason[c] # "None" => closeReason'[c] = closeReason[c]]_vars

\* The alive check counter stays within the configured count (one when no
\* retry is configured) unless a thread is overtaken inside transitionTo, whose
\* enter handler then counts for a state the thread did not enter.
RetryBounded ==
    \A c \in Conn :
        overtakes[c] = 0 => retry[c] <= IF RetryCount = 0 THEN 1 ELSE RetryCount

\* A connection whose client sends nothing any more, and which does not wait
\* for the downstream device, is closed (or the process is gone): the
\* inactivity timers do their work, unless a thread was overtaken inside
\* transitionTo.
IdleConnectionCloses ==
    \A c \in Conn :
        <>[](hpc[c] \notin {"none", "dispatch"} /\ state[c] # "WaitDownstreamResponse")
            => <>(closes[c] = 1 \/ crashed \/ overtakes[c] > 0)

\* What the tests assert after every close, isOpen() == false together with
\* getState() == Closed, taken as a statement about all states.
NotOpenIsClosed ==
    \A c \in Conn : closes[c] = 1 => state[c] = "Closed"

\* "Immediately after receiving a diagnostic message the DoIP server sends a
\* Diagnostic Ack": every diagnostic message handled after routing activation
\* is answered by an ack or a nack.
DiagnosticAcknowledged ==
    [][\A c \in Conn :
          /\ hpc[c] \notin {"loop", "opening", "closing"} /\ hpc'[c] = "loop"
          /\ msg[c].type = "DiagnosticMessage" /\ msg[c].source # NoAddr
          /\ routed[c] /\ active[c] /\ peer[c]
          => acked'[c]]_vars

\* "The state machine will handle timeout management internally": a
\* connection waiting for the downstream device does not wait for ever.
DownstreamWaitEnds ==
    \A c \in Conn :
        (state[c] = "WaitDownstreamResponse" /\ ~AlreadyClosing(c)) ~>
            (state[c] # "WaitDownstreamResponse" \/ AlreadyClosing(c) \/ crashed)
=============================================================================
