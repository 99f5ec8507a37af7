-------------------------- MODULE Connection_proofs --------------------------
(***************************************************************************)
(* Theorems about Connection, for every set of connections and addresses,  *)
(* every retry count, every behaviour of the clients and of the            *)
(* application's callbacks, and every value of the bounds.                 *)
(***************************************************************************)
EXTENDS Connection, TLAPS

\* A name for the test of m_isClosing, never worth hiding.
USE DEF AlreadyClosing

\* A thread that moves inside transitionTo, or enters or leaves it, has a
\* frame again.
LEMMA FrameType ==
    ASSUME TypeOK, NEW c \in Conn, NEW th \in Thread
    PROVE  /\ frames[c][th] \in Frame
           /\ \A f \in Frame : [frames EXCEPT ![c][th] = f] \in [Conn -> [Thread -> Frame]]
           /\ \A s \in State : Call(c, th, s) => frames' \in [Conn -> [Thread -> Frame]]
           /\ \A pc \in FramePc : Goto(c, th, pc) => frames' \in [Conn -> [Thread -> Frame]]
           /\ \A pc \in FramePc :
                 ReadState(c, th, pc) => frames' \in [Conn -> [Thread -> Frame]]
           /\ Return(c, th) => frames' \in [Conn -> [Thread -> Frame]]
<1>1. frames[c][th] \in Frame
  BY DEF TypeOK
<1>2. \A f \in Frame : [frames EXCEPT ![c][th] = f] \in [Conn -> [Thread -> Frame]]
  BY DEF TypeOK
<1>3. ASSUME NEW s \in State, Call(c, th, s) PROVE frames' \in [Conn -> [Thread -> Frame]]
  <2>1. [at |-> "compare", to |-> s, depth |-> 0] \in Frame
    BY DEF Frame, FramePc
  <2> QED BY <1>2, <1>3, <2>1 DEF Call
<1>4. ASSUME NEW pc \in FramePc, Goto(c, th, pc) PROVE frames' \in [Conn -> [Thread -> Frame]]
  <2>1. [frames[c][th] EXCEPT !.at = pc] \in Frame
    BY <1>1 DEF Frame
  <2> QED BY <1>2, <1>4, <2>1 DEF Goto
<1>5. ASSUME NEW pc \in FramePc, ReadState(c, th, pc)
      PROVE  frames' \in [Conn -> [Thread -> Frame]]
  <2>1. [frames[c][th] EXCEPT !.at = pc, !.to = state[c]] \in Frame
    BY <1>1 DEF Frame, TypeOK
  <2> QED BY <1>2, <1>5, <2>1 DEF ReadState
<1>6. ASSUME Return(c, th) PROVE frames' \in [Conn -> [Thread -> Frame]]
  <2>1. NoFrame \in Frame
    BY DEF NoFrame, Frame, FramePc, State
  <2>2. frames[c][th].depth # 0 =>
          [at |-> "check", to |-> frames[c][th].to, depth |-> frames[c][th].depth - 1] \in Frame
    BY <1>1 DEF Frame, FramePc
  <2> QED BY <1>2, <1>6, <2>1, <2>2 DEF Return
<1> QED BY <1>1, <1>2, <1>3, <1>4, <1>5, <1>6

\* A thread that begins to close keeps the types of what it assigns.
LEMMA BeginCloseType ==
    ASSUME TypeOK, NEW c \in Conn, NEW th \in {"handler", "timer"}, NEW r \in Reason,
           BeginClose(c, th, r)
    PROVE  closing' \in [Conn -> Close] /\ frames' \in [Conn -> [Thread -> Frame]]
<1>1. [at |-> "state", by |-> th, reason |-> r] \in Close
  BY DEF Close, ClosePc
<1>2. closing' \in [Conn -> Close]
  BY <1>1 DEF BeginClose, TypeOK
<1>3. frames' \in [Conn -> [Thread -> Frame]]
  BY FrameType DEF BeginClose, Thread, State
<1> QED BY <1>2, <1>3

\* So does the end of closeConnection.
LEMMA CloseReturnsType ==
    ASSUME TypeOK, NEW c \in Conn, CloseReturns(c)
    PROVE  /\ closing' \in [Conn -> Close] /\ isOpen' \in [Conn -> BOOLEAN]
           /\ hpc' \in [Conn -> HandlerPc] /\ tpc' \in Conn \cup {NoConn}
<1>1. closing' \in [Conn -> Close]
  <2>1. closing[c] \in Close
    BY DEF TypeOK
  <2>2. [closing[c] EXCEPT !.at = "done"] \in Close
    BY <2>1 DEF Close, ClosePc
  <2> QED BY <2>2 DEF CloseReturns, TypeOK
<1>2. hpc' \in [Conn -> HandlerPc] /\ tpc' \in Conn \cup {NoConn}
  BY DEF CloseReturns, TypeOK, HandlerPc
<1> QED BY <1>1, <1>2 DEF CloseReturns, TypeOK

\* So does sending.
LEMMA SendType ==
    ASSUME TypeOK, NEW c \in Conn
    PROVE  /\ Send(c) => active' \in [Conn -> BOOLEAN] /\ crashed' \in BOOLEAN
           /\ SendAck(c) => /\ active' \in [Conn -> BOOLEAN] /\ crashed' \in BOOLEAN
                            /\ acked' \in [Conn -> BOOLEAN]
  BY DEF Send, SendAck, TypeOK

\* The handler thread is back in its loop, with no message in hand.
LEMMA HandledType ==
    ASSUME TypeOK, NEW c \in Conn, Handled(c)
    PROVE  /\ hpc' \in [Conn -> HandlerPc] /\ msg' \in [Conn -> Message \cup {NoMsg}]
           /\ served' \in [Conn -> Addr \cup {NoAddr}]
  BY DEF Handled, TypeOK, HandlerPc

\* A handler that closes, or a handler thread that leaves its loop, keeps the
\* types of what it assigns.
LEMMA HandlerClosesType ==
    ASSUME TypeOK, NEW c \in Conn, NEW r \in Reason, HandlerCloses(c, r) \/ LeaveLoop(c, r)
    PROVE  /\ closing' \in [Conn -> Close] /\ frames' \in [Conn -> [Thread -> Frame]]
           /\ hpc' \in [Conn -> HandlerPc] /\ msg' \in [Conn -> Message \cup {NoMsg}]
<1>1. closing' \in [Conn -> Close] /\ frames' \in [Conn -> [Thread -> Frame]]
  BY BeginCloseType DEF HandlerCloses, LeaveLoop, TypeOK
<1>2. hpc' \in [Conn -> HandlerPc] /\ msg' \in [Conn -> Message \cup {NoMsg}]
  BY DEF HandlerCloses, LeaveLoop, TypeOK, HandlerPc
<1> QED BY <1>1, <1>2

\* The timer thread that closes keeps the types of what it assigns.
LEMMA TimerClosesType ==
    ASSUME TypeOK, NEW c \in Conn, NEW r \in Reason, TimerCloses(c, r)
    PROVE  /\ closing' \in [Conn -> Close] /\ frames' \in [Conn -> [Thread -> Frame]]
           /\ tpc' \in Conn \cup {NoConn}
  BY BeginCloseType DEF TimerCloses, TypeOK

\* The initial state has the types of TypeOK.
LEMMA TypeInit == Init => TypeOK
<1> SUFFICES ASSUME Init PROVE TypeOK OBVIOUS
<1>1. timers \in [Timer -> Conn \cup {NoConn}]
  BY DEF Init, NoTimers
<1>2. /\ state \in [Conn -> State]
      /\ closeReason \in [Conn -> Reason]
      /\ hpc \in [Conn -> HandlerPc]
  BY DEF Init, State, Reason, HandlerPc
<1>3. closing \in [Conn -> Close]
  BY DEF Init, NoClose, Close, ClosePc, Reason
<1>4. frames \in [Conn -> [Thread -> Frame]]
  BY DEF Init, NoFrame, Frame, FramePc, State
<1> QED BY <1>1, <1>2, <1>3, <1>4 DEF Init, TypeOK

\* A step inside transitionTo keeps TypeOK.
LEMMA TransitionStepType ==
    ASSUME TypeOK, NEW c \in Conn, NEW th \in Thread, TransitionStep(c, th)
    PROVE  TypeOK'
<1> USE DEF machineVars, threadVars, timerVars, envVars, historyVars
<1>0. frames[c][th] \in Frame
  BY FrameType
<1>1. ASSUME OnlyFrame, frames' \in [Conn -> [Thread -> Frame]] PROVE TypeOK'
  BY <1>1 DEF OnlyFrame, TypeOK
<1>2. CASE TransitionTo(c, th)
  BY <1>1, <1>2, FrameType DEF TransitionTo, FramePc
<1>3. CASE WritesState(c, th)
  <2>1. frames' \in [Conn -> [Thread -> Frame]]
    BY <1>3, FrameType DEF WritesState, FramePc
  <2>2. state' \in [Conn -> State] /\ overtakes' \in [Conn -> Nat]
    BY <1>0, <1>3 DEF WritesState, TypeOK, Frame
  <2> QED BY <1>3, <2>1, <2>2 DEF WritesState, TypeOK
<1>4. CASE StartStateTimerStops(c, th)
  <2>1. frames' \in [Conn -> [Thread -> Frame]]
    BY <1>4, FrameType DEF StartStateTimerStops, FramePc
  <2> QED BY <1>4, <2>1 DEF StartStateTimerStops, StopAll, NoTimers, TypeOK
<1>5. CASE StartStateTimerReadsDuration(c, th)
  <2>1. [at |-> "compare", to |-> AfterTimeout(frames[c][th].to),
         depth |-> frames[c][th].depth + 1] \in Frame
    BY <1>0 DEF Frame, FramePc, AfterTimeout, State
  <2>2. [frames[c][th] EXCEPT !.at = "timer"] \in Frame
    BY <1>0 DEF Frame, FramePc
  <2> QED BY <1>1, <1>5, <2>1, <2>2, FrameType DEF StartStateTimerReadsDuration
<1>6. CASE StartStateTimerReadsTimer(c, th) \/ FetchesEnterHandler(c, th)
  BY <1>1, <1>6, FrameType DEF StartStateTimerReadsTimer, FetchesEnterHandler, FramePc
<1>7. CASE StartStateTimerAdds(c, th)
  <2>1. frames' \in [Conn -> [Thread -> Frame]]
    BY <1>7, FrameType DEF StartStateTimerAdds, FramePc
  <2>2. timers' \in [Timer -> Conn \cup {NoConn}]
    BY <1>7 DEF StartStateTimerAdds, TypeOK
  <2> QED BY <1>7, <2>1, <2>2 DEF StartStateTimerAdds, TypeOK
<1>8. CASE ChecksEnterHandler(c, th)
  BY <1>1, <1>8, FrameType DEF ChecksEnterHandler, FramePc
<1>9. CASE CallsEnterHandler(c, th)
  <2>1. frames' \in [Conn -> [Thread -> Frame]]
    BY <1>9, FrameType DEF CallsEnterHandler
  <2>2. retry' \in [Conn -> Nat]
    BY <1>9 DEF CallsEnterHandler, EnterHandler, TypeOK
  <2> QED BY <1>9, <2>1, <2>2 DEF CallsEnterHandler, TypeOK
<1>10. CASE CallsEmptyEnterHandler(c, th)
  <2>1. NoFrame \in Frame
    BY DEF NoFrame, Frame, FramePc, State
  <2>2. frames' \in [Conn -> [Thread -> Frame]] /\ crashed' \in BOOLEAN
    <3>1. CASE th = "timer" \/ InClose(c, th)
      <4>1. frames' = [frames EXCEPT ![c][th] = NoFrame] /\ crashed' = crashed
        BY <1>10, <3>1 DEF CallsEmptyEnterHandler
      <4> QED BY <2>1, <4>1, FrameType DEF TypeOK
    <3>2. CASE ~(th = "timer" \/ InClose(c, th))
      <4>1. frames' = frames /\ crashed' = TRUE
        BY <1>10, <3>2 DEF CallsEmptyEnterHandler
      <4> QED BY <4>1 DEF TypeOK
    <3> QED BY <3>1, <3>2
  <2>3. /\ closing' \in [Conn -> Close] /\ isOpen' \in [Conn -> BOOLEAN]
        /\ hpc' \in [Conn -> HandlerPc] /\ tpc' \in Conn \cup {NoConn}
    BY <1>10, CloseReturnsType DEF CallsEmptyEnterHandler, TypeOK
  <2> QED BY <1>10, <2>2, <2>3 DEF CallsEmptyEnterHandler, TypeOK
<1> QED
  BY <1>2, <1>3, <1>4, <1>5, <1>6, <1>7, <1>8, <1>9, <1>10 DEF TransitionStep

\* A step of closeConnection keeps TypeOK.
LEMMA CloseStepType ==
    ASSUME TypeOK, NEW c \in Conn, NEW th \in Thread, CloseStep(c, th)
    PROVE  TypeOK'
<1> USE DEF machineVars, threadVars, timerVars, envVars, historyVars
<1>0. closing[c] \in Close
      /\ \A pc \in ClosePc : [closing[c] EXCEPT !.at = pc] \in Close
  <2>1. closing[c] \in Close
    BY DEF TypeOK
  <2> QED BY <2>1 DEF Close
<1>1. CASE CloseStopsTimers(c, th)
  <2>1. closing[c] \in Close /\ [closing[c] EXCEPT !.at = "transport"] \in Close
    BY <1>0 DEF ClosePc
  <2>2. closing' \in [Conn -> Close]
    BY <1>1, <2>1 DEF CloseStopsTimers, TypeOK
  <2>3. closeReason' \in [Conn -> Reason]
    BY <1>1, <2>1 DEF CloseStopsTimers, TypeOK, Close
  <2> QED BY <1>1, <2>2, <2>3 DEF CloseStopsTimers, StopAll, NoTimers, TypeOK
<1>2. CASE CloseClosesTransport(c, th)
  <2>1. closing' \in [Conn -> Close]
    BY <1>0, <1>2 DEF CloseClosesTransport, TypeOK, ClosePc
  <2> QED BY <1>2, <2>1 DEF CloseClosesTransport, TransportClosed, TypeOK
<1>3. CASE CloseNotifies(c, th)
  BY <1>3, CloseReturnsType DEF CloseNotifies, TypeOK
<1> QED BY <1>1, <1>2, <1>3 DEF CloseStep

\* A step of the handler thread outside both keeps TypeOK.
LEMMA HandlerStepType ==
    ASSUME TypeOK, NEW c \in Conn, HandlerRuns(c)
    PROVE  TypeOK'
<1> USE DEF machineVars, threadVars, timerVars, envVars, historyVars
<1>1. CASE TransitionStep(c, "handler") \/ CloseStep(c, "handler")
  BY <1>1, TransitionStepType, CloseStepType DEF Thread
<1>2. CASE Opened(c) \/ EnterReceive(c)
  BY <1>2 DEF Opened, EnterReceive, TypeOK, HandlerPc
<1>3. CASE ReceiveRefused(c) \/ LoopEnds(c)
  <2>1. PICK r \in Reason : LeaveLoop(c, r)
    BY <1>3 DEF ReceiveRefused, LoopEnds, Reason
  <2> QED BY <1>3, <2>1, HandlerClosesType DEF ReceiveRefused, LoopEnds, LeaveLoop, TypeOK
<1>4. CASE Dispatch(c)
  <2>1. frames' \in [Conn -> [Thread -> Frame]]
    BY <1>4, FrameType DEF Dispatch, TypeOK, Thread, State
  <2>2. /\ hpc' \in [Conn -> HandlerPc] /\ msg' \in [Conn -> Message \cup {NoMsg}]
        /\ served' \in [Conn -> Addr \cup {NoAddr}]
    <3>1. CASE Handled(c)
      BY <3>1, HandledType
    <3>2. CASE ~Handled(c)
      BY <1>4, <3>2 DEF Dispatch, TypeOK, HandlerPc
    <3> QED BY <3>1, <3>2
  <2> QED BY <1>4, <2>1, <2>2 DEF Dispatch, TypeOK
<1>5. CASE DispatchClosed(c)
  BY <1>5 DEF DispatchClosed, TypeOK
<1>6. CASE HandleWaitRoutingActivation(c)
  <2>1. CASE ValidRoutingRequest(c) /\ GrantRouting(c) /\ Handled(c)
    <3>1. msg[c].source \in Addr
      BY <2>1 DEF TypeOK, Message, NoMsg, ValidRoutingRequest
    <3>2. clientAddr' \in [Conn -> Addr] /\ routed' \in [Conn -> BOOLEAN]
      BY <2>1, <3>1 DEF GrantRouting, TypeOK
    <3>3. frames' \in [Conn -> [Thread -> Frame]]
      BY <2>1, FrameType DEF GrantRouting, Thread, State
    <3>4. active' \in [Conn -> BOOLEAN] /\ crashed' \in BOOLEAN
      BY <2>1, SendType DEF GrantRouting
    <3> QED BY <1>6, <2>1, <3>2, <3>3, <3>4, HandledType
            DEF HandleWaitRoutingActivation, TypeOK
  <2>2. CASE HandlerCloses(c, "InvalidMessage")
    BY <2>2, HandlerClosesType DEF HandlerCloses, TypeOK, Reason
  <2> QED BY <1>6, <2>1, <2>2 DEF HandleWaitRoutingActivation
<1>7. CASE RoutedRejects(c)
  <2>1. CASE HandlerCloses(c, "InvalidMessage")
    BY <2>1, HandlerClosesType DEF HandlerCloses, TypeOK, Reason
  <2>2. CASE Handled(c) /\ ~HandlerCloses(c, "InvalidMessage")
    <3>1. /\ active' \in [Conn -> BOOLEAN] /\ crashed' \in BOOLEAN
          /\ acked' \in [Conn -> BOOLEAN]
      BY <1>7, <2>2, SendType DEF RoutedRejects, TypeOK
    <3> QED BY <1>7, <2>2, <3>1, HandledType DEF RoutedRejects, TypeOK
  <2> QED BY <1>7, <2>1, <2>2 DEF RoutedRejects
<1>8. CASE RoutedDiagnostic(c)
  <2>1. msg[c].source \in Addr
    BY <1>8 DEF RoutedDiagnostic, TypeOK, Message, NoMsg
  <2> QED BY <1>8, <2>1 DEF RoutedDiagnostic, TypeOK, HandlerPc
<1>9. CASE RoutedAnswers(c)
  <2>1. frames' \in [Conn -> [Thread -> Frame]]
    BY <1>9, FrameType DEF RoutedAnswers, TypeOK, Thread, State
  <2>2. /\ hpc' \in [Conn -> HandlerPc] /\ msg' \in [Conn -> Message \cup {NoMsg}]
        /\ served' \in [Conn -> Addr \cup {NoAddr}]
    BY <1>9, HandledType DEF RoutedAnswers, TypeOK, HandlerPc
  <2> QED BY <1>9, <2>1, <2>2, SendType DEF RoutedAnswers, TypeOK
<1>10. CASE RoutedForwards(c)
  <2>1. frames' \in [Conn -> [Thread -> Frame]]
    BY <1>10, FrameType DEF RoutedForwards, TypeOK, Thread, State
  <2>2. active' \in [Conn -> BOOLEAN] /\ crashed' \in BOOLEAN
    BY <1>10, SendType DEF RoutedForwards, TypeOK
  <2>3. outstanding' \in [Conn -> Nat]
    <3>1. outstanding' \in {outstanding, [outstanding EXCEPT ![c] = @ + 1]}
      BY <1>10 DEF RoutedForwards
    <3> QED BY <3>1 DEF TypeOK
  <2> QED BY <1>10, <2>1, <2>2, <2>3, HandledType DEF RoutedForwards, TypeOK
<1>11. CASE HandleWaitAliveCheckResponse(c)
  <2>1. frames' \in [Conn -> [Thread -> Frame]]
    BY <1>11, FrameType DEF HandleWaitAliveCheckResponse, TypeOK, Thread, State
  <2>2. /\ active' \in [Conn -> BOOLEAN] /\ crashed' \in BOOLEAN
        /\ acked' \in [Conn -> BOOLEAN]
    BY <1>11, SendType DEF HandleWaitAliveCheckResponse, TypeOK
  <2> QED BY <1>11, <2>1, <2>2, HandledType DEF HandleWaitAliveCheckResponse, TypeOK
<1> QED
  BY <1>1, <1>2, <1>3, <1>4, <1>5, <1>6, <1>7, <1>8, <1>9, <1>10, <1>11 DEF HandlerRuns

\* A step of the timer thread keeps TypeOK.
LEMMA CallbackStepType ==
    ASSUME TypeOK, CallbacksRun
    PROVE  TypeOK'
<1> USE DEF machineVars, threadVars, timerVars, envVars, historyVars
<1> PICK c \in Conn :
        \/ TransitionStep(c, "timer") \/ CloseStep(c, "timer")
        \/ TimeoutInitialInactivity(c) \/ TimeoutGeneralInactivity(c)
        \/ TimeoutAliveCheck(c) \/ TimerGivesUp(c) \/ TimeoutUserDefined(c)
  BY DEF CallbacksRun
<1>1. CASE TransitionStep(c, "timer") \/ CloseStep(c, "timer")
  BY <1>1, TransitionStepType, CloseStepType DEF Thread
<1>2. ASSUME NEW t, TakeCallback(t, c) PROVE collected' \subseteq Callback
  BY <1>2 DEF TakeCallback, TypeOK
<1>3. CASE TimeoutInitialInactivity(c)
  BY <1>2, <1>3, TimerClosesType DEF TimeoutInitialInactivity, TypeOK, Reason
<1>4. CASE TimeoutGeneralInactivity(c)
  <2>1. frames' \in [Conn -> [Thread -> Frame]]
    BY <1>4, FrameType DEF TimeoutGeneralInactivity, Thread, State
  <2> QED BY <1>2, <1>4, <2>1, SendType DEF TimeoutGeneralInactivity, TypeOK
<1>5. CASE TimeoutAliveCheck(c)
  <2>1. frames' \in [Conn -> [Thread -> Frame]] /\ tpc' \in Conn \cup {NoConn}
    BY <1>5, FrameType DEF TimeoutAliveCheck, TypeOK, Thread, State
  <2> QED BY <1>2, <1>5, <2>1 DEF TimeoutAliveCheck, TypeOK
<1>6. CASE TimerGivesUp(c)
  BY <1>6, TimerClosesType DEF TimerGivesUp, TypeOK, Reason
<1>7. CASE TimeoutUserDefined(c)
  BY <1>2, <1>7 DEF TimeoutUserDefined, TypeOK
<1> QED BY <1>1, <1>3, <1>4, <1>5, <1>6, <1>7

\* Every step of Next keeps TypeOK.
LEMMA TypeStep == TypeOK /\ [Next]_vars => TypeOK'
<1> SUFFICES ASSUME TypeOK, [Next]_vars PROVE TypeOK' OBVIOUS
<1> USE DEF machineVars, threadVars, timerVars, envVars, historyVars
<1>1. ASSUME NEW c \in Conn, Accept(c) PROVE TypeOK'
  <2>1. [at |-> "stop", to |-> "WaitRoutingActivation", depth |-> 0] \in Frame
    BY DEF Frame, FramePc, State
  <2>2. frames' \in [Conn -> [Thread -> Frame]]
    BY <1>1, <2>1, FrameType DEF Accept, Thread
  <2> QED BY <1>1, <2>2 DEF Accept, TypeOK, State, HandlerPc
<1>2. ASSUME NEW c \in Conn, HandlerRuns(c) PROVE TypeOK'
  BY <1>2, HandlerStepType
<1>3. ASSUME NEW c \in Conn, NEW m \in Message, ReceiveMessage(c, m) PROVE TypeOK'
  BY <1>3 DEF ReceiveMessage, TypeOK, HandlerPc
<1>4. ASSUME NEW c \in Conn, ReceiveFails(c) PROVE TypeOK'
  <2>1. LeaveLoop(c, "SocketError")
    BY <1>4 DEF ReceiveFails
  <2> QED BY <1>4, <2>1, HandlerClosesType DEF ReceiveFails, LeaveLoop, TypeOK, Reason
<1>5. ASSUME NEW c \in Conn, ReceiveDownstreamResponse(c) PROVE TypeOK'
  <2>1. frames' \in [Conn -> [Thread -> Frame]]
    BY <1>5, FrameType DEF ReceiveDownstreamResponse, Thread, State
  <2>2. outstanding' \in [Conn -> Nat]
    BY <1>5 DEF ReceiveDownstreamResponse, TypeOK
  <2> QED BY <1>5, <2>1, <2>2, SendType DEF ReceiveDownstreamResponse, TypeOK
<1>6. ASSUME NEW c \in Conn, TransitionStep(c, "worker") PROVE TypeOK'
  BY <1>6, TransitionStepType DEF Thread
<1>7. ASSUME NEW c \in Conn, UseOfDestroyed(c) \/ PeerLeaves(c) PROVE TypeOK'
  BY <1>7 DEF UseOfDestroyed, PeerLeaves, TypeOK
<1>8. ASSUME NEW expired \in SUBSET Timer, CollectExpired(expired) PROVE TypeOK'
  <2>1. collected' \subseteq Callback
    BY <1>8 DEF CollectExpired, TypeOK, Callback
  <2>2. timers' \in [Timer -> Conn \cup {NoConn}]
    BY <1>8 DEF CollectExpired, TypeOK
  <2> QED BY <1>8, <2>1, <2>2 DEF CollectExpired, TypeOK
<1>9. CASE CallbacksRun
  BY <1>9, CallbackStepType
<1>10. CASE Stop
  BY <1>10 DEF Stop, TypeOK
<1>11. CASE UNCHANGED vars
  BY <1>11 DEF vars, TypeOK
<1> QED
  BY <1>1, <1>2, <1>3, <1>4, <1>5, <1>6, <1>7, <1>8, <1>9, <1>10, <1>11 DEF Next

\* Type correctness: the type invariant holds in every reachable state.
THEOREM TypeCorrect == Spec => []TypeOK
  BY TypeInit, TypeStep, PTL DEF Spec
=============================================================================
