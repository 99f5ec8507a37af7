----------------------- MODULE ConnectionSafety_proofs -----------------------
(***************************************************************************)
(* The safety invariants of Connection, proved for every value of the      *)
(* constants.  None of them is inductive as it stands; the strengthenings  *)
(* below say what the threads still have in hand (armed timers, collected  *)
(* callbacks, unanswered requests, unfinished closes and transitions).     *)
(***************************************************************************)
EXTENDS Connection_proofs

\* A name for the test of m_isClosing, never worth hiding.
USE DEF AlreadyClosing

\* The states that only routing activation leads to.
RoutedStates == {"RoutingActivated", "WaitAliveCheckResponse", "WaitDownstreamResponse"}

\* Nothing acts on a connection that was not accepted yet.
StartedAt(c) ==
    hpc[c] = "none" =>
        /\ \A t \in Timer : timers[t] # c /\ <<t, c>> \notin collected
        /\ \A th \in Thread : frames[c][th] = NoFrame
        /\ closing[c] = NoClose /\ closeReason[c] = "None" /\ closes[c] = 0 /\ tpc # c
        /\ outstanding[c] = 0 /\ retry[c] = 0 /\ overtakes[c] = 0
        /\ state[c] = "Closed" /\ ~routed[c] /\ served[c] = NoAddr
        /\ ~active[c] /\ ~peer[c]

\* One thread at most is inside closeConnection; it is where the record says.
CloseAt(c) ==
    /\ closes[c] \in {0, 1}
    /\ closes[c] = 1 => closing[c].at = "done"
    /\ closing[c].at = "done" => ~isOpen[c]
    /\ InClose(c, "timer") => tpc = c
    /\ InClose(c, "handler") <=> hpc[c] \in {"closing", "leaving"}
    /\ closing[c].at \in {"transport", "notify"} => Idle(c, closing[c].by)
    /\ closing[c].at = "no" <=> closing[c].reason = "None"
    /\ closing[c].at \in {"no", "state"} => closeReason[c] = "None"
    /\ closing[c].at \in {"transport", "notify"} \/ closes[c] = 1 =>
           closeReason[c] = closing[c].reason
    /\ closing[c].at = "notify" \/ closes[c] = 1 => ~active[c]
    /\ hpc[c] = "exit" => closing[c].at # "no"

\* Whatever can lead to a state after routing activation, a collected
\* callback, a response or an unfinished transition included, exists only on a
\* routed connection.
RoutingAt(c) ==
    /\ state[c] \in RoutedStates => routed[c]
    /\ hpc[c] \in {"routed", "answer", "forward", "aliveCheck"} => routed[c]
    /\ hpc[c] = "waitRouting" => ~routed[c]
    /\ state[c] = "WaitRoutingActivation" /\ routed[c] =>
           /\ frames[c]["handler"].at \in {"compare", "write"}
           /\ frames[c]["handler"].to = "RoutingActivated"
    /\ \A th \in Thread :
          /\ frames[c][th].at # "idle" /\ frames[c][th].to \in RoutedStates => routed[c]
          /\ frames[c][th].at \in {"compare", "write"} =>
                 frames[c][th].to # "WaitRoutingActivation"
    /\ \A t \in {"GeneralInactivity", "AliveCheck"} :
          timers[t] = c \/ <<t, c>> \in collected => routed[c]
    /\ outstanding[c] > 0 => routed[c]
    /\ served[c] # NoAddr =>
          routed[c] /\ served[c] = clientAddr[c] /\ hpc[c] \in {"answer", "forward"}

\* The one thread inside transitionTo works for the state it has written.
Own(c, th) ==
    Inside(c, th) =>
        /\ \A u \in Thread \ {th} : ~Inside(c, u)
        /\ frames[c][th].to = state[c]
        /\ frames[c][th].depth > 0 =>
              frames[c][th].at = "compare" /\ state[c] = "Closed" /\ frames[c][th].depth = 1
        /\ frames[c][th].at \in {"timer", "add"} => state[c] # "Closed"
        /\ frames[c][th].at \in {"fetch", "enter"} => state[c] \in Counting

\* As long as no thread was overtaken there, one thread at most is inside
\* transitionTo, and once it has run stopAll only the timer of the state it
\* entered is armed.
SerialAt(c) ==
    overtakes[c] = 0 =>
        /\ state[c] # "Finalize"
        /\ \A th \in Thread :
              /\ Own(c, th)
              /\ frames[c][th].to # "Finalize"
              /\ frames[c][th].at = "idle" => frames[c][th].depth = 0
              /\ th # "timer" => frames[c][th].to # "WaitAliveCheckResponse"
              /\ InClose(c, th) => frames[c][th].to = "Closed"
        /\ closing[c].at = "done" => closes[c] = 1
        /\ \A t \in Timer : timers[t] = c =>
              \/ \E th \in Thread : frames[c][th].at = "stop"
              \/ t = TimerOf[state[c]] /\ state[c] # "Closed"
        /\ \A t, u \in Timer : timers[t] = c /\ timers[u] = c => t = u

\* The thread that entered RoutingActivated has still to reset the counter.
Resetting(c) == state[c] = "RoutingActivated" /\ \E th \in Thread : Inside(c, th)

RetryLimit == IF RetryCount = 0 THEN 1 ELSE RetryCount

\* When the general inactivity callback is due, the counter is zero or about
\* to be reset; a batch holds one callback of the connection at most, and the
\* timer thread has nothing else in hand for it; when it is to enter
\* WaitAliveCheckResponse a count is left.
RetryAt(c) ==
    overtakes[c] = 0 =>
        /\ retry[c] <= RetryLimit
        /\ state[c] = "RoutingActivated" => retry[c] = 0 \/ Resetting(c)
        /\ timers["GeneralInactivity"] = c \/ <<"GeneralInactivity", c>> \in collected =>
               retry[c] = 0 \/ Resetting(c)
        /\ \A t, u \in Timer : <<t, c>> \in collected /\ <<u, c>> \in collected => t = u
        /\ \A t \in Timer : <<t, c>> \in collected => tpc # c /\ Idle(c, "timer")
        /\ frames[c]["timer"].to = "WaitAliveCheckResponse" /\ ~Idle(c, "timer") =>
               retry[c] < RetryLimit \/ Resetting(c)

StartedInv == \A c \in Conn : StartedAt(c)
CloseInv == \A c \in Conn : CloseAt(c)
RoutingInv == \A c \in Conn : RoutingAt(c)
SerialInv == \A c \in Conn : SerialAt(c)
RetryInv == \A c \in Conn : RetryAt(c)

-----------------------------------------------------------------------------
(***************************************************************************)
(* What a step does to the frame of the thread that takes it.              *)
(***************************************************************************)

\* The frame of the thread is now at a, for state s, n calls deep, and no
\* other frame has changed.
Moved(c, th, a, s, n) ==
    /\ frames'[c][th].at = a /\ frames'[c][th].to = s /\ frames'[c][th].depth = n
    /\ \A u \in Thread \ {th} : frames'[c][u] = frames[c][u]
    /\ \A d \in Conn \ {c} : frames'[d] = frames[d]

\* Replacing one frame.
LEMMA FrameReplaced ==
    ASSUME TypeOK, NEW c \in Conn, NEW th \in Thread, NEW f,
           frames' = [frames EXCEPT ![c][th] = f]
    PROVE  Moved(c, th, f.at, f.to, f.depth)
  BY DEF TypeOK, Moved

\* Calling transitionTo, going on inside it, reading m_state.
LEMMA FrameMoves ==
    ASSUME TypeOK, NEW c \in Conn, NEW th \in Thread
    PROVE  /\ \A s : Call(c, th, s) => Moved(c, th, "compare", s, 0)
           /\ \A pc : Goto(c, th, pc) =>
                 Moved(c, th, pc, frames[c][th].to, frames[c][th].depth)
           /\ \A pc : ReadState(c, th, pc) =>
                 Moved(c, th, pc, state[c], frames[c][th].depth)
<1>0. frames[c][th] \in Frame
  BY FrameType
<1>1. ASSUME NEW s, Call(c, th, s) PROVE Moved(c, th, "compare", s, 0)
  <2> DEFINE f == [at |-> "compare", to |-> s, depth |-> 0]
  <2>1. Moved(c, th, f.at, f.to, f.depth)
    BY <1>1, FrameReplaced DEF Call
  <2> QED BY <2>1
<1>2. ASSUME NEW pc, Goto(c, th, pc)
      PROVE  Moved(c, th, pc, frames[c][th].to, frames[c][th].depth)
  <2> DEFINE f == [frames[c][th] EXCEPT !.at = pc]
  <2>1. frames' = [frames EXCEPT ![c][th] = f]
    BY <1>2 DEF Goto
  <2>2. Moved(c, th, f.at, f.to, f.depth)
    BY <2>1, FrameReplaced
  <2>3. f.at = pc /\ f.to = frames[c][th].to /\ f.depth = frames[c][th].depth
    BY <1>0 DEF Frame
  <2> QED BY <2>2, <2>3
<1>3. ASSUME NEW pc, ReadState(c, th, pc)
      PROVE  Moved(c, th, pc, state[c], frames[c][th].depth)
  <2> DEFINE f == [frames[c][th] EXCEPT !.at = pc, !.to = state[c]]
  <2>1. frames' = [frames EXCEPT ![c][th] = f]
    BY <1>3 DEF ReadState, TypeOK
  <2>2. Moved(c, th, f.at, f.to, f.depth)
    BY <2>1, FrameReplaced
  <2>3. f.at = pc /\ f.to = state[c] /\ f.depth = frames[c][th].depth
    BY <1>0 DEF Frame
  <2> QED BY <2>2, <2>3
<1> QED BY <1>1, <1>2, <1>3

\* Leaving transitionTo, and the look at the duration.
LEMMA FrameReturns ==
    ASSUME TypeOK, NEW c \in Conn, NEW th \in Thread
    PROVE  /\ Return(c, th) /\ frames[c][th].depth = 0 => Moved(c, th, "idle", "Closed", 0)
           /\ Return(c, th) /\ frames[c][th].depth # 0 =>
                 Moved(c, th, "check", frames[c][th].to, frames[c][th].depth - 1)
           /\ StartStateTimerReadsDuration(c, th) /\ state[c] \in Untimed =>
                 Moved(c, th, "compare", AfterTimeout(frames[c][th].to),
                       frames[c][th].depth + 1)
           /\ StartStateTimerReadsDuration(c, th) /\ state[c] \notin Untimed =>
                 Moved(c, th, "timer", frames[c][th].to, frames[c][th].depth)
<1>0. frames[c][th] \in Frame
  BY FrameType
<1>1. ASSUME Return(c, th), frames[c][th].depth = 0
      PROVE  Moved(c, th, "idle", "Closed", 0)
  <2>1. frames' = [frames EXCEPT ![c][th] = NoFrame]
    BY <1>1 DEF Return
  <2>2. Moved(c, th, NoFrame.at, NoFrame.to, NoFrame.depth)
    BY <2>1, FrameReplaced
  <2> QED BY <2>2 DEF NoFrame
<1>2. ASSUME Return(c, th), frames[c][th].depth # 0
      PROVE  Moved(c, th, "check", frames[c][th].to, frames[c][th].depth - 1)
  <2> DEFINE f == [at |-> "check", to |-> frames[c][th].to,
                   depth |-> frames[c][th].depth - 1]
  <2>1. frames' = [frames EXCEPT ![c][th] = f]
    BY <1>2 DEF Return
  <2>2. Moved(c, th, f.at, f.to, f.depth)
    BY <2>1, FrameReplaced
  <2> QED BY <2>2
<1>3. ASSUME StartStateTimerReadsDuration(c, th), state[c] \in Untimed
      PROVE  Moved(c, th, "compare", AfterTimeout(frames[c][th].to),
                   frames[c][th].depth + 1)
  <2> DEFINE f == [at |-> "compare", to |-> AfterTimeout(frames[c][th].to),
                   depth |-> frames[c][th].depth + 1]
  <2>1. frames' = [frames EXCEPT ![c][th] = f]
    BY <1>3 DEF StartStateTimerReadsDuration
  <2>2. Moved(c, th, f.at, f.to, f.depth)
    BY <2>1, FrameReplaced
  <2> QED BY <2>2
<1>4. ASSUME StartStateTimerReadsDuration(c, th), state[c] \notin Untimed
      PROVE  Moved(c, th, "timer", frames[c][th].to, frames[c][th].depth)
  <2> DEFINE f == [frames[c][th] EXCEPT !.at = "timer"]
  <2>1. frames' = [frames EXCEPT ![c][th] = f]
    BY <1>4 DEF StartStateTimerReadsDuration
  <2>2. Moved(c, th, f.at, f.to, f.depth)
    BY <2>1, FrameReplaced
  <2>3. f.at = "timer" /\ f.to = frames[c][th].to /\ f.depth = frames[c][th].depth
    BY <1>0 DEF Frame
  <2> QED BY <2>2, <2>3
<1> QED BY <1>1, <1>2, <1>3, <1>4

-----------------------------------------------------------------------------
(***************************************************************************)
(* Every step but a collection of timers is a step of one connection and   *)
(* leaves the others alone, except that it may take their timers away.     *)
(***************************************************************************)
StepOf(c) ==
    \/ \E th \in Thread : TransitionStep(c, th)
    \/ \E th \in {"handler", "timer"} : CloseStep(c, th)
    \/ Accept(c) \/ Opened(c) \/ EnterReceive(c)
    \/ \E m \in Message : ReceiveMessage(c, m)
    \/ ReceiveRefused(c) \/ ReceiveFails(c) \/ LoopEnds(c)
    \/ Dispatch(c) \/ DispatchClosed(c) \/ HandleWaitRoutingActivation(c)
    \/ RoutedRejects(c) \/ RoutedDiagnostic(c) \/ RoutedAnswers(c) \/ RoutedForwards(c)
    \/ HandleWaitAliveCheckResponse(c)
    \/ TimeoutInitialInactivity(c) \/ TimeoutGeneralInactivity(c)
    \/ TimeoutAliveCheck(c) \/ TimerGivesUp(c) \/ TimeoutUserDefined(c)
    \/ ReceiveDownstreamResponse(c) \/ UseOfDestroyed(c) \/ PeerLeaves(c)

\* What a step of another connection may do to d.
Untouched(d) ==
    /\ state'[d] = state[d] /\ retry'[d] = retry[d] /\ overtakes'[d] = overtakes[d]
    /\ clientAddr'[d] = clientAddr[d] /\ isOpen'[d] = isOpen[d]
    /\ closeReason'[d] = closeReason[d] /\ closing'[d] = closing[d]
    /\ active'[d] = active[d] /\ hpc'[d] = hpc[d] /\ msg'[d] = msg[d]
    /\ frames'[d] = frames[d] /\ peer'[d] = peer[d]
    /\ outstanding'[d] = outstanding[d] /\ routed'[d] = routed[d]
    /\ served'[d] = served[d] /\ closes'[d] = closes[d]
    /\ tpc' = d <=> tpc = d
    /\ \A t \in Timer :
          /\ timers'[t] = d => timers[t] = d
          /\ <<t, d>> \in collected' <=> <<t, d>> \in collected

\* The initial state satisfies the strengthened invariants.
LEMMA InvInit ==
    Init => StartedInv /\ CloseInv /\ RoutingInv /\ SerialInv /\ RetryInv
<1> SUFFICES ASSUME Init, NEW c \in Conn
             PROVE  StartedAt(c) /\ CloseAt(c) /\ RoutingAt(c) /\ SerialAt(c) /\ RetryAt(c)
  BY DEF StartedInv, CloseInv, RoutingInv, SerialInv, RetryInv
<1> USE DEF Init
<1>1. StartedAt(c)
  BY ConnAssumption DEF StartedAt, NoTimers
<1>2. CloseAt(c)
  BY ConnAssumption DEF CloseAt, NoClose, InClose, Idle, NoFrame
<1>3. RoutingAt(c)
  BY ConnAssumption DEF RoutingAt, RoutedStates, NoTimers, NoFrame, Timer
<1>4. SerialAt(c)
  BY ConnAssumption DEF SerialAt, Own, Inside, InClose, NoTimers, NoFrame, NoClose
<1>5. RetryAt(c)
  BY ConnAssumption, RetryAssumption
     DEF RetryAt, RetryLimit, Resetting, NoTimers, NoFrame, Timer, Idle
<1> QED BY <1>1, <1>2, <1>3, <1>4, <1>5

\* The disjuncts of Next, ordered by what they act on.
LEMMA NextCases ==
    ASSUME [Next]_vars
    PROVE  \/ \E c \in Conn : StepOf(c)
           \/ \E expired \in SUBSET Timer : CollectExpired(expired)
           \/ Stop
           \/ UNCHANGED vars
  BY DEF Next, HandlerRuns, CallbacksRun, StepOf, Thread

\* Beginning to close, sending and the end of closeConnection touch no other
\* connection.
LEMMA HelpersFrame ==
    ASSUME TypeOK, NEW c \in Conn, NEW d \in Conn \ {c}
    PROVE  /\ \A th \in Thread, r \in Reason :
                 BeginClose(c, th, r) => closing'[d] = closing[d] /\ frames'[d] = frames[d]
           /\ Send(c) => active'[d] = active[d]
           /\ Handled(c) => hpc'[d] = hpc[d] /\ msg'[d] = msg[d] /\ served'[d] = served[d]
           /\ \A th \in Thread : \A s : Call(c, th, s) => frames'[d] = frames[d]
<1>1. ASSUME NEW th \in Thread, NEW r \in Reason, BeginClose(c, th, r)
      PROVE  closing'[d] = closing[d] /\ frames'[d] = frames[d]
  BY <1>1, FrameMoves DEF BeginClose, TypeOK, Moved
<1>2. Send(c) => active'[d] = active[d]
  BY DEF Send, TypeOK
<1>3. Handled(c) => hpc'[d] = hpc[d] /\ msg'[d] = msg[d] /\ served'[d] = served[d]
  BY DEF Handled, TypeOK
<1>4. ASSUME NEW th \in Thread, NEW s, Call(c, th, s) PROVE frames'[d] = frames[d]
  BY <1>4, FrameMoves DEF Moved
<1> QED BY <1>1, <1>2, <1>3, <1>4

\* closeConnection returns to the thread that called it.
LEMMA CloseReturnsFrame ==
    ASSUME TypeOK, NEW c \in Conn, CloseAt(c), NEW th \in Thread, InClose(c, th),
           CloseReturns(c), NEW d \in Conn \ {c}
    PROVE  /\ closing'[d] = closing[d] /\ isOpen'[d] = isOpen[d] /\ hpc'[d] = hpc[d]
           /\ tpc' = d <=> tpc = d
<1>1. closing[c].by = "timer" => tpc = c
  BY DEF CloseAt, InClose
<1> QED BY <1>1, ConnAssumption DEF CloseReturns, TypeOK

\* A step inside transitionTo touches no other connection.
LEMMA TransitionFrame ==
    ASSUME TypeOK, NEW c \in Conn, CloseAt(c), NEW th \in Thread, TransitionStep(c, th),
           NEW d \in Conn \ {c}
    PROVE  Untouched(d)
<1> USE DEF machineVars, threadVars, timerVars, envVars, historyVars, Untouched
<1>0. /\ \A pc : Goto(c, th, pc) \/ ReadState(c, th, pc) => frames'[d] = frames[d]
      /\ Return(c, th) => frames'[d] = frames[d]
      /\ StartStateTimerReadsDuration(c, th) => frames'[d] = frames[d]
  BY FrameMoves, FrameReturns DEF Moved
<1>1. CASE OnlyFrame /\ frames'[d] = frames[d]
  BY <1>1 DEF OnlyFrame
<1>2. CASE TransitionTo(c, th) \/ StartStateTimerReadsDuration(c, th)
           \/ StartStateTimerReadsTimer(c, th) \/ ChecksEnterHandler(c, th)
           \/ FetchesEnterHandler(c, th)
  BY <1>0, <1>1, <1>2
     DEF TransitionTo, StartStateTimerReadsDuration, StartStateTimerReadsTimer,
         ChecksEnterHandler, FetchesEnterHandler
<1>3. CASE WritesState(c, th)
  BY <1>0, <1>3 DEF WritesState, TypeOK
<1>4. CASE StartStateTimerStops(c, th)
  BY <1>0, <1>4, ConnAssumption DEF StartStateTimerStops, StopAll, NoTimers
<1>5. CASE StartStateTimerAdds(c, th)
  BY <1>0, <1>5 DEF StartStateTimerAdds, TypeOK
<1>6. CASE CallsEnterHandler(c, th)
  BY <1>0, <1>6 DEF CallsEnterHandler, EnterHandler, TypeOK
<1>7. CASE CallsEmptyEnterHandler(c, th)
  <2>1. frames'[d] = frames[d]
    BY <1>7, FrameReplaced DEF CallsEmptyEnterHandler, Moved
  <2>2. /\ closing'[d] = closing[d] /\ isOpen'[d] = isOpen[d] /\ hpc'[d] = hpc[d]
        /\ tpc' = d <=> tpc = d
    BY <1>7, CloseReturnsFrame DEF CallsEmptyEnterHandler
  <2> QED BY <1>7, <2>1, <2>2 DEF CallsEmptyEnterHandler
<1> QED BY <1>2, <1>3, <1>4, <1>5, <1>6, <1>7 DEF TransitionStep

\* The connections that do not step keep their state.
LEMMA StepFrame ==
    ASSUME TypeOK, NEW c \in Conn, CloseAt(c), StepOf(c), NEW d \in Conn \ {c}
    PROVE  Untouched(d)
<1> USE DEF machineVars, threadVars, timerVars, envVars, historyVars, Untouched
<1>1. CASE \E th \in Thread : TransitionStep(c, th)
  BY <1>1, TransitionFrame
<1>2. ASSUME NEW th \in {"handler", "timer"}, CloseStep(c, th) PROVE Untouched(d)
  <2>1. CASE CloseStopsTimers(c, th)
    BY <2>1, ConnAssumption DEF CloseStopsTimers, StopAll, NoTimers, TypeOK
  <2>2. CASE CloseClosesTransport(c, th)
    BY <2>2 DEF CloseClosesTransport, TransportClosed, TypeOK
  <2>3. CASE CloseNotifies(c, th)
    BY <2>3, CloseReturnsFrame DEF CloseNotifies, TypeOK, Thread
  <2> QED BY <1>2, <2>1, <2>2, <2>3 DEF CloseStep
<1>3. CASE Accept(c)
  BY <1>3, FrameReplaced DEF Accept, Moved, TypeOK, Thread
<1>4. CASE Opened(c) \/ EnterReceive(c) \/ \E m \in Message : ReceiveMessage(c, m)
  BY <1>4 DEF Opened, EnterReceive, ReceiveMessage, TypeOK
<1>5. CASE ReceiveRefused(c) \/ ReceiveFails(c) \/ LoopEnds(c)
  <2>1. PICK r \in Reason : LeaveLoop(c, r)
    BY <1>5 DEF ReceiveRefused, ReceiveFails, LoopEnds, Reason
  <2>2. closing'[d] = closing[d] /\ frames'[d] = frames[d] /\ hpc'[d] = hpc[d]
    BY <2>1, HelpersFrame DEF LeaveLoop, TypeOK, Thread
  <2>3. active'[d] = active[d]
    BY <1>5 DEF ReceiveRefused, ReceiveFails, LoopEnds, TypeOK
  <2> QED BY <2>1, <2>2, <2>3 DEF LeaveLoop
<1>6. CASE Dispatch(c)
  <2>1. frames'[d] = frames[d]
    BY <1>6, HelpersFrame DEF Dispatch, Thread
  <2>2. hpc'[d] = hpc[d] /\ msg'[d] = msg[d] /\ served'[d] = served[d]
    BY <1>6, HelpersFrame DEF Dispatch, TypeOK
  <2> QED BY <1>6, <2>1, <2>2 DEF Dispatch
<1>7. CASE DispatchClosed(c) \/ UseOfDestroyed(c) \/ PeerLeaves(c)
  BY <1>7 DEF DispatchClosed, UseOfDestroyed, PeerLeaves, TypeOK
<1>8. ASSUME NEW r \in Reason, HandlerCloses(c, r) PROVE Untouched(d)
  BY <1>8, HelpersFrame DEF HandlerCloses, TypeOK, Thread
<1>9. CASE HandleWaitRoutingActivation(c)
  BY <1>8, <1>9, HelpersFrame
     DEF HandleWaitRoutingActivation, GrantRouting, TypeOK, Thread, Reason
<1>10. CASE RoutedRejects(c)
  <2>1. CASE Handled(c) /\ ~HandlerCloses(c, "InvalidMessage")
    BY <1>10, <2>1, HelpersFrame DEF RoutedRejects, SendAck
  <2> QED BY <1>8, <1>10, <2>1 DEF RoutedRejects, Reason
<1>11. CASE RoutedDiagnostic(c)
  BY <1>11 DEF RoutedDiagnostic, TypeOK
<1>12. CASE RoutedAnswers(c)
  BY <1>12, HelpersFrame DEF RoutedAnswers, SendAck, TypeOK, Thread
<1>13. CASE RoutedForwards(c)
  <2>1. outstanding' \in {outstanding, [outstanding EXCEPT ![c] = @ + 1]}
    BY <1>13 DEF RoutedForwards
  <2>2. outstanding'[d] = outstanding[d]
    BY <2>1 DEF TypeOK
  <2> QED BY <1>13, <2>2, HelpersFrame DEF RoutedForwards, Thread
<1>14. CASE HandleWaitAliveCheckResponse(c)
  BY <1>14, HelpersFrame DEF HandleWaitAliveCheckResponse, SendAck, Thread
<1>15. ASSUME NEW r \in Reason, TimerCloses(c, r), tpc \in {c, NoConn}
       PROVE  /\ closing'[d] = closing[d] /\ frames'[d] = frames[d]
              /\ tpc' = d <=> tpc = d
  BY <1>15, HelpersFrame, ConnAssumption DEF TimerCloses, Thread
<1>16. ASSUME NEW t, TakeCallback(t, c)
       PROVE  /\ \A u \in Timer : <<u, d>> \in collected' <=> <<u, d>> \in collected
              /\ tpc = NoConn
  BY <1>16 DEF TakeCallback, TimerThreadFree
<1>17. CASE TimeoutInitialInactivity(c)
  BY <1>15, <1>16, <1>17 DEF TimeoutInitialInactivity, Reason
<1>18. CASE TimeoutGeneralInactivity(c)
  BY <1>16, <1>18, HelpersFrame DEF TimeoutGeneralInactivity, Thread
<1>19. CASE TimeoutAliveCheck(c)
  BY <1>16, <1>19, HelpersFrame, ConnAssumption DEF TimeoutAliveCheck, Thread
<1>20. CASE TimerGivesUp(c)
  BY <1>15, <1>20 DEF TimerGivesUp, Reason
<1>21. CASE TimeoutUserDefined(c)
  BY <1>16, <1>21 DEF TimeoutUserDefined
<1>22. CASE ReceiveDownstreamResponse(c)
  BY <1>22, HelpersFrame DEF ReceiveDownstreamResponse, Thread, TypeOK
<1> QED
  BY <1>1, <1>2, <1>3, <1>4, <1>5, <1>6, <1>7, <1>9, <1>10, <1>11, <1>12, <1>13, <1>14,
     <1>17, <1>18, <1>19, <1>20, <1>21, <1>22 DEF StepOf

-----------------------------------------------------------------------------
(***************************************************************************)
(* The invariants hold of a connection that does not step, and when timers *)
(* are collected.                                                          *)
(***************************************************************************)

\* What another connection does to d breaks nothing.
LEMMA UntouchedKeeps ==
    ASSUME TypeOK, NEW d \in Conn, Untouched(d)
    PROVE  /\ StartedAt(d) => StartedAt(d)'
           /\ CloseAt(d) => CloseAt(d)'
           /\ RoutingAt(d) => RoutingAt(d)'
           /\ SerialAt(d) => SerialAt(d)'
           /\ RetryAt(d) => RetryAt(d)'
<1> USE DEF Untouched
<1>1. StartedAt(d) => StartedAt(d)'
  BY DEF StartedAt
<1>2. CloseAt(d) => CloseAt(d)'
  BY DEF CloseAt, InClose, Idle
<1>3. RoutingAt(d) => RoutingAt(d)'
  BY DEF RoutingAt, Timer
<1>4. SerialAt(d) => SerialAt(d)'
  <2>1. \A th \in Thread : (Own(d, th) => Own(d, th)') /\ (InClose(d, th)' => InClose(d, th))
    BY DEF Own, Inside, InClose
  <2> QED BY <2>1 DEF SerialAt
<1>5. RetryAt(d) => RetryAt(d)'
  BY DEF RetryAt, Resetting, Inside, Idle, Timer
<1> QED BY <1>1, <1>2, <1>3, <1>4, <1>5

\* Neither does a collection of expired timers, which only moves timers of d
\* to the callbacks of d.
LEMMA CollectKeeps ==
    ASSUME TypeOK, NEW expired \in SUBSET Timer, CollectExpired(expired), NEW d \in Conn
    PROVE  /\ StartedAt(d) => StartedAt(d)'
           /\ CloseAt(d) => CloseAt(d)'
           /\ RoutingAt(d) => RoutingAt(d)'
           /\ SerialAt(d) => SerialAt(d)'
           /\ SerialAt(d) /\ RetryAt(d) => RetryAt(d)'
<1> USE DEF machineVars, threadVars, timerVars, envVars, historyVars
<1>1. /\ \A t \in Timer : timers'[t] = d => timers[t] = d
      /\ \A t \in Timer : <<t, d>> \in collected' => timers[t] = d
      /\ UNCHANGED <<machineVars, threadVars, envVars, historyVars>>
      /\ TimerThreadFree
  BY ConnAssumption DEF CollectExpired, TypeOK
<1>2. StartedAt(d) => StartedAt(d)'
  BY <1>1 DEF StartedAt
<1>3. CloseAt(d) => CloseAt(d)'
  BY <1>1 DEF CloseAt, InClose, Idle
<1>4. RoutingAt(d) => RoutingAt(d)'
  BY <1>1 DEF RoutingAt, Timer
<1>5. SerialAt(d) => SerialAt(d)'
  BY <1>1 DEF SerialAt, Own, Inside, InClose
<1>6. ASSUME SerialAt(d), RetryAt(d), overtakes'[d] = 0 PROVE RetryAt(d)'
  <2>1. overtakes[d] = 0 /\ retry' = retry /\ state' = state /\ frames' = frames /\ tpc' = tpc
    BY <1>1, <1>6
  <2>2. tpc # d /\ Idle(d, "timer")
    BY <1>1, ConnAssumption DEF TimerThreadFree
  <2>3. timers["GeneralInactivity"] = d => retry[d] = 0 \/ Resetting(d)
    BY <1>6, <2>1 DEF RetryAt
  <2>4. \A t, u \in Timer : <<t, d>> \in collected' /\ <<u, d>> \in collected' => t = u
    BY <1>1, <1>6, <2>1 DEF SerialAt
  <2> QED BY <1>6, <2>1, <2>2, <2>3, <2>4, <1>1 DEF RetryAt, Resetting, Inside, Idle, Timer
<1>7. SerialAt(d) /\ RetryAt(d) => RetryAt(d)'
  BY <1>6 DEF RetryAt
<1> QED BY <1>2, <1>3, <1>4, <1>5, <1>7

-----------------------------------------------------------------------------
(***************************************************************************)
(* A connection is accepted before anything else happens to it.            *)
(***************************************************************************)

\* A step of a connection leaves it accepted.
LEMMA StepIsStarted ==
    ASSUME TypeOK, NEW c \in Conn, StartedAt(c), StepOf(c)
    PROVE  hpc'[c] # "none"
<1> USE DEF machineVars, threadVars, timerVars, envVars, historyVars
<1>1. CASE \E th \in Thread : TransitionStep(c, th)
  <2> PICK th \in Thread : TransitionStep(c, th)
    BY <1>1
  <2>1. frames[c][th].at # "idle" /\ hpc' \in {hpc, [hpc EXCEPT ![c] = "loop"],
                                              [hpc EXCEPT ![c] = "exit"]}
    BY DEF TransitionStep, TransitionTo, WritesState, StartStateTimerStops,
           StartStateTimerReadsDuration, StartStateTimerReadsTimer, StartStateTimerAdds,
           ChecksEnterHandler, FetchesEnterHandler, CallsEnterHandler,
           CallsEmptyEnterHandler, CloseReturns, OnlyFrame, At, TypeOK
  <2>2. hpc[c] # "none"
    BY <2>1 DEF StartedAt, NoFrame
  <2> QED BY <2>1, <2>2 DEF TypeOK
<1>2. CASE \E th \in {"handler", "timer"} : CloseStep(c, th)
  <2>1. hpc[c] # "none"
    BY <1>2 DEF CloseStep, CloseStopsTimers, CloseClosesTransport, CloseNotifies, InClose,
                StartedAt, NoClose
  <2> QED BY <1>2, <2>1 DEF CloseStep, CloseStopsTimers, CloseClosesTransport,
                            CloseNotifies, CloseReturns, TypeOK
<1>3. CASE Accept(c) \/ Opened(c) \/ EnterReceive(c) \/ \E m \in Message : ReceiveMessage(c, m)
  BY <1>3 DEF Accept, Opened, EnterReceive, ReceiveMessage, TypeOK
<1>4. CASE ReceiveRefused(c) \/ ReceiveFails(c) \/ LoopEnds(c)
  BY <1>4 DEF ReceiveRefused, ReceiveFails, LoopEnds, LeaveLoop, TypeOK
<1>5. CASE Dispatch(c) \/ DispatchClosed(c)
  BY <1>5 DEF Dispatch, DispatchClosed, HandlerAt, Handled, TypeOK
<1>6. CASE HandleWaitRoutingActivation(c)
  BY <1>6 DEF HandleWaitRoutingActivation, Handled, HandlerCloses, TypeOK
<1>7. CASE RoutedRejects(c)
  BY <1>7 DEF RoutedRejects, Handled, HandlerCloses, TypeOK
<1>8. CASE RoutedDiagnostic(c) \/ RoutedAnswers(c) \/ RoutedForwards(c)
           \/ HandleWaitAliveCheckResponse(c)
  BY <1>8 DEF RoutedDiagnostic, RoutedAnswers, RoutedForwards,
              HandleWaitAliveCheckResponse, Handled, TypeOK
<1>9. ASSUME \/ TimeoutInitialInactivity(c) \/ TimeoutGeneralInactivity(c)
             \/ TimeoutAliveCheck(c) \/ TimeoutUserDefined(c)
      PROVE  hpc'[c] # "none"
  <2>1. PICK t \in Timer : TakeCallback(t, c)
    BY <1>9 DEF TimeoutInitialInactivity, TimeoutGeneralInactivity, TimeoutAliveCheck,
                TimeoutUserDefined, Timer
  <2>2. hpc[c] # "none"
    BY <2>1 DEF TakeCallback, StartedAt
  <2> QED BY <1>9, <2>2 DEF TimeoutInitialInactivity, TimeoutGeneralInactivity,
                            TimeoutAliveCheck, TimeoutUserDefined
<1>10. CASE TimerGivesUp(c) \/ ReceiveDownstreamResponse(c) \/ UseOfDestroyed(c) \/ PeerLeaves(c)
  BY <1>10 DEF TimerGivesUp, ReceiveDownstreamResponse, UseOfDestroyed, PeerLeaves, StartedAt
<1> QED
  BY <1>1, <1>2, <1>3, <1>4, <1>5, <1>6, <1>7, <1>8, <1>9, <1>10 DEF StepOf

\* Every step keeps StartedInv.
LEMMA StartedStep == TypeOK /\ StartedInv /\ CloseInv /\ [Next]_vars => StartedInv'
<1> SUFFICES ASSUME TypeOK, StartedInv, CloseInv, [Next]_vars, NEW d \in Conn
             PROVE  StartedAt(d)'
  BY DEF StartedInv
<1>1. ASSUME NEW c \in Conn, StepOf(c) PROVE StartedAt(d)'
  <2>1. CASE c = d
    BY <1>1, <2>1, StepIsStarted DEF StartedInv, StartedAt
  <2>2. CASE c # d
    BY <1>1, <2>2, StepFrame, UntouchedKeeps DEF StartedInv, CloseInv
  <2> QED BY <2>1, <2>2
<1>2. CASE \E expired \in SUBSET Timer : CollectExpired(expired)
  BY <1>2, CollectKeeps DEF StartedInv
<1>3. CASE Stop
  BY <1>3 DEF Stop, StartedInv, StartedAt, machineVars, threadVars, timerVars, historyVars
<1>4. CASE UNCHANGED vars
  BY <1>4 DEF StartedInv, StartedAt, vars, machineVars, threadVars, timerVars, envVars,
              historyVars
<1> QED BY <1>1, <1>2, <1>3, <1>4, NextCases

-----------------------------------------------------------------------------
(***************************************************************************)
(* Closing.                                                                *)
(***************************************************************************)

\* The parts of a connection CloseAt speaks of stay, but for the transport,
\* which may become inactive, and the places of the threads outside
\* closeConnection.
CloseKept(c) ==
    /\ closes'[c] = closes[c] /\ closing'[c] = closing[c] /\ isOpen'[c] = isOpen[c]
    /\ closeReason'[c] = closeReason[c]
    /\ active'[c] => active[c]
    /\ InClose(c, "timer") => tpc' = tpc
    /\ hpc'[c] \in {"closing", "leaving"} <=> hpc[c] \in {"closing", "leaving"}
    /\ hpc'[c] = "exit" => hpc[c] = "exit"
    /\ closing[c].at \in {"transport", "notify"} /\ Idle(c, closing[c].by) =>
           frames'[c][closing[c].by].at = "idle"

\* Such a step keeps CloseAt.
LEMMA CloseKeptKeeps ==
    ASSUME NEW c, CloseAt(c), CloseKept(c)
    PROVE  CloseAt(c)'
  BY DEF CloseAt, CloseKept, InClose, Idle

\* The end of closeConnection keeps CloseAt, whether or not onCloseConnection
\* was called.
LEMMA CloseReturnsKeeps ==
    ASSUME TypeOK, NEW c \in Conn, CloseAt(c), NEW th, InClose(c, th), CloseReturns(c),
           closeReason' = closeReason,
           \/ closes'[c] = closes[c] /\ active' = active
           \/ closing[c].at = "notify" /\ closes'[c] = closes[c] + 1 /\ active' = active
    PROVE  CloseAt(c)'
<1>1. /\ closing'[c].at = "done" /\ closing'[c].reason = closing[c].reason
      /\ closing'[c].by = closing[c].by /\ ~isOpen'[c]
  BY DEF CloseReturns, TypeOK, Close
<1>2. closes[c] = 0
  BY DEF CloseAt, InClose
<1>3. hpc'[c] \notin {"closing", "leaving"}
  BY DEF CloseReturns, TypeOK, CloseAt, InClose
<1> QED BY <1>1, <1>2, <1>3 DEF CloseAt, InClose

\* The thread that wins the compare_exchange is inside closeConnection.
LEMMA BeginCloseKeeps ==
    ASSUME TypeOK, NEW c \in Conn, CloseAt(c), NEW th \in {"handler", "timer"},
           NEW r \in Reason \ {"None"}, closing[c].at = "no", BeginClose(c, th, r),
           th = "handler" => hpc'[c] \in {"closing", "leaving"},
           th = "timer" => tpc' = c /\ hpc' = hpc,
           closes' = closes, isOpen' = isOpen, closeReason' = closeReason
    PROVE  CloseAt(c)'
<1>1. closing'[c] = [at |-> "state", by |-> th, reason |-> r]
  BY DEF BeginClose, TypeOK
<1> QED BY <1>1 DEF CloseAt, InClose, TypeOK

\* A step of a connection keeps its CloseAt.
LEMMA CloseLocal ==
    ASSUME TypeOK, NEW c \in Conn, StartedAt(c), CloseAt(c), StepOf(c)
    PROVE  CloseAt(c)'
<1> USE DEF machineVars, threadVars, timerVars, envVars, historyVars
<1>0. closing[c].by \in {"handler", "timer"} /\ closing[c].at \in ClosePc
  BY DEF TypeOK, Close
<1>1. ASSUME NEW th \in Thread, TransitionStep(c, th) PROVE CloseAt(c)'
  <2>0. frames[c][th].at # "idle"
    BY <1>1 DEF TransitionStep, TransitionTo, WritesState, StartStateTimerStops,
           StartStateTimerReadsDuration, StartStateTimerReadsTimer, StartStateTimerAdds,
           ChecksEnterHandler, FetchesEnterHandler, CallsEnterHandler,
           CallsEmptyEnterHandler, At
  <2>1. ASSUME NEW u \in Thread \ {th} PROVE frames'[c][u] = frames[c][u]
    <3>1. /\ \A pc : Goto(c, th, pc) \/ ReadState(c, th, pc) => frames'[c][u] = frames[c][u]
          /\ Return(c, th) => frames'[c][u] = frames[c][u]
          /\ StartStateTimerReadsDuration(c, th) => frames'[c][u] = frames[c][u]
      BY FrameMoves, FrameReturns DEF Moved
    <3>2. CallsEmptyEnterHandler(c, th) => frames'[c][u] = frames[c][u]
      BY FrameReplaced DEF CallsEmptyEnterHandler, Moved
    <3> QED
      BY <1>1, <3>1, <3>2
         DEF TransitionStep, TransitionTo, WritesState, StartStateTimerStops,
             StartStateTimerReadsTimer, StartStateTimerAdds, ChecksEnterHandler,
             FetchesEnterHandler, CallsEnterHandler
  <2>2. closing[c].at \in {"transport", "notify"} => frames'[c][closing[c].by].at = "idle"
    BY <1>0, <2>0, <2>1 DEF CloseAt, Idle, Thread
  <2>3. CASE UNCHANGED <<closing, isOpen, hpc, tpc>>
    <3>1. UNCHANGED <<closes, closeReason, active>>
      BY <1>1 DEF TransitionStep, TransitionTo, WritesState, StartStateTimerStops,
           StartStateTimerReadsDuration, StartStateTimerReadsTimer, StartStateTimerAdds,
           ChecksEnterHandler, FetchesEnterHandler, CallsEnterHandler,
           CallsEmptyEnterHandler, OnlyFrame
    <3> QED BY <2>2, <2>3, <3>1, CloseKeptKeeps DEF CloseKept
  <2>4. CASE CallsEmptyEnterHandler(c, th) /\ InClose(c, th)
    BY <2>4, CloseReturnsKeeps DEF CallsEmptyEnterHandler
  <2> QED
    BY <1>1, <2>3, <2>4 DEF TransitionStep, TransitionTo, WritesState, StartStateTimerStops,
           StartStateTimerReadsDuration, StartStateTimerReadsTimer, StartStateTimerAdds,
           ChecksEnterHandler, FetchesEnterHandler, CallsEnterHandler,
           CallsEmptyEnterHandler, OnlyFrame
<1>2. ASSUME NEW th \in {"handler", "timer"}, CloseStep(c, th) PROVE CloseAt(c)'
  <2>1. CASE CloseStopsTimers(c, th)
    <3>1. /\ closing'[c].at = "transport" /\ closing'[c].by = closing[c].by
          /\ closing'[c].reason = closing[c].reason
          /\ closeReason'[c] = closing[c].reason
      BY <2>1 DEF CloseStopsTimers, TypeOK, Close
    <3> QED BY <2>1, <3>1 DEF CloseStopsTimers, CloseAt, InClose, Idle
  <2>2. CASE CloseClosesTransport(c, th)
    <3>1. /\ closing'[c].at = "notify" /\ closing'[c].by = closing[c].by
          /\ closing'[c].reason = closing[c].reason /\ ~active'[c]
      BY <2>2 DEF CloseClosesTransport, TransportClosed, TypeOK, Close
    <3> QED BY <2>2, <3>1 DEF CloseClosesTransport, CloseAt, InClose, Idle
  <2>3. CASE CloseNotifies(c, th)
    <3>1. closes'[c] = closes[c] + 1
      BY <2>3 DEF CloseNotifies, TypeOK
    <3> QED BY <2>3, <3>1, CloseReturnsKeeps DEF CloseNotifies
  <2> QED BY <1>2, <2>1, <2>2, <2>3 DEF CloseStep
<1>3. CASE Accept(c)
  <2>1. closing[c] = NoClose /\ closes[c] = 0 /\ tpc # c /\ closeReason[c] = "None"
    BY <1>3 DEF Accept, StartedAt
  <2> QED BY <1>3, <2>1 DEF Accept, CloseAt, InClose, NoClose, TypeOK
<1>4. CASE Opened(c) \/ EnterReceive(c) \/ \E m \in Message : ReceiveMessage(c, m)
  <2>1. CloseKept(c)
    BY <1>4 DEF Opened, EnterReceive, ReceiveMessage, HandlerAt, CloseKept, TypeOK, Idle
  <2> QED BY <2>1, CloseKeptKeeps
<1>5. CASE ReceiveRefused(c) \/ ReceiveFails(c) \/ LoopEnds(c)
  <2>1. PICK r \in Reason \ {"None"} : LeaveLoop(c, r)
    BY <1>5 DEF ReceiveRefused, ReceiveFails, LoopEnds, Reason
  <2>2. hpc[c] \in {"loop", "receive"} /\ (active'[c] => active[c])
    BY <1>5 DEF ReceiveRefused, ReceiveFails, LoopEnds, HandlerAt, TypeOK
  <2>3. CASE AlreadyClosing(c)
    <3>1. hpc'[c] = "exit" /\ closing' = closing /\ frames' = frames
      BY <2>1, <2>3 DEF LeaveLoop, TypeOK
    <3> QED BY <2>1, <2>2, <2>3, <3>1 DEF LeaveLoop, CloseAt, InClose, Idle
  <2>4. CASE ~AlreadyClosing(c)
    <3>1. hpc'[c] = "leaving" /\ BeginClose(c, "handler", r)
      BY <2>1, <2>4 DEF LeaveLoop, TypeOK
    <3> QED BY <2>1, <2>4, <3>1, BeginCloseKeeps DEF LeaveLoop
  <2> QED BY <2>3, <2>4
<1>6. ASSUME closing[c].at \in {"transport", "notify"}, HandlerAt(c, hpc[c]),
             hpc[c] \notin {"closing", "leaving"}
      PROVE  closing[c].by = "timer"
  BY <1>0, <1>6 DEF CloseAt, InClose
<1>7. ASSUME NEW th \in Thread, NEW s, Call(c, th, s) \/ UNCHANGED frames,
             closing[c].by # th \/ closing[c].at \notin {"transport", "notify"}
      PROVE  closing[c].at \in {"transport", "notify"} /\ Idle(c, closing[c].by) =>
                frames'[c][closing[c].by].at = "idle"
  <2>1. \A u \in Thread \ {th} : frames'[c][u] = frames[c][u]
        \/ frames' = frames
    BY <1>7, FrameMoves DEF Moved
  <2> QED BY <1>0, <1>7, <2>1 DEF Idle, Thread
<1>8. CASE Dispatch(c) \/ DispatchClosed(c)
  <2>1. /\ hpc[c] = "dispatch"
        /\ hpc'[c] \in {"dispatch", "loop", "waitRouting", "routed", "aliveCheck"}
        /\ Call(c, "handler", "Closed") \/ UNCHANGED frames
        /\ UNCHANGED <<closing, isOpen, closeReason, closes, active, tpc>>
    BY <1>8 DEF Dispatch, DispatchClosed, HandlerAt, Handled, TypeOK
  <2>2. closing[c].at \in {"transport", "notify"} /\ Idle(c, closing[c].by) =>
                frames'[c][closing[c].by].at = "idle"
    BY <1>6, <1>7, <1>8, <2>1 DEF Dispatch, DispatchClosed, Thread
  <2> QED BY <2>1, <2>2, CloseKeptKeeps DEF CloseKept
<1>9. ASSUME HandlerCloses(c, "InvalidMessage"),
             hpc[c] \in {"waitRouting", "routed"}
      PROVE  CloseAt(c)'
  <2>1. CASE AlreadyClosing(c)
    <3>1. hpc'[c] = "loop" /\ closing' = closing /\ frames' = frames
      BY <1>9, <2>1 DEF HandlerCloses, TypeOK
    <3>2. CloseKept(c)
      BY <1>9, <3>1 DEF HandlerCloses, CloseKept, Idle
    <3> QED BY <3>2, CloseKeptKeeps
  <2>2. CASE ~AlreadyClosing(c)
    <3>1. hpc'[c] = "closing" /\ BeginClose(c, "handler", "InvalidMessage")
      BY <1>9, <2>2 DEF HandlerCloses, TypeOK
    <3> QED BY <1>9, <2>2, <3>1, BeginCloseKeeps DEF HandlerCloses, Reason
  <2> QED BY <2>1, <2>2
<1>10. ASSUME HandlerAt(c, hpc[c]), Handled(c) \/ hpc'[c] \in {"loop", "answer", "forward"},
              hpc[c] \in {"waitRouting", "routed", "answer", "forward", "aliveCheck"},
              NEW s, Call(c, "handler", s) \/ UNCHANGED frames,
              Send(c) \/ UNCHANGED active,
              UNCHANGED <<closing, isOpen, closeReason, closes, tpc>>
       PROVE  CloseAt(c)'
  <2>1. active'[c] => active[c]
    BY <1>10 DEF Send, TypeOK
  <2>2. hpc'[c] \in {"loop", "answer", "forward"}
    BY <1>10 DEF Handled, TypeOK
  <2>3. closing[c].at \in {"transport", "notify"} /\ Idle(c, closing[c].by) =>
                frames'[c][closing[c].by].at = "idle"
    BY <1>6, <1>7, <1>10 DEF Thread
  <2> QED BY <1>10, <2>1, <2>2, <2>3, CloseKeptKeeps DEF CloseKept
<1>11. CASE HandleWaitRoutingActivation(c)
  <2>1. CASE GrantRouting(c) /\ Handled(c) /\ ~HandlerCloses(c, "InvalidMessage")
    BY <1>10, <1>11, <2>1 DEF HandleWaitRoutingActivation, GrantRouting, HandlerAt
  <2> QED BY <1>9, <1>11, <2>1 DEF HandleWaitRoutingActivation, HandlerAt
<1>12. CASE RoutedRejects(c)
  <2>1. CASE Handled(c) /\ ~HandlerCloses(c, "InvalidMessage")
    <3>1. UNCHANGED frames /\ (Send(c) \/ UNCHANGED active)
          /\ UNCHANGED <<closing, isOpen, closeReason, closes, tpc>>
          /\ HandlerAt(c, hpc[c]) /\ hpc[c] = "routed"
      BY <1>12, <2>1 DEF RoutedRejects, SendAck, HandlerAt
    <3> QED BY <1>10, <2>1, <3>1
  <2> QED BY <1>9, <1>12, <2>1 DEF RoutedRejects, HandlerAt
<1>13. CASE RoutedDiagnostic(c)
  <2>1. hpc'[c] = "answer" /\ UNCHANGED <<frames, active, closing, isOpen, closeReason, closes, tpc>>
        /\ HandlerAt(c, hpc[c]) /\ hpc[c] = "routed"
    BY <1>13 DEF RoutedDiagnostic, TypeOK, HandlerAt
  <2> QED BY <1>10, <2>1
<1>14. CASE RoutedAnswers(c)
  <2>1. /\ Call(c, "handler", "RoutingActivated") \/ UNCHANGED frames
        /\ Handled(c) \/ hpc'[c] = "forward"
        /\ Send(c) /\ UNCHANGED <<closing, isOpen, closeReason, closes, tpc>>
        /\ HandlerAt(c, hpc[c]) /\ hpc[c] = "answer"
    BY <1>14 DEF RoutedAnswers, SendAck, TypeOK, HandlerAt
  <2> QED BY <1>10, <2>1
<1>15. CASE RoutedForwards(c)
  <2>1. /\ \E s \in State : Call(c, "handler", s)
        /\ Handled(c) /\ (Send(c) \/ UNCHANGED active)
        /\ UNCHANGED <<closing, isOpen, closeReason, closes, tpc>>
        /\ HandlerAt(c, hpc[c]) /\ hpc[c] = "forward"
    BY <1>15 DEF RoutedForwards, HandlerAt, State
  <2> QED BY <1>10, <2>1
<1>16. CASE HandleWaitAliveCheckResponse(c)
  <2>1. /\ Call(c, "handler", "RoutingActivated") \/ UNCHANGED frames
        /\ Handled(c) /\ (Send(c) \/ UNCHANGED active)
        /\ UNCHANGED <<closing, isOpen, closeReason, closes, tpc>>
        /\ HandlerAt(c, hpc[c]) /\ hpc[c] = "aliveCheck"
    BY <1>16 DEF HandleWaitAliveCheckResponse, SendAck, HandlerAt
  <2> QED BY <1>10, <2>1
<1>17. ASSUME NEW t, TakeCallback(t, c) PROVE ~InClose(c, "timer")
  BY <1>17, ConnAssumption DEF TakeCallback, TimerThreadFree, CloseAt
<1>18. ASSUME NEW r \in Reason \ {"None"}, TimerCloses(c, r), ~InClose(c, "timer"),
              UNCHANGED <<closes, isOpen, closeReason, hpc, active>>
       PROVE  CloseAt(c)'
  <2>1. CASE AlreadyClosing(c)
    <3>1. CloseKept(c)
      BY <1>18, <2>1 DEF TimerCloses, CloseKept, Idle
    <3> QED BY <3>1, CloseKeptKeeps
  <2>2. CASE ~AlreadyClosing(c)
    <3>1. tpc' = c /\ BeginClose(c, "timer", r)
      BY <1>18, <2>2 DEF TimerCloses
    <3> QED BY <1>18, <2>2, <3>1, BeginCloseKeeps
  <2> QED BY <2>1, <2>2
<1>19. CASE TimeoutInitialInactivity(c)
  BY <1>17, <1>18, <1>19 DEF TimeoutInitialInactivity, Reason
<1>20. CASE TimerGivesUp(c)
  BY <1>18, <1>20 DEF TimerGivesUp, Reason
<1>21. CASE TimeoutGeneralInactivity(c)
  <2>1. active'[c] => active[c]
    BY <1>21 DEF TimeoutGeneralInactivity, Send, TypeOK
  <2>2. closing[c].at \in {"transport", "notify"} /\ Idle(c, closing[c].by) =>
                frames'[c][closing[c].by].at = "idle"
    BY <1>7, <1>17, <1>21 DEF TimeoutGeneralInactivity, InClose, Thread
  <2> QED BY <1>21, <2>1, <2>2, CloseKeptKeeps DEF TimeoutGeneralInactivity, CloseKept
<1>22. CASE TimeoutAliveCheck(c)
  <2>1. closing[c].at \in {"transport", "notify"} /\ Idle(c, closing[c].by) =>
                frames'[c][closing[c].by].at = "idle"
    BY <1>7, <1>17, <1>22 DEF TimeoutAliveCheck, InClose, Thread
  <2> QED BY <1>17, <1>22, <2>1, CloseKeptKeeps DEF TimeoutAliveCheck, CloseKept
<1>23. CASE TimeoutUserDefined(c) \/ UseOfDestroyed(c) \/ PeerLeaves(c)
  <2>1. CloseKept(c)
    BY <1>23 DEF TimeoutUserDefined, UseOfDestroyed, PeerLeaves, CloseKept, Idle
  <2> QED BY <2>1, CloseKeptKeeps
<1>24. CASE ReceiveDownstreamResponse(c)
  <2>1. active'[c] => active[c]
    BY <1>24 DEF ReceiveDownstreamResponse, Send, TypeOK
  <2>2. closing[c].at \in {"transport", "notify"} /\ Idle(c, closing[c].by) =>
                frames'[c][closing[c].by].at = "idle"
    BY <1>0, <1>7, <1>24 DEF ReceiveDownstreamResponse, Thread
  <2> QED BY <1>24, <2>1, <2>2, CloseKeptKeeps DEF ReceiveDownstreamResponse, CloseKept
<1> QED
  BY <1>1, <1>2, <1>3, <1>4, <1>5, <1>8, <1>11, <1>12, <1>13, <1>14, <1>15, <1>16, <1>19,
     <1>20, <1>21, <1>22, <1>23, <1>24 DEF StepOf

\* Every step keeps CloseInv.
LEMMA CloseInvStep == TypeOK /\ StartedInv /\ CloseInv /\ [Next]_vars => CloseInv'
<1> SUFFICES ASSUME TypeOK, StartedInv, CloseInv, [Next]_vars, NEW d \in Conn
             PROVE  CloseAt(d)'
  BY DEF CloseInv
<1>1. ASSUME NEW c \in Conn, StepOf(c) PROVE CloseAt(d)'
  <2>1. CASE c = d
    BY <1>1, <2>1, CloseLocal DEF StartedInv, CloseInv
  <2>2. CASE c # d
    BY <1>1, <2>2, StepFrame, UntouchedKeeps DEF CloseInv
  <2> QED BY <2>1, <2>2
<1>2. CASE \E expired \in SUBSET Timer : CollectExpired(expired)
  BY <1>2, CollectKeeps DEF CloseInv
<1>3. CASE Stop
  BY <1>3 DEF Stop, CloseInv, CloseAt, InClose, Idle, machineVars, threadVars, historyVars
<1>4. CASE UNCHANGED vars
  BY <1>4 DEF CloseInv, CloseAt, InClose, Idle, vars, machineVars, threadVars, envVars,
              historyVars
<1> QED BY <1>1, <1>2, <1>3, <1>4, NextCases

\* The started and the close invariant hold in every reachable state.
LEMMA CloseReached == Spec => [](TypeOK /\ StartedInv /\ CloseInv)
<1>1. TypeOK /\ StartedInv /\ CloseInv /\ [Next]_vars => (TypeOK /\ StartedInv /\ CloseInv)'
  BY TypeStep, StartedStep, CloseInvStep
<1>2. Init => TypeOK /\ StartedInv /\ CloseInv
  BY TypeInit, InvInit
<1> QED BY <1>1, <1>2, PTL DEF Spec

\* Only the thread inside closeConnection writes the reason.
LEMMA ReasonWritten ==
    ASSUME NEW c \in Conn, StepOf(c)
    PROVE  closeReason' = closeReason \/ \E th \in {"handler", "timer"} : CloseStopsTimers(c, th)
<1> USE DEF machineVars, threadVars, timerVars, envVars, historyVars
<1>1. CASE \E th \in Thread : TransitionStep(c, th)
  BY <1>1 DEF TransitionStep, TransitionTo, WritesState, StartStateTimerStops,
              StartStateTimerReadsDuration, StartStateTimerReadsTimer, StartStateTimerAdds,
              ChecksEnterHandler, FetchesEnterHandler, CallsEnterHandler,
              CallsEmptyEnterHandler, OnlyFrame
<1>2. CASE \E th \in {"handler", "timer"} : CloseStep(c, th)
  BY <1>2 DEF CloseStep, CloseClosesTransport, CloseNotifies
<1>3. CASE Accept(c) \/ Opened(c) \/ EnterReceive(c) \/ \E m \in Message : ReceiveMessage(c, m)
  BY <1>3 DEF Accept, Opened, EnterReceive, ReceiveMessage
<1>4. CASE ReceiveRefused(c) \/ ReceiveFails(c) \/ LoopEnds(c) \/ Dispatch(c) \/ DispatchClosed(c)
  BY <1>4 DEF ReceiveRefused, ReceiveFails, LoopEnds, LeaveLoop, Dispatch, DispatchClosed
<1>5. CASE HandleWaitRoutingActivation(c)
  BY <1>5 DEF HandleWaitRoutingActivation, HandlerCloses
<1>6. CASE RoutedRejects(c)
  BY <1>6 DEF RoutedRejects, HandlerCloses
<1>7. CASE RoutedDiagnostic(c) \/ RoutedAnswers(c) \/ RoutedForwards(c)
           \/ HandleWaitAliveCheckResponse(c)
  BY <1>7 DEF RoutedDiagnostic, RoutedAnswers, RoutedForwards, HandleWaitAliveCheckResponse
<1>8. CASE \/ TimeoutInitialInactivity(c) \/ TimeoutGeneralInactivity(c)
           \/ TimeoutAliveCheck(c) \/ TimeoutUserDefined(c) \/ TimerGivesUp(c)
           \/ ReceiveDownstreamResponse(c) \/ UseOfDestroyed(c) \/ PeerLeaves(c)
  BY <1>8 DEF TimeoutInitialInactivity, TimeoutGeneralInactivity, TimeoutAliveCheck,
              TimeoutUserDefined, TimerGivesUp, ReceiveDownstreamResponse, UseOfDestroyed,
              PeerLeaves
<1> QED BY <1>1, <1>2, <1>3, <1>4, <1>5, <1>6, <1>7, <1>8 DEF StepOf

\* No step changes a reason that is given.
LEMMA ReasonStep ==
    TypeOK /\ CloseInv /\ [Next]_vars =>
        \A c \in Conn : closeReason[c] # "None" => closeReason'[c] = closeReason[c]
<1> SUFFICES ASSUME TypeOK, CloseInv, [Next]_vars, NEW d \in Conn, closeReason[d] # "None"
             PROVE  closeReason'[d] = closeReason[d]
  OBVIOUS
<1>1. ASSUME NEW c \in Conn, StepOf(c) PROVE closeReason'[d] = closeReason[d]
  <2>1. ASSUME NEW th \in {"handler", "timer"}, CloseStopsTimers(c, th)
        PROVE  closeReason'[d] = closeReason[d]
    <3>1. c # d
      BY <2>1 DEF CloseStopsTimers, CloseInv, CloseAt
    <3> QED BY <2>1, <3>1 DEF CloseStopsTimers, TypeOK
  <2> QED BY <1>1, <2>1, ReasonWritten
<1>2. CASE \E expired \in SUBSET Timer : CollectExpired(expired)
  BY <1>2 DEF CollectExpired, machineVars
<1>3. CASE Stop \/ UNCHANGED vars
  BY <1>3 DEF Stop, vars, machineVars
<1> QED BY <1>1, <1>2, <1>3, NextCases

\* The reason of a close is written once: CloseReasonStable, an action
\* property of closeConnection.
THEOREM CloseReasonKept == Spec => CloseReasonStable
<1>1. TypeOK /\ CloseInv /\ [Next]_vars =>
        [\A c \in Conn : closeReason[c] # "None" => closeReason'[c] = closeReason[c]]_vars
  BY ReasonStep
<1> QED BY <1>1, CloseReached, PTL DEF Spec, CloseReasonStable

-----------------------------------------------------------------------------
(***************************************************************************)
(* Routing activation.                                                     *)
(***************************************************************************)

\* A step inside transitionTo keeps RoutingAt.
LEMMA RoutingTransition ==
    ASSUME TypeOK, NEW c \in Conn, CloseAt(c), RoutingAt(c), NEW th \in Thread,
           TransitionStep(c, th)
    PROVE  RoutingAt(c)'
<1> USE DEF machineVars, threadVars, timerVars, envVars, historyVars, RoutedStates
<1>0. frames[c][th].at # "idle" /\ frames[c][th] \in Frame
  BY FrameType DEF TransitionStep, TransitionTo, WritesState, StartStateTimerStops,
         StartStateTimerReadsDuration, StartStateTimerReadsTimer, StartStateTimerAdds,
         ChecksEnterHandler, FetchesEnterHandler, CallsEnterHandler,
         CallsEmptyEnterHandler, At
<1>1. ASSUME OnlyFrame, NEW a, NEW s, NEW n, Moved(c, th, a, s, n),
             s \in RoutedStates => routed[c],
             a \in {"compare", "write"} => s # "WaitRoutingActivation",
             \/ a = "write" /\ s = frames[c][th].to
             \/ frames[c][th].at \notin {"compare", "write"}
             \/ frames[c][th].to = state[c]
      PROVE  RoutingAt(c)'
  BY <1>1 DEF OnlyFrame, Moved, RoutingAt, Thread
<1>2. CASE TransitionTo(c, th)
  BY <1>0, <1>1, <1>2, FrameMoves, FrameReturns DEF TransitionTo, At, RoutingAt, Thread
<1>3. CASE WritesState(c, th)
  <2>1. Moved(c, th, "stop", frames[c][th].to, frames[c][th].depth)
    BY <1>3, FrameMoves DEF WritesState
  <2>2. state'[c] = frames[c][th].to
    BY <1>3 DEF WritesState, TypeOK
  <2> QED BY <1>0, <1>3, <2>1, <2>2 DEF WritesState, At, Moved, RoutingAt, Thread
<1>4. CASE StartStateTimerStops(c, th)
  <2>1. Moved(c, th, "duration", frames[c][th].to, frames[c][th].depth)
    BY <1>4, FrameMoves DEF StartStateTimerStops
  <2> QED BY <1>0, <1>4, <2>1, ConnAssumption
          DEF StartStateTimerStops, StopAll, NoTimers, At, Moved, RoutingAt, Thread, Timer
<1>5. CASE StartStateTimerReadsDuration(c, th)
  <2>1. AfterTimeout(frames[c][th].to) \in {"Closed", "Finalize"}
    BY DEF AfterTimeout
  <2> QED BY <1>0, <1>1, <1>5, <2>1, FrameReturns
          DEF StartStateTimerReadsDuration, At, RoutingAt
<1>6. CASE StartStateTimerReadsTimer(c, th) \/ FetchesEnterHandler(c, th)
  BY <1>0, <1>1, <1>6, FrameMoves
     DEF StartStateTimerReadsTimer, FetchesEnterHandler, At, RoutingAt
<1>7. CASE StartStateTimerAdds(c, th)
  <2>1. Moved(c, th, "check", frames[c][th].to, frames[c][th].depth)
    BY <1>7, FrameMoves DEF StartStateTimerAdds
  <2>2. \A t \in {"GeneralInactivity", "AliveCheck"} :
          timers'[t] = c => timers[t] = c \/ frames[c][th].to \in RoutedStates
    BY <1>0, <1>7 DEF StartStateTimerAdds, TimerOf, TypeOK, Frame, State
  <2> QED BY <1>0, <1>7, <2>1, <2>2 DEF StartStateTimerAdds, At, Moved, RoutingAt, Thread
<1>8. CASE ChecksEnterHandler(c, th)
  BY <1>0, <1>1, <1>8, FrameMoves, FrameReturns DEF ChecksEnterHandler, At, RoutingAt
<1>9. CASE CallsEnterHandler(c, th)
  <2>1. \E a \in {"idle", "check"} : \E s, n : Moved(c, th, a, s, n)
           /\ (s \in RoutedStates => routed[c])
    BY <1>0, <1>9, FrameReturns DEF CallsEnterHandler, RoutingAt
  <2> QED BY <1>9, <2>1 DEF CallsEnterHandler, At, Moved, RoutingAt, Thread
<1>10. CASE CallsEmptyEnterHandler(c, th)
  <2>1. frames' = frames \/ Moved(c, th, "idle", "Closed", 0)
    <3>1. frames' = frames \/ frames' = [frames EXCEPT ![c][th] = NoFrame]
      BY <1>10 DEF CallsEmptyEnterHandler
    <3>2. NoFrame.at = "idle" /\ NoFrame.to = "Closed" /\ NoFrame.depth = 0
      BY DEF NoFrame
    <3> QED BY <3>1, <3>2, FrameReplaced
  <2>2. hpc'[c] \in {hpc[c], "loop", "exit"}
    BY <1>10 DEF CallsEmptyEnterHandler, CloseReturns, TypeOK
  <2>3. hpc'[c] = hpc[c] \/ hpc[c] \notin {"answer", "forward"}
    BY <1>10 DEF CallsEmptyEnterHandler, CloseReturns, CloseAt, InClose, TypeOK
  <2> QED BY <1>10, <2>1, <2>2, <2>3
          DEF CallsEmptyEnterHandler, At, Moved, RoutingAt, Thread
<1> QED
  BY <1>2, <1>3, <1>4, <1>5, <1>6, <1>7, <1>8, <1>9, <1>10 DEF TransitionStep

\* A step of a connection keeps its RoutingAt.
LEMMA RoutingLocal ==
    ASSUME TypeOK, NEW c \in Conn, StartedAt(c), CloseAt(c), RoutingAt(c), StepOf(c)
    PROVE  RoutingAt(c)'
<1> USE DEF machineVars, threadVars, timerVars, envVars, historyVars, RoutedStates
<1>1. CASE \E th \in Thread : TransitionStep(c, th)
  BY <1>1, RoutingTransition
<1>2. ASSUME NEW th \in {"handler", "timer"}, CloseStep(c, th) PROVE RoutingAt(c)'
  <2>1. CASE CloseStopsTimers(c, th)
    BY <2>1, ConnAssumption
       DEF CloseStopsTimers, StopAll, NoTimers, RoutingAt, Thread, Timer
  <2>2. CASE CloseClosesTransport(c, th)
    BY <2>2 DEF CloseClosesTransport, RoutingAt
  <2>3. CASE CloseNotifies(c, th)
    <3>1. hpc'[c] \in {hpc[c], "loop", "exit"}
          /\ (hpc'[c] = hpc[c] \/ hpc[c] \notin {"answer", "forward"})
      BY <2>3 DEF CloseNotifies, CloseReturns, CloseAt, InClose, TypeOK
    <3>2. outstanding'[c] = 0
      BY <2>3 DEF CloseNotifies, TypeOK
    <3> QED BY <2>3, <3>1, <3>2 DEF CloseNotifies, RoutingAt
  <2> QED BY <1>2, <2>1, <2>2, <2>3 DEF CloseStep
<1>3. CASE Accept(c)
  <2>1. /\ \A t \in Timer : timers[t] # c /\ <<t, c>> \notin collected
        /\ \A th \in Thread : frames[c][th] = NoFrame
        /\ outstanding[c] = 0 /\ ~routed[c] /\ served[c] = NoAddr
    BY <1>3 DEF Accept, StartedAt
  <2>2. Moved(c, "handler", "stop", "WaitRoutingActivation", 0)
    <3> DEFINE f == [at |-> "stop", to |-> "WaitRoutingActivation", depth |-> 0]
    <3>1. frames' = [frames EXCEPT ![c]["handler"] = f]
      BY <1>3 DEF Accept
    <3>2. Moved(c, "handler", f.at, f.to, f.depth)
      BY <3>1, FrameReplaced DEF Thread
    <3> QED BY <3>2
  <2>3. state'[c] = "WaitRoutingActivation" /\ hpc'[c] = "opening"
    BY <1>3 DEF Accept, TypeOK
  <2> QED BY <1>3, <2>1, <2>2, <2>3 DEF Accept, RoutingAt, Moved, NoFrame, Thread, Timer
<1>4. CASE Opened(c) \/ EnterReceive(c) \/ \E m \in Message : ReceiveMessage(c, m)
  <2>1. hpc[c] \in {"opening", "loop", "receive"} /\ hpc'[c] \in {"loop", "receive", "dispatch"}
    BY <1>4 DEF Opened, EnterReceive, ReceiveMessage, HandlerAt, TypeOK
  <2> QED BY <1>4, <2>1 DEF Opened, EnterReceive, ReceiveMessage, RoutingAt
<1>5. ASSUME NEW s \in State \ {"WaitRoutingActivation"},
             Call(c, "handler", s) \/ UNCHANGED frames, Idle(c, "handler"),
             s \in RoutedStates => routed[c],
             hpc'[c] \notin {"routed", "answer", "forward", "aliveCheck", "waitRouting"},
             served'[c] = NoAddr,
             UNCHANGED <<state, timers, collected, clientAddr, routed>>,
             outstanding'[c] > 0 => routed[c]
      PROVE  RoutingAt(c)'
  <2>1. \/ frames' = frames \/ Moved(c, "handler", "compare", s, 0)
    BY <1>5, FrameMoves DEF Thread
  <2> QED BY <1>5, <2>1 DEF RoutingAt, Moved, Idle, Thread
<1>6. CASE ReceiveRefused(c) \/ ReceiveFails(c) \/ LoopEnds(c)
  <2>1. PICK r \in Reason : LeaveLoop(c, r)
    BY <1>6 DEF ReceiveRefused, ReceiveFails, LoopEnds, Reason
  <2>2. hpc[c] \in {"loop", "receive"} /\ Idle(c, "handler")
    BY <1>6 DEF ReceiveRefused, ReceiveFails, LoopEnds, HandlerAt
  <2>3. served[c] = NoAddr
    BY <2>2 DEF RoutingAt
  <2>4. hpc'[c] \in {"exit", "leaving"} /\ (Call(c, "handler", "Closed") \/ UNCHANGED frames)
    BY <2>1 DEF LeaveLoop, BeginClose, TypeOK
  <2> QED BY <1>5, <2>1, <2>2, <2>3, <2>4 DEF LeaveLoop, State, RoutingAt
<1>7. CASE Dispatch(c)
  <2>0. hpc[c] = "dispatch" /\ Idle(c, "handler") /\ served[c] = NoAddr
    BY <1>7 DEF Dispatch, HandlerAt, RoutingAt
  <2>1. CASE state[c] \in {"WaitRoutingActivation", "RoutingActivated", "WaitAliveCheckResponse"}
    <3>1. UNCHANGED <<state, timers, collected, clientAddr, routed, outstanding, served, frames>>
      BY <1>7, <2>1 DEF Dispatch
    <3>2. hpc'[c] = CASE state[c] = "WaitRoutingActivation"  -> "waitRouting"
                      [] state[c] = "RoutingActivated"       -> "routed"
                      [] state[c] = "WaitAliveCheckResponse" -> "aliveCheck"
      BY <1>7, <2>1 DEF Dispatch, TypeOK
    <3> QED BY <2>0, <2>1, <3>1, <3>2 DEF RoutingAt, Idle
  <2>2. CASE state[c] \notin {"WaitRoutingActivation", "RoutingActivated",
                              "WaitAliveCheckResponse"}
    <3>1. /\ Call(c, "handler", "Closed") \/ UNCHANGED frames
          /\ UNCHANGED <<state, timers, collected, clientAddr, routed, outstanding>>
          /\ hpc'[c] = "loop" /\ served'[c] = NoAddr
      BY <1>7, <2>2 DEF Dispatch, Handled, TypeOK
    <3> QED BY <1>5, <2>0, <3>1 DEF State, RoutingAt
  <2> QED BY <2>1, <2>2
<1>8. CASE DispatchClosed(c) \/ UseOfDestroyed(c) \/ PeerLeaves(c)
  BY <1>8 DEF DispatchClosed, UseOfDestroyed, PeerLeaves, RoutingAt
<1>9. ASSUME HandlerCloses(c, "InvalidMessage"), hpc[c] \in {"waitRouting", "routed"},
             Idle(c, "handler")
      PROVE  RoutingAt(c)'
  <2>1. /\ hpc'[c] \in {"loop", "closing"}
        /\ Call(c, "handler", "Closed") \/ UNCHANGED frames
        /\ served' = served /\ served[c] = NoAddr
    BY <1>9 DEF HandlerCloses, BeginClose, RoutingAt, TypeOK
  <2> QED BY <1>5, <1>9, <2>1 DEF HandlerCloses, State, RoutingAt
<1>10. CASE HandleWaitRoutingActivation(c)
  <2>1. CASE HandlerCloses(c, "InvalidMessage")
    BY <1>9, <1>10, <2>1 DEF HandleWaitRoutingActivation, HandlerAt
  <2>2. CASE ~HandlerCloses(c, "InvalidMessage")
    <3>1. /\ GrantRouting(c) /\ Handled(c)
          /\ UNCHANGED <<state, timers, collected, outstanding>>
      BY <1>10, <2>2 DEF HandleWaitRoutingActivation
    <3>2. routed'[c] /\ hpc'[c] = "loop" /\ served'[c] = NoAddr
      BY <3>1 DEF GrantRouting, Handled, TypeOK
    <3>3. Moved(c, "handler", "compare", "RoutingActivated", 0)
      BY <3>1, FrameMoves DEF GrantRouting, Thread
    <3> QED BY <3>1, <3>2, <3>3 DEF RoutingAt, Moved, Thread
  <2> QED BY <2>1, <2>2
<1>11. CASE RoutedRejects(c)
  <2>1. CASE HandlerCloses(c, "InvalidMessage")
    BY <1>9, <1>11, <2>1 DEF RoutedRejects, HandlerAt
  <2>2. CASE ~HandlerCloses(c, "InvalidMessage")
    <3>1. /\ Handled(c) /\ Idle(c, "handler")
          /\ UNCHANGED <<state, timers, collected, clientAddr, routed, outstanding, frames>>
      BY <1>11, <2>2 DEF RoutedRejects, HandlerAt
    <3>2. hpc'[c] = "loop" /\ served'[c] = NoAddr
      BY <3>1 DEF Handled, TypeOK
    <3> QED BY <1>5, <3>1, <3>2 DEF State, RoutingAt
  <2> QED BY <2>1, <2>2
<1>12. CASE RoutedDiagnostic(c)
  <2>1. hpc'[c] = "answer" /\ served'[c] = msg[c].source /\ hpc[c] = "routed"
        /\ msg[c].source = clientAddr[c] /\ Idle(c, "handler")
    BY <1>12 DEF RoutedDiagnostic, RejectedSource, TypeOK, HandlerAt
  <2> QED BY <1>12, <2>1 DEF RoutedDiagnostic, RoutingAt
<1>13. CASE RoutedAnswers(c)
  <2>1. hpc[c] = "answer" /\ routed[c] /\ Idle(c, "handler")
        /\ UNCHANGED <<state, timers, collected, clientAddr, routed, outstanding>>
    BY <1>13 DEF RoutedAnswers, HandlerAt, RoutingAt
  <2>2. CASE Handled(c)
    <3>1. hpc'[c] = "loop" /\ served'[c] = NoAddr
      BY <2>2 DEF Handled, TypeOK
    <3>2. Call(c, "handler", "RoutingActivated") \/ UNCHANGED frames
      BY <1>13 DEF RoutedAnswers
    <3> QED BY <1>5, <2>1, <3>1, <3>2 DEF State
  <2>3. CASE ~Handled(c)
    <3>1. hpc'[c] = "forward" /\ UNCHANGED <<served, frames>>
      BY <1>13, <2>3 DEF RoutedAnswers, TypeOK
    <3> QED BY <2>1, <3>1 DEF RoutingAt
  <2> QED BY <2>2, <2>3
<1>14. CASE RoutedForwards(c)
  <2>1. hpc[c] = "forward" /\ routed[c] /\ Idle(c, "handler") /\ Handled(c)
        /\ UNCHANGED <<state, timers, collected, clientAddr, routed>>
    BY <1>14 DEF RoutedForwards, HandlerAt, RoutingAt
  <2>2. PICK s \in {"RoutingActivated", "WaitDownstreamResponse"} : Call(c, "handler", s)
    BY <1>14 DEF RoutedForwards
  <2>3. hpc'[c] = "loop" /\ served'[c] = NoAddr
    BY <2>1 DEF Handled, TypeOK
  <2> QED BY <1>5, <2>1, <2>2, <2>3 DEF State
<1>15. CASE HandleWaitAliveCheckResponse(c)
  <2>1. hpc[c] = "aliveCheck" /\ routed[c] /\ Idle(c, "handler") /\ Handled(c)
        /\ UNCHANGED <<state, timers, collected, clientAddr, routed, outstanding>>
        /\ (Call(c, "handler", "RoutingActivated") \/ UNCHANGED frames)
    BY <1>15 DEF HandleWaitAliveCheckResponse, HandlerAt, RoutingAt
  <2>2. hpc'[c] = "loop" /\ served'[c] = NoAddr
    BY <2>1 DEF Handled, TypeOK
  <2> QED BY <1>5, <2>1, <2>2 DEF State
<1>16. ASSUME NEW th \in {"timer", "worker"}, NEW s \in State \ {"WaitRoutingActivation"},
              Call(c, th, s) \/ UNCHANGED frames, s \in RoutedStates => routed[c],
              UNCHANGED <<state, timers, clientAddr, routed, hpc, served>>,
              collected' \subseteq collected, outstanding'[c] > 0 => routed[c]
       PROVE  RoutingAt(c)'
  <2>1. frames' = frames \/ Moved(c, th, "compare", s, 0)
    BY <1>16, FrameMoves DEF Thread
  <2> QED BY <1>16, <2>1 DEF RoutingAt, Moved, Thread
<1>17. ASSUME NEW t, TakeCallback(t, c)
       PROVE  /\ collected' \subseteq collected
              /\ t \in {"GeneralInactivity", "AliveCheck"} => routed[c]
  BY <1>17 DEF TakeCallback, RoutingAt
<1>18. ASSUME NEW r, TimerCloses(c, r) PROVE Call(c, "timer", "Closed") \/ UNCHANGED frames
  BY <1>18 DEF TimerCloses, BeginClose
<1>19. CASE TimeoutInitialInactivity(c)
  BY <1>16, <1>17, <1>18, <1>19 DEF TimeoutInitialInactivity, State, RoutingAt
<1>20. CASE TimeoutGeneralInactivity(c)
  BY <1>16, <1>17, <1>20 DEF TimeoutGeneralInactivity, State, RoutingAt
<1>21. CASE TimeoutAliveCheck(c)
  BY <1>16, <1>17, <1>21 DEF TimeoutAliveCheck, State, RoutingAt
<1>22. CASE TimerGivesUp(c)
  BY <1>16, <1>18, <1>22 DEF TimerGivesUp, State, RoutingAt
<1>23. CASE TimeoutUserDefined(c)
  BY <1>17, <1>23 DEF TimeoutUserDefined, RoutingAt
<1>24. CASE ReceiveDownstreamResponse(c)
  <2>1. routed[c]
    BY <1>24 DEF ReceiveDownstreamResponse, RoutingAt
  <2> QED BY <1>16, <1>24, <2>1 DEF ReceiveDownstreamResponse, State
<1> QED
  BY <1>1, <1>2, <1>3, <1>4, <1>6, <1>7, <1>8, <1>10, <1>11, <1>12, <1>13, <1>14, <1>15,
     <1>19, <1>20, <1>21, <1>22, <1>23, <1>24 DEF StepOf

\* Every step keeps RoutingInv.
LEMMA RoutingStep ==
    TypeOK /\ StartedInv /\ CloseInv /\ RoutingInv /\ [Next]_vars => RoutingInv'
<1> SUFFICES ASSUME TypeOK, StartedInv, CloseInv, RoutingInv, [Next]_vars, NEW d \in Conn
             PROVE  RoutingAt(d)'
  BY DEF RoutingInv
<1>1. ASSUME NEW c \in Conn, StepOf(c) PROVE RoutingAt(d)'
  <2>1. CASE c = d
    BY <1>1, <2>1, RoutingLocal DEF StartedInv, CloseInv, RoutingInv
  <2>2. CASE c # d
    BY <1>1, <2>2, StepFrame, UntouchedKeeps DEF CloseInv, RoutingInv
  <2> QED BY <2>1, <2>2
<1>2. CASE \E expired \in SUBSET Timer : CollectExpired(expired)
  BY <1>2, CollectKeeps DEF RoutingInv
<1>3. CASE Stop
  BY <1>3 DEF Stop, RoutingInv, RoutingAt, machineVars, threadVars, timerVars, historyVars
<1>4. CASE UNCHANGED vars
  BY <1>4 DEF RoutingInv, RoutingAt, vars, machineVars, threadVars, timerVars, envVars,
              historyVars
<1> QED BY <1>1, <1>2, <1>3, <1>4, NextCases

\* The routing invariant holds in every reachable state.
LEMMA RoutingReached == Spec => []RoutingInv
<1>1. TypeOK /\ StartedInv /\ CloseInv /\ RoutingInv /\ [Next]_vars => RoutingInv'
  BY RoutingStep
<1>2. Init => RoutingInv
  BY InvInit
<1> QED BY <1>1, <1>2, CloseReached, PTL DEF Spec

\* The routing invariant is stronger than both properties.
LEMMA RoutingInvImplies == RoutingInv => ServedOnlyRoutedClient /\ RoutingBeforeService
  BY DEF RoutingInv, RoutingAt, RoutedStates, ServedOnlyRoutedClient, RoutingBeforeService

\* No message of another source reaches onDiagnosticMessage.
THEOREM RoutedClientOnly == Spec => []ServedOnlyRoutedClient
  BY RoutingReached, RoutingInvImplies, PTL

\* No way but routing activation leads to the states that follow it.
THEOREM RoutingFirst == Spec => []RoutingBeforeService
  BY RoutingReached, RoutingInvImplies, PTL

\* Only a granted routing activation writes the address.
LEMMA AddressWritten ==
    ASSUME NEW c \in Conn, StepOf(c)
    PROVE  UNCHANGED <<clientAddr, routed>> \/ HandleWaitRoutingActivation(c)
<1> USE DEF machineVars, threadVars, timerVars, envVars, historyVars
<1>1. CASE \E th \in Thread : TransitionStep(c, th)
  BY <1>1 DEF TransitionStep, TransitionTo, WritesState, StartStateTimerStops,
              StartStateTimerReadsDuration, StartStateTimerReadsTimer, StartStateTimerAdds,
              ChecksEnterHandler, FetchesEnterHandler, CallsEnterHandler,
              CallsEmptyEnterHandler, OnlyFrame
<1>2. CASE \E th \in {"handler", "timer"} : CloseStep(c, th)
  BY <1>2 DEF CloseStep, CloseStopsTimers, CloseClosesTransport, CloseNotifies
<1>3. CASE Accept(c) \/ Opened(c) \/ EnterReceive(c) \/ \E m \in Message : ReceiveMessage(c, m)
  BY <1>3 DEF Accept, Opened, EnterReceive, ReceiveMessage
<1>4. CASE ReceiveRefused(c) \/ ReceiveFails(c) \/ LoopEnds(c) \/ Dispatch(c) \/ DispatchClosed(c)
  BY <1>4 DEF ReceiveRefused, ReceiveFails, LoopEnds, LeaveLoop, Dispatch, DispatchClosed
<1>5. CASE RoutedRejects(c)
  BY <1>5 DEF RoutedRejects, HandlerCloses
<1>6. CASE RoutedDiagnostic(c) \/ RoutedAnswers(c) \/ RoutedForwards(c)
           \/ HandleWaitAliveCheckResponse(c)
  BY <1>6 DEF RoutedDiagnostic, RoutedAnswers, RoutedForwards, HandleWaitAliveCheckResponse
<1>7. CASE \/ TimeoutInitialInactivity(c) \/ TimeoutGeneralInactivity(c)
           \/ TimeoutAliveCheck(c) \/ TimeoutUserDefined(c) \/ TimerGivesUp(c)
           \/ ReceiveDownstreamResponse(c) \/ UseOfDestroyed(c) \/ PeerLeaves(c)
  BY <1>7 DEF TimeoutInitialInactivity, TimeoutGeneralInactivity, TimeoutAliveCheck,
              TimeoutUserDefined, TimerGivesUp, ReceiveDownstreamResponse, UseOfDestroyed,
              PeerLeaves
<1> QED BY <1>1, <1>2, <1>3, <1>4, <1>5, <1>6, <1>7 DEF StepOf

\* No step changes the address of a routed client.
LEMMA AddressStep ==
    TypeOK /\ RoutingInv /\ [Next]_vars =>
        \A c \in Conn : routed[c] => routed'[c] /\ clientAddr'[c] = clientAddr[c]
<1> SUFFICES ASSUME TypeOK, RoutingInv, [Next]_vars, NEW d \in Conn, routed[d]
             PROVE  routed'[d] /\ clientAddr'[d] = clientAddr[d]
  OBVIOUS
<1>1. ASSUME NEW c \in Conn, StepOf(c) PROVE routed'[d] /\ clientAddr'[d] = clientAddr[d]
  <2>1. CASE HandleWaitRoutingActivation(c)
    <3>1. c # d
      BY <2>1 DEF HandleWaitRoutingActivation, HandlerAt, RoutingInv, RoutingAt
    <3> QED BY <2>1, <3>1 DEF HandleWaitRoutingActivation, GrantRouting, HandlerCloses,
                              machineVars, historyVars, TypeOK
  <2> QED BY <1>1, <2>1, AddressWritten
<1>2. CASE \E expired \in SUBSET Timer : CollectExpired(expired)
  BY <1>2 DEF CollectExpired, machineVars, historyVars
<1>3. CASE Stop \/ UNCHANGED vars
  BY <1>3 DEF Stop, vars, machineVars, historyVars
<1> QED BY <1>1, <1>2, <1>3, NextCases

\* The address a client was granted stays: RoutedAddressStable.
THEOREM RoutedAddressKept == Spec => RoutedAddressStable
<1>1. TypeOK /\ RoutingInv /\ [Next]_vars =>
        [\A c \in Conn : routed[c] => routed'[c] /\ clientAddr'[c] = clientAddr[c]]_vars
  BY AddressStep
<1> QED BY <1>1, TypeCorrect, RoutingReached, PTL DEF Spec, RoutedAddressStable

-----------------------------------------------------------------------------
(***************************************************************************)
(* One thread at a time inside transitionTo.                               *)
(***************************************************************************)

\* A step inside transitionTo keeps SerialAt.
LEMMA SerialTransition ==
    ASSUME TypeOK, NEW c \in Conn, SerialAt(c), NEW th \in Thread, TransitionStep(c, th),
           overtakes'[c] = 0
    PROVE  SerialAt(c)'
<1> USE DEF machineVars, threadVars, timerVars, envVars, historyVars
<1>0. frames[c][th].at # "idle" /\ frames[c][th] \in Frame /\ frames[c][th].depth \in Nat
  BY FrameType DEF TransitionStep, TransitionTo, WritesState, StartStateTimerStops,
         StartStateTimerReadsDuration, StartStateTimerReadsTimer, StartStateTimerAdds,
         ChecksEnterHandler, FetchesEnterHandler, CallsEnterHandler,
         CallsEmptyEnterHandler, At, Frame
<1>1. overtakes[c] = 0
  BY DEF TransitionStep, TransitionTo, WritesState, StartStateTimerStops,
         StartStateTimerReadsDuration, StartStateTimerReadsTimer, StartStateTimerAdds,
         ChecksEnterHandler, FetchesEnterHandler, CallsEnterHandler,
         CallsEmptyEnterHandler, OnlyFrame, TypeOK
<1>2. Own(c, th) /\ \A u \in Thread \ {th} : Own(c, u)
  BY <1>1 DEF SerialAt
\* Most steps leave m_state alone.
<1>3. ASSUME NEW a, NEW s, NEW n, Moved(c, th, a, s, n), state'[c] = state[c],
             closing'[c] = closing[c], closes'[c] = closes[c],
             frames[c][th].at # "stop" \/ \A t \in Timer : timers'[t] # c,
             \/ timers' = timers
             \/ \A t \in Timer : timers'[t] # c
             \/ \A t \in Timer : timers'[t] = c => t = TimerOf[state[c]] /\ state[c] # "Closed",
             a \notin {"idle", "compare", "write"} \/ n > 0 =>
                 /\ Inside(c, th)
                 /\ s = state[c]
                 /\ n > 0 => a = "compare" /\ state[c] = "Closed" /\ n = 1
                 /\ a \in {"timer", "add"} => state[c] # "Closed"
                 /\ a \in {"fetch", "enter"} => state[c] \in Counting,
             s \in {"Closed", frames[c][th].to}, a = "idle" => n = 0
      PROVE  SerialAt(c)'
  <2>1. Own(c, th)'
    BY <1>2, <1>3 DEF Moved, Own, Inside
  <2>2. \A u \in Thread \ {th} : Own(c, u)'
    BY <1>2, <1>3 DEF Moved, Own, Inside
  <2>3. \A u \in Thread :
           /\ frames'[c][u].to # "Finalize"
           /\ frames'[c][u].at = "idle" => frames'[c][u].depth = 0
           /\ u # "timer" => frames'[c][u].to # "WaitAliveCheckResponse"
           /\ InClose(c, u)' => frames'[c][u].to = "Closed"
    BY <1>1, <1>3 DEF SerialAt, Moved, InClose
  <2>4. \A t \in Timer : timers'[t] = c =>
              \/ \E u \in Thread : frames'[c][u].at = "stop"
              \/ t = TimerOf[state[c]] /\ state[c] # "Closed"
    BY <1>1, <1>3 DEF SerialAt, Moved
  <2>5. \A t, u \in Timer : timers'[t] = c /\ timers'[u] = c => t = u
    BY <1>1, <1>3 DEF SerialAt
  <2> QED BY <1>1, <1>3, <2>1, <2>2, <2>3, <2>4, <2>5 DEF SerialAt
<1>4. CASE TransitionTo(c, th)
  <2>1. state' = state /\ closing' = closing /\ closes' = closes /\ timers' = timers
        /\ frames[c][th].at = "compare"
    BY <1>4 DEF TransitionTo, OnlyFrame, At
  <2>2. CASE state[c] = frames[c][th].to /\ frames[c][th].depth = 0
    BY <1>3, <1>4, <2>1, <2>2, FrameReturns DEF TransitionTo
  <2>3. CASE state[c] = frames[c][th].to /\ frames[c][th].depth # 0
    <3>1. Inside(c, th) /\ frames[c][th].depth = 1
      BY <1>0, <1>2, <2>3 DEF Own, Inside
    <3>2. Moved(c, th, "check", frames[c][th].to, 0)
      BY <1>4, <2>3, <3>1, FrameReturns DEF TransitionTo
    <3> QED BY <1>3, <2>1, <2>3, <3>1, <3>2
  <2>4. CASE state[c] # frames[c][th].to
    <3>1. frames[c][th].depth = 0
      BY <1>0, <1>2, <2>4 DEF Own, Inside
    <3>2. Moved(c, th, "write", frames[c][th].to, 0)
      BY <1>4, <2>4, <3>1, FrameMoves DEF TransitionTo
    <3> QED BY <1>3, <2>1, <3>2
  <2> QED BY <2>2, <2>3, <2>4
<1>5. CASE WritesState(c, th)
  <2>1. frames[c][th].at = "write" /\ frames[c][th].depth = 0
    BY <1>0, <1>2, <1>5 DEF WritesState, At, Own, Inside
  <2>2. \A u \in Thread \ {th} : ~Inside(c, u)
    BY <1>1, <1>5 DEF WritesState, TypeOK
  <2>3. Moved(c, th, "stop", frames[c][th].to, 0)
    BY <1>5, <2>1, FrameMoves DEF WritesState
  <2>4. state'[c] = frames[c][th].to
    BY <1>5 DEF WritesState, TypeOK
  <2>5. \A u \in Thread : Own(c, u)'
    BY <2>2, <2>3, <2>4 DEF Own, Inside, Moved
  <2>6. \A u \in Thread :
           /\ frames'[c][u].to # "Finalize"
           /\ frames'[c][u].at = "idle" => frames'[c][u].depth = 0
           /\ u # "timer" => frames'[c][u].to # "WaitAliveCheckResponse"
           /\ InClose(c, u)' => frames'[c][u].to = "Closed"
    BY <1>1, <1>5, <2>3 DEF SerialAt, Moved, InClose, WritesState
  <2> QED BY <1>1, <1>5, <2>3, <2>4, <2>5, <2>6 DEF SerialAt, WritesState, Moved
\* Past the write the thread is the only one inside.
<1>6. ASSUME frames[c][th].at \notin {"idle", "compare", "write"}
      PROVE  /\ Inside(c, th) /\ frames[c][th].to = state[c] /\ frames[c][th].depth = 0
             /\ frames[c][th].at # "stop" =>
                   \A t \in Timer : timers[t] = c => t = TimerOf[state[c]] /\ state[c] # "Closed"
  <2>1. Inside(c, th) /\ frames[c][th].to = state[c] /\ frames[c][th].depth = 0
    BY <1>0, <1>2, <1>6 DEF Own, Inside
  <2>2. \A u \in Thread \ {th} : frames[c][u].at # "stop"
    BY <1>2, <2>1 DEF Own, Inside
  <2> QED BY <1>1, <2>1, <2>2 DEF SerialAt
<1>7. CASE StartStateTimerStops(c, th)
  <2>1. frames[c][th].at = "stop" /\ Moved(c, th, "duration", frames[c][th].to, frames[c][th].depth)
    BY <1>7, FrameMoves DEF StartStateTimerStops, At
  <2>2. \A t \in Timer : timers'[t] # c
    BY <1>7, ConnAssumption DEF StartStateTimerStops, StopAll, NoTimers
  <2> QED BY <1>3, <1>6, <1>7, <2>1, <2>2 DEF StartStateTimerStops
<1>8. CASE StartStateTimerReadsDuration(c, th)
  <2>1. frames[c][th].at = "duration" /\ state' = state /\ closing' = closing
        /\ closes' = closes /\ timers' = timers
    BY <1>8 DEF StartStateTimerReadsDuration, At, OnlyFrame
  <2>2. CASE state[c] \in Untimed
    <3>1. state[c] = "Closed"
      BY <1>1, <2>2 DEF SerialAt, Untimed
    <3>2. Moved(c, th, "compare", "Closed", 1)
      BY <1>6, <1>8, <2>1, <2>2, <3>1, FrameReturns DEF AfterTimeout, Untimed
    <3> QED BY <1>3, <1>6, <2>1, <3>1, <3>2
  <2>3. CASE state[c] \notin Untimed
    <3>1. Moved(c, th, "timer", frames[c][th].to, 0) /\ state[c] # "Closed"
      BY <1>6, <1>8, <2>1, <2>3, FrameReturns DEF Untimed
    <3> QED BY <1>3, <1>6, <2>1, <3>1
  <2> QED BY <2>2, <2>3
<1>9. CASE StartStateTimerReadsTimer(c, th)
  <2>1. frames[c][th].at = "timer" /\ Moved(c, th, "add", state[c], frames[c][th].depth)
        /\ state' = state /\ closing' = closing /\ closes' = closes /\ timers' = timers
    BY <1>9, FrameMoves DEF StartStateTimerReadsTimer, At, OnlyFrame
  <2>2. state[c] # "Closed"
    BY <1>2, <1>6, <2>1 DEF Own
  <2> QED BY <1>3, <1>6, <2>1, <2>2
<1>10. CASE StartStateTimerAdds(c, th)
  <2>1. frames[c][th].at = "add" /\ Moved(c, th, "check", frames[c][th].to, frames[c][th].depth)
        /\ state' = state /\ closing' = closing /\ closes' = closes
    BY <1>10, FrameMoves DEF StartStateTimerAdds, At
  <2>2. state[c] # "Closed"
    BY <1>2, <1>6, <2>1 DEF Own
  <2>3. \A t \in Timer : timers'[t] = c => t = TimerOf[state[c]]
    BY <1>6, <1>10, <2>1 DEF StartStateTimerAdds, TypeOK
  <2> QED BY <1>3, <1>6, <2>1, <2>2, <2>3
<1>11. CASE ChecksEnterHandler(c, th)
  <2>1. frames[c][th].at = "check"
        /\ state' = state /\ closing' = closing /\ closes' = closes /\ timers' = timers
    BY <1>11 DEF ChecksEnterHandler, At, OnlyFrame
  <2>2. CASE state[c] \in Counting
    BY <1>3, <1>6, <1>11, <2>1, <2>2, FrameMoves DEF ChecksEnterHandler
  <2>3. CASE state[c] \notin Counting
    BY <1>3, <1>6, <1>11, <2>1, <2>3, FrameReturns DEF ChecksEnterHandler
  <2> QED BY <2>2, <2>3
<1>12. CASE FetchesEnterHandler(c, th)
  <2>1. frames[c][th].at = "fetch" /\ Moved(c, th, "enter", state[c], frames[c][th].depth)
        /\ state' = state /\ closing' = closing /\ closes' = closes /\ timers' = timers
    BY <1>12, FrameMoves DEF FetchesEnterHandler, At, OnlyFrame
  <2>2. state[c] \in Counting
    BY <1>2, <1>6, <2>1 DEF Own
  <2> QED BY <1>3, <1>6, <2>1, <2>2
<1>13. CASE CallsEnterHandler(c, th)
  <2>1. frames[c][th].at = "enter"
        /\ state' = state /\ closing' = closing /\ closes' = closes /\ timers' = timers
    BY <1>13 DEF CallsEnterHandler, At
  <2> QED BY <1>3, <1>6, <1>13, <2>1, FrameReturns DEF CallsEnterHandler
<1>14. ~CallsEmptyEnterHandler(c, th)
  BY <1>2, <1>6 DEF CallsEmptyEnterHandler, At, Own
<1> QED
  BY <1>4, <1>5, <1>7, <1>8, <1>9, <1>10, <1>11, <1>12, <1>13, <1>14 DEF TransitionStep

\* A thread that calls transitionTo, or none, keeps SerialAt as long as it is
\* idle and the one that closes calls it for Closed only.
LEMMA SerialCall ==
    ASSUME TypeOK, NEW c \in Conn, SerialAt(c), NEW th \in Thread, NEW s \in State,
           \/ frames' = frames /\ \A u \in Thread : InClose(c, u)' => InClose(c, u)
           \/ /\ Call(c, th, s) /\ Idle(c, th)
              /\ s # "Finalize" /\ (th # "timer" => s # "WaitAliveCheckResponse")
              /\ InClose(c, th)' => s = "Closed"
              /\ \A u \in Thread \ {th} : InClose(c, u)' => InClose(c, u),
           state'[c] = state[c], overtakes'[c] = overtakes[c],
           closing'[c].at = "done" => closes'[c] = 1 \/ closing[c].at = "done",
           closes[c] = 1 => closes'[c] = 1,
           \A t \in Timer : timers'[t] = c => timers[t] = c
    PROVE  SerialAt(c)'
<1> SUFFICES ASSUME overtakes[c] = 0 PROVE SerialAt(c)'
  BY DEF SerialAt
<1>1. frames' = frames \/ (Moved(c, th, "compare", s, 0) /\ Idle(c, th) /\ ~Inside(c, th))
  BY FrameMoves DEF SerialAt, Idle, Inside
<1>2. \A u \in Thread : Own(c, u)'
  BY <1>1 DEF SerialAt, Own, Inside, Moved
<1>3. \A u \in Thread :
           /\ frames'[c][u].to # "Finalize"
           /\ frames'[c][u].at = "idle" => frames'[c][u].depth = 0
           /\ u # "timer" => frames'[c][u].to # "WaitAliveCheckResponse"
  BY FrameMoves DEF SerialAt, Moved
<1>4. \A u \in Thread : InClose(c, u)' => frames'[c][u].to = "Closed"
  <2> SUFFICES ASSUME NEW u \in Thread, InClose(c, u)' PROVE frames'[c][u].to = "Closed"
    OBVIOUS
  <2>1. CASE frames' = frames /\ InClose(c, u)
    BY <2>1 DEF SerialAt
  <2>2. CASE Call(c, th, s) /\ u = th /\ s = "Closed"
    BY <2>2, FrameMoves DEF Moved
  <2>3. CASE Call(c, th, s) /\ u # th /\ InClose(c, u)
    BY <2>3, FrameMoves DEF Moved, SerialAt
  <2> QED BY <2>1, <2>2, <2>3
<1>5. \A t \in Timer : timers'[t] = c =>
              \/ \E u \in Thread : frames'[c][u].at = "stop"
              \/ t = TimerOf[state[c]] /\ state[c] # "Closed"
  BY <1>1 DEF SerialAt, Moved, Idle
<1> QED BY <1>2, <1>3, <1>4, <1>5 DEF SerialAt

\* A step of a connection keeps its SerialAt.
LEMMA SerialLocal ==
    ASSUME TypeOK, NEW c \in Conn, StartedAt(c), CloseAt(c), SerialAt(c), StepOf(c)
    PROVE  SerialAt(c)'
<1> USE DEF machineVars, threadVars, timerVars, envVars, historyVars
<1>0. /\ closing[c].by \in {"handler", "timer"}
      /\ hpc[c] \notin {"closing", "leaving"} => ~InClose(c, "handler")
  BY DEF TypeOK, Close, CloseAt
<1>1. CASE \E th \in Thread : TransitionStep(c, th)
  BY <1>1, SerialTransition DEF SerialAt
<1>2. ASSUME NEW th \in {"handler", "timer"}, CloseStep(c, th) PROVE SerialAt(c)'
  <2>1. CASE CloseStopsTimers(c, th)
    <3>1. closing'[c].at = "transport" /\ closing'[c].by = closing[c].by
      BY <2>1 DEF CloseStopsTimers, TypeOK, Close
    <3> QED BY <2>1, <3>1, SerialCall, ConnAssumption
            DEF CloseStopsTimers, StopAll, NoTimers, InClose, State, Thread
  <2>2. CASE CloseClosesTransport(c, th)
    <3>1. closing'[c].at = "notify" /\ closing'[c].by = closing[c].by
      BY <2>2 DEF CloseClosesTransport, TypeOK, Close
    <3> QED BY <2>2, <3>1, SerialCall DEF CloseClosesTransport, InClose, State, Thread
  <2>3. CASE CloseNotifies(c, th)
    <3>1. closing'[c].at = "done" /\ closes'[c] = 1
      BY <2>3 DEF CloseNotifies, CloseReturns, TypeOK, Close, CloseAt
    <3> QED BY <2>3, <3>1, SerialCall DEF CloseNotifies, InClose, State, Thread
  <2> QED BY <1>2, <2>1, <2>2, <2>3 DEF CloseStep
<1>3. CASE Accept(c)
  <2>1. /\ \A t \in Timer : timers[t] # c
        /\ \A th \in Thread : frames[c][th] = NoFrame
        /\ closing[c] = NoClose
    BY <1>3 DEF Accept, StartedAt
  <2>2. Moved(c, "handler", "stop", "WaitRoutingActivation", 0)
    <3> DEFINE f == [at |-> "stop", to |-> "WaitRoutingActivation", depth |-> 0]
    <3>1. frames' = [frames EXCEPT ![c]["handler"] = f]
      BY <1>3 DEF Accept
    <3>2. Moved(c, "handler", f.at, f.to, f.depth)
      BY <3>1, FrameReplaced DEF Thread
    <3> QED BY <3>2
  <2>3. state'[c] = "WaitRoutingActivation"
    BY <1>3 DEF Accept, TypeOK
  <2>4. \A th \in Thread : Own(c, th)'
    BY <2>1, <2>2, <2>3 DEF Own, Inside, Moved, NoFrame
  <2> QED BY <1>3, <2>1, <2>2, <2>3, <2>4
          DEF Accept, SerialAt, Moved, NoFrame, NoClose, InClose, Thread
<1>4. CASE \/ Opened(c) \/ EnterReceive(c) \/ \E m \in Message : ReceiveMessage(c, m)
           \/ DispatchClosed(c) \/ RoutedDiagnostic(c)
           \/ TimeoutUserDefined(c) \/ UseOfDestroyed(c) \/ PeerLeaves(c)
  <2>1. UNCHANGED <<state, overtakes, frames, closing, closes, timers>>
    BY <1>4 DEF Opened, EnterReceive, ReceiveMessage, DispatchClosed, RoutedDiagnostic,
                TimeoutUserDefined, UseOfDestroyed, PeerLeaves
  <2> QED BY <2>1, SerialCall DEF InClose, State, Thread
\* The handler thread calls transitionTo outside closeConnection.
<1>5. ASSUME NEW s \in {"RoutingActivated", "WaitDownstreamResponse", "Closed"},
             Call(c, "handler", s) \/ UNCHANGED frames, HandlerAt(c, hpc[c]),
             hpc[c] \notin {"closing", "leaving"},
             UNCHANGED <<state, overtakes, closing, closes, timers>>
      PROVE  SerialAt(c)'
  BY <1>0, <1>5, SerialCall DEF HandlerAt, InClose, State, Thread
\* A thread begins to close.
<1>6. ASSUME NEW th \in {"handler", "timer"}, NEW r, BeginClose(c, th, r), Idle(c, th),
             ~AlreadyClosing(c), UNCHANGED <<state, overtakes, closes, timers>>
      PROVE  SerialAt(c)'
  <2>1. closing'[c].at = "state" /\ closing'[c].by = th
    BY <1>6 DEF BeginClose, TypeOK
  <2> QED BY <1>6, <2>1, SerialCall DEF BeginClose, InClose, State, Thread
<1>7. CASE ReceiveRefused(c) \/ ReceiveFails(c) \/ LoopEnds(c)
  <2>1. PICK r \in Reason : LeaveLoop(c, r)
    BY <1>7 DEF ReceiveRefused, ReceiveFails, LoopEnds, Reason
  <2>2. HandlerAt(c, hpc[c]) /\ hpc[c] \notin {"closing", "leaving"}
    BY <1>7 DEF ReceiveRefused, ReceiveFails, LoopEnds, HandlerAt
  <2> QED BY <1>5, <1>6, <2>1, <2>2 DEF LeaveLoop, HandlerAt
<1>8. CASE Dispatch(c)
  <2>1. /\ Call(c, "handler", "Closed") \/ UNCHANGED frames
        /\ HandlerAt(c, hpc[c]) /\ hpc[c] = "dispatch"
        /\ UNCHANGED <<state, overtakes, closing, closes, timers>>
    BY <1>8 DEF Dispatch, HandlerAt
  <2> QED BY <1>5, <2>1
<1>9. ASSUME HandlerCloses(c, "InvalidMessage"), HandlerAt(c, hpc[c]),
             hpc[c] \notin {"closing", "leaving"}
      PROVE  SerialAt(c)'
  BY <1>5, <1>6, <1>9 DEF HandlerCloses, HandlerAt
<1>10. CASE HandleWaitRoutingActivation(c) \/ RoutedRejects(c)
  <2>1. HandlerAt(c, hpc[c]) /\ hpc[c] \in {"waitRouting", "routed"}
    BY <1>10 DEF HandleWaitRoutingActivation, RoutedRejects, HandlerAt
  <2>2. CASE ~HandlerCloses(c, "InvalidMessage")
    <3>1. /\ Call(c, "handler", "RoutingActivated") \/ UNCHANGED frames
          /\ UNCHANGED <<state, overtakes, closing, closes, timers>>
      BY <1>10, <2>2 DEF HandleWaitRoutingActivation, GrantRouting, RoutedRejects
    <3> QED BY <1>5, <2>1, <3>1
  <2> QED BY <1>9, <2>1, <2>2
<1>11. CASE RoutedAnswers(c) \/ RoutedForwards(c) \/ HandleWaitAliveCheckResponse(c)
  <2>1. /\ HandlerAt(c, hpc[c]) /\ hpc[c] \in {"answer", "forward", "aliveCheck"}
        /\ UNCHANGED <<state, overtakes, closing, closes, timers>>
    BY <1>11 DEF RoutedAnswers, RoutedForwards, HandleWaitAliveCheckResponse, HandlerAt
  <2>2. \E s \in {"RoutingActivated", "WaitDownstreamResponse"} :
           Call(c, "handler", s) \/ UNCHANGED frames
    BY <1>11 DEF RoutedAnswers, RoutedForwards, HandleWaitAliveCheckResponse
  <2> QED BY <1>5, <2>1, <2>2
<1>12. ASSUME NEW t, TakeCallback(t, c) PROVE ~InClose(c, "timer") /\ Idle(c, "timer")
  BY <1>12, ConnAssumption DEF TakeCallback, TimerThreadFree, CloseAt
<1>13. ASSUME NEW r, TimerCloses(c, r), Idle(c, "timer"),
              UNCHANGED <<state, overtakes, closes, timers>>
       PROVE  SerialAt(c)'
  <2>1. CASE AlreadyClosing(c)
    BY <1>13, <2>1, SerialCall DEF TimerCloses, InClose, State, Thread
  <2>2. CASE ~AlreadyClosing(c)
    BY <1>6, <1>13, <2>2 DEF TimerCloses
  <2> QED BY <2>1, <2>2
<1>14. CASE TimeoutInitialInactivity(c)
  BY <1>12, <1>13, <1>14 DEF TimeoutInitialInactivity
<1>15. CASE TimerGivesUp(c)
  BY <1>13, <1>15 DEF TimerGivesUp
<1>16. CASE TimeoutGeneralInactivity(c) \/ TimeoutAliveCheck(c)
  <2>1. ~InClose(c, "timer") /\ Idle(c, "timer")
    BY <1>12, <1>16 DEF TimeoutGeneralInactivity, TimeoutAliveCheck
  <2>2. /\ Call(c, "timer", "WaitAliveCheckResponse") \/ UNCHANGED frames
        /\ UNCHANGED <<state, overtakes, closing, closes, timers>>
    BY <1>16 DEF TimeoutGeneralInactivity, TimeoutAliveCheck
  <2> QED BY <2>1, <2>2, SerialCall DEF InClose, State, Thread
<1>17. CASE ReceiveDownstreamResponse(c)
  <2>1. ~InClose(c, "worker")
    BY <1>0 DEF InClose
  <2> QED BY <1>17, <2>1, SerialCall DEF ReceiveDownstreamResponse, InClose, State, Thread
<1> QED
  BY <1>1, <1>2, <1>3, <1>4, <1>7, <1>8, <1>10, <1>11, <1>14, <1>15, <1>16, <1>17 DEF StepOf

\* Every step keeps SerialInv.
LEMMA SerialStep ==
    TypeOK /\ StartedInv /\ CloseInv /\ SerialInv /\ [Next]_vars => SerialInv'
<1> SUFFICES ASSUME TypeOK, StartedInv, CloseInv, SerialInv, [Next]_vars, NEW d \in Conn
             PROVE  SerialAt(d)'
  BY DEF SerialInv
<1>1. ASSUME NEW c \in Conn, StepOf(c) PROVE SerialAt(d)'
  <2>1. CASE c = d
    BY <1>1, <2>1, SerialLocal DEF StartedInv, CloseInv, SerialInv
  <2>2. CASE c # d
    BY <1>1, <2>2, StepFrame, UntouchedKeeps DEF CloseInv, SerialInv
  <2> QED BY <2>1, <2>2
<1>2. CASE \E expired \in SUBSET Timer : CollectExpired(expired)
  BY <1>2, CollectKeeps DEF SerialInv
<1>3. CASE Stop \/ UNCHANGED vars
  BY <1>3 DEF Stop, SerialInv, SerialAt, Own, Inside, InClose, vars, machineVars, threadVars,
              timerVars, historyVars
<1> QED BY <1>1, <1>2, <1>3, NextCases

\* The serial invariant holds in every reachable state.
LEMMA SerialReached == Spec => []SerialInv
<1>1. TypeOK /\ StartedInv /\ CloseInv /\ SerialInv /\ [Next]_vars => SerialInv'
  BY SerialStep
<1>2. Init => SerialInv
  BY InvInit
<1> QED BY <1>1, <1>2, CloseReached, PTL DEF Spec

\* With no thread inside transitionTo, every armed timer is that of the state
\* of its connection, unless a thread was overtaken there: NoStrayTimer, for
\* any number of connections that share the manager.
THEOREM TimersMatchState == Spec => []NoStrayTimer
<1>1. TypeOK /\ SerialInv => NoStrayTimer
  <2> SUFFICES ASSUME TypeOK, SerialInv, NEW t \in Timer, timers[t] # NoConn, Settled(timers[t])
               PROVE  state[timers[t]] \notin Untimed /\ t = TimerOf[state[timers[t]]]
    BY DEF NoStrayTimer
  <2> DEFINE c == timers[t]
  <2>1. c \in Conn /\ overtakes[c] = 0 /\ \A th \in Thread : ~Inside(c, th)
    BY DEF TypeOK, Settled
  <2>2. \A th \in Thread : frames[c][th].at # "stop"
    BY <2>1 DEF Inside
  <2> QED BY <2>1, <2>2 DEF SerialInv, SerialAt, Untimed
<1> QED BY <1>1, TypeCorrect, SerialReached, PTL

\* onCloseConnection is called exactly once, whoever closes: ClosedExactlyOnce.
THEOREM CloseNotifiedOnce == Spec => []ClosedExactlyOnce
<1>1. TypeOK /\ CloseInv /\ SerialInv => ClosedExactlyOnce
  <2> SUFFICES ASSUME TypeOK, CloseInv, SerialInv, NEW c \in Conn
               PROVE  /\ closes[c] <= 1
                      /\ closes[c] = 1 => AlreadyClosing(c) /\ ~isOpen[c]
                      /\ AlreadyClosing(c) /\ closes[c] = 0 =>
                            \/ InClose(c, "timer") /\ tpc = c
                            \/ InClose(c, "handler") /\ hpc[c] \in {"closing", "leaving"}
                            \/ overtakes[c] > 0
    BY DEF ClosedExactlyOnce
  <2>1. /\ closing[c].at \in ClosePc /\ closing[c].by \in {"handler", "timer"}
        /\ overtakes[c] \in Nat
    BY DEF TypeOK, Close
  <2> QED BY <2>1 DEF CloseInv, CloseAt, SerialInv, SerialAt, InClose, ClosePc
<1> QED BY <1>1, CloseReached, SerialReached, PTL

-----------------------------------------------------------------------------
(***************************************************************************)
(* The alive check counter.                                                *)
(***************************************************************************)

\* A step that neither counts nor writes m_state, and after which the threads
\* inside transitionTo are the same, keeps RetryAt, provided the timer thread
\* takes no new work without a count left.
LEMMA RetryKeeps ==
    ASSUME NEW c \in Conn, RetryAt(c), overtakes[c] = 0, retry'[c] = retry[c],
           state'[c] = state[c],
           Resetting(c) => Resetting(c)',
           timers'["GeneralInactivity"] = c =>
               timers["GeneralInactivity"] = c \/ Resetting(c)',
           collected' \subseteq collected,
           \A t \in Timer : <<t, c>> \in collected' => tpc' # c /\ frames'[c]["timer"].at = "idle",
           frames'[c]["timer"].to = "WaitAliveCheckResponse" /\ frames'[c]["timer"].at # "idle" =>
               \/ frames[c]["timer"].to = "WaitAliveCheckResponse" /\ ~Idle(c, "timer")
               \/ retry[c] < RetryLimit \/ Resetting(c)
    PROVE  RetryAt(c)'
<1>1. retry'[c] = 0 \/ Resetting(c)' \/ ~(retry[c] = 0 \/ Resetting(c))
  OBVIOUS
<1> QED BY <1>1 DEF RetryAt, RetryLimit, Idle

\* A step inside transitionTo keeps RetryAt.
LEMMA RetryTransition ==
    ASSUME TypeOK, NEW c \in Conn, SerialAt(c), RetryAt(c), NEW th \in Thread,
           TransitionStep(c, th), overtakes'[c] = 0
    PROVE  RetryAt(c)'
<1> USE DEF machineVars, threadVars, timerVars, envVars, historyVars
<1>0. /\ frames[c][th].at # "idle" /\ frames[c][th].depth \in Nat /\ retry[c] \in Nat
      /\ RetryLimit \in Nat \ {0}
  <2>1. frames[c][th] \in Frame
    BY FrameType
  <2> QED
    BY <2>1, RetryAssumption
    DEF TransitionStep, TransitionTo, WritesState, StartStateTimerStops,
         StartStateTimerReadsDuration, StartStateTimerReadsTimer, StartStateTimerAdds,
         ChecksEnterHandler, FetchesEnterHandler, CallsEnterHandler,
         CallsEmptyEnterHandler, At, Frame, TypeOK, RetryLimit
<1>1. overtakes[c] = 0
  BY DEF TransitionStep, TransitionTo, WritesState, StartStateTimerStops,
         StartStateTimerReadsDuration, StartStateTimerReadsTimer, StartStateTimerAdds,
         ChecksEnterHandler, FetchesEnterHandler, CallsEnterHandler,
         CallsEmptyEnterHandler, OnlyFrame, TypeOK
<1>2. Own(c, th) /\ \A u \in Thread \ {th} : Own(c, u)
  BY <1>1 DEF SerialAt
<1>3. \A t \in Timer : <<t, c>> \in collected => th # "timer" /\ tpc # c /\ Idle(c, "timer")
  BY <1>0, <1>1 DEF RetryAt, Idle
\* Most steps only move the frame.
<1>4. ASSUME NEW a, NEW s, NEW n, Moved(c, th, a, s, n), retry'[c] = retry[c],
             state'[c] = state[c], collected' = collected, tpc' = tpc,
             \/ timers'["GeneralInactivity"] = timers["GeneralInactivity"]
             \/ timers'["GeneralInactivity"] # c
             \/ state[c] = "RoutingActivated" /\ a \notin {"idle", "compare", "write"},
             \/ ~Inside(c, th) \/ state[c] # "RoutingActivated"
             \/ a \notin {"idle", "compare", "write"} \/ n > 0,
             s \in {"Closed", frames[c][th].to}
      PROVE  RetryAt(c)'
  <2>1. Resetting(c) => Resetting(c)'
    BY <1>4 DEF Resetting, Inside, Moved
  <2>2. timers'["GeneralInactivity"] = c =>
           timers["GeneralInactivity"] = c \/ Resetting(c)'
    BY <1>4 DEF Resetting, Inside, Moved
  <2>3. \A t \in Timer : <<t, c>> \in collected' => tpc' # c /\ frames'[c]["timer"].at = "idle"
    BY <1>3, <1>4 DEF Moved, Idle, Thread
  <2>4. frames'[c]["timer"].to = "WaitAliveCheckResponse" =>
           /\ frames[c]["timer"].to = "WaitAliveCheckResponse"
           /\ frames'[c]["timer"].at # "idle" => ~Idle(c, "timer")
    BY <1>0, <1>4 DEF Moved, Idle, Thread
  <2> QED BY <1>1, <1>4, <2>1, <2>2, <2>3, <2>4, RetryKeeps
<1>5. ASSUME frames[c][th].at \notin {"idle", "compare", "write"}
      PROVE  /\ Inside(c, th) /\ frames[c][th].to = state[c] /\ frames[c][th].depth = 0
             /\ frames[c][th].at # "stop" =>
                   \A t \in Timer : timers[t] = c => t = TimerOf[state[c]]
  <2>1. Inside(c, th) /\ frames[c][th].to = state[c] /\ frames[c][th].depth = 0
    BY <1>0, <1>2, <1>5 DEF Own, Inside
  <2>2. \A u \in Thread \ {th} : frames[c][u].at # "stop"
    BY <1>2, <2>1 DEF Own, Inside
  <2> QED BY <1>1, <2>1, <2>2 DEF SerialAt
<1>6. CASE TransitionTo(c, th)
  <2>1. /\ UNCHANGED <<retry, state, collected, tpc, timers>>
        /\ frames[c][th].at = "compare"
    BY <1>6 DEF TransitionTo, OnlyFrame, At
  <2>2. CASE state[c] = frames[c][th].to /\ frames[c][th].depth = 0
    BY <1>4, <1>6, <2>1, <2>2, FrameReturns DEF TransitionTo, Inside
  <2>3. CASE state[c] = frames[c][th].to /\ frames[c][th].depth # 0
    BY <1>4, <1>6, <2>1, <2>3, FrameReturns DEF TransitionTo
  <2>4. CASE state[c] # frames[c][th].to
    <3>1. ~Inside(c, th)
      BY <1>2, <2>4 DEF Own
    <3> QED BY <1>4, <1>6, <2>1, <2>4, <3>1, FrameMoves DEF TransitionTo
  <2> QED BY <2>2, <2>3, <2>4
<1>7. CASE WritesState(c, th)
  <2>1. frames[c][th].at = "write" /\ frames[c][th].depth = 0 /\ ~Inside(c, th)
    BY <1>0, <1>2, <1>7 DEF WritesState, At, Own, Inside
  <2>2. ~Resetting(c)
    BY <1>1, <1>7, <2>1 DEF WritesState, TypeOK, Resetting
  <2>3. Moved(c, th, "stop", frames[c][th].to, 0)
    BY <1>7, <2>1, FrameMoves DEF WritesState
  <2>4. state'[c] = frames[c][th].to /\ UNCHANGED <<retry, collected, tpc, timers>>
    BY <1>7 DEF WritesState, TypeOK
  <2>5. state'[c] = "RoutingActivated" => Resetting(c)'
    BY <2>3, <2>4 DEF Resetting, Inside, Moved
  <2>6. \A t \in Timer : <<t, c>> \in collected' => tpc' # c /\ frames'[c]["timer"].at = "idle"
    BY <1>3, <2>3, <2>4 DEF Moved, Idle, Thread
  <2>7. frames'[c]["timer"].to = "WaitAliveCheckResponse" /\ frames'[c]["timer"].at # "idle"
           => retry[c] < RetryLimit
    BY <1>0, <1>1, <2>2, <2>3 DEF RetryAt, Moved, Idle, Thread
  <2> QED BY <1>1, <2>2, <2>4, <2>5, <2>6, <2>7 DEF RetryAt, Idle
<1>8. CASE StartStateTimerStops(c, th)
  <2>1. timers'["GeneralInactivity"] # c
    BY <1>8, ConnAssumption DEF StartStateTimerStops, StopAll, NoTimers, Timer
  <2> QED BY <1>4, <1>8, <2>1, FrameMoves DEF StartStateTimerStops, At
<1>9. CASE StartStateTimerReadsDuration(c, th)
  <2>1. frames[c][th].at = "duration" /\ UNCHANGED <<retry, state, collected, tpc, timers>>
    BY <1>9 DEF StartStateTimerReadsDuration, At, OnlyFrame
  <2>2. CASE state[c] \in Untimed
    <3>1. state[c] = "Closed"
      BY <1>1, <2>2 DEF SerialAt, Untimed
    <3>2. Moved(c, th, "compare", "Closed", 1)
      BY <1>5, <1>9, <2>1, <2>2, <3>1, FrameReturns DEF AfterTimeout, Untimed
    <3> QED BY <1>4, <2>1, <3>1, <3>2
  <2>3. CASE state[c] \notin Untimed
    BY <1>4, <1>9, <2>1, <2>3, FrameReturns
  <2> QED BY <2>2, <2>3
<1>10. CASE StartStateTimerReadsTimer(c, th) \/ FetchesEnterHandler(c, th)
  <2>1. /\ frames[c][th].at \in {"timer", "fetch"}
        /\ UNCHANGED <<retry, state, collected, tpc, timers>>
    BY <1>10 DEF StartStateTimerReadsTimer, FetchesEnterHandler, At, OnlyFrame
  <2>2. \E a \in {"add", "enter"} : Moved(c, th, a, frames[c][th].to, frames[c][th].depth)
    BY <1>5, <1>10, <2>1, FrameMoves DEF StartStateTimerReadsTimer, FetchesEnterHandler
  <2> QED BY <1>4, <2>1, <2>2
<1>11. CASE StartStateTimerAdds(c, th)
  <2>1. frames[c][th].at = "add" /\ UNCHANGED <<retry, state, collected, tpc>>
        /\ Moved(c, th, "check", frames[c][th].to, frames[c][th].depth)
    BY <1>11, FrameMoves DEF StartStateTimerAdds, At
  <2>2. timers'["GeneralInactivity"] = timers["GeneralInactivity"]
           \/ TimerOf[state[c]] = "GeneralInactivity"
    BY <1>5, <1>11, <2>1 DEF StartStateTimerAdds, TypeOK
  <2>3. TimerOf[state[c]] = "GeneralInactivity" => state[c] = "RoutingActivated"
    BY DEF TimerOf, TypeOK, State
  <2> QED BY <1>4, <1>5, <2>1, <2>2, <2>3
<1>12. CASE ChecksEnterHandler(c, th)
  <2>1. frames[c][th].at = "check" /\ UNCHANGED <<retry, state, collected, tpc, timers>>
    BY <1>12 DEF ChecksEnterHandler, At, OnlyFrame
  <2>2. CASE state[c] \in Counting
    BY <1>4, <1>12, <2>1, <2>2, FrameMoves DEF ChecksEnterHandler
  <2>3. CASE state[c] \notin Counting
    BY <1>4, <1>5, <1>12, <2>1, <2>3, FrameReturns DEF ChecksEnterHandler, Counting
  <2> QED BY <2>2, <2>3
<1>13. CASE CallsEnterHandler(c, th)
  <2>1. frames[c][th].at = "enter" /\ UNCHANGED <<state, collected, tpc, timers>>
    BY <1>13 DEF CallsEnterHandler, At
  <2>2. Moved(c, th, "idle", "Closed", 0)
    BY <1>5, <1>13, <2>1, FrameReturns DEF CallsEnterHandler
  <2>3. \A t \in Timer : <<t, c>> \in collected' => tpc' # c /\ frames'[c]["timer"].at = "idle"
    BY <1>3, <2>1, <2>2 DEF Moved, Idle, Thread
  <2>4. CASE state[c] = "RoutingActivated"
    <3>1. retry'[c] = 0
      BY <1>5, <1>13, <2>1, <2>4 DEF CallsEnterHandler, EnterHandler, TypeOK
    <3> QED BY <1>0, <1>1, <2>1, <2>3, <3>1 DEF RetryAt, RetryLimit, Idle
  <2>5. CASE state[c] # "RoutingActivated"
    <3>1. state[c] = "WaitAliveCheckResponse" /\ frames[c][th].to = "WaitAliveCheckResponse"
      BY <1>5, <1>13, <2>1, <2>5 DEF CallsEnterHandler, Counting
    <3>2. th = "timer"
      BY <1>1, <3>1 DEF SerialAt
    <3>3. retry'[c] = retry[c] + 1 /\ retry[c] < RetryLimit
      BY <1>0, <1>1, <1>13, <3>1, <3>2
         DEF CallsEnterHandler, EnterHandler, TypeOK, RetryAt, Resetting, Idle
    <3>4. timers["GeneralInactivity"] # c
      BY <1>5, <2>1, <3>1 DEF Timer, TimerOf, State
    <3>5. \A t \in Timer : <<t, c>> \notin collected
      BY <1>3, <3>2
    <3>6. frames'[c]["timer"].at = "idle"
      BY <2>2, <3>2 DEF Moved
    <3> QED BY <1>0, <1>1, <2>1, <2>5, <3>3, <3>4, <3>5, <3>6 DEF RetryAt, Idle, Timer
  <2> QED BY <2>4, <2>5
<1>14. ~CallsEmptyEnterHandler(c, th)
  BY <1>2, <1>5 DEF CallsEmptyEnterHandler, At, Own
<1> QED
  BY <1>6, <1>7, <1>8, <1>9, <1>10, <1>11, <1>12, <1>13, <1>14 DEF TransitionStep

\* A step of a connection keeps its RetryAt.
LEMMA RetryLocal ==
    ASSUME TypeOK, NEW c \in Conn, StartedAt(c), CloseAt(c), SerialAt(c), RetryAt(c), StepOf(c),
           overtakes'[c] = 0
    PROVE  RetryAt(c)'
<1> USE DEF machineVars, threadVars, timerVars, envVars, historyVars
<1>0. RetryLimit \in Nat \ {0} /\ RetryCount \in Nat /\ RetryCount <= RetryLimit /\ retry[c] \in Nat
  BY RetryAssumption DEF RetryLimit, TypeOK
<1>1. CASE \E th \in Thread : TransitionStep(c, th)
  BY <1>1, RetryTransition
\* Only frames outside transitionTo change, and the timer thread's only for
\* closing or with a count left.
<1>2. ASSUME NEW th \in Thread, NEW s,
             \/ UNCHANGED frames
             \/ /\ Call(c, th, s) /\ Idle(c, th)
                /\ s = "WaitAliveCheckResponse" /\ th = "timer" =>
                      retry[c] < RetryLimit \/ Resetting(c),
             overtakes'[c] = overtakes[c], retry'[c] = retry[c], state'[c] = state[c],
             collected' \subseteq collected,
             timers' = timers \/ \A t \in Timer : timers'[t] # c,
             \/ tpc' = tpc /\ (th # "timer" \/ UNCHANGED frames)
             \/ tpc' = NoConn /\ UNCHANGED frames
             \/ \A t \in Timer : <<t, c>> \notin collected'
      PROVE  RetryAt(c)'
  <2>1. overtakes[c] = 0
    BY <1>2
  <2>2. frames' = frames \/ (Moved(c, th, "compare", s, 0) /\ ~Inside(c, th) /\ Idle(c, th))
    BY <1>2, <2>1, FrameMoves DEF SerialAt, Inside, Idle
  <2>3. Resetting(c) => Resetting(c)'
    BY <1>2, <2>2 DEF Resetting, Inside, Moved
  <2>4. \A t \in Timer : <<t, c>> \in collected' => tpc' # c /\ frames'[c]["timer"].at = "idle"
    BY <1>2, <2>1, <2>2, ConnAssumption DEF RetryAt, Moved, Idle, Thread
  <2>5. frames'[c]["timer"].to = "WaitAliveCheckResponse" /\ frames'[c]["timer"].at # "idle" =>
               \/ frames[c]["timer"].to = "WaitAliveCheckResponse" /\ ~Idle(c, "timer")
               \/ retry[c] < RetryLimit \/ Resetting(c)
    <3>1. CASE UNCHANGED frames
      BY <3>1 DEF Idle
    <3>2. CASE /\ Call(c, th, s) /\ Idle(c, th)
               /\ s = "WaitAliveCheckResponse" /\ th = "timer" =>
                      retry[c] < RetryLimit \/ Resetting(c)
      BY <3>2, FrameMoves DEF Moved, Idle, Thread
    <3> QED BY <1>2, <3>1, <3>2
  <2>6. timers'["GeneralInactivity"] = c => timers["GeneralInactivity"] = c
    BY <1>2 DEF Timer
  <2> QED BY <1>2, <2>1, <2>3, <2>4, <2>5, <2>6, RetryKeeps
<1>3. ASSUME NEW th \in {"handler", "timer"}, CloseStep(c, th) PROVE RetryAt(c)'
  <2>1. CASE CloseStopsTimers(c, th)
    BY <1>2, <2>1, ConnAssumption DEF CloseStopsTimers, StopAll, NoTimers, Thread
  <2>2. CASE CloseClosesTransport(c, th)
    BY <1>2, <2>2 DEF CloseClosesTransport, Thread
  <2>3. CASE CloseNotifies(c, th)
    <3>1. tpc' \in {tpc, NoConn}
      BY <2>3 DEF CloseNotifies, CloseReturns
    <3> QED BY <1>2, <2>3, <3>1 DEF CloseNotifies, Thread
  <2> QED BY <1>3, <2>1, <2>2, <2>3 DEF CloseStep
<1>4. CASE Accept(c)
  <2>1. /\ \A t \in Timer : timers[t] # c /\ <<t, c>> \notin collected
        /\ \A th \in Thread : frames[c][th] = NoFrame
        /\ retry[c] = 0
    BY <1>4 DEF Accept, StartedAt
  <2>2. frames'[c]["timer"] = NoFrame
    BY <1>4, <2>1, FrameReplaced DEF Accept, Moved, Thread
  <2>3. state'[c] = "WaitRoutingActivation"
    BY <1>4 DEF Accept, TypeOK
  <2> QED BY <1>0, <1>4, <2>1, <2>2, <2>3 DEF Accept, RetryAt, NoFrame, Idle, Timer
<1>5. CASE \/ Opened(c) \/ EnterReceive(c) \/ \E m \in Message : ReceiveMessage(c, m)
           \/ DispatchClosed(c) \/ RoutedDiagnostic(c) \/ UseOfDestroyed(c) \/ PeerLeaves(c)
  <2>1. UNCHANGED <<state, retry, overtakes, frames, timers, collected, tpc>>
    BY <1>5 DEF Opened, EnterReceive, ReceiveMessage, DispatchClosed, RoutedDiagnostic,
                UseOfDestroyed, PeerLeaves
  <2> QED BY <1>2, <2>1 DEF Thread
\* The handler thread and the worker call transitionTo.
<1>6. ASSUME NEW th \in {"handler", "worker"}, NEW s, Call(c, th, s) \/ UNCHANGED frames,
             Idle(c, th), UNCHANGED <<state, retry, overtakes, timers, collected, tpc>>
      PROVE  RetryAt(c)'
  BY <1>2, <1>6 DEF Thread
<1>7. CASE ReceiveRefused(c) \/ ReceiveFails(c) \/ LoopEnds(c)
  <2>1. PICK r \in Reason : LeaveLoop(c, r)
    BY <1>7 DEF ReceiveRefused, ReceiveFails, LoopEnds, Reason
  <2>2. Idle(c, "handler")
    BY <1>7 DEF ReceiveRefused, ReceiveFails, LoopEnds, HandlerAt
  <2> QED BY <1>6, <2>1, <2>2 DEF LeaveLoop, BeginClose
<1>8. CASE Dispatch(c)
  BY <1>6, <1>8 DEF Dispatch, HandlerAt
<1>9. CASE HandleWaitRoutingActivation(c)
  BY <1>6, <1>9 DEF HandleWaitRoutingActivation, GrantRouting, HandlerCloses, BeginClose,
                    HandlerAt
<1>10. CASE RoutedRejects(c)
  BY <1>6, <1>10 DEF RoutedRejects, HandlerCloses, BeginClose, HandlerAt
<1>11. CASE RoutedAnswers(c) \/ RoutedForwards(c) \/ HandleWaitAliveCheckResponse(c)
  <2>1. Idle(c, "handler") /\ UNCHANGED <<state, retry, overtakes, timers, collected, tpc>>
    BY <1>11 DEF RoutedAnswers, RoutedForwards, HandleWaitAliveCheckResponse, HandlerAt
  <2>2. \E s \in {"RoutingActivated", "WaitDownstreamResponse"} :
           Call(c, "handler", s) \/ UNCHANGED frames
    BY <1>11 DEF RoutedAnswers, RoutedForwards, HandleWaitAliveCheckResponse
  <2> QED BY <1>6, <2>1, <2>2
<1>12. CASE ReceiveDownstreamResponse(c)
  BY <1>6, <1>12 DEF ReceiveDownstreamResponse
\* The timer thread takes the only callback of the connection.
<1>13. ASSUME NEW t \in Timer, TakeCallback(t, c)
       PROVE  /\ collected' \subseteq collected /\ Idle(c, "timer")
              /\ overtakes[c] = 0 => \A u \in Timer : <<u, c>> \notin collected'
              /\ overtakes[c] = 0 /\ t = "GeneralInactivity" =>
                    retry[c] < RetryLimit \/ Resetting(c)
  BY <1>0, <1>13 DEF TakeCallback, TimerThreadFree, RetryAt
<1>14. CASE TimeoutInitialInactivity(c)
  <2>1. collected' \subseteq collected /\ Idle(c, "timer")
        /\ (overtakes[c] = 0 => \A u \in Timer : <<u, c>> \notin collected')
    BY <1>13, <1>14 DEF TimeoutInitialInactivity, Timer
  <2>2. Call(c, "timer", "Closed") \/ UNCHANGED frames
    BY <1>14 DEF TimeoutInitialInactivity, TimerCloses, BeginClose
  <2> QED BY <1>2, <1>14, <2>1, <2>2 DEF TimeoutInitialInactivity, Thread
<1>15. CASE TimeoutGeneralInactivity(c)
  <2>1. collected' \subseteq collected /\ Idle(c, "timer")
        /\ (overtakes[c] = 0 => \A u \in Timer : <<u, c>> \notin collected')
        /\ (overtakes[c] = 0 => retry[c] < RetryLimit \/ Resetting(c))
    BY <1>13, <1>15 DEF TimeoutGeneralInactivity, Timer
  <2> QED BY <1>2, <1>15, <2>1 DEF TimeoutGeneralInactivity, Thread
<1>16. CASE TimeoutAliveCheck(c)
  <2>1. collected' \subseteq collected /\ Idle(c, "timer")
        /\ (overtakes[c] = 0 => \A u \in Timer : <<u, c>> \notin collected')
    BY <1>13, <1>16 DEF TimeoutAliveCheck, Timer
  <2>2. \/ Call(c, "timer", "WaitAliveCheckResponse") /\ retry[c] < RetryLimit
        \/ UNCHANGED frames
    BY <1>0, <1>16 DEF TimeoutAliveCheck, RetriesLeft
  <2> QED BY <1>2, <1>16, <2>1, <2>2 DEF TimeoutAliveCheck, Thread
<1>17. CASE TimerGivesUp(c)
  <2>1. Idle(c, "timer") /\ (overtakes[c] = 0 => \A u \in Timer : <<u, c>> \notin collected')
    BY <1>17 DEF TimerGivesUp, RetryAt
  <2>2. Call(c, "timer", "Closed") \/ UNCHANGED frames
    BY <1>17 DEF TimerGivesUp, TimerCloses, BeginClose
  <2> QED BY <1>2, <1>17, <2>1, <2>2 DEF TimerGivesUp, Thread
<1>18. CASE TimeoutUserDefined(c)
  BY <1>2, <1>13, <1>18 DEF TimeoutUserDefined, Timer, Thread
<1> QED
  BY <1>1, <1>3, <1>4, <1>5, <1>7, <1>8, <1>9, <1>10, <1>11, <1>12, <1>14, <1>15, <1>16,
     <1>17, <1>18 DEF StepOf

\* Every step keeps RetryInv.
LEMMA RetryStep ==
    TypeOK /\ StartedInv /\ CloseInv /\ SerialInv /\ RetryInv /\ [Next]_vars => RetryInv'
<1> SUFFICES ASSUME TypeOK, StartedInv, CloseInv, SerialInv, RetryInv, [Next]_vars, NEW d \in Conn
             PROVE  RetryAt(d)'
  BY DEF RetryInv
<1>1. ASSUME NEW c \in Conn, StepOf(c) PROVE RetryAt(d)'
  <2>1. CASE c = d
    <3>1. StartedAt(d) /\ CloseAt(d) /\ SerialAt(d) /\ RetryAt(d)
      BY DEF StartedInv, CloseInv, SerialInv, RetryInv
    <3>2. CASE overtakes'[d] = 0
      BY <1>1, <2>1, <3>1, <3>2, RetryLocal
    <3>3. CASE overtakes'[d] # 0
      BY <3>3 DEF RetryAt
    <3> QED BY <3>2, <3>3
  <2>2. CASE c # d
    BY <1>1, <2>2, StepFrame, UntouchedKeeps DEF CloseInv, RetryInv
  <2> QED BY <2>1, <2>2
<1>2. CASE \E expired \in SUBSET Timer : CollectExpired(expired)
  BY <1>2, CollectKeeps DEF SerialInv, RetryInv
<1>3. CASE Stop \/ UNCHANGED vars
  BY <1>3 DEF Stop, RetryInv, RetryAt, Resetting, Inside, Idle, vars, machineVars, threadVars,
              timerVars, historyVars
<1> QED BY <1>1, <1>2, <1>3, NextCases

\* The retry invariant holds in every reachable state.
LEMMA RetryReached == Spec => []RetryInv
<1>1. TypeOK /\ StartedInv /\ CloseInv /\ SerialInv /\ RetryInv /\ [Next]_vars => RetryInv'
  BY RetryStep
<1>2. Init => RetryInv
  BY InvInit
<1> QED BY <1>1, <1>2, CloseReached, SerialReached, PTL DEF Spec

\* The counter never exceeds what is configured, for every retry count, unless
\* a thread is overtaken inside transitionTo: RetryBounded.
THEOREM AliveCheckCounted == Spec => []RetryBounded
<1>1. RetryInv => RetryBounded
  BY DEF RetryInv, RetryAt, RetryLimit, RetryBounded
<1> QED BY <1>1, RetryReached, PTL
=============================================================================
