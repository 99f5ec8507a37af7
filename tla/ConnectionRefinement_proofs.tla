--------------------- MODULE ConnectionRefinement_proofs ---------------------
(***************************************************************************)
(* Connection implements ConnectionLifecycle, for any number of            *)
(* connections sharing the timer manager, any retry count and any          *)
(* downstream handler.  The timers of a connection that has the manager to *)
(* itself never fail it.  And the connections use the shared timer manager *)
(* within TimerInterface.                                                  *)
(***************************************************************************)
EXTENDS ConnectionRefinement, ConnectionSafety_proofs

\* A name for the test of m_isClosing, never worth hiding.
USE DEF AlreadyClosing

-----------------------------------------------------------------------------
(***************************************************************************)
(* The refinement.                                                         *)
(***************************************************************************)
barVars == <<phaseBar, clientBar, served, reasonBar>>

\* An update of a function at one point, shown pointwise.
LEMMA ExceptPointwise ==
    ASSUME NEW S, NEW f, NEW g, NEW c \in S,
           f = [x \in S |-> f[x]], g = [x \in S |-> g[x]],
           \A d \in S \ {c} : g[d] = f[d]
    PROVE  g = [f EXCEPT ![c] = g[c]]
  OBVIOUS

\* Two functions that agree everywhere.
LEMMA SamePointwise ==
    ASSUME NEW S, NEW f, NEW g,
           f = [x \in S |-> f[x]], g = [x \in S |-> g[x]], \A d \in S : g[d] = f[d]
    PROVE  g = f
  OBVIOUS

\* The mapped variables are functions on the connections.
LEMMA BarFunctions ==
    ASSUME TypeOK, TypeOK'
    PROVE  /\ phaseBar = [x \in Conn |-> phaseBar[x]]
           /\ clientBar = [x \in Conn |-> clientBar[x]]
           /\ served = [x \in Conn |-> served[x]]
           /\ reasonBar = [x \in Conn |-> reasonBar[x]]
           /\ phaseBar' = [x \in Conn |-> phaseBar'[x]]
           /\ clientBar' = [x \in Conn |-> clientBar'[x]]
           /\ served' = [x \in Conn |-> served'[x]]
           /\ reasonBar' = [x \in Conn |-> reasonBar'[x]]
  BY DEF phaseBar, clientBar, reasonBar, TypeOK

\* A connection that does not step is mapped to the same abstract state.
LEMMA UntouchedBars ==
    ASSUME NEW d \in Conn, Untouched(d)
    PROVE  /\ phaseBar'[d] = phaseBar[d] /\ clientBar'[d] = clientBar[d]
           /\ served'[d] = served[d] /\ reasonBar'[d] = reasonBar[d]
  BY DEF Untouched, phaseBar, clientBar, reasonBar, MessageInHand

\* How far a step of c moves the abstract phase.
LEMMA PhaseOf ==
    ASSUME NEW c \in Conn, hpc[c] # "none", closes[c] \in {0, 1}
    PROVE  /\ closes[c] = 0 => phaseBar[c] = "open"
           /\ closes[c] = 1 /\ MessageInHand(c) => phaseBar[c] = "last"
           /\ closes[c] = 1 /\ ~MessageInHand(c) => phaseBar[c] = "closed"
  BY DEF phaseBar

\* The same, after a step.
LEMMA NextPhaseOf ==
    ASSUME NEW c \in Conn, hpc'[c] # "none", closes'[c] \in {0, 1}
    PROVE  /\ closes'[c] = 0 => phaseBar'[c] = "open"
           /\ closes'[c] = 1 /\ MessageInHand(c)' => phaseBar'[c] = "last"
           /\ closes'[c] = 1 /\ ~MessageInHand(c)' => phaseBar'[c] = "closed"
  BY DEF phaseBar

\* What a step of c that activates nothing, hands nothing over and does not
\* notify a close does to it: the message in hand is discarded at most.
Uneventful(c) ==
    /\ clientAddr'[c] = clientAddr[c] /\ routed'[c] = routed[c] /\ closes'[c] = closes[c]
    /\ closes[c] = 1 /\ MessageInHand(c)' => MessageInHand(c)

\* Such a step is a step of the life cycle or does not show.
LEMMA UneventfulStep ==
    ASSUME TypeOK, TypeOK', CloseInv, NEW c \in Conn, \A d \in Conn \ {c} : Untouched(d),
           hpc[c] # "none", hpc'[c] # "none", Uneventful(c),
           closes[c] = 1 => closeReason'[c] = closeReason[c],
           served'[c] = served[c]
    PROVE  [Lifecycle!Next]_barVars
<1>0. closes[c] \in {0, 1}
  BY DEF CloseInv, CloseAt
<1>1. clientBar' = clientBar /\ served' = served /\ reasonBar' = reasonBar
  <2>1. \A d \in Conn : clientBar'[d] = clientBar[d] /\ served'[d] = served[d]
                        /\ reasonBar'[d] = reasonBar[d]
    BY <1>0, UntouchedBars DEF Uneventful, clientBar, reasonBar
  <2> QED BY <2>1, BarFunctions, SamePointwise
<1>2. phaseBar' = [phaseBar EXCEPT ![c] = phaseBar'[c]]
  BY UntouchedBars, BarFunctions, ExceptPointwise
<1>3. CASE closes[c] = 1 /\ MessageInHand(c) /\ ~MessageInHand(c)'
  <2>1. phaseBar[c] = "last" /\ phaseBar'[c] = "closed"
    BY <1>0, <1>3, PhaseOf, NextPhaseOf DEF Uneventful
  <2>2. Lifecycle!Discard(c)
    BY <1>1, <1>2, <2>1 DEF Lifecycle!Discard
  <2> QED BY <2>2 DEF Lifecycle!Next
<1>4. CASE ~(closes[c] = 1 /\ MessageInHand(c) /\ ~MessageInHand(c)')
  <2>1. phaseBar'[c] = phaseBar[c]
    BY <1>0, <1>4, PhaseOf, NextPhaseOf DEF Uneventful
  <2>2. \A d \in Conn : phaseBar'[d] = phaseBar[d]
    BY <2>1, UntouchedBars
  <2>3. phaseBar' = phaseBar
    BY <2>2, BarFunctions, SamePointwise
  <2> QED BY <1>1, <2>3 DEF barVars
<1> QED BY <1>3, <1>4

\* The steps that are no more than uneventful.
LEMMA UneventfulCases ==
    ASSUME TypeOK, NEW c \in Conn, CloseAt(c), RoutingAt(c), StepOf(c),
           ~Accept(c), ~(\E th \in {"handler", "timer"} : CloseNotifies(c, th)),
           ~(HandleWaitRoutingActivation(c) /\ ~HandlerCloses(c, "InvalidMessage")),
           ~RoutedDiagnostic(c)
    PROVE  /\ Uneventful(c)
           /\ \/ served'[c] = served[c]
              \/ served'[c] = NoAddr /\ ~MessageInHand(c) /\ ~MessageInHand(c)'
<1> USE DEF machineVars, threadVars, timerVars, envVars, historyVars
<1> DEFINE Quiet == Uneventful(c) /\ served'[c] = served[c]
<1>1. CASE \E th \in Thread : TransitionStep(c, th)
  <2>1. UNCHANGED <<clientAddr, routed, closes, served>> /\ hpc'[c] \in {hpc[c], "loop", "exit"}
    BY <1>1 DEF TransitionStep, TransitionTo, WritesState, StartStateTimerStops,
              StartStateTimerReadsDuration, StartStateTimerReadsTimer, StartStateTimerAdds,
              ChecksEnterHandler, FetchesEnterHandler, CallsEnterHandler,
              CallsEmptyEnterHandler, CloseReturns, OnlyFrame, TypeOK
  <2> QED BY <2>1 DEF Uneventful, MessageInHand
<1>2. CASE \E th \in {"handler", "timer"} : CloseStep(c, th)
  <2>1. UNCHANGED <<clientAddr, routed, closes, served, hpc>>
    BY <1>2 DEF CloseStep, CloseStopsTimers, CloseClosesTransport
  <2> QED BY <2>1 DEF Uneventful, MessageInHand
<1>3. CASE EnterReceive(c)
  <2>1. closes[c] # 1
    BY <1>3 DEF EnterReceive, CloseAt
  <2> QED BY <1>3, <2>1 DEF EnterReceive, Uneventful
<1>4. CASE Opened(c) \/ \E m \in Message : ReceiveMessage(c, m)
  BY <1>4 DEF Opened, ReceiveMessage, HandlerAt, Uneventful, MessageInHand, TypeOK
<1>5. CASE ReceiveRefused(c) \/ ReceiveFails(c) \/ LoopEnds(c)
  BY <1>5 DEF ReceiveRefused, ReceiveFails, LoopEnds, LeaveLoop, Uneventful, MessageInHand,
              TypeOK
<1>6. CASE Dispatch(c)
  <2>1. hpc[c] = "dispatch" /\ served[c] = NoAddr
        /\ UNCHANGED <<clientAddr, routed, closes>>
    BY <1>6 DEF Dispatch, HandlerAt, RoutingAt
  <2>2. served'[c] = NoAddr
    BY <1>6, <2>1 DEF Dispatch, Handled, TypeOK
  <2> QED BY <2>1, <2>2 DEF Uneventful, MessageInHand
<1>7. CASE DispatchClosed(c) \/ UseOfDestroyed(c) \/ PeerLeaves(c)
  BY <1>7 DEF DispatchClosed, UseOfDestroyed, PeerLeaves, Uneventful, MessageInHand
<1>8. CASE HandlerCloses(c, "InvalidMessage")
  BY <1>8 DEF HandlerCloses, Uneventful, MessageInHand, TypeOK
<1>9. CASE RoutedRejects(c) /\ ~HandlerCloses(c, "InvalidMessage")
  <2>1. served[c] = NoAddr
    BY <1>9 DEF RoutedRejects, HandlerAt, RoutingAt
  <2>2. /\ UNCHANGED <<clientAddr, routed, closes>>
        /\ served'[c] = NoAddr /\ hpc'[c] = "loop"
    BY <1>9 DEF RoutedRejects, Handled, TypeOK
  <2> QED BY <2>1, <2>2 DEF Uneventful, MessageInHand
<1>10. CASE RoutedAnswers(c) \/ RoutedForwards(c) \/ HandleWaitAliveCheckResponse(c)
  <2>1. /\ UNCHANGED <<clientAddr, routed, closes>>
        /\ hpc[c] \in {"answer", "forward", "aliveCheck"}
        /\ hpc'[c] \in {"loop", "forward"}
        /\ served'[c] \in {served[c], NoAddr}
    BY <1>10 DEF RoutedAnswers, RoutedForwards, HandleWaitAliveCheckResponse, Handled,
                 HandlerAt, TypeOK
  <2> QED BY <2>1 DEF Uneventful, MessageInHand
<1>11. CASE \/ TimeoutInitialInactivity(c) \/ TimeoutGeneralInactivity(c)
            \/ TimeoutAliveCheck(c) \/ TimeoutUserDefined(c) \/ TimerGivesUp(c)
            \/ ReceiveDownstreamResponse(c)
  <2>1. UNCHANGED <<clientAddr, routed, closes, served, hpc>>
    BY <1>11 DEF TimeoutInitialInactivity, TimeoutGeneralInactivity, TimeoutAliveCheck,
                 TimeoutUserDefined, TimerGivesUp, ReceiveDownstreamResponse
  <2> QED BY <2>1 DEF Uneventful, MessageInHand
<1> QED
  BY <1>1, <1>2, <1>3, <1>4, <1>5, <1>6, <1>7, <1>8, <1>9, <1>10, <1>11 DEF StepOf

\* Every step of a connection is a step of its life cycle or does not show.
LEMMA LifecycleStep ==
    ASSUME TypeOK, TypeOK', StartedInv, CloseInv, RoutingInv, [Next]_vars,
           NEW c \in Conn, StepOf(c)
    PROVE  [Lifecycle!Next]_barVars
<1> USE DEF machineVars, threadVars, timerVars, envVars, historyVars
<1>0. StartedAt(c) /\ CloseAt(c) /\ RoutingAt(c)
  BY DEF StartedInv, CloseInv, RoutingInv
<1>1. /\ \A d \in Conn \ {c} : Untouched(d)
      /\ hpc'[c] # "none" /\ closes[c] \in {0, 1}
      /\ \A d \in Conn : closes[d] = 1 => closeReason[d] # "None"
      /\ \A d \in Conn : closeReason[d] # "None" => closeReason'[d] = closeReason[d]
  <2>1. \A d \in Conn : closes[d] = 1 => closeReason[d] # "None"
    BY DEF CloseInv, CloseAt
  <2> QED BY <1>0, <2>1, StepFrame, StepIsStarted, ReasonStep DEF CloseAt
<1>2. /\ phaseBar' = [phaseBar EXCEPT ![c] = phaseBar'[c]]
      /\ clientBar' = [clientBar EXCEPT ![c] = clientBar'[c]]
      /\ served' = [served EXCEPT ![c] = served'[c]]
      /\ reasonBar' = [reasonBar EXCEPT ![c] = reasonBar'[c]]
  BY <1>1, UntouchedBars, BarFunctions, ExceptPointwise
<1>3. /\ clientBar'[c] = clientBar[c] => clientBar' = clientBar
      /\ served'[c] = served[c] => served' = served
      /\ reasonBar'[c] = reasonBar[c] => reasonBar' = reasonBar
      /\ phaseBar'[c] = phaseBar[c] => phaseBar' = phaseBar
  BY <1>1, UntouchedBars, BarFunctions, SamePointwise
<1>4. CASE Accept(c)
  <2>1. /\ hpc[c] = "none" /\ closes[c] = 0 /\ hpc'[c] = "opening"
        /\ UNCHANGED <<clientAddr, closeReason, routed, served, closes>>
    BY <1>0, <1>4 DEF Accept, StartedAt, TypeOK
  <2>2. phaseBar[c] = "idle" /\ phaseBar'[c] = "open"
    BY <2>1 DEF phaseBar
  <2>3. UNCHANGED <<clientBar, served, reasonBar>>
    BY <2>1 DEF clientBar, reasonBar
  <2>4. Lifecycle!Open(c)
    BY <1>2, <2>2, <2>3 DEF Lifecycle!Open
  <2> QED BY <2>4 DEF Lifecycle!Next
<1>5. ASSUME ~Accept(c) PROVE hpc[c] # "none"
  <2>1. SUFFICES ASSUME hpc[c] = "none" PROVE FALSE
    OBVIOUS
  <2>2. CASE \E th \in Thread : TransitionStep(c, th)
    <3>1. \E th \in Thread : frames[c][th].at # "idle"
      BY <2>2 DEF TransitionStep, TransitionTo, WritesState, StartStateTimerStops,
              StartStateTimerReadsDuration, StartStateTimerReadsTimer, StartStateTimerAdds,
              ChecksEnterHandler, FetchesEnterHandler, CallsEnterHandler,
              CallsEmptyEnterHandler, At
    <3> QED BY <1>0, <2>1, <3>1 DEF StartedAt, NoFrame
  <2>3. CASE \E th \in {"handler", "timer"} : CloseStep(c, th)
    BY <1>0, <2>1, <2>3 DEF CloseStep, CloseStopsTimers, CloseClosesTransport, CloseNotifies,
                            InClose, StartedAt, NoClose
  <2>4. CASE \/ TimeoutInitialInactivity(c) \/ TimeoutGeneralInactivity(c)
             \/ TimeoutAliveCheck(c) \/ TimeoutUserDefined(c)
    BY <1>0, <2>1, <2>4 DEF TimeoutInitialInactivity, TimeoutGeneralInactivity,
       TimeoutAliveCheck, TimeoutUserDefined, TakeCallback, StartedAt, Timer
  <2>5. CASE TimerGivesUp(c) \/ ReceiveDownstreamResponse(c) \/ UseOfDestroyed(c) \/ PeerLeaves(c)
    BY <1>0, <2>1, <2>5 DEF TimerGivesUp, ReceiveDownstreamResponse, UseOfDestroyed, PeerLeaves,
                            StartedAt
  <2> QED
    BY <1>5, <2>1, <2>2, <2>3, <2>4, <2>5
       DEF StepOf, Opened, EnterReceive, ReceiveMessage, ReceiveRefused, ReceiveFails,
           LoopEnds, Dispatch, DispatchClosed, HandleWaitRoutingActivation, RoutedRejects,
           RoutedDiagnostic, RoutedAnswers, RoutedForwards, HandleWaitAliveCheckResponse,
           HandlerAt
<1>6. ASSUME NEW th \in {"handler", "timer"}, CloseNotifies(c, th)
      PROVE  [Lifecycle!Next]_barVars
  <2>1. /\ closing[c].at = "notify" /\ hpc[c] # "none"
        /\ UNCHANGED <<closeReason, clientAddr, routed, served>>
    BY <1>0, <1>6 DEF CloseNotifies, StartedAt, NoClose
  <2>2. closes[c] = 0 /\ closes'[c] = 1
    BY <1>0, <1>6, <2>1 DEF CloseNotifies, CloseAt, TypeOK
  <2>3. closeReason[c] \in Reason \ {"None"}
    BY <1>0, <2>1 DEF CloseAt, TypeOK
  <2>4. phaseBar[c] = "open" /\ phaseBar'[c] \in {"last", "closed"}
    BY <1>1, <2>1, <2>2, PhaseOf, NextPhaseOf
  <2>5. clientBar'[c] = clientBar[c] /\ reasonBar'[c] = closeReason[c]
    BY <2>1, <2>2 DEF clientBar, reasonBar
  <2>6. Lifecycle!Close(c, closeReason[c])
    BY <1>2, <1>3, <2>1, <2>4, <2>5 DEF Lifecycle!Close
  <2> QED BY <2>3, <2>6 DEF Lifecycle!Next
<1>7. ASSUME ~Accept(c), closes'[c] = closes[c], MessageInHand(c), ~MessageInHand(c)'
      PROVE  Lifecycle!Proceed(c)
  <2>1. hpc[c] # "none"
    BY <1>5, <1>7
  <2>2. CASE closes[c] = 0
    <3>1. phaseBar[c] = "open" /\ phaseBar'[c] = "open"
      BY <1>1, <1>7, <2>1, <2>2, PhaseOf, NextPhaseOf
    <3> QED BY <1>3, <3>1 DEF Lifecycle!Proceed
  <2>3. CASE closes[c] = 1
    <3>1. phaseBar[c] = "last" /\ phaseBar'[c] = "closed"
      BY <1>1, <1>7, <2>1, <2>3, PhaseOf, NextPhaseOf
    <3> QED BY <1>2, <3>1 DEF Lifecycle!Proceed
  <2> QED BY <1>1, <2>2, <2>3
<1>8. CASE HandleWaitRoutingActivation(c) /\ ~HandlerCloses(c, "InvalidMessage")
  <2>1. /\ hpc[c] = "waitRouting" /\ ValidRoutingRequest(c) /\ GrantRouting(c) /\ Handled(c)
        /\ UNCHANGED <<closes, closeReason>>
    BY <1>8 DEF HandleWaitRoutingActivation, HandlerAt
  <2>2. ~routed[c] /\ served[c] = NoAddr
    BY <1>0, <2>1 DEF RoutingAt
  <2>3. msg[c].source \in Addr
    BY <2>1 DEF ValidRoutingRequest, TypeOK, Message, NoMsg
  <2>4. hpc'[c] = "loop" /\ served'[c] = NoAddr /\ routed'[c] /\ clientAddr'[c] = msg[c].source
    BY <2>1 DEF Handled, GrantRouting, TypeOK
  <2>5. Lifecycle!Proceed(c)
    BY <1>7, <2>1, <2>4 DEF Accept, MessageInHand
  <2>6. clientBar[c] = NoAddr /\ clientBar'[c] = msg[c].source /\ reasonBar'[c] = reasonBar[c]
    BY <2>1, <2>2, <2>4 DEF clientBar, reasonBar
  <2>7. Lifecycle!Activate(c, msg[c].source)
    BY <1>2, <1>3, <2>2, <2>4, <2>5, <2>6 DEF Lifecycle!Activate
  <2> QED BY <2>3, <2>7 DEF Lifecycle!Next
<1>9. CASE RoutedDiagnostic(c)
  <2>1. /\ hpc[c] = "routed" /\ hpc'[c] = "answer" /\ served'[c] = clientAddr[c]
        /\ UNCHANGED <<closeReason, clientAddr, routed, closes>>
    BY <1>9 DEF RoutedDiagnostic, RejectedSource, HandlerAt, TypeOK
  <2>2. routed[c] /\ clientAddr[c] # NoAddr
    BY <1>0, <2>1, AddrAssumption DEF RoutingAt, TypeOK
  <2>3. Lifecycle!Proceed(c)
    BY <1>7, <2>1 DEF Accept, MessageInHand
  <2>4. clientBar[c] = clientAddr[c] /\ clientBar'[c] = clientBar[c]
        /\ reasonBar'[c] = reasonBar[c]
    BY <2>1, <2>2 DEF clientBar, reasonBar
  <2>5. Lifecycle!Serve(c)
    BY <1>2, <1>3, <2>1, <2>2, <2>3, <2>4 DEF Lifecycle!Serve
  <2> QED BY <2>5 DEF Lifecycle!Next
<1>10. CASE /\ ~Accept(c) /\ ~(\E th \in {"handler", "timer"} : CloseNotifies(c, th))
            /\ ~(HandleWaitRoutingActivation(c) /\ ~HandlerCloses(c, "InvalidMessage"))
            /\ ~RoutedDiagnostic(c)
  <2>1. /\ Uneventful(c)
        /\ \/ served'[c] = served[c]
           \/ served'[c] = NoAddr /\ ~MessageInHand(c) /\ ~MessageInHand(c)'
    BY <1>0, <1>10, UneventfulCases
  <2>2. hpc[c] # "none" /\ (closes[c] = 1 => closeReason'[c] = closeReason[c])
    BY <1>1, <1>5, <1>10
  <2>3. CASE served'[c] = served[c]
    BY <1>1, <2>1, <2>2, <2>3, UneventfulStep
  <2>4. CASE served'[c] = NoAddr /\ ~MessageInHand(c) /\ ~MessageInHand(c)'
    <3>1. phaseBar'[c] = phaseBar[c]
      BY <1>1, <2>1, <2>2, <2>4, PhaseOf, NextPhaseOf DEF Uneventful
    <3>2. clientBar'[c] = clientBar[c] /\ reasonBar'[c] = reasonBar[c]
      BY <1>1, <2>1, <2>2 DEF Uneventful, clientBar, reasonBar
    <3>3. Lifecycle!Done(c)
      BY <1>2, <1>3, <2>4, <3>1, <3>2 DEF Lifecycle!Done
    <3> QED BY <3>3 DEF Lifecycle!Next
  <2> QED BY <2>1, <2>3, <2>4
<1> QED BY <1>4, <1>6, <1>8, <1>9, <1>10

\* The server implements the life cycle, for any number of connections on the
\* shared timer manager, any downstream handler and however far the threads
\* overtake each other: LifecycleRefined.
THEOREM LifecycleImplemented == Spec => LifecycleRefined
<1>1. Init => Lifecycle!Init
  BY DEF Init, Lifecycle!Init, phaseBar, clientBar, reasonBar
<1>2. TypeOK /\ TypeOK' /\ StartedInv /\ CloseInv /\ RoutingInv /\ [Next]_vars
        => [Lifecycle!Next]_barVars
  <2> SUFFICES ASSUME TypeOK, TypeOK', StartedInv, CloseInv, RoutingInv, [Next]_vars
               PROVE  [Lifecycle!Next]_barVars
    OBVIOUS
  <2>1. CASE Stop \/ UNCHANGED vars \/ \E expired \in SUBSET Timer : CollectExpired(expired)
    BY <2>1 DEF Stop, vars, CollectExpired, barVars, phaseBar, clientBar, reasonBar,
                MessageInHand, machineVars, threadVars, timerVars, envVars, historyVars
  <2> QED BY <2>1, LifecycleStep, NextCases
<1>3. Lifecycle!vars = barVars
  BY DEF Lifecycle!vars, barVars
<1> QED
  BY <1>1, <1>2, <1>3, CloseReached, RoutingReached, PTL
     DEF Spec, LifecycleRefined, Lifecycle!Spec, Lifecycle!vars, barVars

-----------------------------------------------------------------------------
(***************************************************************************)
(* The watch over a connection that has the timer manager to itself.       *)
(***************************************************************************)

\* The timer thread is to enter WaitAliveCheckResponse.
Checking(c) ==
    /\ frames[c]["timer"].at \in {"compare", "write"}
    /\ frames[c]["timer"].to = "WaitAliveCheckResponse"

\* What will end the silence of a connection: a thread that is about to arm
\* the timer of the state it entered, the timer, its callback, or what the
\* callback has begun.
Guarded(c) ==
    \/ \E th \in Thread : frames[c][th].at \in {"stop", "duration", "timer", "add"}
    \/ timers[TimerOf[state[c]]] = c
    \/ <<TimerOf[state[c]], c>> \in collected
    \/ tpc = c
    \/ Checking(c)

\* The timer thread enters WaitAliveCheckResponse from another state only, so
\* that transitionTo arms a timer: in WaitAliveCheckResponse the counter is
\* spent.
WatchAt(c) ==
    overtakes[c] = 0 =>
        /\ state[c] = "WaitAliveCheckResponse" => retry[c] >= 1 \/ Inside(c, "timer")
        /\ Checking(c) => state[c] # "WaitAliveCheckResponse"
        /\ state[c] \in Watched /\ ~AlreadyClosing(c) => Guarded(c)

\* A step inside transitionTo keeps WatchAt.
LEMMA WatchTransition ==
    ASSUME TypeOK, NEW c \in Conn, SerialAt(c), WatchAt(c), NEW th \in Thread,
           TransitionStep(c, th), overtakes'[c] = 0
    PROVE  WatchAt(c)'
<1> USE DEF machineVars, threadVars, timerVars, envVars, historyVars
<1>0. frames[c][th].at # "idle" /\ frames[c][th].depth \in Nat /\ retry[c] \in Nat
  <2>1. frames[c][th] \in Frame
    BY FrameType
  <2> QED
    BY <2>1
    DEF TransitionStep, TransitionTo, WritesState, StartStateTimerStops,
         StartStateTimerReadsDuration, StartStateTimerReadsTimer, StartStateTimerAdds,
         ChecksEnterHandler, FetchesEnterHandler, CallsEnterHandler,
         CallsEmptyEnterHandler, At, Frame, TypeOK
<1>1. overtakes[c] = 0
  BY DEF TransitionStep, TransitionTo, WritesState, StartStateTimerStops,
         StartStateTimerReadsDuration, StartStateTimerReadsTimer, StartStateTimerAdds,
         ChecksEnterHandler, FetchesEnterHandler, CallsEnterHandler,
         CallsEmptyEnterHandler, OnlyFrame, TypeOK
<1>2. Own(c, th)
  BY <1>1 DEF SerialAt
<1>3. ASSUME frames[c][th].at \notin {"idle", "compare", "write"}
      PROVE  Inside(c, th) /\ frames[c][th].to = state[c] /\ frames[c][th].depth = 0
  BY <1>0, <1>2, <1>3 DEF Own, Inside
\* Most steps only move the frame: the thread stays inside when it has still
\* to count, and arms the timer when it has still to do so.
<1>4. ASSUME NEW a, NEW s, NEW n, Moved(c, th, a, s, n), retry'[c] = retry[c],
             state'[c] = state[c], closing'[c] = closing[c], collected' = collected,
             tpc' = tpc,
             \/ timers' = timers \/ a = "duration"
             \/ timers'[TimerOf[state[c]]] = c,
             \/ frames[c][th].at \notin {"stop", "duration", "timer", "add"}
             \/ a \in {"stop", "duration", "timer", "add"}
             \/ timers'[TimerOf[state[c]]] = c \/ state[c] \notin Watched,
             \/ ~Inside(c, th) \/ state[c] # "WaitAliveCheckResponse"
             \/ a \notin {"idle", "compare", "write"} \/ n > 0,
             \/ a \notin {"compare", "write"}
             \/ s # "WaitAliveCheckResponse"
             \/ s = frames[c][th].to /\ frames[c][th].at = "compare" /\ state[c] # s,
             \/ ~(frames[c][th].at \in {"compare", "write"}
                  /\ frames[c][th].to = "WaitAliveCheckResponse" /\ th = "timer")
             \/ a = "write" /\ s = frames[c][th].to
      PROVE  WatchAt(c)'
  <2>1. state[c] = "WaitAliveCheckResponse" => retry'[c] >= 1 \/ Inside(c, "timer")'
    BY <1>1, <1>4 DEF WatchAt, Inside, Moved, Thread
  <2>2. Checking(c)' => state[c] # "WaitAliveCheckResponse"
    BY <1>1, <1>4 DEF WatchAt, Checking, Moved, Thread
  <2>3. ASSUME state[c] \in Watched, closing[c].at = "no" PROVE Guarded(c)'
    <3>1. Guarded(c)
      BY <1>1, <2>3 DEF WatchAt
    <3>2. Checking(c) => Checking(c)'
      BY <1>4 DEF Checking, Moved, Thread
    <3>3. a \in {"stop", "duration", "timer", "add"} => Guarded(c)'
      BY <1>4 DEF Guarded, Moved
    <3>4. ASSUME NEW u \in Thread \ {th}, frames[c][u].at \in {"stop", "duration", "timer", "add"}
          PROVE  Guarded(c)'
      BY <1>4, <3>4 DEF Guarded, Moved
    <3>5. timers'[TimerOf[state[c]]] = c => Guarded(c)'
      BY <1>4 DEF Guarded
    <3>6. CASE Checking(c) \/ tpc = c \/ <<TimerOf[state[c]], c>> \in collected
      BY <1>4, <3>2, <3>6 DEF Guarded
    <3> QED BY <1>4, <2>3, <3>1, <3>3, <3>4, <3>5, <3>6 DEF Guarded
  <2> QED BY <1>4, <2>1, <2>2, <2>3 DEF WatchAt
<1>5. CASE TransitionTo(c, th)
  <2>1. /\ UNCHANGED <<retry, state, closing, collected, tpc, timers>>
        /\ frames[c][th].at = "compare"
    BY <1>5 DEF TransitionTo, OnlyFrame, At
  <2>2. th = "timer" /\ frames[c][th].to = "WaitAliveCheckResponse" =>
            state[c] # frames[c][th].to
    BY <1>1, <2>1 DEF WatchAt, Checking
  <2>3. CASE state[c] = frames[c][th].to /\ frames[c][th].depth = 0
    BY <1>4, <1>5, <2>1, <2>2, <2>3, FrameReturns DEF TransitionTo, Inside
  <2>4. CASE state[c] = frames[c][th].to /\ frames[c][th].depth # 0
    BY <1>4, <1>5, <2>1, <2>2, <2>4, FrameReturns DEF TransitionTo
  <2>5. CASE state[c] # frames[c][th].to
    <3>1. ~Inside(c, th)
      BY <1>2, <2>5 DEF Own
    <3> QED BY <1>4, <1>5, <2>1, <2>5, <3>1, FrameMoves DEF TransitionTo
  <2> QED BY <2>3, <2>4, <2>5
<1>6. CASE WritesState(c, th)
  <2>1. Moved(c, th, "stop", frames[c][th].to, frames[c][th].depth)
    BY <1>6, FrameMoves DEF WritesState
  <2>2. state'[c] = frames[c][th].to
    BY <1>6 DEF WritesState, TypeOK
  <2>3. Guarded(c)'
    BY <2>1 DEF Guarded, Moved
  <2>4. state'[c] = "WaitAliveCheckResponse" => th = "timer"
    BY <1>1, <2>2 DEF SerialAt
  <2>5. th = "timer" => Inside(c, "timer")' /\ ~Checking(c)'
    BY <2>1 DEF Inside, Checking, Moved
  <2> QED BY <2>3, <2>4, <2>5 DEF WatchAt
<1>7. CASE StartStateTimerStops(c, th)
  BY <1>4, <1>7, FrameMoves DEF StartStateTimerStops, At
<1>8. CASE StartStateTimerReadsDuration(c, th)
  <2>1. /\ UNCHANGED <<retry, state, closing, collected, tpc, timers>>
        /\ frames[c][th].at = "duration"
    BY <1>8 DEF StartStateTimerReadsDuration, At, OnlyFrame
  <2>2. CASE state[c] \in Untimed
    <3>1. state[c] \notin Watched
      BY <2>2 DEF Untimed, Watched
    <3>2. \E s \in {"Closed", "Finalize"} : \E n : Moved(c, th, "compare", s, n)
      BY <1>8, <2>2, FrameReturns DEF AfterTimeout
    <3> QED BY <1>4, <2>1, <3>1, <3>2 DEF Watched
  <2>3. CASE state[c] \notin Untimed
    BY <1>4, <1>8, <2>1, <2>3, FrameReturns
  <2> QED BY <2>2, <2>3
<1>9. CASE StartStateTimerReadsTimer(c, th) \/ FetchesEnterHandler(c, th)
  <2>1. /\ frames[c][th].at \in {"timer", "fetch"}
        /\ UNCHANGED <<retry, state, closing, collected, tpc, timers>>
    BY <1>9 DEF StartStateTimerReadsTimer, FetchesEnterHandler, At, OnlyFrame
  <2>2. CASE StartStateTimerReadsTimer(c, th)
    BY <1>4, <2>1, <2>2, FrameMoves DEF StartStateTimerReadsTimer
  <2>3. CASE FetchesEnterHandler(c, th)
    BY <1>4, <2>1, <2>3, FrameMoves DEF FetchesEnterHandler, At
  <2> QED BY <1>9, <2>2, <2>3
<1>10. CASE StartStateTimerAdds(c, th)
  <2>1. frames[c][th].at = "add" /\ UNCHANGED <<retry, state, closing, collected, tpc>>
        /\ Moved(c, th, "check", frames[c][th].to, frames[c][th].depth)
    BY <1>10, FrameMoves DEF StartStateTimerAdds, At
  <2>2. TimerOf[state[c]] \in Timer
    BY DEF TimerOf, Timer, State, TypeOK
  <2>3. timers'[TimerOf[state[c]]] = c
    BY <1>3, <1>10, <2>1, <2>2 DEF StartStateTimerAdds, TypeOK
  <2> QED BY <1>4, <2>1, <2>3
<1>11. CASE ChecksEnterHandler(c, th)
  <2>1. /\ UNCHANGED <<retry, state, closing, collected, tpc, timers>>
        /\ frames[c][th].at = "check"
    BY <1>11 DEF ChecksEnterHandler, At, OnlyFrame
  <2>2. CASE state[c] \in Counting
    BY <1>4, <1>11, <2>1, <2>2, FrameMoves DEF ChecksEnterHandler
  <2>3. CASE state[c] \notin Counting
    BY <1>3, <1>4, <1>11, <2>1, <2>3, FrameReturns DEF ChecksEnterHandler, Counting
  <2> QED BY <2>2, <2>3
<1>12. CASE CallsEnterHandler(c, th)
  <2>1. /\ UNCHANGED <<state, closing, collected, tpc, timers>>
        /\ frames[c][th].at = "enter"
    BY <1>12 DEF CallsEnterHandler, At
  <2>2. Moved(c, th, "idle", "Closed", 0)
    BY <1>3, <1>12, <2>1, FrameReturns DEF CallsEnterHandler
  <2>3. state[c] = "WaitAliveCheckResponse" => retry'[c] >= 1
    BY <1>0, <1>3, <1>12, <2>1 DEF CallsEnterHandler, EnterHandler, TypeOK
  <2>4. Checking(c)' <=> Checking(c)
    BY <2>1, <2>2 DEF Checking, Moved, Thread
  <2>5. Guarded(c) => Guarded(c)'
    BY <2>1, <2>2, <2>4 DEF Guarded, Moved
  <2> QED BY <1>1, <2>1, <2>3, <2>4, <2>5 DEF WatchAt
<1>13. ~CallsEmptyEnterHandler(c, th)
  BY <1>2, <1>3 DEF CallsEmptyEnterHandler, At, Own
<1> QED
  BY <1>5, <1>6, <1>7, <1>8, <1>9, <1>10, <1>11, <1>12, <1>13 DEF TransitionStep

\* A step of a connection keeps its WatchAt, when one alive check at most is
\* sent.
LEMMA WatchLocal ==
    ASSUME TypeOK, NEW c \in Conn, CloseAt(c), SerialAt(c), RetryAt(c), WatchAt(c), StepOf(c),
           RetryCount <= 1, overtakes'[c] = 0
    PROVE  WatchAt(c)'
<1> USE DEF machineVars, threadVars, timerVars, envVars, historyVars
<1>0. RetryCount \in Nat /\ retry[c] \in Nat
  BY RetryAssumption DEF TypeOK
<1>1. CASE \E th \in Thread : TransitionStep(c, th)
  BY <1>1, WatchTransition
\* An idle thread calls transitionTo, or none does.  The connection is being
\* closed, or the timer thread is to enter the alive check or to close, or all
\* that watches the connection stays.
<1>2. ASSUME NEW th \in Thread, NEW s,
             \/ frames' = frames
             \/ Call(c, th, s) /\ Idle(c, th),
             overtakes'[c] = overtakes[c], retry'[c] = retry[c], state'[c] = state[c],
             \/ th # "timer" \/ s # "WaitAliveCheckResponse"
             \/ state[c] # "WaitAliveCheckResponse",
             \/ closing'[c].at # "no"
             \/ tpc' = c
             \/ th = "timer" /\ s = "WaitAliveCheckResponse" /\ frames' # frames
             \/ /\ closing'[c] = closing[c]
                /\ timers' = timers /\ tpc' = tpc
                /\ \A t \in Timer \ {"UserDefined"} :
                      <<t, c>> \in collected => <<t, c>> \in collected'
                /\ th # "timer"
      PROVE  WatchAt(c)'
  <2>1. overtakes[c] = 0
    BY <1>2
  <2>2. frames' = frames \/ (Moved(c, th, "compare", s, 0) /\ ~Inside(c, th) /\ Idle(c, th))
    BY <1>2, <2>1, FrameMoves DEF SerialAt, Inside, Idle
  <2>3. state[c] = "WaitAliveCheckResponse" => retry'[c] >= 1 \/ Inside(c, "timer")'
    BY <1>2, <2>1, <2>2 DEF WatchAt, Inside, Moved, Thread
  <2>4. Checking(c)' => state[c] # "WaitAliveCheckResponse"
    BY <1>2, <2>1, <2>2 DEF WatchAt, Checking, Moved, Thread
  <2>5. ASSUME state[c] \in Watched, closing'[c].at = "no" PROVE Guarded(c)'
    <3>1. CASE tpc' = c
      BY <3>1 DEF Guarded
    <3>2. CASE th = "timer" /\ s = "WaitAliveCheckResponse" /\ frames' # frames
      BY <2>2, <3>2 DEF Guarded, Checking, Moved
    <3>3. CASE /\ closing'[c] = closing[c]
               /\ timers' = timers /\ tpc' = tpc
               /\ \A t \in Timer \ {"UserDefined"} :
                     <<t, c>> \in collected => <<t, c>> \in collected'
               /\ th # "timer"
      <4>1. Guarded(c)
        BY <2>1, <2>5, <3>3 DEF WatchAt
      <4>2. TimerOf[state[c]] \in Timer \ {"UserDefined"}
        BY <2>5 DEF Watched, TimerOf, Timer, State
      <4>3. Checking(c) => Checking(c)'
        BY <2>2, <3>3 DEF Checking, Moved, Thread
      <4>4. \A u \in Thread : frames[c][u].at \in {"stop", "duration", "timer", "add"} =>
                frames'[c][u].at = frames[c][u].at
        BY <2>2 DEF Moved, Idle
      <4> QED BY <1>2, <3>3, <4>1, <4>2, <4>3, <4>4 DEF Guarded
    <3> QED BY <1>2, <2>5, <3>1, <3>2, <3>3
  <2> QED BY <1>2, <2>3, <2>4, <2>5 DEF WatchAt
\* A connection that is being closed stays so.
<1>3. ASSUME NEW th \in {"handler", "timer"}, CloseStep(c, th) PROVE WatchAt(c)'
  <2>1. closing'[c].at # "no"
    <3>1. closing[c] \in Close
      BY DEF TypeOK
    <3> QED BY <1>3, <3>1 DEF CloseStep, CloseStopsTimers, CloseClosesTransport, CloseNotifies,
                              CloseReturns, TypeOK, Close
  <2>2. frames' = frames /\ overtakes' = overtakes /\ retry' = retry /\ state' = state
    BY <1>3 DEF CloseStep, CloseStopsTimers, CloseClosesTransport, CloseNotifies
  <2> QED BY <1>2, <2>1, <2>2 DEF Thread
<1>4. CASE Accept(c)
  <2> DEFINE f == [at |-> "stop", to |-> "WaitRoutingActivation", depth |-> 0]
  <2>1. frames' = [frames EXCEPT ![c]["handler"] = f]
    BY <1>4 DEF Accept
  <2>2. Moved(c, "handler", f.at, f.to, f.depth)
    BY <2>1, FrameReplaced DEF Thread
  <2>3. state'[c] = "WaitRoutingActivation"
    BY <1>4 DEF Accept, TypeOK
  <2> QED BY <2>2, <2>3 DEF WatchAt, Guarded, Moved, Thread
<1>5. CASE \/ Opened(c) \/ EnterReceive(c) \/ \E m \in Message : ReceiveMessage(c, m)
           \/ DispatchClosed(c) \/ RoutedDiagnostic(c) \/ UseOfDestroyed(c) \/ PeerLeaves(c)
  <2>1. UNCHANGED <<state, retry, overtakes, frames, timers, collected, tpc, closing>>
    BY <1>5 DEF Opened, EnterReceive, ReceiveMessage, DispatchClosed, RoutedDiagnostic,
                UseOfDestroyed, PeerLeaves
  <2> QED BY <1>2, <2>1 DEF Thread
\* The handler thread and the worker call transitionTo.
<1>6. ASSUME NEW th \in {"handler", "worker"}, NEW s, Call(c, th, s) \/ frames' = frames,
             Idle(c, th), UNCHANGED <<state, retry, overtakes, timers, collected, tpc>>,
             closing' = closing \/ closing'[c].at # "no"
      PROVE  WatchAt(c)'
  BY <1>2, <1>6 DEF Thread
<1>7. ASSUME NEW th, NEW r, BeginClose(c, th, r)
      PROVE  closing'[c].at # "no" /\ Call(c, th, "Closed")
  BY <1>7 DEF BeginClose, TypeOK
<1>8. CASE ReceiveRefused(c) \/ ReceiveFails(c) \/ LoopEnds(c)
  <2>1. PICK r \in Reason : LeaveLoop(c, r)
    BY <1>8 DEF ReceiveRefused, ReceiveFails, LoopEnds, Reason
  <2>2. Idle(c, "handler")
    BY <1>8 DEF ReceiveRefused, ReceiveFails, LoopEnds, HandlerAt
  <2>3. /\ Call(c, "handler", "Closed") \/ frames' = frames
        /\ closing' = closing \/ closing'[c].at # "no"
    BY <1>7, <2>1 DEF LeaveLoop
  <2> QED BY <1>6, <2>1, <2>2, <2>3 DEF LeaveLoop
<1>9. ASSUME NEW r, HandlerCloses(c, r)
      PROVE  /\ Call(c, "handler", "Closed") \/ frames' = frames
             /\ closing' = closing \/ closing'[c].at # "no"
             /\ UNCHANGED <<state, retry, overtakes, timers, collected, tpc>>
  BY <1>7, <1>9 DEF HandlerCloses
<1>10. CASE Dispatch(c)
  BY <1>6, <1>10 DEF Dispatch, HandlerAt
<1>11. CASE HandleWaitRoutingActivation(c)
  <2>1. CASE HandlerCloses(c, "InvalidMessage")
    BY <1>6, <1>9, <1>11, <2>1 DEF HandleWaitRoutingActivation, HandlerAt
  <2>2. CASE ~HandlerCloses(c, "InvalidMessage")
    BY <1>6, <1>11, <2>2 DEF HandleWaitRoutingActivation, GrantRouting, HandlerAt
  <2> QED BY <2>1, <2>2
<1>12. CASE RoutedRejects(c)
  <2>1. CASE HandlerCloses(c, "InvalidMessage")
    BY <1>6, <1>9, <1>12, <2>1 DEF RoutedRejects, HandlerAt
  <2>2. CASE ~HandlerCloses(c, "InvalidMessage")
    BY <1>6, <1>12, <2>2 DEF RoutedRejects, HandlerAt
  <2> QED BY <2>1, <2>2
<1>13. CASE RoutedAnswers(c) \/ RoutedForwards(c) \/ HandleWaitAliveCheckResponse(c)
  <2>1. /\ Idle(c, "handler")
        /\ UNCHANGED <<state, retry, overtakes, timers, collected, tpc, closing>>
    BY <1>13 DEF RoutedAnswers, RoutedForwards, HandleWaitAliveCheckResponse, HandlerAt
  <2>2. \E s \in {"RoutingActivated", "WaitDownstreamResponse"} :
           Call(c, "handler", s) \/ frames' = frames
    BY <1>13 DEF RoutedAnswers, RoutedForwards, HandleWaitAliveCheckResponse
  <2> QED BY <1>6, <2>1, <2>2
<1>14. CASE ReceiveDownstreamResponse(c)
  BY <1>6, <1>14 DEF ReceiveDownstreamResponse
\* In WaitAliveCheckResponse no count is left for the timer thread.
<1>15. ASSUME NEW t, TakeCallback(t, c), overtakes[c] = 0,
              \/ t = "GeneralInactivity"
              \/ RetriesLeft(c)
       PROVE  state[c] # "WaitAliveCheckResponse"
  <2>1. ~Inside(c, "timer")
    BY <1>15 DEF TakeCallback, TimerThreadFree, SerialAt, Idle, Inside, Thread
  <2>2. t = "GeneralInactivity" /\ state[c] # "RoutingActivated" => retry[c] = 0
    BY <1>15 DEF TakeCallback, RetryAt, Resetting
  <2> QED BY <1>0, <1>15, <2>1, <2>2 DEF WatchAt, RetriesLeft
<1>16. ASSUME NEW t, TakeCallback(t, c) PROVE Idle(c, "timer")
  BY <1>16 DEF TakeCallback, TimerThreadFree
<1>17. ASSUME NEW r, TimerCloses(c, r)
       PROVE  /\ Call(c, "timer", "Closed") \/ frames' = frames
              /\ closing'[c].at # "no"
  BY <1>7, <1>17 DEF TimerCloses
<1>18. CASE TimeoutInitialInactivity(c)
  BY <1>2, <1>16, <1>17, <1>18 DEF TimeoutInitialInactivity, Thread
<1>19. CASE TimeoutGeneralInactivity(c)
  <2>1. state[c] # "WaitAliveCheckResponse"
    BY <1>15, <1>19 DEF TimeoutGeneralInactivity
  <2>2. Idle(c, "timer") /\ Call(c, "timer", "WaitAliveCheckResponse")
        /\ UNCHANGED <<state, retry, overtakes>>
    BY <1>16, <1>19 DEF TimeoutGeneralInactivity
  <2>3. frames' # frames
    BY <2>2, FrameMoves DEF Moved, Idle, Thread
  <2> QED BY <1>2, <2>1, <2>2, <2>3 DEF Thread
<1>20. CASE TimeoutAliveCheck(c)
  <2>1. Idle(c, "timer") /\ UNCHANGED <<state, retry, overtakes>>
    BY <1>16, <1>20 DEF TimeoutAliveCheck
  <2>2. CASE RetriesLeft(c)
    <3>1. state[c] # "WaitAliveCheckResponse"
      BY <1>15, <1>20, <2>2 DEF TimeoutAliveCheck
    <3>2. Call(c, "timer", "WaitAliveCheckResponse")
      BY <1>20, <2>2 DEF TimeoutAliveCheck
    <3>3. frames' # frames
      BY <2>1, <3>2, FrameMoves DEF Moved, Idle, Thread
    <3> QED BY <1>2, <2>1, <3>1, <3>2, <3>3 DEF Thread
  <2>3. CASE ~RetriesLeft(c)
    BY <1>2, <1>20, <2>1, <2>3 DEF TimeoutAliveCheck, Thread
  <2> QED BY <2>2, <2>3
<1>21. CASE TimerGivesUp(c)
  BY <1>2, <1>17, <1>21 DEF TimerGivesUp, Thread
<1>22. CASE TimeoutUserDefined(c)
  <2>1. /\ UNCHANGED <<state, retry, overtakes, frames, timers, tpc, closing>>
        /\ collected' = collected \ {<<"UserDefined", c>>}
    BY <1>22 DEF TimeoutUserDefined, TakeCallback
  <2>2. \A t \in Timer \ {"UserDefined"} : <<t, c>> \in collected => <<t, c>> \in collected'
    BY <2>1
  <2> QED BY <1>2, <2>1, <2>2 DEF Thread
<1> QED
  BY <1>1, <1>3, <1>4, <1>5, <1>8, <1>10, <1>11, <1>12, <1>13, <1>14, <1>18, <1>19, <1>20,
     <1>21, <1>22 DEF StepOf

\* Every step keeps WatchAt when no other connection uses the timer manager.
LEMMA WatchStep ==
    ASSUME NEW c \in Conn, Conn = {c}, RetryCount <= 1
    PROVE  TypeOK /\ CloseInv /\ SerialInv /\ RetryInv /\ WatchAt(c) /\ [Next]_vars
               => WatchAt(c)'
<1> SUFFICES ASSUME TypeOK, CloseInv, SerialInv, RetryInv, WatchAt(c), [Next]_vars,
                    overtakes'[c] = 0
             PROVE  WatchAt(c)'
  BY DEF WatchAt
<1>1. CASE \E d \in Conn : StepOf(d)
  BY <1>1, WatchLocal DEF CloseInv, SerialInv, RetryInv
<1>2. ASSUME NEW expired \in SUBSET Timer, CollectExpired(expired) PROVE WatchAt(c)'
  <2>1. UNCHANGED <<machineVars, threadVars, historyVars>>
    BY <1>2 DEF CollectExpired
  <2>2. TimerOf[state[c]] \in Timer
    BY DEF TimerOf, Timer, State, TypeOK
  <2>3. timers[TimerOf[state[c]]] = c =>
            timers'[TimerOf[state[c]]] = c \/ <<TimerOf[state[c]], c>> \in collected'
    BY <1>2, <2>2 DEF CollectExpired
  <2>4. collected = {}
    BY <1>2 DEF CollectExpired
  <2> QED BY <2>1, <2>3, <2>4
          DEF WatchAt, Guarded, Checking, Inside, machineVars, threadVars, historyVars
<1>3. CASE Stop \/ UNCHANGED vars
  BY <1>3 DEF Stop, WatchAt, Guarded, Checking, Inside, vars, machineVars, threadVars,
              timerVars, historyVars
<1> QED BY <1>1, <1>2, <1>3, NextCases

\* With one connection and at most one alive check, the connection is never
\* without a timer that will end its silence, unless a thread was overtaken
\* inside transitionTo: WatchedStateHasTimer.
THEOREM SoleConnectionWatched ==
    ASSUME NEW c \in Conn, Conn = {c}, RetryCount <= 1
    PROVE  Spec => []WatchedStateHasTimer
<1>1. Init => WatchAt(c)
  BY DEF Init, WatchAt, Watched, Checking, NoFrame, Thread
<1>2. TypeOK /\ CloseInv /\ SerialInv /\ RetryInv /\ WatchAt(c) /\ [Next]_vars => WatchAt(c)'
  BY WatchStep
<1>3. WatchAt(c) => WatchedStateHasTimer
  BY DEF WatchAt, Guarded, Checking, WatchedStateHasTimer, Settled, Inside, Idle, Thread
<1> QED BY <1>1, <1>2, <1>3, TypeCorrect, CloseReached, SerialReached, RetryReached, PTL DEF Spec

-----------------------------------------------------------------------------
(***************************************************************************)
(* The timer manager as the connections use it.                            *)
(***************************************************************************)
timerBars == <<armedBar, collected, FALSE>>

\* What a step of a connection may do to the timers: nothing, stopAll, or
\* addTimer.
Retimed(c) ==
    \/ UNCHANGED timers
    \/ timers' = NoTimers
    \/ \E t \in Timer : timers' = [timers EXCEPT ![t] = c]

\* What it may do to the collected callbacks: nothing, or take one.
Taken(c) ==
    \/ UNCHANGED collected
    \/ \E t \in Timer : <<t, c>> \in collected /\ collected' = collected \ {<<t, c>>}

\* Every step of a connection keeps to it.
LEMMA StepRetimes ==
    ASSUME TypeOK, NEW c \in Conn, StepOf(c) PROVE Retimed(c) /\ Taken(c)
<1> USE DEF machineVars, threadVars, timerVars, envVars, historyVars
<1>1. ASSUME NEW th \in Thread, TransitionStep(c, th) PROVE Retimed(c) /\ Taken(c)
  <2>1. CASE StartStateTimerStops(c, th)
    BY <2>1 DEF StartStateTimerStops, StopAll, Retimed, Taken
  <2>2. CASE StartStateTimerAdds(c, th)
    <3>1. frames[c][th].to \in State
      BY FrameType DEF Frame
    <3>2. TimerOf[frames[c][th].to] \in Timer
      BY <3>1 DEF TimerOf, Timer, State
    <3> QED BY <2>2, <3>2 DEF StartStateTimerAdds, Retimed, Taken
  <2>3. CASE ~StartStateTimerStops(c, th) /\ ~StartStateTimerAdds(c, th)
    BY <1>1, <2>3
       DEF TransitionStep, TransitionTo, WritesState, StartStateTimerReadsDuration,
           StartStateTimerReadsTimer, ChecksEnterHandler, FetchesEnterHandler,
           CallsEnterHandler, CallsEmptyEnterHandler, OnlyFrame, Retimed, Taken
  <2> QED BY <2>1, <2>2, <2>3
<1>2. CASE \E th \in {"handler", "timer"} : CloseStep(c, th)
  BY <1>2 DEF CloseStep, CloseStopsTimers, CloseClosesTransport, CloseNotifies, StopAll,
              Retimed, Taken
<1>3. CASE Accept(c) \/ Opened(c) \/ EnterReceive(c) \/ \E m \in Message : ReceiveMessage(c, m)
  BY <1>3 DEF Accept, Opened, EnterReceive, ReceiveMessage, Retimed, Taken
<1>4. CASE ReceiveRefused(c) \/ ReceiveFails(c) \/ LoopEnds(c) \/ Dispatch(c) \/ DispatchClosed(c)
  BY <1>4 DEF ReceiveRefused, ReceiveFails, LoopEnds, LeaveLoop, Dispatch, DispatchClosed,
              Retimed, Taken
<1>5. CASE HandleWaitRoutingActivation(c) \/ RoutedRejects(c)
  BY <1>5 DEF HandleWaitRoutingActivation, RoutedRejects, HandlerCloses, Retimed, Taken
<1>6. CASE RoutedDiagnostic(c) \/ RoutedAnswers(c) \/ RoutedForwards(c)
           \/ HandleWaitAliveCheckResponse(c)
  BY <1>6 DEF RoutedDiagnostic, RoutedAnswers, RoutedForwards, HandleWaitAliveCheckResponse,
              Retimed, Taken
<1>7. CASE \/ TimeoutInitialInactivity(c) \/ TimeoutGeneralInactivity(c)
           \/ TimeoutAliveCheck(c) \/ TimeoutUserDefined(c)
  BY <1>7 DEF TimeoutInitialInactivity, TimeoutGeneralInactivity, TimeoutAliveCheck,
              TimeoutUserDefined, TakeCallback, Timer, Retimed, Taken
<1>8. CASE \/ TimerGivesUp(c) \/ ReceiveDownstreamResponse(c) \/ UseOfDestroyed(c)
           \/ PeerLeaves(c)
  BY <1>8 DEF TimerGivesUp, ReceiveDownstreamResponse, UseOfDestroyed, PeerLeaves,
              Retimed, Taken
<1> QED BY <1>1, <1>2, <1>3, <1>4, <1>5, <1>6, <1>7, <1>8 DEF StepOf

\* The armed timers of the shared manager are timers of the interface.
LEMMA ArmedTimers ==
    ASSUME TypeOK
    PROVE  /\ armedBar \in [Timer -> Timers!Timer \cup {Timers!NoTimer}]
           /\ \A t \in Timer : timers[t] = NoConn => armedBar[t] = Timers!NoTimer
           /\ \A t \in Timer : timers[t] # NoConn =>
                  /\ armedBar[t] \in Timers!Timer
                  /\ armedBar[t].callback = <<t, timers[t]>>
                  /\ armedBar[t].periodic = FALSE
<1>1. \A t \in Timer : timers[t] = NoConn => armedBar[t] = Timers!NoTimer
  BY DEF armedBar, Timers!NoTimer
<1>2. ASSUME NEW t \in Timer, timers[t] # NoConn
      PROVE  /\ armedBar[t] \in Timers!Timer
             /\ armedBar[t].callback = <<t, timers[t]>>
             /\ armedBar[t].periodic = FALSE
  <2>1. armedBar[t] = [callback |-> <<t, timers[t]>>, periodic |-> FALSE]
    BY <1>2 DEF armedBar
  <2>2. <<t, timers[t]>> \in Callback
    BY <1>2 DEF TypeOK, Callback
  <2> QED BY <2>1, <2>2 DEF Timers!Timer
<1> QED BY <1>1, <1>2 DEF armedBar

\* Stopping all timers or arming one is a step of the interface.
LEMMA RetimedRearms ==
    ASSUME TypeOK, TypeOK', NEW c \in Conn, Retimed(c)
    PROVE  Timers!Rearmed
<1>1. armedBar' \in [Timer -> Timers!Timer \cup {Timers!NoTimer}]
  <2>1. (armedBar \in [Timer -> Timers!Timer \cup {Timers!NoTimer}])'
    BY ArmedTimers, PTL
  <2> QED BY <2>1 DEF Timers!Timer, Timers!NoTimer
<1>2. PICK t \in Timer : \A u \in Timer \ {t} : timers'[u] \in {timers[u], NoConn}
  <2>1. CASE UNCHANGED timers \/ timers' = NoTimers
    BY <2>1 DEF NoTimers, Timer
  <2>2. ASSUME NEW t \in Timer, timers' = [timers EXCEPT ![t] = c]
        PROVE  \A u \in Timer \ {t} : timers'[u] = timers[u]
    BY <2>2 DEF TypeOK
  <2> QED BY <2>1, <2>2 DEF Retimed
<1>3. \A u \in Timer \ {t} : armedBar'[u] \in {armedBar[u], Timers!NoTimer}
  BY <1>2 DEF armedBar, Timers!NoTimer
<1> QED BY <1>1, <1>3 DEF Timers!Rearmed

\* Every step is a step of the interface or does not show.
LEMMA TimerUseStep ==
    ASSUME TypeOK, TypeOK', [Next]_vars
    PROVE  [Timers!Next]_timerBars
<1> USE DEF machineVars, threadVars, timerVars, envVars, historyVars
<1>1. ASSUME NEW c \in Conn, StepOf(c) PROVE [Timers!Next]_timerBars
  <2>1. Retimed(c) /\ Taken(c) /\ Timers!Rearmed
    BY <1>1, StepRetimes, RetimedRearms
  <2>2. CASE UNCHANGED collected
    <3>1. Timers!Rearm
      BY <2>1, <2>2 DEF Timers!Rearm
    <3> QED BY <3>1 DEF Timers!Next
  <2>3. ASSUME NEW t \in Timer, <<t, c>> \in collected, collected' = collected \ {<<t, c>>}
        PROVE  [Timers!Next]_timerBars
    <3>1. Timers!Execute(<<t, c>>)
      BY <2>1, <2>3 DEF Timers!Execute
    <3> QED BY <3>1 DEF Timers!Next, Callback
  <2> QED BY <2>1, <2>2, <2>3 DEF Taken
<1>2. ASSUME NEW expired \in SUBSET Timer, CollectExpired(expired)
      PROVE  Timers!Expire(expired)
  <2>1. \A t \in expired : /\ t \in Timer /\ armedBar[t] \in Timers!Timer
                           /\ armedBar[t].callback = <<t, timers[t]>>
                           /\ armedBar[t].periodic = FALSE
    BY <1>2, ArmedTimers DEF CollectExpired
  <2>2. collected' = {armedBar[t].callback : t \in expired}
    BY <1>2, <2>1 DEF CollectExpired
  <2>3. \A t \in Timer : armedBar'[t] =
            IF t \in expired /\ ~armedBar[t].periodic THEN Timers!NoTimer ELSE armedBar[t]
    BY <1>2, <2>1 DEF CollectExpired, armedBar, Timers!NoTimer
  <2>4. armedBar' = [t \in Timer |->
            IF t \in expired /\ ~armedBar[t].periodic THEN Timers!NoTimer ELSE armedBar[t]]
    BY <2>3 DEF armedBar
  <2> QED BY <1>2, <2>1, <2>2, <2>4 DEF CollectExpired, Timers!Expire
<1>3. CASE Stop \/ UNCHANGED vars
  BY <1>3 DEF Stop, vars, timerBars, armedBar
<1> QED BY <1>1, <1>2, <1>3, NextCases DEF Timers!Next

\* Any number of connections, with or without downstream handler, use the
\* timer manager they share within what TimerManager guarantees
\* (ManagerImplementsInterface).
THEOREM SharedManagerUse == Spec => TimersUsed
<1>1. Init => Timers!Init
  BY DEF Init, NoTimers, armedBar, Timers!Init, Timers!NoTimer
<1>2. TypeOK /\ TypeOK' /\ [Next]_vars => [Timers!Next]_timerBars
  BY TimerUseStep
<1>3. Timers!vars = timerBars
  BY DEF Timers!vars, timerBars
<1> QED
  BY <1>1, <1>2, <1>3, TypeCorrect, PTL
     DEF Spec, TimersUsed, Timers!Spec, Timers!vars, timerBars
=============================================================================
