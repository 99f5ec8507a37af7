------------------------ MODULE ConnectionRefinement ------------------------
(***************************************************************************)
(* Connection implements ConnectionLifecycle, and uses the timer manager   *)
(* as TimerInterface says one behaves.                                     *)
(***************************************************************************)
EXTENDS Connection

\* The places of the handler thread at which it may have a message it has not
\* acted upon: blocked in recv, or on its way to the handler of the state.
MessageInHand(c) == hpc[c] \in {"receive", "dispatch", "waitRouting", "routed"}

phaseBar == [c \in Conn |->
    CASE hpc[c] = "none" -> "idle"
      [] hpc[c] # "none" /\ closes[c] = 0 -> "open"
      [] OTHER -> IF MessageInHand(c) THEN "last" ELSE "closed"]

clientBar == [c \in Conn |-> IF routed[c] THEN clientAddr[c] ELSE NoAddr]

reasonBar == [c \in Conn |-> IF closes[c] > 0 THEN closeReason[c] ELSE "None"]

Lifecycle == INSTANCE ConnectionLifecycle
    WITH phase <- phaseBar, client <- clientBar, serving <- served,
         reason <- reasonBar

\* The threads of a connection together behave like the life cycle the
\* callbacks of DoIPServerModel describe.  The timer thread may run the whole
\* close while the handler thread is anywhere between recv and its trailing
\* transitionTo, and a late response may reopen the state machine: all the same
\* onCloseConnection comes once, no message is handed to the application before
\* routing activation or from another client, and after onCloseConnection at
\* most the one message the handler thread had in hand is.
LifecycleRefined == Lifecycle!Spec

-----------------------------------------------------------------------------
\* The timers of the shared manager: all of them one-shot, each with the
\* callback of the connection that armed it last.
armedBar == [t \in Timer |->
    [callback |-> IF timers[t] = NoConn THEN NoConn ELSE <<t, timers[t]>>,
     periodic |-> FALSE]]

Timers == INSTANCE TimerInterface
    WITH Id <- Timer, NoCallback <- NoConn,
         armed <- armedBar, waiting <- collected, stopped <- FALSE

\* The timer manager the connections share behaves as TimerManager does for
\* its users: however the handlers, the callbacks and the responses stop and
\* arm its timers, every timeout comes from a timer that was armed, expired
\* and was disarmed by expiring, and no round of run() begins before the
\* callbacks of the last one have run.
TimersUsed == Timers!Spec
=============================================================================
