--------------------------- MODULE TimerInterface ---------------------------
(***************************************************************************)
(* What the users of a timer manager rely on: a callback is executed only  *)
(* after its timer was armed and expired; a one-shot timer is disarmed as  *)
(* it expires, before its callback runs; no timer expires while callbacks  *)
(* of an earlier expiry wait; and after stop() returned nothing runs.      *)
(* TimerManager implements it, and Connection uses no more than it.        *)
(***************************************************************************)
CONSTANTS
    Id,          \* timer ids
    Callback,    \* what addTimer is given to call
    NoCallback   \* not a callback

VARIABLES
    armed,    \* the callback and kind of each armed timer
    waiting,  \* callbacks of expired timers, not executed yet
    stopped   \* stop() has returned

vars == <<armed, waiting, stopped>>

Timer == [callback : Callback, periodic : BOOLEAN]
NoTimer == [callback |-> NoCallback, periodic |-> FALSE]

Init ==
    /\ armed = [t \in Id |-> NoTimer]
    /\ waiting = {}
    /\ stopped = FALSE

\* Any number of timers is disarmed and at most one is armed anew.
Rearmed ==
    /\ armed' \in [Id -> Timer \cup {NoTimer}]
    /\ \E t \in Id : \A u \in Id \ {t} : armed'[u] \in {armed[u], NoTimer}

\* addTimer, removeTimer or stopAll.
Rearm ==
    /\ ~stopped
    /\ Rearmed
    /\ UNCHANGED <<waiting, stopped>>

\* run() collects the timers that expired.
Expire(expired) ==
    /\ ~stopped /\ waiting = {}
    /\ expired # {}
    /\ \A t \in expired : armed[t] \in Timer
    /\ waiting' = {armed[t].callback : t \in expired}
    /\ armed' = [t \in Id |->
           IF t \in expired /\ ~armed[t].periodic THEN NoTimer ELSE armed[t]]
    /\ UNCHANGED stopped

\* run() executes a callback, which may use the manager.
Execute(callback) ==
    /\ ~stopped /\ callback \in waiting
    /\ waiting' = waiting \ {callback}
    /\ Rearmed
    /\ UNCHANGED stopped

\* stop() has joined the thread.
Stop ==
    /\ ~stopped /\ waiting = {}
    /\ stopped' = TRUE
    /\ UNCHANGED <<armed, waiting>>

Next ==
    \/ Rearm
    \/ \E expired \in SUBSET Id : Expire(expired)
    \/ \E callback \in Callback : Execute(callback)
    \/ Stop

Spec == Init /\ [][Next]_vars
=============================================================================
