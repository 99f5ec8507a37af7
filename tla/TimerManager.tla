----------------------------- MODULE TimerManager -----------------------------
(***************************************************************************)
(* TimerManager: a map of timers behind a mutex, one thread that sleeps on *)
(* a condition variable until the next expiry, collects expired timers     *)
(* under the mutex and runs their callbacks without it, and the operations *)
(* any thread (a callback too) may call at any time.                       *)
(*                                                                         *)
(* An operation is one step: it holds the mutex throughout.  The timer     *)
(* thread holds the mutex in "armEmpty" and "armTimed", where it has       *)
(* evaluated the predicate of a wait and is not asleep yet; stop() takes   *)
(* no mutex and can slip in there.  Time is abstract: at some moment the   *)
(* expiry of a timer has passed (due).                                     *)
(***************************************************************************)
EXTENDS Naturals, FiniteSets

CONSTANTS
    Id,       \* timer ids
    MaxGen    \* bound on the calls of addTimer

ASSUME IdAssumption == Id # {}
ASSUME GenAssumption == MaxGen \in Nat

VARIABLES
    timers,    \* m_timers
    running,   \* m_running
    changed,   \* m_timers_changed
    tpc,       \* where run() is
    woken,     \* a notification (or a spurious wake-up) reached the sleeper
    watching,  \* the timers whose earliest expiry ends the timed wait
    pending,   \* callbacks collected and not executed yet
    stopper,   \* where the thread that calls stop() is
    gen,       \* number of calls of addTimer
    fired,     \* history: executions of the callback of each call
    revoked    \* history: calls whose timer an operation took out of the map

threadVars == <<tpc, woken, watching, pending, fired>>
vars == <<timers, running, changed, threadVars, stopper, gen, revoked>>

Gen == 1..MaxGen

\* TimerEntry; gen tells apart the entries an id has over time.
Entry == [gen : Gen, periodic : BOOLEAN, enabled : BOOLEAN, due : BOOLEAN]
NoEntry == [gen |-> 0, periodic |-> FALSE, enabled |-> FALSE, due |-> FALSE]

\* The entry e switched on or off, its expiry passed or still to come.
With(e, enabled, due) ==
    [gen |-> e.gen, periodic |-> e.periodic, enabled |-> enabled, due |-> due]

ThreadPc == {"loop", "lock", "armEmpty", "sleepEmpty", "armTimed", "sleepTimed",
             "callbacks", "done"}

Present == {t \in Id : timers[t] # NoEntry}
Expired == {t \in Present : timers[t].enabled /\ timers[t].due}

-----------------------------------------------------------------------------
(***************************************************************************)
(* The operations.                                                         *)
(***************************************************************************)
\* (After the join the manager is about to be destroyed: no more operations.)
MutexFree == tpc \notin {"armEmpty", "armTimed"} /\ stopper # "joined"

\* notify_one without effect.
NotifyNone == UNCHANGED <<changed, woken>>

\* m_timers_changed = true; m_cv.notify_one()
Notify ==
    /\ changed' = TRUE
    /\ woken' = (woken \/ tpc \in {"sleepEmpty", "sleepTimed"})

\* addTimer: an existing entry of the id is replaced.
AddTimer(t, periodic) ==
    /\ MutexFree /\ gen < MaxGen
    /\ gen' = gen + 1
    /\ timers' = [timers EXCEPT ![t] =
           [gen |-> gen + 1, periodic |-> periodic, enabled |-> TRUE, due |-> FALSE]]
    /\ revoked' = IF t \in Present THEN revoked \cup {timers[t].gen} ELSE revoked
    /\ Notify
    /\ UNCHANGED <<running, tpc, watching, pending, fired, stopper>>

\* removeTimer that switches the timer off and leaves it in the map.
RemoveTimerDisables(t) ==
    /\ MutexFree /\ t \in Present
    /\ timers' = [timers EXCEPT ![t] = With(@, FALSE, timers[t].due)]
    /\ revoked' = revoked \cup {timers[t].gen}
    /\ Notify
    /\ UNCHANGED <<running, tpc, watching, pending, fired, stopper, gen>>

\* removeTimer of a timer that exists.
RemoveTimer(t) ==
    /\ MutexFree /\ t \in Present
    /\ timers' = [timers EXCEPT ![t] = NoEntry]
    /\ revoked' = revoked \cup {timers[t].gen}
    /\ Notify
    /\ UNCHANGED <<running, tpc, watching, pending, fired, stopper, gen>>

\* restartTimer and updateTimer of a timer that exists.
RestartTimer(t) ==
    /\ MutexFree /\ t \in Present
    /\ timers' = [timers EXCEPT ![t] = With(@, timers[t].enabled, FALSE)]
    /\ Notify
    /\ UNCHANGED <<running, tpc, watching, pending, fired, stopper, gen, revoked>>

\* disableTimer: nobody is notified.
DisableTimer(t) ==
    /\ MutexFree /\ t \in Present
    /\ timers' = [timers EXCEPT ![t] = With(@, FALSE, timers[t].due)]
    /\ UNCHANGED <<running, changed, threadVars, stopper, gen, revoked>>

\* enableTimer with m_timers[id], which inserts an entry for an unknown id.
EnableTimerInserts(t) ==
    /\ MutexFree /\ ~timers[t].enabled
    /\ timers' = [timers EXCEPT ![t] = With(@, TRUE, FALSE)]
    /\ Notify
    /\ UNCHANGED <<running, tpc, watching, pending, fired, stopper, gen, revoked>>

\* enableTimer of a disabled timer (of an enabled one: nothing); resetTimer is
\* DisableTimer, then this.
EnableTimer(t) ==
    /\ MutexFree /\ t \in Present /\ ~timers[t].enabled
    /\ timers' = [timers EXCEPT ![t] = With(@, TRUE, FALSE)]
    /\ Notify
    /\ UNCHANGED <<running, tpc, watching, pending, fired, stopper, gen, revoked>>

StopAll ==
    /\ MutexFree
    /\ timers' = [t \in Id |-> NoEntry]
    /\ revoked' = revoked \cup {timers[t].gen : t \in Present}
    /\ Notify
    /\ UNCHANGED <<running, tpc, watching, pending, fired, stopper, gen>>

Operation ==
    \/ \E t \in Id :
          \/ \E periodic \in BOOLEAN : AddTimer(t, periodic)
          \/ RemoveTimer(t)
          \/ RestartTimer(t)
          \/ DisableTimer(t)
          \/ EnableTimer(t)
    \/ StopAll

-----------------------------------------------------------------------------
(***************************************************************************)
(* stop(): the flag, the notification and the join, without the mutex.     *)
(***************************************************************************)
StopRequest ==
    /\ stopper = "idle" /\ running
    /\ running' = FALSE
    /\ stopper' = "notify"
    /\ UNCHANGED <<timers, changed, threadVars, gen, revoked>>

StopNotify ==
    /\ stopper = "notify"
    /\ stopper' = "join"
    /\ woken' = (woken \/ tpc \in {"sleepEmpty", "sleepTimed"})
    /\ UNCHANGED <<timers, running, changed, tpc, watching, pending, fired, gen, revoked>>

StopJoin ==
    /\ stopper = "join" /\ tpc = "done"
    /\ stopper' = "joined"
    /\ UNCHANGED <<timers, running, changed, threadVars, gen, revoked>>

-----------------------------------------------------------------------------
(***************************************************************************)
(* run().                                                                  *)
(***************************************************************************)

\* while (m_running)
Loop ==
    /\ tpc = "loop"
    /\ tpc' = IF running THEN "lock" ELSE "done"
    /\ UNCHANGED <<timers, running, changed, woken, watching, pending, fired,
                   stopper, gen, revoked>>

\* No timer: the flag is reset and the predicate of the wait evaluated.
FindEmpty ==
    /\ tpc = "lock" /\ Present = {}
    /\ changed' = FALSE
    /\ tpc' = IF running THEN "armEmpty" ELSE "loop"
    /\ UNCHANGED <<timers, running, woken, watching, pending, fired, stopper, gen, revoked>>

\* Nothing expired: the same, with the earliest expiry as deadline.
FindNoneExpired ==
    /\ tpc = "lock" /\ Present # {} /\ Expired = {}
    /\ changed' = FALSE
    /\ watching' = {t \in Present : timers[t].enabled}
    /\ tpc' = IF running THEN "armTimed" ELSE "loop"
    /\ UNCHANGED <<timers, running, woken, pending, fired, stopper, gen, revoked>>

\* The wait releases the mutex and blocks.
FallAsleep ==
    /\ tpc \in {"armEmpty", "armTimed"}
    /\ tpc' = IF tpc = "armEmpty" THEN "sleepEmpty" ELSE "sleepTimed"
    /\ woken' = FALSE
    /\ UNCHANGED <<timers, running, changed, watching, pending, fired, stopper,
                   gen, revoked>>

\* The predicate of the timed wait without m_timers_changed.
WaitOverRunningOnly ==
    \/ ~running
    \/ tpc = "sleepEmpty" /\ Present # {}

\* The predicates of the two waits.
WaitOver ==
    \/ ~running
    \/ tpc = "sleepEmpty" /\ Present # {}
    \/ tpc = "sleepTimed" /\ changed

\* The sleeper is woken and evaluates the predicate under the mutex.
WakeUp ==
    /\ tpc \in {"sleepEmpty", "sleepTimed"} /\ woken
    /\ tpc' = IF WaitOver THEN "loop"
              ELSE IF tpc = "sleepEmpty" THEN "armEmpty" ELSE "armTimed"
    /\ UNCHANGED <<timers, running, changed, woken, watching, pending, fired,
                   stopper, gen, revoked>>

\* The deadline of the timed wait passes.
DeadlinePasses ==
    /\ tpc = "sleepTimed" /\ watching # {}
    /\ tpc' = "loop"
    /\ UNCHANGED <<timers, running, changed, woken, watching, pending, fired,
                   stopper, gen, revoked>>

\* The standard allows a wait to wake up for no reason.
SpuriousWakeUp ==
    /\ tpc \in {"sleepEmpty", "sleepTimed"} /\ ~woken
    /\ woken' = TRUE
    /\ UNCHANGED <<timers, running, changed, tpc, watching, pending, fired,
                   stopper, gen, revoked>>

\* Expired timers that forgets to erase the one-shot ones.
AfterExpiryNoErase(t) ==
    IF t \notin Expired THEN timers[t] ELSE With(timers[t], TRUE, FALSE)

\* What is left of an entry when the expired timers were collected.
AfterExpiry(t) ==
    IF t \notin Expired THEN timers[t]
    ELSE IF timers[t].periodic THEN With(timers[t], TRUE, FALSE)
    ELSE NoEntry

\* Expired timers are collected under the mutex.
Collect ==
    /\ tpc = "lock" /\ Expired # {}
    /\ pending' = {timers[t] : t \in Expired}
    /\ timers' = [t \in Id |-> AfterExpiry(t)]
    /\ tpc' = "callbacks"
    /\ UNCHANGED <<running, changed, woken, watching, fired, stopper, gen, revoked>>

\* A callback is executed, in any order and whatever it throws.
RunCallback ==
    /\ tpc = "callbacks"
    /\ \E e \in pending :
          /\ pending' = pending \ {e}
          /\ fired' = [fired EXCEPT ![e.gen] = IF @ < 2 THEN @ + 1 ELSE @]
    /\ UNCHANGED <<timers, running, changed, tpc, woken, watching, stopper, gen, revoked>>

CallbacksDone ==
    /\ tpc = "callbacks" /\ pending = {}
    /\ tpc' = "loop"
    /\ UNCHANGED <<timers, running, changed, woken, watching, pending, fired,
                   stopper, gen, revoked>>

Run ==
    \/ Loop \/ FindEmpty \/ FindNoneExpired \/ FallAsleep \/ WakeUp
    \/ Collect \/ RunCallback \/ CallbacksDone

\* The expiry of a timer passes.
Elapse(t) ==
    /\ t \in Present /\ ~timers[t].due
    /\ timers' = [timers EXCEPT ![t] = With(@, timers[t].enabled, TRUE)]
    /\ UNCHANGED <<running, changed, threadVars, stopper, gen, revoked>>

-----------------------------------------------------------------------------
Init ==
    /\ timers = [t \in Id |-> NoEntry]
    /\ running = TRUE
    /\ changed = FALSE
    /\ tpc = "loop"
    /\ woken = FALSE
    /\ watching = {}
    /\ pending = {}
    /\ stopper = "idle"
    /\ gen = 0
    /\ fired = [g \in Gen |-> 0]
    /\ revoked = {}

Next ==
    \/ Operation
    \/ StopRequest \/ StopNotify \/ StopJoin
    \/ Run \/ DeadlinePasses \/ SpuriousWakeUp
    \/ \E t \in Id : Elapse(t)

Spec == Init /\ [][Next]_vars

(***************************************************************************)
(* The threads are scheduled and time passes: a deadline that is reached   *)
(* ends the wait however often the sleeper was woken before, hence strong  *)
(* fairness.  Nobody has to call an operation, and no wake-up has to come  *)
(* without a reason.                                                       *)
(***************************************************************************)
Fairness ==
    /\ WF_vars(Run)
    /\ SF_vars(DeadlinePasses)
    /\ WF_vars(StopNotify) /\ WF_vars(StopJoin)
    /\ \A t \in Id : WF_vars(Elapse(t))

FairSpec == Spec /\ Fairness

-----------------------------------------------------------------------------
(***************************************************************************)
(* Properties.                                                             *)
(***************************************************************************)

\* Every variable has its type.
TypeOK ==
    /\ timers \in [Id -> Entry \cup {NoEntry}]
    /\ running \in BOOLEAN
    /\ changed \in BOOLEAN
    /\ tpc \in ThreadPc
    /\ woken \in BOOLEAN
    /\ watching \subseteq Id
    /\ pending \subseteq Entry
    /\ stopper \in {"idle", "notify", "join", "joined"}
    /\ gen \in 0..MaxGen
    /\ fired \in [Gen -> 0..2]
    /\ revoked \subseteq Gen

\* The callback of a one-shot timer is executed at most once, although it can
\* be restarted, disabled, enabled and replaced while its callback is collected
\* and waits: once collected, the timer is out of the map.
OneShotOnce ==
    \A e \in pending : ~e.periodic => fired[e.gen] = 0

\* A one-shot timer that removeTimer, stopAll or a new addTimer took out of the
\* map is silent from then on: no callback of it is waiting or will run.
RemovedOneShotSilent ==
    \A e \in pending : ~e.periodic => e.gen \notin revoked

\* After removeTimer, stopAll or the replacement of a timer, one-shot or
\* periodic, run() collects no callback of it any more: the one that was
\* already collected is the last that can run.
RemovedTimerDrains ==
    [][\A g \in revoked : \A e \in pending' : e.gen = g =>
          /\ e \in pending
          /\ \A f \in pending' : f.gen = g => f = e]_vars

\* Whatever operations fall between run() looking at the map and falling
\* asleep, it never sleeps on without a reason to wake up: asleep without
\* deadline, a notification is on its way or no timer exists; asleep with one,
\* a notification is on its way or the deadline accounts for every timer that
\* can expire.
NoLostWakeUp ==
    /\ tpc = "sleepEmpty" => woken \/ Present = {}
    /\ tpc = "sleepTimed" => woken \/ \A t \in Present : timers[t].enabled => t \in watching

\* What a user of the manager sees of it.
armedBar == [t \in Id |-> [callback |-> timers[t].gen, periodic |-> timers[t].periodic]]
waitingBar == {e.gen : e \in pending}
stoppedBar == stopper = "joined"

Interface == INSTANCE TimerInterface
    WITH Callback <- Gen, NoCallback <- 0,
         armed <- armedBar, waiting <- waitingBar, stopped <- stoppedBar

\* The manager with its mutex, its flag, its condition variable and the
\* callbacks it runs outside the mutex gives its users what TimerInterface
\* says: callbacks run only for timers that were armed and expired, a one-shot
\* timer is gone when its callback runs, and stop() leaves nothing behind.
TimersImplemented == Interface!Spec

\* No wake-up is lost between the operations and run(): a timer whose expiry
\* has passed gets its callback collected, unless somebody restarts, disables
\* or removes it or the manager is stopped.
DueTimerFires ==
    \A g \in Gen :
        (\E t \in Id : timers[t].gen = g /\ timers[t].enabled /\ timers[t].due)
            ~> (\/ ~running
                \/ \A t \in Id : timers[t].gen = g => ~timers[t].enabled \/ ~timers[t].due)

\* "Stops all timers and the timer manager": stop() returns.
StopReturns == stopper = "notify" ~> stopper = "joined"
=============================================================================
