------------------------- MODULE TimerManager_proofs -------------------------
(***************************************************************************)
(* TimerManager for any set of timer ids and any number of calls of        *)
(* addTimer: types, the two promises about one-shot timers, what is left   *)
(* of a timer that was removed, that no wake-up is lost, and that the      *)
(* manager implements TimerInterface.                                      *)
(*                                                                         *)
(* OneShotOnce and RemovedOneShotSilent are about callbacks that wait      *)
(* outside the mutex, so they are not inductive: what counts is that a     *)
(* one-shot timer is never both in the map and collected, that no two      *)
(* entries (in the map, or collected) are of the same call of addTimer,    *)
(* and that neither has been executed or revoked.                          *)
(***************************************************************************)
EXTENDS TimerManager, TLAPS

\* Calls of addTimer to come have left no trace.
FutureInv ==
    \A g \in Gen : g > gen => fired[g] = 0 /\ g \notin revoked

\* An entry of the map is of a call that was made, is the only one of it, was
\* not revoked, and if it is one-shot its callback has not run.
MapInv ==
    \A t \in Present :
        /\ timers[t].gen \in 1..gen
        /\ timers[t].gen \notin revoked
        /\ ~timers[t].periodic => fired[timers[t].gen] = 0
        /\ \A u \in Present : timers[u].gen = timers[t].gen => u = t

\* A collected callback is the only one of its call; if the timer is still in
\* the map it is periodic; if it is one-shot it has not run nor been revoked.
PendingInv ==
    \A e \in pending :
        /\ e.gen \in 1..gen
        /\ \A f \in pending : f.gen = e.gen => f = e
        /\ \A t \in Present : timers[t].gen = e.gen => e.periodic /\ timers[t].periodic
        /\ ~e.periodic => fired[e.gen] = 0 /\ e.gen \notin revoked

IndInv == TypeOK /\ FutureInv /\ MapInv /\ PendingInv

-----------------------------------------------------------------------------
\* What membership in the map says of an entry.
LEMMA PresentEntry ==
    ASSUME TypeOK, NEW t \in Present
    PROVE  /\ t \in Id
           /\ timers[t] \in Entry
  BY DEF TypeOK, Present

\* Initially nothing has been added.
LEMMA InitInd == Init => IndInv
  <1> SUFFICES ASSUME Init PROVE IndInv
    OBVIOUS
  <1>1. Present = {} /\ pending = {}
    BY DEF Init, Present
  <1>2. TypeOK
    <2>1. timers \in [Id -> Entry \cup {NoEntry}] /\ fired \in [Gen -> 0..2]
      BY DEF Init
    <2>2. gen \in 0..MaxGen /\ tpc \in ThreadPc
      BY GenAssumption DEF Init, ThreadPc
    <2>3. pending \subseteq Entry /\ revoked \subseteq Gen /\ watching \subseteq Id
      BY Zenon DEF Init
    <2> QED
      BY <2>1, <2>2, <2>3 DEF Init, TypeOK
  <1>3. FutureInv
    BY DEF Init, FutureInv
  <1> QED
    BY <1>1, <1>2, <1>3 DEF IndInv, MapInv, PendingInv

-----------------------------------------------------------------------------
(***************************************************************************)
(* Three kinds of steps: those that leave the map and the callbacks alone, *)
(* those that change an entry in place, and the ones with a case of their  *)
(* own.                                                                    *)
(***************************************************************************)
data == <<timers, pending, gen, fired, revoked>>

\* The types of what a step of the threads changes.
ControlTyped ==
    /\ running' \in BOOLEAN
    /\ changed' \in BOOLEAN
    /\ tpc' \in ThreadPc
    /\ woken' \in BOOLEAN
    /\ watching' \subseteq Id
    /\ stopper' \in {"idle", "notify", "join", "joined"}

\* Every step keeps the types of the control variables.
LEMMA ControlStep ==
    ASSUME TypeOK, [Next]_vars PROVE ControlTyped
  <1> USE DEF TypeOK, ControlTyped, ThreadPc
  <1>1. CASE Operation
    <2>1. changed' \in BOOLEAN /\ woken' \in BOOLEAN
      BY <1>1 DEF Operation, AddTimer, RemoveTimer, RestartTimer, DisableTimer,
                  EnableTimer, StopAll, Notify, threadVars
    <2>2. UNCHANGED <<running, tpc, watching, stopper>>
      BY <1>1 DEF Operation, AddTimer, RemoveTimer, RestartTimer, DisableTimer,
                  EnableTimer, StopAll, threadVars
    <2> QED
      BY <2>1, <2>2
  <1>2. CASE StopRequest \/ StopNotify \/ StopJoin
    BY <1>2 DEF StopRequest, StopNotify, StopJoin, threadVars
  <1>3. CASE Loop \/ FindEmpty \/ FallAsleep \/ WakeUp \/ RunCallback \/ CallbacksDone
    BY <1>3 DEF Loop, FindEmpty, FallAsleep, WakeUp, RunCallback, CallbacksDone
  <1>4. CASE FindNoneExpired \/ Collect
    BY <1>4 DEF FindNoneExpired, Collect, Present
  <1>5. CASE DeadlinePasses \/ SpuriousWakeUp \/ \E t \in Id : Elapse(t)
    BY <1>5 DEF DeadlinePasses, SpuriousWakeUp, Elapse, threadVars
  <1>6. CASE UNCHANGED vars
    BY <1>6 DEF vars, threadVars
  <1> QED
    BY <1>1, <1>2, <1>3, <1>4, <1>5, <1>6 DEF Next, Run

\* An entry may be switched off and on and its expiry moved: only the call it
\* is of, and whether it is periodic, matter.
InPlace ==
    /\ timers' \in [Id -> Entry \cup {NoEntry}]
    /\ \A t \in Id : /\ timers'[t].gen = timers[t].gen
                     /\ timers'[t].periodic = timers[t].periodic
                     /\ timers'[t] = NoEntry <=> timers[t] = NoEntry
    /\ UNCHANGED <<pending, gen, fired, revoked>>

LEMMA InPlaceKeeps ==
    ASSUME IndInv, ControlTyped, InPlace PROVE IndInv'
  <1>1. TypeOK'
    BY DEF IndInv, TypeOK, ControlTyped, InPlace
  <1>2. Present' = Present
    BY DEF InPlace, Present
  <1>3. \A t \in Present : /\ t \in Id
                           /\ timers'[t].gen = timers[t].gen
                           /\ timers'[t].periodic = timers[t].periodic
    BY DEF InPlace, Present
  <1>4. FutureInv'
    BY DEF IndInv, FutureInv, InPlace
  <1>5. MapInv'
    BY <1>2, <1>3 DEF IndInv, MapInv, InPlace
  <1>6. PendingInv'
    BY <1>2, <1>3 DEF IndInv, PendingInv, InPlace
  <1> QED
    BY <1>1, <1>4, <1>5, <1>6 DEF IndInv

-----------------------------------------------------------------------------
(***************************************************************************)
(* The steps that add, take out and execute.                               *)
(***************************************************************************)

\* A new entry is of a call that has left no trace yet; the entry it replaces
\* is revoked, and if it was collected too it is periodic.
LEMMA AddTimerKeeps ==
    ASSUME IndInv, ControlTyped, NEW t \in Id, NEW periodic \in BOOLEAN,
           AddTimer(t, periodic)
    PROVE  IndInv'
  <1> DEFINE new == [gen |-> gen + 1, periodic |-> periodic, enabled |-> TRUE, due |-> FALSE]
  <1>1. gen \in Nat /\ gen + 1 \in Gen /\ gen' = gen + 1 /\ gen' \in 0..MaxGen
    BY GenAssumption DEF IndInv, TypeOK, AddTimer, Gen
  <1>2. new \in Entry /\ new.gen = gen + 1 /\ new.periodic = periodic /\ new # NoEntry
    BY <1>1 DEF Entry, NoEntry
  <1> HIDE DEF new
  <1>3. timers' = [timers EXCEPT ![t] = new] /\ UNCHANGED <<pending, fired>>
    BY DEF AddTimer, new
  <1>4. /\ \A u \in Id : timers'[u] = IF u = t THEN new ELSE timers[u]
        /\ timers' \in [Id -> Entry \cup {NoEntry}]
    BY <1>2, <1>3 DEF IndInv, TypeOK
  <1>5. Present' = Present \cup {t}
    BY <1>2, <1>4 DEF Present
  <1>6. \A g \in Gen : g \in revoked' => g \in revoked \/ (t \in Present /\ g = timers[t].gen)
    BY DEF AddTimer
  <1>7. revoked' \subseteq Gen
    BY PresentEntry DEF AddTimer, IndInv, TypeOK, Entry
  <1>8. TypeOK'
    BY <1>1, <1>3, <1>4, <1>7 DEF IndInv, TypeOK, ControlTyped
  <1>9. \A u \in Present : timers[u].gen \in Gen /\ timers[u].gen \in 1..gen
    BY PresentEntry DEF IndInv, Entry, MapInv
  <1>10. FutureInv'
    BY <1>1, <1>3, <1>6, <1>9 DEF IndInv, FutureInv, Gen
  <1>11. fired[gen + 1] = 0 /\ gen + 1 \notin revoked'
    BY <1>1, <1>6, <1>9 DEF IndInv, FutureInv
  <1>12. MapInv'
    <2> SUFFICES ASSUME NEW u \in Present'
                 PROVE  /\ timers'[u].gen \in 1..gen'
                        /\ timers'[u].gen \notin revoked'
                        /\ ~timers'[u].periodic => fired'[timers'[u].gen] = 0
                        /\ \A v \in Present' : timers'[v].gen = timers'[u].gen => v = u
      BY DEF MapInv
    <2>1. CASE u = t
      BY <1>1, <1>2, <1>3, <1>4, <1>5, <1>9, <1>11, <2>1 DEF Present
    <2>2. CASE u # t
      <3>1. u \in Present /\ timers'[u] = timers[u]
        BY <1>4, <1>5, <2>2 DEF Present
      <3>2. timers[u].gen \notin revoked'
        BY <1>6, <1>9, <2>2, <3>1 DEF IndInv, MapInv
      <3>3. \A v \in Present' : timers'[v].gen = timers[u].gen => v = u
        BY <1>1, <1>2, <1>4, <1>5, <1>9, <3>1 DEF IndInv, MapInv, Present
      <3> QED
        BY <1>1, <1>3, <1>9, <3>1, <3>2, <3>3 DEF IndInv, MapInv
    <2> QED
      BY <2>1, <2>2
  <1>13. PendingInv'
    <2> SUFFICES ASSUME NEW e \in pending
                 PROVE  /\ e.gen \in 1..gen'
                        /\ \A f \in pending : f.gen = e.gen => f = e
                        /\ \A u \in Present' : timers'[u].gen = e.gen
                                                   => e.periodic /\ timers'[u].periodic
                        /\ ~e.periodic => fired[e.gen] = 0 /\ e.gen \notin revoked'
      BY <1>3 DEF PendingInv
    <2>1. e.gen \in Gen /\ e.gen \in 1..gen
      BY DEF IndInv, TypeOK, PendingInv, Entry
    <2>2. \A u \in Present' : timers'[u].gen = e.gen => e.periodic /\ timers'[u].periodic
      BY <1>1, <1>2, <1>4, <1>5, <2>1 DEF IndInv, PendingInv, Present
    <2>3. ~e.periodic => fired[e.gen] = 0 /\ e.gen \notin revoked'
      BY <1>6, <2>1 DEF IndInv, PendingInv
    <2> QED
      BY <1>1, <2>1, <2>2, <2>3 DEF IndInv, PendingInv
  <1> QED
    BY <1>8, <1>10, <1>12, <1>13 DEF IndInv

\* An operation that takes entries out of the map and revokes them.
TakeOut ==
    /\ timers' \in [Id -> Entry \cup {NoEntry}]
    /\ \A t \in Id : timers'[t] = timers[t] \/ timers'[t] = NoEntry
    /\ \A g \in revoked' : \/ g \in revoked
                           \/ \E t \in Present : timers[t].gen = g /\ t \notin Present'
    /\ UNCHANGED <<pending, gen, fired>>

\* A one-shot timer taken out of the map was not collected.
LEMMA TakeOutKeeps ==
    ASSUME IndInv, ControlTyped, TakeOut PROVE IndInv'
  <1>1. \A t \in Present : timers[t].gen \in Gen /\ timers[t].gen \in 1..gen
    BY PresentEntry DEF IndInv, Entry, MapInv
  <1>2. TypeOK'
    BY <1>1 DEF IndInv, TypeOK, ControlTyped, TakeOut
  <1>3. Present' \subseteq Present /\ \A t \in Present' : timers'[t] = timers[t]
    BY DEF TakeOut, Present
  <1>4. FutureInv'
    BY <1>1 DEF IndInv, TypeOK, FutureInv, TakeOut, Gen
  <1>5. MapInv'
    BY <1>1, <1>3 DEF IndInv, MapInv, TakeOut
  <1>6. PendingInv'
    BY <1>3 DEF IndInv, PendingInv, TakeOut
  <1> QED
    BY <1>2, <1>4, <1>5, <1>6 DEF IndInv

\* Collecting takes the one-shot timers out of the map as it lists them.
LEMMA CollectKeeps ==
    ASSUME IndInv, ControlTyped, Collect PROVE IndInv'
  <1>1. /\ UNCHANGED <<fired, gen, revoked>>
        /\ pending' = {timers[t] : t \in Expired}
        /\ timers' = [t \in Id |-> AfterExpiry(t)]
    BY DEF Collect
  <1>2. \A t \in Present : t \in Id /\ timers[t] \in Entry
    BY PresentEntry DEF IndInv
  <1>3. Expired \subseteq Present
    BY DEF Expired
  <1>4. \A t \in Expired : timers[t].periodic =>
            /\ AfterExpiry(t) \in Entry
            /\ AfterExpiry(t).gen = timers[t].gen
            /\ AfterExpiry(t).periodic = timers[t].periodic
    BY <1>2, <1>3 DEF AfterExpiry, With, Entry
  <1>5. \A t \in Id :
            \/ t \notin Expired /\ timers'[t] = timers[t]
            \/ t \in Expired /\ timers[t].periodic /\ timers'[t] = AfterExpiry(t)
            \/ t \in Expired /\ ~timers[t].periodic /\ timers'[t] = NoEntry
    BY <1>1 DEF AfterExpiry
  <1>6. timers' \in [Id -> Entry \cup {NoEntry}]
    BY <1>1, <1>4, <1>5 DEF IndInv, TypeOK
  <1>7. TypeOK'
    BY <1>1, <1>2, <1>3, <1>6 DEF IndInv, TypeOK, ControlTyped
  <1>8. \A t \in Present' : /\ t \in Present
                            /\ timers'[t].gen = timers[t].gen
                            /\ timers'[t].periodic = timers[t].periodic
                            /\ t \in Expired => timers[t].periodic
    BY <1>3, <1>4, <1>5 DEF Present
  <1>9. FutureInv'
    BY <1>1 DEF IndInv, FutureInv
  <1>10. MapInv'
    BY <1>1, <1>8 DEF IndInv, MapInv
  <1>11. PendingInv'
    <2> SUFFICES ASSUME NEW t \in Expired
                 PROVE  LET e == timers[t] IN
                        /\ e.gen \in 1..gen
                        /\ \A u \in Expired : timers[u].gen = e.gen => timers[u] = e
                        /\ \A u \in Present' : timers'[u].gen = e.gen
                                                   => e.periodic /\ timers'[u].periodic
                        /\ ~e.periodic => fired[e.gen] = 0 /\ e.gen \notin revoked
      BY <1>1 DEF PendingInv
    <2>1. t \in Present
      BY <1>3
    <2>2. \A u \in Present : timers[u].gen = timers[t].gen => u = t
      BY <2>1 DEF IndInv, MapInv
    <2> QED
      BY <1>3, <1>8, <2>1, <2>2 DEF IndInv, MapInv
  <1> QED
    BY <1>7, <1>9, <1>10, <1>11 DEF IndInv

\* Executing a callback touches no other entry of the same call.
LEMMA RunCallbackKeeps ==
    ASSUME IndInv, ControlTyped, RunCallback PROVE IndInv'
  <1>1. PICK e \in pending :
            /\ pending' = pending \ {e}
            /\ fired' = [fired EXCEPT ![e.gen] = IF @ < 2 THEN @ + 1 ELSE @]
    BY DEF RunCallback
  <1>2. UNCHANGED <<timers, gen, revoked>> /\ Present' = Present
    BY DEF RunCallback, Present
  <1>3. e.gen \in Gen /\ e.gen \in 1..gen
    BY DEF IndInv, TypeOK, PendingInv, Entry
  <1>4. fired' \in [Gen -> 0..2] /\ \A g \in Gen : g # e.gen => fired'[g] = fired[g]
    BY <1>1, <1>3 DEF IndInv, TypeOK
  <1>5. TypeOK'
    BY <1>1, <1>2, <1>4 DEF IndInv, TypeOK, ControlTyped
  <1>6. FutureInv'
    BY <1>2, <1>3, <1>4 DEF IndInv, FutureInv, TypeOK, Gen
  <1>7. \A t \in Present : timers[t].gen \in Gen
    BY PresentEntry DEF IndInv, Entry
  <1>8. MapInv'
    BY <1>2, <1>4, <1>7 DEF IndInv, MapInv, PendingInv
  <1>9. \A f \in pending' : f \in pending /\ f.gen # e.gen /\ f.gen \in Gen
    BY <1>1 DEF IndInv, PendingInv, TypeOK, Entry
  <1>10. PendingInv'
    BY <1>2, <1>4, <1>9 DEF IndInv, PendingInv
  <1> QED
    BY <1>5, <1>6, <1>8, <1>10 DEF IndInv

-----------------------------------------------------------------------------
\* The steps that change entries in place are such steps.
LEMMA InPlaceSteps ==
    ASSUME IndInv, NEW t \in Id,
           RestartTimer(t) \/ DisableTimer(t) \/ EnableTimer(t) \/ Elapse(t)
    PROVE  InPlace
  <1>1. PICK en \in BOOLEAN, du \in BOOLEAN :
            timers' = [timers EXCEPT ![t] = With(timers[t], en, du)]
    BY PresentEntry DEF IndInv, RestartTimer, DisableTimer, EnableTimer, Elapse, Entry
  <1>2. t \in Present /\ timers[t] \in Entry /\ UNCHANGED <<pending, gen, fired, revoked>>
    BY PresentEntry DEF IndInv, RestartTimer, DisableTimer, EnableTimer, Elapse, threadVars
  <1>3. /\ With(timers[t], en, du) \in Entry
        /\ With(timers[t], en, du).gen = timers[t].gen
        /\ With(timers[t], en, du).periodic = timers[t].periodic
    BY <1>2 DEF With, Entry
  <1>4. timers[t] # NoEntry /\ NoEntry \notin Entry
    BY <1>2 DEF Present, NoEntry, Entry, Gen
  <1> QED
    BY <1>1, <1>2, <1>3, <1>4 DEF InPlace, IndInv, TypeOK

\* removeTimer and stopAll take out what they revoke.
LEMMA TakeOutSteps ==
    ASSUME IndInv, StopAll \/ \E t \in Id : RemoveTimer(t)
    PROVE  TakeOut
  <1>1. CASE StopAll
    BY <1>1 DEF StopAll, TakeOut, Present
  <1>2. ASSUME NEW t \in Id, RemoveTimer(t) PROVE TakeOut
    BY <1>2 DEF RemoveTimer, TakeOut, Present, IndInv, TypeOK
  <1> QED
    BY <1>1, <1>2

\* Every step preserves the inductive invariant.
LEMMA NextInd == IndInv /\ [Next]_vars => IndInv'
  <1> SUFFICES ASSUME IndInv, [Next]_vars PROVE IndInv'
    OBVIOUS
  <1>1. ControlTyped
    BY ControlStep DEF IndInv
  <1>2. ASSUME NEW t \in Id, NEW periodic \in BOOLEAN, AddTimer(t, periodic) PROVE IndInv'
    BY <1>1, <1>2, AddTimerKeeps
  <1>3. ASSUME NEW t \in Id,
               RestartTimer(t) \/ DisableTimer(t) \/ EnableTimer(t) \/ Elapse(t)
        PROVE  IndInv'
    BY <1>1, <1>3, InPlaceSteps, InPlaceKeeps
  <1>4. CASE StopAll \/ \E t \in Id : RemoveTimer(t)
    BY <1>1, <1>4, TakeOutSteps, TakeOutKeeps
  <1>5. CASE Collect
    BY <1>1, <1>5, CollectKeeps
  <1>6. CASE RunCallback
    BY <1>1, <1>6, RunCallbackKeeps
  <1>7. CASE UNCHANGED data
    <2>1. InPlace
      BY <1>7 DEF data, InPlace, IndInv, TypeOK
    <2> QED
      BY <1>1, <2>1, InPlaceKeeps
  <1>8. CASE StopRequest \/ StopNotify \/ StopJoin
    <2>1. UNCHANGED data
      BY <1>8 DEF StopRequest, StopNotify, StopJoin, threadVars, data
    <2> QED
      BY <1>7, <2>1
  <1>9. CASE Loop \/ FindEmpty \/ FindNoneExpired \/ FallAsleep \/ WakeUp
             \/ CallbacksDone \/ DeadlinePasses \/ SpuriousWakeUp \/ UNCHANGED vars
    <2>1. UNCHANGED data
      BY <1>9 DEF Loop, FindEmpty, FindNoneExpired, FallAsleep, WakeUp, CallbacksDone,
                  DeadlinePasses, SpuriousWakeUp, vars, threadVars, data
    <2> QED
      BY <1>7, <2>1
  <1> QED
    BY <1>2, <1>3, <1>4, <1>5, <1>6, <1>8, <1>9 DEF Next, Operation, Run

\* The inductive invariant holds in every reachable state.
LEMMA IndAlways == Spec => []IndInv
  BY InitInd, NextInd, PTL DEF Spec

\* Every variable of the timer manager keeps its type, for any set of ids and
\* any number of timers.
THEOREM TimerManagerTyped == Spec => []TypeOK
  <1>1. IndInv => TypeOK
    BY DEF IndInv
  <1> QED
    BY <1>1, IndAlways, PTL

\* However operations interleave with run(), which executes callbacks after it
\* released the mutex, the callback of a one-shot timer runs at most once.
THEOREM OneShotTimersFireOnce == Spec => []OneShotOnce
  <1>1. IndInv => OneShotOnce
    BY DEF IndInv, PendingInv, OneShotOnce
  <1> QED
    BY <1>1, IndAlways, PTL

\* When removeTimer reports that it removed a one-shot timer, or addTimer
\* replaces it, or stopAll clears it, its callback is not waiting to run.
THEOREM RemovedOneShotsAreSilent == Spec => []RemovedOneShotSilent
  <1>1. IndInv => RemovedOneShotSilent
    BY DEF IndInv, PendingInv, RemovedOneShotSilent
  <1> QED
    BY <1>1, IndAlways, PTL

-----------------------------------------------------------------------------
(***************************************************************************)
(* A timer that an operation took out of the map.                          *)
(***************************************************************************)

\* Callbacks are added only by collecting entries of the map, and those are of
\* calls that were not revoked, each in one entry.
LEMMA DrainStep ==
    IndInv /\ [Next]_vars =>
        \A g \in revoked : \A e \in pending' : e.gen = g =>
            /\ e \in pending
            /\ \A f \in pending' : f.gen = g => f = e
  <1> SUFFICES ASSUME IndInv, [Next]_vars, NEW g \in revoked, NEW e \in pending', e.gen = g
               PROVE  /\ e \in pending
                      /\ \A f \in pending' : f.gen = g => f = e
    OBVIOUS
  <1>1. CASE Collect
    <2>1. PICK t \in Expired : e = timers[t]
      BY <1>1 DEF Collect
    <2>2. e.gen \notin revoked
      BY <2>1 DEF IndInv, MapInv, Expired
    <2> QED
      BY <2>2
  <1>2. CASE ~Collect
    <2>1. pending' \subseteq pending
      <3>1. CASE Operation \/ StopRequest \/ StopNotify \/ StopJoin \/ UNCHANGED vars
                 \/ \E t \in Id : Elapse(t)
        BY <3>1 DEF Operation, AddTimer, RemoveTimer, RestartTimer, DisableTimer,
           EnableTimer, StopAll, StopRequest, StopNotify, StopJoin, Elapse, vars,
           threadVars
      <3>2. CASE Run \/ DeadlinePasses \/ SpuriousWakeUp
        BY <1>2, <3>2 DEF Run, Loop, FindEmpty, FindNoneExpired, FallAsleep, WakeUp,
           RunCallback, CallbacksDone, DeadlinePasses, SpuriousWakeUp
      <3> QED
        BY <3>1, <3>2 DEF Next
    <2> QED
      BY <2>1 DEF IndInv, PendingInv
  <1> QED
    BY <1>1, <1>2

\* A timer that removeTimer, stopAll or addTimer took out of the map, periodic
\* or not, is never collected again: at most the callback that was already
\* collected still runs.
THEOREM RemovedTimersDrain == Spec => RemovedTimerDrains
  BY IndAlways, DrainStep, PTL DEF Spec, RemovedTimerDrains

-----------------------------------------------------------------------------
(***************************************************************************)
(* The wake-ups.  An operation cannot fall between the evaluation of a     *)
(* predicate and the sleep, because run() holds the mutex there.  Before   *)
(* that the flag remembers it; after that the notification reaches the     *)
(* sleeper, and the flag is still set when it evaluates the predicate.     *)
(***************************************************************************)

\* The deadline accounts for every timer that can expire.
Accounted == \A t \in Present : timers[t].enabled => t \in watching

\* Why run() may go to sleep, and sleep on.
WakeInv ==
    /\ tpc = "armEmpty" => Present = {}
    /\ tpc = "sleepEmpty" /\ ~woken => Present = {}
    /\ tpc = "armTimed" => Accounted /\ ~changed
    /\ tpc = "sleepTimed" /\ ~changed => Accounted
    /\ tpc = "sleepTimed" /\ ~woken => ~changed

\* An operation notifies the sleeper, or adds no timer that can expire.
LEMMA OperationNotifies ==
    ASSUME TypeOK, Operation
    PROVE  /\ UNCHANGED <<tpc, watching>> /\ tpc \notin {"armEmpty", "armTimed"}
           /\ \/ changed' = TRUE /\ woken' = (woken \/ tpc \in {"sleepEmpty", "sleepTimed"})
              \/ /\ UNCHANGED <<changed, woken>>
                 /\ Present' \subseteq Present
                 /\ \A t \in Present' : timers'[t].enabled => timers[t].enabled
  <1>1. ASSUME NEW t \in Id, DisableTimer(t)
        PROVE  /\ UNCHANGED <<tpc, watching, changed, woken>>
               /\ tpc \notin {"armEmpty", "armTimed"}
               /\ Present' \subseteq Present
               /\ \A u \in Present' : timers'[u].enabled => timers[u].enabled
    <2>1. \A u \in Id : timers'[u] = IF u = t THEN With(timers[t], FALSE, timers[t].due)
                                             ELSE timers[u]
      BY <1>1 DEF DisableTimer, TypeOK
    <2>2. t \in Present /\ With(timers[t], FALSE, timers[t].due).enabled = FALSE
      BY <1>1 DEF DisableTimer, With
    <2>3. Present' \subseteq Present
      BY <2>1, <2>2 DEF Present
    <2>4. \A u \in Present' : timers'[u].enabled => timers[u].enabled
      BY <2>1, <2>2 DEF Present
    <2> QED
      BY <1>1, <2>3, <2>4 DEF DisableTimer, MutexFree, threadVars
  <1>2. CASE StopAll \/ \E t \in Id : \/ \E periodic \in BOOLEAN : AddTimer(t, periodic)
                                      \/ RemoveTimer(t) \/ RestartTimer(t) \/ EnableTimer(t)
    BY <1>2 DEF AddTimer, RemoveTimer, RestartTimer, EnableTimer, StopAll, Notify, MutexFree
  <1> QED
    BY <1>1, <1>2 DEF Operation

\* A step that changes nothing the sleeper waits for.
LEMMA SameTimers ==
    ASSUME Present' = Present, \A t \in Present : timers'[t].enabled = timers[t].enabled,
           UNCHANGED watching
    PROVE  Accounted' = Accounted
  BY DEF Accounted

\* Every step keeps the reasons.
LEMMA WakeStep == TypeOK /\ WakeInv /\ [Next]_vars => WakeInv'
  <1> SUFFICES ASSUME TypeOK, WakeInv, [Next]_vars PROVE WakeInv'
    OBVIOUS
  <1>1. CASE Operation
    <2>1. CASE changed' = TRUE /\ woken' = (woken \/ tpc \in {"sleepEmpty", "sleepTimed"})
      BY <1>1, <2>1, OperationNotifies DEF WakeInv
    <2>2. CASE /\ UNCHANGED <<changed, woken>>
               /\ Present' \subseteq Present
               /\ \A t \in Present' : timers'[t].enabled => timers[t].enabled
      <3>1. UNCHANGED <<tpc, watching>> /\ (Accounted => Accounted')
        BY <1>1, <2>2, OperationNotifies DEF Accounted
      <3>2. Present = {} => Present' = {}
        BY <2>2
      <3> QED
        BY <2>2, <3>1, <3>2 DEF WakeInv
    <2> QED
      BY <1>1, <2>1, <2>2, OperationNotifies
  <1>2. ASSUME UNCHANGED timers PROVE Present' = Present
    BY <1>2 DEF Present
  <1>3. CASE StopRequest \/ StopNotify \/ StopJoin \/ UNCHANGED vars
    <2>1. UNCHANGED <<timers, tpc, watching, changed>> /\ (woken => woken')
      BY <1>3 DEF StopRequest, StopNotify, StopJoin, vars, threadVars, TypeOK
    <2>2. Accounted' = Accounted
      BY <1>2, <2>1, SameTimers
    <2> QED
      BY <1>2, <2>1, <2>2 DEF WakeInv
  <1>4. CASE Loop \/ Collect \/ RunCallback \/ CallbacksDone \/ DeadlinePasses
    <2>1. tpc' \in {"loop", "lock", "callbacks", "done"}
      BY <1>4 DEF Loop, Collect, RunCallback, CallbacksDone, DeadlinePasses
    <2> QED
      BY <2>1 DEF WakeInv
  <1>5. CASE FindEmpty
    BY <1>2, <1>5 DEF FindEmpty, WakeInv
  <1>6. CASE FindNoneExpired
    <2>1. Accounted' /\ ~changed' /\ tpc' \in {"armTimed", "loop"}
      BY <1>2, <1>6 DEF FindNoneExpired, Accounted
    <2> QED
      BY <2>1 DEF WakeInv
  <1>7. CASE FallAsleep
    <2>1. UNCHANGED <<timers, watching, changed>> /\ Accounted' = Accounted
      BY <1>2, <1>7, SameTimers DEF FallAsleep
    <2> QED
      BY <1>2, <1>7, <2>1 DEF FallAsleep, WakeInv
  <1>8. CASE WakeUp
    <2>1. UNCHANGED <<timers, watching, changed>> /\ Accounted' = Accounted
      BY <1>2, <1>8, SameTimers DEF WakeUp
    <2>2. CASE tpc' = "loop"
      BY <2>2 DEF WakeInv
    <2>3. CASE tpc' # "loop"
      BY <1>2, <1>8, <2>1, <2>3 DEF WakeUp, WaitOver, WakeInv
    <2> QED
      BY <2>2, <2>3
  <1>9. CASE SpuriousWakeUp
    <2>1. UNCHANGED <<timers, watching, changed, tpc>> /\ woken' /\ Accounted' = Accounted
      BY <1>2, <1>9, SameTimers DEF SpuriousWakeUp
    <2> QED
      BY <1>2, <2>1 DEF WakeInv
  <1>10. ASSUME NEW t \in Id, Elapse(t) PROVE WakeInv'
    <2>1. UNCHANGED <<watching, changed, tpc, woken>> /\ t \in Present
      BY <1>10 DEF Elapse, threadVars
    <2>2. \A u \in Id : timers'[u] = IF u = t THEN With(timers[t], timers[t].enabled, TRUE)
                                             ELSE timers[u]
      BY <1>10 DEF Elapse, TypeOK
    <2>3. /\ With(timers[t], timers[t].enabled, TRUE).enabled = timers[t].enabled
          /\ With(timers[t], timers[t].enabled, TRUE) # NoEntry
      BY DEF With, NoEntry
    <2>4. Present' = Present
      BY <2>1, <2>2, <2>3 DEF Present
    <2>5. \A u \in Present : timers'[u].enabled = timers[u].enabled
      BY <2>2, <2>3 DEF Present
    <2> QED
      BY <2>1, <2>4, <2>5, SameTimers DEF WakeInv
  <1> QED
    BY <1>1, <1>3, <1>4, <1>5, <1>6, <1>7, <1>8, <1>9, <1>10 DEF Next, Run

\* The timer thread never sleeps through a timer: not one that was added to an
\* empty map, and not one that was added, enabled or moved while it waits for
\* another, whenever the operation comes.
THEOREM WakeUpsKept == Spec => []NoLostWakeUp
  <1>1. Init => WakeInv
    BY DEF Init, WakeInv
  <1>2. WakeInv => NoLostWakeUp
    BY DEF WakeInv, NoLostWakeUp, Accounted
  <1> QED
    BY <1>1, <1>2, WakeStep, TimerManagerTyped, PTL DEF Spec

-----------------------------------------------------------------------------
(***************************************************************************)
(* What the manager gives its users.                                       *)
(***************************************************************************)
barVars == <<armedBar, waitingBar, stoppedBar>>

\* Callbacks wait only while run() executes them, and the thread that was
\* joined has ended.
ThreadInv ==
    /\ tpc # "callbacks" => pending = {}
    /\ stopper = "joined" => tpc = "done"

\* Every step keeps ThreadInv.
LEMMA ThreadStep == ThreadInv /\ [Next]_vars => ThreadInv'
  <1> SUFFICES ASSUME ThreadInv, [Next]_vars PROVE ThreadInv'
    OBVIOUS
  <1> USE DEF ThreadInv
  <1>1. CASE Operation
    <2>1. UNCHANGED <<tpc, pending, stopper>>
      BY <1>1 DEF Operation, AddTimer, RemoveTimer, RestartTimer, DisableTimer,
         EnableTimer, StopAll, threadVars
    <2> QED
      BY <2>1
  <1>2. CASE StopRequest \/ StopNotify \/ StopJoin \/ \E t \in Id : Elapse(t)
    BY <1>2 DEF StopRequest, StopNotify, StopJoin, Elapse, threadVars
  <1>3. CASE Run \/ DeadlinePasses \/ SpuriousWakeUp
    BY <1>3 DEF Run, Loop, FindEmpty, FindNoneExpired, FallAsleep, WakeUp, Collect,
       RunCallback, CallbacksDone, DeadlinePasses, SpuriousWakeUp
  <1>4. CASE UNCHANGED vars
    BY <1>4 DEF vars, threadVars
  <1> QED
    BY <1>1, <1>2, <1>3, <1>4 DEF Next

\* The entries of the map are what the interface has armed.
LEMMA ArmedEntries ==
    ASSUME TypeOK
    PROVE  /\ armedBar \in [Id -> Interface!Timer \cup {Interface!NoTimer}]
           /\ \A t \in Id : timers[t] = NoEntry => armedBar[t] = Interface!NoTimer
           /\ \A t \in Present : armedBar[t] \in Interface!Timer
  <1>1. \A t \in Id : timers[t] = NoEntry => armedBar[t] = Interface!NoTimer
    <2>1. NoEntry.gen = 0 /\ NoEntry.periodic = FALSE
      BY DEF NoEntry
    <2> QED
      BY <2>1 DEF armedBar, Interface!NoTimer
  <1>2. \A t \in Present : armedBar[t] \in Interface!Timer
    BY PresentEntry DEF armedBar, Entry, Interface!Timer
  <1> QED
    BY <1>1, <1>2 DEF armedBar, Present

\* Equal calls and kinds in the map are equal timers of the interface.
LEMMA ArmedSame ==
    ASSUME \A t \in Id : /\ timers'[t].gen = timers[t].gen
                         /\ timers'[t].periodic = timers[t].periodic
    PROVE  armedBar' = armedBar
  BY DEF armedBar

\* addTimer arms one timer anew, removeTimer and stopAll only disarm, and the
\* other operations and the passing of time change no timer.
LEMMA OperationRearms ==
    ASSUME TypeOK, TypeOK', Operation
    PROVE  Interface!Rearm \/ UNCHANGED barVars
  <1>1. UNCHANGED <<waitingBar, stoppedBar>> /\ ~stoppedBar
    BY DEF Operation, AddTimer, RemoveTimer, RestartTimer, DisableTimer, EnableTimer,
       StopAll, MutexFree, threadVars, waitingBar, stoppedBar
  <1>2. armedBar' \in [Id -> Interface!Timer \cup {Interface!NoTimer}]
    <2>1. (armedBar \in [Id -> Interface!Timer \cup {Interface!NoTimer}])'
      BY ArmedEntries, PTL
    <2> QED
      BY <2>1 DEF Interface!Timer, Interface!NoTimer
  <1>3. ASSUME NEW t \in Id, \A u \in Id \ {t} : timers'[u] = timers[u]
        PROVE  Interface!Rearm
    <2>1. \A u \in Id \ {t} : armedBar'[u] = armedBar[u]
      BY <1>3 DEF armedBar
    <2> QED
      BY <1>1, <1>2, <2>1 DEF Interface!Rearm, Interface!Rearmed
  <1>4. CASE \E t \in Id : (\E periodic \in BOOLEAN : AddTimer(t, periodic)) \/ RemoveTimer(t)
    BY <1>3, <1>4 DEF AddTimer, RemoveTimer, TypeOK
  <1>5. CASE StopAll
    <2>1. \A u \in Id : armedBar'[u] = Interface!NoTimer
      BY <1>5 DEF StopAll, armedBar, NoEntry, Interface!NoTimer
    <2> QED
      BY <1>1, <1>2, <2>1, IdAssumption DEF Interface!Rearm, Interface!Rearmed
  <1>6. CASE \E t \in Id : RestartTimer(t) \/ DisableTimer(t) \/ EnableTimer(t)
    BY <1>3, <1>6 DEF RestartTimer, DisableTimer, EnableTimer, TypeOK
  <1> QED
    BY <1>4, <1>5, <1>6 DEF Operation

\* Collecting is an expiry: what is collected was armed, and what is left is
\* armed exactly if it is periodic or did not expire.
LEMMA CollectExpires ==
    ASSUME IndInv, ThreadInv, Collect
    PROVE  Interface!Expire(Expired)
  <1>1. /\ ~stoppedBar /\ waitingBar = {} /\ Expired # {}
        /\ UNCHANGED stoppedBar
    BY DEF Collect, ThreadInv, stoppedBar, waitingBar
  <1>2. Expired \subseteq Present /\ Present \subseteq Id
    BY DEF Expired, Present
  <1>3. \A t \in Expired : armedBar[t] \in Interface!Timer
    BY <1>2, ArmedEntries DEF IndInv
  <1>4. waitingBar' = {armedBar[t].callback : t \in Expired}
    BY <1>2 DEF Collect, waitingBar, armedBar
  <1>5. \A t \in Id : armedBar'[t] =
            IF t \in Expired /\ ~armedBar[t].periodic THEN Interface!NoTimer ELSE armedBar[t]
    BY DEF Collect, AfterExpiry, With, NoEntry, armedBar, Interface!NoTimer
  <1>6. armedBar' = [t \in Id |->
            IF t \in Expired /\ ~armedBar[t].periodic THEN Interface!NoTimer ELSE armedBar[t]]
    BY <1>5 DEF armedBar
  <1> QED
    BY <1>1, <1>3, <1>4, <1>6 DEF Interface!Expire

\* Executing a callback takes it, and no other, from those that wait.
LEMMA CallbackExecutes ==
    ASSUME IndInv, ThreadInv, RunCallback
    PROVE  \E callback \in Gen : Interface!Execute(callback)
  <1>1. PICK e \in pending : pending' = pending \ {e}
    BY DEF RunCallback
  <1>2. e.gen \in Gen /\ \A f \in pending : f.gen = e.gen => f = e
    BY DEF IndInv, TypeOK, PendingInv, Entry
  <1>3. e.gen \in waitingBar /\ waitingBar' = waitingBar \ {e.gen}
    BY <1>1, <1>2 DEF waitingBar
  <1>4. UNCHANGED <<timers, stopper>> /\ tpc = "callbacks"
    BY DEF RunCallback
  <1>5. ~stoppedBar /\ UNCHANGED stoppedBar
    BY <1>4 DEF ThreadInv, stoppedBar
  <1>6. armedBar' = armedBar
    BY <1>4 DEF armedBar
  <1>7. Interface!Rearmed
    BY <1>6, ArmedEntries, IdAssumption DEF IndInv, Interface!Rearmed
  <1>8. Interface!Execute(e.gen)
    BY <1>3, <1>5, <1>7 DEF Interface!Execute
  <1> QED
    BY <1>2, <1>8

\* Every step is a step of the interface or does not show.
LEMMA InterfaceStep ==
    IndInv /\ IndInv' /\ ThreadInv /\ [Next]_vars => [Interface!Next]_barVars
  <1> SUFFICES ASSUME IndInv, IndInv', ThreadInv, [Next]_vars
               PROVE  [Interface!Next]_barVars
    OBVIOUS
  <1>1. CASE Operation
    BY <1>1, OperationRearms DEF IndInv, Interface!Next
  <1>2. CASE Collect
    <2>1. Expired \in SUBSET Id
      BY DEF Expired, Present
    <2> QED
      BY <1>2, <2>1, CollectExpires DEF Interface!Next
  <1>3. CASE RunCallback
    BY <1>3, CallbackExecutes DEF Interface!Next
  <1>4. CASE StopJoin
    <2>1. Interface!Stop
      BY <1>4 DEF StopJoin, ThreadInv, Interface!Stop, armedBar, waitingBar, stoppedBar,
         threadVars
    <2> QED
      BY <2>1 DEF Interface!Next
  <1>5. CASE StopRequest \/ StopNotify \/ UNCHANGED vars
    BY <1>5 DEF StopRequest, StopNotify, vars, threadVars, barVars, armedBar, waitingBar,
       stoppedBar
  <1>6. CASE Loop \/ FindEmpty \/ FindNoneExpired \/ FallAsleep \/ WakeUp
             \/ CallbacksDone \/ DeadlinePasses \/ SpuriousWakeUp
    BY <1>6 DEF Loop, FindEmpty, FindNoneExpired, FallAsleep, WakeUp, CallbacksDone,
       DeadlinePasses, SpuriousWakeUp, barVars, armedBar, waitingBar, stoppedBar
  <1>7. ASSUME NEW t \in Id, Elapse(t) PROVE UNCHANGED barVars
    <2>1. InPlace /\ stopper' = stopper
      BY <1>7, InPlaceSteps DEF Elapse
    <2> QED
      BY <2>1, ArmedSame DEF InPlace, barVars, waitingBar, stoppedBar
  <1> QED
    BY <1>1, <1>2, <1>3, <1>4, <1>5, <1>6, <1>7 DEF Next, Run

\* The timer manager implements the interface its users, the connections among
\* them, rely on.
THEOREM ManagerImplementsInterface == Spec => TimersImplemented
  <1>1. Init => ThreadInv /\ Interface!Init
    BY DEF Init, ThreadInv, NoEntry, armedBar, waitingBar, stoppedBar, Interface!Init,
       Interface!NoTimer
  <1>2. Interface!vars = barVars
    BY DEF Interface!vars, barVars
  <1> QED
    BY <1>1, <1>2, IndAlways, ThreadStep, InterfaceStep, PTL
       DEF Spec, TimersImplemented, Interface!Spec, Interface!vars, barVars

=============================================================================
