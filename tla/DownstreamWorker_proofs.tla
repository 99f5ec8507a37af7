----------------------- MODULE DownstreamWorker_proofs -----------------------
(***************************************************************************)
(* DownstreamWorker for any number of requests: responses come in the      *)
(* order of the requests, and the model implements DownstreamInterface.    *)
(*                                                                         *)
(* A request moves through m_tx, the worker's hands, m_rx and the worker's *)
(* hands again.  The inductive invariant orders these places: what is      *)
(* further along has the smaller number, and everything that was answered  *)
(* a smaller one still.                                                    *)
(***************************************************************************)
EXTENDS DownstreamWorker, TLAPS

\* The numbers in a queue grow and lie strictly between low and high.
Between(q, low, high) ==
    /\ \A i \in 1..Len(q) : low < q[i] /\ q[i] <= high
    /\ \A i, j \in 1..Len(q) : i < j => q[i] < q[j]

\* The queues, and what the worker holds, in the order of the requests.
OrderInv ==
    /\ hpc = "store" => asked > 0
    /\ last <= Enqueued
    /\ Between(tx, last, Enqueued)
    /\ Between(rx, last, Enqueued)
    /\ \A i \in 1..Len(rx), j \in 1..Len(tx) : rx[i] < tx[j]
    /\ wpc \in {"send", "respond"} =>
          /\ last < job /\ job <= Enqueued
          /\ \A j \in 1..Len(tx) : job < tx[j]
    /\ wpc = "send" => \A i \in 1..Len(rx) : rx[i] < job
    /\ wpc = "respond" => \A i \in 1..Len(rx) : job < rx[i]

\* Every answer moved last, and a joined worker is gone.
CountInv ==
    /\ answered <= last
    /\ closer = "closed" => wpc = "done"

IndInv == TypeOK /\ OrderInv /\ CountInv

-----------------------------------------------------------------------------
\* The elements of a queue.
LEMMA Element ==
    ASSUME NEW S, NEW q \in Seq(S)
    PROVE  Len(q) \in Nat /\ \A i \in 1..Len(q) : q[i] \in S
  OBVIOUS

\* What Append does to a queue.
LEMMA Appended ==
    ASSUME NEW S, NEW q \in Seq(S), NEW n \in S
    PROVE  /\ Append(q, n) \in Seq(S)
           /\ Len(q) \in Nat
           /\ Len(Append(q, n)) = Len(q) + 1
           /\ \A i \in 1..Len(q) : Append(q, n)[i] = q[i]
           /\ Append(q, n)[Len(q) + 1] = n
  OBVIOUS

\* What taking the first element leaves of a queue that is not empty.
LEMMA Taken ==
    ASSUME NEW S, NEW q \in Seq(S), q # <<>>
    PROVE  /\ Head(q) \in S /\ Head(q) = q[1]
           /\ Popped(q) \in Seq(S)
           /\ Len(q) \in Nat /\ Len(q) >= 1
           /\ Len(Popped(q)) = Len(q) - 1
           /\ \A i \in 1..Len(Popped(q)) : Popped(q)[i] = q[i + 1] /\ i + 1 \in 1..Len(q)
  BY DEF Popped

\* Initially the queues are empty.
LEMMA InitInd == Init => IndInv
  <1> SUFFICES ASSUME Init PROVE IndInv
    OBVIOUS
  <1>1. tx \in Seq(Request) /\ rx \in Seq(Request) /\ Len(tx) = 0 /\ Len(rx) = 0
    BY DEF Init
  <1>2. TypeOK
    <2>1. 0 \in 0..MaxRequests
      BY RequestAssumption
    <2> QED
      BY <1>1, <2>1 DEF Init, TypeOK
  <1>3. OrderInv
    BY <1>1 DEF Init, OrderInv, Between, Enqueued
  <1>4. CountInv
    BY DEF Init, CountInv
  <1> QED
    BY <1>2, <1>3, <1>4 DEF IndInv

-----------------------------------------------------------------------------
(***************************************************************************)
(* One lemma per step that moves a request; the others change neither the  *)
(* queues nor what the worker holds.                                       *)
(***************************************************************************)

LEMMA EnqueueKeeps == IndInv /\ Enqueue => IndInv'
  <1> SUFFICES ASSUME IndInv, Enqueue PROVE IndInv'
    OBVIOUS
  <1> USE DEF IndInv, TypeOK
  <1>1. /\ asked \in Request /\ asked > 0
        /\ Enqueued = asked - 1 /\ Enqueued' = asked
    BY RequestAssumption DEF OrderInv, Enqueue, Enqueued, Request
  <1>2. /\ tx' \in Seq(Request) /\ Len(tx) \in Nat /\ Len(tx') = Len(tx) + 1
        /\ \A i \in 1..Len(tx) : tx'[i] = tx[i] /\ tx[i] \in Request
        /\ tx'[Len(tx) + 1] = asked
    BY <1>1, Appended DEF Enqueue
  <1>3. UNCHANGED <<state, callback, rx, running, wpc, job, closer, asked, answered, last>>
    BY DEF Enqueue
  <1>4. \A i \in 1..Len(tx') : \/ i \in 1..Len(tx) /\ tx'[i] = tx[i] /\ tx[i] < asked
                               \/ i = Len(tx) + 1 /\ tx'[i] = asked
    BY <1>1, <1>2 DEF OrderInv, Between, Request
  <1>5. TypeOK'
    BY <1>2, <1>3 DEF Enqueue
  <1>6. CountInv'
    BY <1>3 DEF CountInv
  <1>7. Len(rx) \in Nat /\ \A i \in 1..Len(rx) : rx[i] \in Nat /\ rx[i] < asked
    <2>1. Len(rx) \in Nat /\ \A i \in 1..Len(rx) : rx[i] \in Nat
      BY Element, RequestAssumption DEF Request
    <2> QED
      BY <1>1, <2>1 DEF OrderInv, Between
  <1>8. Between(rx, last, asked)
    BY <1>7 DEF OrderInv, Between
  <1>8a. Between(tx', last, asked)
    <2>1. \A i \in 1..Len(tx') : last < tx'[i] /\ tx'[i] <= asked
      <3>1. last \in Nat /\ last < asked
        BY <1>1 DEF OrderInv
      <3>2. \A i \in 1..Len(tx) : last < tx[i] /\ tx[i] \in Nat
        BY <1>2, RequestAssumption DEF OrderInv, Between, Request
      <3> QED
        BY <1>1, <1>4, <3>1, <3>2
    <2>2. ASSUME NEW i \in 1..Len(tx'), NEW j \in 1..Len(tx'), i < j PROVE tx'[i] < tx'[j]
      <3>1. i \in 1..Len(tx) /\ tx'[i] = tx[i] /\ tx[i] < asked
        BY <1>2, <1>4, <2>2
      <3> QED
        BY <1>4, <2>2, <3>1 DEF OrderInv, Between
    <2> QED
      BY <2>1, <2>2 DEF Between
  <1>9. \A i \in 1..Len(rx), j \in 1..Len(tx') : rx[i] < tx'[j]
    BY <1>4, <1>7 DEF OrderInv
  <1>10. wpc \in {"send", "respond"} =>
             /\ last < job /\ job <= asked
             /\ \A j \in 1..Len(tx') : job < tx'[j]
    BY <1>1, <1>4 DEF OrderInv, Request
  <1>11. OrderInv'
    BY <1>1, <1>3, <1>8, <1>9, <1>10, <1>8a DEF OrderInv, Enqueue
  <1> QED
    BY <1>5, <1>6, <1>11

LEMMA TakeRequestKeeps == IndInv /\ TakeRequest /\ tx # <<>> => IndInv'
  <1> SUFFICES ASSUME IndInv, TakeRequest, tx # <<>> PROVE IndInv'
    OBVIOUS
  <1> USE DEF IndInv, TypeOK
  <1>1. /\ wpc = "tx" /\ wpc' = "send" /\ job' = Head(tx) /\ tx' = Popped(tx)
        /\ UNCHANGED <<state, hpc, callback, rx, running, closer, asked, answered, last>>
    BY DEF TakeRequest
  <1>2. /\ job' \in Request /\ job' = tx[1] /\ tx' \in Seq(Request)
        /\ Len(tx) \in Nat /\ Len(tx) >= 1
        /\ \A i \in 1..Len(tx') : tx'[i] = tx[i + 1] /\ i + 1 \in 1..Len(tx)
    BY <1>1, Taken
  <1>3. Enqueued' = Enqueued
    BY <1>1 DEF Enqueued
  <1>4. TypeOK' /\ CountInv'
    BY <1>1, <1>2, RequestAssumption DEF CountInv, Request
  <1>5. Between(tx', last, Enqueued)
    BY <1>2 DEF OrderInv, Between
  <1>6. /\ last < job' /\ job' <= Enqueued
        /\ \A j \in 1..Len(tx') : job' < tx'[j]
        /\ \A i \in 1..Len(rx) : rx[i] < job'
        /\ \A i \in 1..Len(rx), j \in 1..Len(tx') : rx[i] < tx'[j]
    BY <1>2 DEF OrderInv, Between
  <1>7. OrderInv'
    BY <1>1, <1>3, <1>5, <1>6 DEF OrderInv
  <1> QED
    BY <1>4, <1>7

LEMMA SendRequestKeeps == IndInv /\ SendRequest => IndInv'
  <1> SUFFICES ASSUME IndInv, SendRequest PROVE IndInv'
    OBVIOUS
  <1> USE DEF IndInv, TypeOK
  <1>1. /\ wpc = "send" /\ wpc' = "rx" /\ rx' = Append(rx, job)
        /\ UNCHANGED <<state, hpc, callback, tx, running, job, closer, asked, answered, last>>
    BY DEF SendRequest
  <1>2. job \in Request
    BY <1>1, RequestAssumption DEF OrderInv, Request
  <1>3. /\ rx' \in Seq(Request) /\ Len(rx) \in Nat /\ Len(rx') = Len(rx) + 1
        /\ \A i \in 1..Len(rx) : rx'[i] = rx[i]
        /\ rx'[Len(rx) + 1] = job
    BY <1>1, <1>2, Appended
  <1>4. \A i \in 1..Len(rx') : \/ i \in 1..Len(rx) /\ rx'[i] = rx[i] /\ rx[i] < job
                               \/ i = Len(rx) + 1 /\ rx'[i] = job
    BY <1>1, <1>3 DEF OrderInv
  <1>5. Enqueued' = Enqueued
    BY <1>1 DEF Enqueued
  <1>6. TypeOK' /\ CountInv'
    BY <1>1, <1>3 DEF CountInv
  <1>7. Between(rx', last, Enqueued)
    BY <1>1, <1>3, <1>4 DEF OrderInv, Between
  <1>8. \A i \in 1..Len(rx'), j \in 1..Len(tx) : rx'[i] < tx[j]
    BY <1>1, <1>4 DEF OrderInv
  <1>9. OrderInv'
    BY <1>1, <1>5, <1>7, <1>8 DEF OrderInv
  <1> QED
    BY <1>6, <1>9

LEMMA TakeResponseKeeps == IndInv /\ TakeResponse /\ rx # <<>> => IndInv'
  <1> SUFFICES ASSUME IndInv, TakeResponse, rx # <<>> PROVE IndInv'
    OBVIOUS
  <1> USE DEF IndInv, TypeOK
  <1>1. /\ wpc = "rx" /\ wpc' = "respond" /\ job' = Head(rx) /\ rx' = Popped(rx)
        /\ UNCHANGED <<state, hpc, callback, tx, running, closer, asked, answered, last>>
    BY DEF TakeResponse
  <1>2. /\ job' \in Request /\ job' = rx[1] /\ rx' \in Seq(Request)
        /\ Len(rx) \in Nat /\ Len(rx) >= 1
        /\ \A i \in 1..Len(rx') : rx'[i] = rx[i + 1] /\ i + 1 \in 1..Len(rx)
    BY <1>1, Taken
  <1>3. Enqueued' = Enqueued
    BY <1>1 DEF Enqueued
  <1>4. TypeOK' /\ CountInv'
    BY <1>1, <1>2, RequestAssumption DEF CountInv, Request
  <1>5. Between(rx', last, Enqueued)
    <2>1. Between(rx, last, Enqueued)
      BY DEF OrderInv
    <2> QED
      BY <1>2, <2>1 DEF Between
  <1>6. /\ last < job' /\ job' <= Enqueued
        /\ \A j \in 1..Len(tx) : job' < tx[j]
        /\ \A i \in 1..Len(rx') : job' < rx'[i]
        /\ \A i \in 1..Len(rx'), j \in 1..Len(tx) : rx'[i] < tx[j]
    BY <1>2 DEF OrderInv, Between
  <1>7. OrderInv'
    BY <1>1, <1>3, <1>5, <1>6 DEF OrderInv
  <1> QED
    BY <1>4, <1>7

LEMMA RespondKeeps == IndInv /\ Respond => IndInv' /\ last' > last /\ answered < Enqueued
  <1> SUFFICES ASSUME IndInv, Respond PROVE IndInv' /\ last' > last /\ answered < Enqueued
    OBVIOUS
  <1> USE DEF IndInv, TypeOK
  <1>1. /\ wpc = "respond" /\ wpc' = "clear" /\ last' = job /\ answered' = answered + 1
        /\ UNCHANGED <<hpc, callback, tx, rx, running, job, closer, asked>>
        /\ state' = "RoutingActivated"
    BY DEF Respond
  <1>2. Enqueued' = Enqueued /\ Enqueued \in Nat
    BY <1>1 DEF Enqueued, OrderInv
  <1>3. last < job /\ job <= Enqueued
    BY <1>1 DEF OrderInv
  <1>4. TypeOK'
    BY <1>1
  <1>5. CountInv'
    BY <1>1, <1>3 DEF CountInv
  <1>6. Between(tx, job, Enqueued) /\ Between(rx, job, Enqueued)
    BY <1>1 DEF OrderInv, Between
  <1>7. OrderInv'
    BY <1>1, <1>2, <1>3, <1>6 DEF OrderInv
  <1> QED
    BY <1>1, <1>2, <1>3, <1>4, <1>5, <1>7 DEF CountInv

-----------------------------------------------------------------------------
\* The storing of a callback makes the newest request one that is not queued.
LEMMA StoreKeeps == IndInv /\ StoreCallback => IndInv' /\ Enqueued' = Enqueued
  <1> SUFFICES ASSUME IndInv, StoreCallback PROVE IndInv' /\ Enqueued' = Enqueued
    OBVIOUS
  <1> USE DEF IndInv, TypeOK
  <1>1. /\ hpc = "idle" /\ hpc' = "store" /\ asked' = asked + 1 /\ asked < MaxRequests
        /\ callback' = TRUE
        /\ UNCHANGED <<state, tx, rx, running, wpc, job, closer, answered, last>>
    BY DEF StoreCallback
  <1>2. Enqueued' = Enqueued
    BY <1>1 DEF Enqueued
  <1>3. TypeOK' /\ CountInv'
    BY <1>1, RequestAssumption DEF CountInv
  <1>4. OrderInv'
    BY <1>1, <1>2 DEF OrderInv
  <1> QED
    BY <1>2, <1>3, <1>4

\* The steps that move no request.
Still ==
    \/ AwaitResponse
    \/ WorkerLoop
    \/ TakeRequest /\ tx = <<>>
    \/ TakeResponse /\ rx = <<>>
    \/ DropResponse
    \/ ClearCallback
    \/ BeginClose
    \/ StopWorker
    \/ JoinWorker
    \/ UNCHANGED vars

\* They leave the queues alone, and the worker holds nothing afterwards that it
\* did not hold before.
LEMMA StillKeeps ==
    IndInv /\ Still => IndInv' /\ UNCHANGED <<answered, last, Enqueued>>
  <1> SUFFICES ASSUME IndInv, Still PROVE IndInv' /\ UNCHANGED <<answered, last, Enqueued>>
    OBVIOUS
  <1> USE DEF IndInv, TypeOK
  <1> USE DEF AwaitResponse, WorkerLoop, TakeRequest, TakeResponse, DropResponse,
              ClearCallback, BeginClose, StopWorker, JoinWorker, vars
  <1>1. /\ UNCHANGED <<tx, rx, job, asked, answered, last>>
        /\ hpc' = hpc \/ (hpc = "pending" /\ hpc' = "idle")
        /\ wpc' = wpc \/ wpc' \in {"loop", "tx", "rx", "done"}
    <2>1. UNCHANGED <<tx, rx, job, asked, answered, last>>
      BY DEF Still
    <2>2. hpc' = hpc \/ (hpc = "pending" /\ hpc' = "idle")
      BY DEF Still
    <2>3. wpc' = wpc \/ wpc' \in {"loop", "tx", "rx", "done"}
      BY DEF Still
    <2> QED
      BY <2>1, <2>2, <2>3
  <1>2. Enqueued' = Enqueued
    BY <1>1 DEF Enqueued
  <1>3. TypeOK'
    BY DEF Still
  <1>4. CountInv'
    BY DEF Still, CountInv
  <1>5. OrderInv'
    <2> HIDE DEF AwaitResponse, WorkerLoop, TakeRequest, TakeResponse, DropResponse,
                 ClearCallback, BeginClose, StopWorker, JoinWorker, vars
    <2> QED
      BY <1>1, <1>2 DEF OrderInv
  <1> QED
    BY <1>1, <1>2, <1>3, <1>4, <1>5

\* The steps of the specification, by what they move.
LEMMA StepKinds ==
    ASSUME [Next]_vars
    PROVE  \/ StoreCallback \/ Enqueue \/ SendRequest \/ Respond \/ Still
           \/ TakeRequest /\ tx # <<>>
           \/ TakeResponse /\ rx # <<>>
  BY Zenon DEF Next, Worker, Still

\* Every step preserves the inductive invariant.
LEMMA NextInd == IndInv /\ [Next]_vars => IndInv'
  BY StepKinds, StoreKeeps, EnqueueKeeps, SendRequestKeeps, RespondKeeps, StillKeeps,
     TakeRequestKeeps, TakeResponseKeeps

\* The inductive invariant holds in every reachable state.
LEMMA IndAlways == Spec => []IndInv
  BY InitInd, NextInd, PTL DEF Spec

-----------------------------------------------------------------------------
\* Through two queues and one shared callback, the responses a client gets are
\* in the order of its requests and none comes twice, for any number of them.
THEOREM ResponsesOrdered == Spec => ResponsesInOrder
  <1>1. IndInv /\ [Next]_vars => (answered' # answered => last' > last)
    <2> SUFFICES ASSUME IndInv, [Next]_vars, answered' # answered PROVE last' > last
      OBVIOUS
    <2>1. CASE Respond
      BY <2>1, RespondKeeps
    <2>2. CASE ~Respond
      BY <2>2, StepKinds, StillKeeps
         DEF StoreCallback, Enqueue, SendRequest, TakeRequest, TakeResponse
    <2> QED
      BY <2>1, <2>2
  <1> QED
    BY <1>1, IndAlways, PTL DEF Spec, ResponsesInOrder

\* The downstream model, with its worker thread, implements the interface the
\* connection relies on: no response without a request, none after
\* onCloseConnection returned.
THEOREM WorkerImplementsInterface == Spec => InterfaceImplemented
  <1>1. Init => Interface!Init
    BY DEF Init, Interface!Init, Enqueued
  <1>2. IndInv /\ [Next]_vars => [Interface!Next]_Interface!vars
    <2> SUFFICES ASSUME IndInv, [Next]_vars PROVE [Interface!Next]_Interface!vars
      OBVIOUS
    <2> USE DEF Interface!vars
    <2>1. asked \in Nat /\ answered \in Nat /\ Enqueued \in Nat /\ answered <= Enqueued
          /\ last \in Nat
      BY DEF IndInv, TypeOK, OrderInv, CountInv, Enqueued
    <2>2. CASE Enqueue
      <3>1. Enqueued' = Enqueued + 1 /\ UNCHANGED <<closer, answered>>
        BY <2>1, <2>2 DEF Enqueue, Enqueued, IndInv, OrderInv
      <3> QED
        BY <2>1, <3>1 DEF Interface!Next, Interface!Request
    <2>3. CASE Respond
      <3>1. Enqueued' = Enqueued /\ answered' = answered + 1 /\ closer' = closer
        BY <2>3 DEF Respond, Enqueued
      <3>2. answered < Enqueued
        BY <2>3, RespondKeeps
      <3>3. closer # "closed"
        BY <2>3 DEF Respond, IndInv, CountInv
      <3>4. Enqueued - answered > 0 /\ Enqueued - (answered + 1) = (Enqueued - answered) - 1
        BY <2>1, <3>2
      <3> QED
        BY <3>1, <3>3, <3>4 DEF Interface!Next, Interface!Respond
    <2>4. CASE JoinWorker
      <3>1. closer' = "closed" /\ UNCHANGED <<Enqueued, answered>>
        BY <2>4 DEF JoinWorker, Enqueued
      <3> QED
        BY <3>1 DEF Interface!Next, Interface!Close
    <2>5. ASSUME UNCHANGED <<Enqueued, answered>>, closer' = "closed" <=> closer = "closed"
          PROVE  UNCHANGED Interface!vars
      BY <2>5
    <2>6. CASE Still /\ ~JoinWorker
      <3>1. UNCHANGED <<Enqueued, answered>>
        BY <2>6, StillKeeps
      <3>2. closer' = "closed" <=> closer = "closed"
        BY <2>6 DEF Still, AwaitResponse, WorkerLoop, TakeRequest, TakeResponse,
             DropResponse, ClearCallback, BeginClose, StopWorker, vars
      <3> QED
        BY <2>5, <3>1, <3>2
    <2>7. CASE StoreCallback
      BY <2>5, <2>7, StoreKeeps DEF StoreCallback
    <2>8. CASE SendRequest \/ TakeRequest \/ TakeResponse
      BY <2>5, <2>8 DEF SendRequest, TakeRequest, TakeResponse, Enqueued
    <2> QED
      BY <2>2, <2>3, <2>4, <2>6, <2>7, <2>8, StepKinds
  <1> QED
    BY <1>1, <1>2, IndAlways, PTL DEF Spec, InterfaceImplemented, Interface!Spec

=============================================================================
