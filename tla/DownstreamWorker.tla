--------------------------- MODULE DownstreamWorker ---------------------------
(***************************************************************************)
(* DoIPDownstreamServerModel of one connection: the handler thread stores  *)
(* a callback and queues the request, the worker thread sends queued       *)
(* requests through the provider and hands responses to the callback, and  *)
(* whichever thread closes the connection stops and joins the worker.      *)
(*                                                                         *)
(* The operations of ThreadSafeQueue hold its mutex and are atomic.  The   *)
(* callback is one member without lock, used by both threads: a step ends  *)
(* wherever the other one can find it changed.  Requests are numbered in   *)
(* the order they arrive.                                                  *)
(***************************************************************************)
EXTENDS Naturals, Sequences

CONSTANT MaxRequests    \* bound on the requests of the client

ASSUME RequestAssumption == MaxRequests \in Nat

VARIABLES
    state,     \* the state of the connection, as far as requests matter
    hpc,       \* where the handler thread is
    callback,  \* m_downstreamCallback is set
    tx, rx,    \* m_tx, m_rx
    running,   \* m_running
    wpc,       \* where the worker thread is
    job,       \* the request or response the worker took
    closer,    \* where the thread that closes the connection is
    asked,     \* requests so far
    answered,  \* history: responses given to the callback
    last       \* history: the request the last of them is for

vars == <<state, hpc, callback, tx, rx, running, wpc, job, closer, asked, answered, last>>

Request == 1..MaxRequests

-----------------------------------------------------------------------------
(***************************************************************************)
(* The handler thread, in RoutingActivated.                                *)
(***************************************************************************)

\* onDownstreamRequest stores the callback, ...
StoreCallback ==
    /\ hpc = "idle" /\ state = "RoutingActivated" /\ asked < MaxRequests
    /\ callback' = TRUE
    /\ asked' = asked + 1
    /\ hpc' = "store"
    /\ UNCHANGED <<state, tx, rx, running, wpc, job, closer, answered, last>>

\* ... queues the message and returns Pending, ...
Enqueue ==
    /\ hpc = "store"
    /\ tx' = Append(tx, asked)
    /\ hpc' = "pending"
    /\ UNCHANGED <<state, callback, rx, running, wpc, job, closer, asked, answered, last>>

\* ... and the connection goes to WaitDownstreamResponse.
AwaitResponse ==
    /\ hpc = "pending"
    /\ state' = "WaitDownstreamResponse"
    /\ hpc' = "idle"
    /\ UNCHANGED <<callback, tx, rx, running, wpc, job, closer, asked, answered, last>>

-----------------------------------------------------------------------------
(***************************************************************************)
(* The worker thread: downstream_thread() as long as m_running.            *)
(***************************************************************************)
WorkerLoop ==
    /\ wpc = "loop"
    /\ wpc' = IF running THEN "tx" ELSE "done"
    /\ UNCHANGED <<state, hpc, callback, tx, rx, running, job, closer, asked, answered, last>>

\* pop of a queue that forgets to remove what it returns.
PoppedNone(q) == q

\* What ThreadSafeQueue::pop leaves of a queue.
Popped(q) == Tail(q)

\* if (m_tx.size()) ... m_tx.pop(req)
TakeRequest ==
    /\ wpc = "tx"
    /\ IF tx = <<>>
       THEN wpc' = "rx" /\ UNCHANGED <<tx, job>>
       ELSE wpc' = "send" /\ job' = Head(tx) /\ tx' = Popped(tx)
    /\ UNCHANGED <<state, hpc, callback, rx, running, closer, asked, answered, last>>

\* The provider calls back once, synchronously: handleDownstreamResponse queues
\* the payload and drops the status.
SendRequest ==
    /\ wpc = "send"
    /\ rx' = Append(rx, job)
    /\ wpc' = "rx"
    /\ UNCHANGED <<state, hpc, callback, tx, running, job, closer, asked, answered, last>>

\* if (m_rx.size()) ... m_rx.pop(rsp)
TakeResponse ==
    /\ wpc = "rx"
    /\ IF rx = <<>>
       THEN wpc' = "loop" /\ UNCHANGED <<rx, job>>
       ELSE wpc' = "respond" /\ job' = Head(rx) /\ rx' = Popped(rx)
    /\ UNCHANGED <<state, hpc, callback, tx, running, closer, asked, answered, last>>

\* m_downstreamCallback(rsp, Handled): receiveDownstreamResponse sends the
\* response to the client and goes to RoutingActivated.
Respond ==
    /\ wpc = "respond" /\ callback
    /\ state' = "RoutingActivated"
    /\ answered' = answered + 1
    /\ last' = job
    /\ wpc' = "clear"
    /\ UNCHANGED <<hpc, callback, tx, rx, running, job, closer, asked>>

\* No callback: the response is dropped.
DropResponse ==
    /\ wpc = "respond" /\ ~callback
    /\ wpc' = "loop"
    /\ UNCHANGED <<state, hpc, callback, tx, rx, running, job, closer, asked, answered, last>>

\* m_downstreamCallback = nullptr
ClearCallback ==
    /\ wpc = "clear"
    /\ callback' = FALSE
    /\ wpc' = "loop"
    /\ UNCHANGED <<state, hpc, tx, rx, running, job, closer, asked, answered, last>>

Worker ==
    \/ WorkerLoop \/ TakeRequest \/ SendRequest \/ TakeResponse
    \/ Respond \/ DropResponse \/ ClearCallback

-----------------------------------------------------------------------------
(***************************************************************************)
(* closeConnection, by the handler or the timer thread.                    *)
(***************************************************************************)
BeginClose ==
    /\ closer = "open"
    /\ state' = "Closed"
    /\ closer' = "stopping"
    /\ UNCHANGED <<hpc, callback, tx, rx, running, wpc, job, asked, answered, last>>

\* stopWorker that only joins.
StopWorkerKeepsRunning ==
    /\ closer = "stopping"
    /\ closer' = "joining"
    /\ UNCHANGED <<state, hpc, callback, tx, rx, running, wpc, job, asked, answered, last>>

\* onCloseConnection: stopWorker clears the flag ...
StopWorker ==
    /\ closer = "stopping"
    /\ running' = FALSE
    /\ closer' = "joining"
    /\ UNCHANGED <<state, hpc, callback, tx, rx, wpc, job, asked, answered, last>>

\* stopWorker that does not wait for the worker.
JoinWorkerNot ==
    /\ closer = "joining"
    /\ closer' = "closed"
    /\ UNCHANGED <<state, hpc, callback, tx, rx, running, wpc, job, asked, answered, last>>

\* ... and joins the worker.
JoinWorker ==
    /\ closer = "joining" /\ wpc = "done"
    /\ closer' = "closed"
    /\ UNCHANGED <<state, hpc, callback, tx, rx, running, wpc, job, asked, answered, last>>

-----------------------------------------------------------------------------
Init ==
    /\ state = "RoutingActivated"
    /\ hpc = "idle"
    /\ callback = FALSE
    /\ tx = <<>> /\ rx = <<>>
    /\ running = TRUE
    /\ wpc = "loop"
    /\ job = 0
    /\ closer = "open"
    /\ asked = 0
    /\ answered = 0
    /\ last = 0

Next ==
    \/ StoreCallback \/ Enqueue \/ AwaitResponse
    \/ Worker
    \/ BeginClose \/ StopWorker \/ JoinWorker

Spec == Init /\ [][Next]_vars

(***************************************************************************)
(* Threads that can run do, and the provider answers (UdsMockProvider      *)
(* does so synchronously; CanIsoTpProvider may block in recv).  Nobody has *)
(* to send a request or to close.                                          *)
(***************************************************************************)
Fairness ==
    /\ WF_vars(Enqueue \/ AwaitResponse)
    /\ WF_vars(Worker)
    /\ WF_vars(StopWorker \/ JoinWorker)

FairSpec == Spec /\ Fairness

-----------------------------------------------------------------------------
(***************************************************************************)
(* Properties.                                                             *)
(***************************************************************************)

\* Every variable has its type.
TypeOK ==
    /\ state \in {"RoutingActivated", "WaitDownstreamResponse", "Closed"}
    /\ hpc \in {"idle", "store", "pending"}
    /\ callback \in BOOLEAN
    /\ tx \in Seq(Request)
    /\ rx \in Seq(Request)
    /\ running \in BOOLEAN
    /\ wpc \in {"loop", "tx", "send", "rx", "respond", "clear", "done"}
    /\ job \in 0..MaxRequests
    /\ closer \in {"open", "stopping", "joining", "closed"}
    /\ asked \in 0..MaxRequests
    /\ answered \in Nat
    /\ last \in 0..MaxRequests

\* Responses reach the client in the order of its requests, none twice,
\* whatever requests lose theirs to the shared callback.
ResponsesInOrder == [][answered' # answered => last' > last]_vars

\* Requests handed to the worker.
Enqueued == IF hpc = "store" THEN asked - 1 ELSE asked

Interface == INSTANCE DownstreamInterface
    WITH outstanding <- Enqueued - answered,
         closed <- closer = "closed"

\* The model keeps what a connection relies on: a response is for a request
\* that has none, and once onCloseConnection returned the worker is gone and
\* touches the connection, which is about to be destroyed, no more.
InterfaceImplemented == Interface!Spec

\* onCloseConnection returns: the worker leaves its loop whatever is queued.
CloseReturns == closer = "stopping" ~> closer = "closed"

\* "When a downstream response arrives, the DoIP server sends that response
\* back to the client": a request that was queued is answered, unless the
\* connection is closed.
ResponseForwarded ==
    \A n \in Request :
        (hpc = "pending" /\ asked = n) ~> (last >= n \/ closer # "open")
=============================================================================
