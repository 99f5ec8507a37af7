------------------------- MODULE DownstreamInterface -------------------------
(***************************************************************************)
(* What a connection relies on when it forwards requests downstream: a     *)
(* response comes for a request that has none yet, and none comes after    *)
(* onCloseConnection returned, when the connection is about to be          *)
(* destroyed.  Connection counts requests the same way.                    *)
(***************************************************************************)
EXTENDS Naturals

VARIABLES
    outstanding,  \* requests without response
    closed        \* onCloseConnection returned

vars == <<outstanding, closed>>

Init == outstanding = 0 /\ closed = FALSE

\* onDownstreamRequest answers Pending (a message that was being handled when
\* the connection closed may still be forwarded).
Request ==
    /\ outstanding' = outstanding + 1
    /\ UNCHANGED closed

\* The response handler is called.
Respond ==
    /\ ~closed /\ outstanding > 0
    /\ outstanding' = outstanding - 1
    /\ UNCHANGED closed

\* onCloseConnection returns; what is outstanding stays without response.
Close ==
    /\ closed' = TRUE
    /\ UNCHANGED outstanding

Next == Request \/ Respond \/ Close

Spec == Init /\ [][Next]_vars
=============================================================================
