---------------------------- MODULE MCConnection ----------------------------
(***************************************************************************)
(* Model-checking instances of Connection.                                 *)
(***************************************************************************)
EXTENDS ConnectionRefinement, TLC

\* Accepted connections are interchangeable, and so are addresses.
Symmetry == Permutations(Conn) \cup Permutations(Addr)
=============================================================================
