----------------------------- MODULE MCEndToEnd -----------------------------
(* A small instance of EndToEnd for TLC. *)
EXTENDS EndToEnd

\* All users name one destination.
MCDestOf == [u \in Users |-> CHOOSE t \in Dests : TRUE]
=============================================================================
