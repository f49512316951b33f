------------------------- MODULE MCClientForwarder -------------------------
(* Small instances of ClientForwarder for TLC. *)
EXTENDS ClientForwarder, TLC

UserSymmetry == Permutations(Users)
=============================================================================
