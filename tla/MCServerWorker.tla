--------------------------- MODULE MCServerWorker ---------------------------
(* Small instances of ServerWorker for TLC. *)
EXTENDS ServerWorker, TLC

DestSymmetry == Permutations(Dests)
=============================================================================
