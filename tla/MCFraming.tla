----------------------------- MODULE MCFraming -----------------------------
(***************************************************************************)
(* Small instances of Framing for TLC: one-bit bytes, so that an address   *)
(* has one byte, a port is 1 to 3 and a payload has up to three.           *)
(***************************************************************************)
EXTENDS Framing

\* A host that fits a frame, and one that is too long.
MCHosts == {<<0>>, <<1, 1>>}
=============================================================================
