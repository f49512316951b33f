----------------------------- MODULE PacketPipe -----------------------------
(***************************************************************************)
(* What the internal protocol promises its two ends: packets come out as   *)
(* they went in, in order, each once, some at a time.  Framing implements  *)
(* it over a byte stream that is cut anywhere.                             *)
(***************************************************************************)
EXTENDS Integers, Sequences

CONSTANT Packets

VARIABLES
  put,   \* the packets that went in
  got    \* the packets that came out

pipeVars == <<put, got>>

Init ==
  /\ put = <<>>
  /\ got = <<>>

Put ==
  /\ put' \in Seq(Packets)
  /\ Len(put') = Len(put) + 1
  /\ SubSeq(put', 1, Len(put)) = put
  /\ UNCHANGED got

Get ==
  /\ \E n \in (Len(got) + 1)..Len(put) : got' = SubSeq(put, 1, n)
  /\ UNCHANGED put

Next == Put \/ Get

Spec == Init /\ [][Next]_pipeVars
=============================================================================
