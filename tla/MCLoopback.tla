----------------------------- MODULE MCLoopback -----------------------------
(***************************************************************************)
(* Bursts of four words, two 16-byte beats: a buffer of one word is        *)
(* rounded up to a beat, one of five takes a whole burst and a beat, one   *)
(* of eight two whole bursts.  Calls that overlap take one burst each.     *)
(***************************************************************************)
EXTENDS Loopback

OneBurst == {1}
AnySize == {1, 5}
TwoBursts == {8}
\* A receive buffer that some of the calls overrun.
OneRoom == {4}
=============================================================================
