----------------------------- MODULE MCUartEcho -----------------------------
(***************************************************************************)
(* A small instance of UartEcho: all bytes of two bits.                    *)
(***************************************************************************)
EXTENDS UartEcho

AnyByte  == [0..1 -> 0..1]
AnyDrift == -1..1
=============================================================================
