-------------------------- MODULE MCArithmeticCoder --------------------------
(***************************************************************************)
(* Small instances of ArithmeticCoder: registers of five bits, so that     *)
(* MAX_TOTAL is 10.  The tables have a flat one, one with a rare and a     *)
(* frequent symbol, and totals up to MAX_TOTAL; one has a total above it   *)
(* and is refused.                                                         *)
(***************************************************************************)
EXTENDS ArithmeticCoder

SmallTables == {<<0, 1, 2, 3>>, <<0, 1, 10>>, <<0, 4, 5, 9>>, <<0, 1, 11>>}
=============================================================================
