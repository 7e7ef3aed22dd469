----------------------------- MODULE MCMyBigInt -----------------------------
(* Model values of MyBigInt: every number and every pair of numbers of four *)
(* limbs of two bits.                                                       *)
EXTENDS MyBigInt

MCPairs == Number \X Number
MCNumbers == Number
=============================================================================
