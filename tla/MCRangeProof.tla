---------------------------- MODULE MCRangeProof ----------------------------
(* Model values of RangeProof: vectors of four bits, and every value whose *)
(* top bit is 0, as rand() returns them; a group of order 11, whose        *)
(* Montgomery radix 16 is not 1; two choices of randomness and five values *)
(* a hash may take, 1 (which y must not be) among them.                    *)
EXTENDS RangeProof, Sequences

Random(gamma, alpha, rho, tau1, tau2, sl, sr) ==
  [gamma |-> gamma, alpha |-> alpha, rho |-> rho, tau1 |-> tau1, tau2 |-> tau2,
   sl |-> [i \in Index |-> sl[i + 1]], sr |-> [i \in Index |-> sr[i + 1]]]

MCValues  == 0 .. 2 ^ (Bits - 1) - 1
MCRandoms == {Random(1, 2, 3, 4, 5, <<6, 7, 8, 9>>, <<3, 10, 4, 2>>),
              Random(10, 1, 7, 3, 2, <<5, 10, 1, 4>>, <<5, 1, 8, 4>>)}
MCDigests == {1, 2, 6, 7, 10} \X {1, 2, 6, 7, 10}
=============================================================================
