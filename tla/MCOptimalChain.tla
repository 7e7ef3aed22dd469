--------------------------- MODULE MCOptimalChain ---------------------------
(* Model values of OptimalChain, with blocks of 2 x 2 cells so that several *)
(* blocks meet in each direction, and rivals of up to MaxAdditions that     *)
(* lead with up to four times the largest scalar.                           *)
EXTENDS OptimalChain

CONSTANT MaxScalar

MCScalars == 1 .. MaxScalar
MCLaterScalars == {1, 10, 23}
MCMaxLead == 4 * MaxScalar
=============================================================================
