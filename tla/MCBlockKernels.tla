--------------------------- MODULE MCBlockKernels ---------------------------
(***************************************************************************)
(* Model values of BlockKernels: every kernel on a block of four threads,  *)
(* as one warp and as two; the shorter kernels also with every thread on   *)
(* its own, and those that the code launches over several warps on eight   *)
(* threads; and, for a run of their own, the two sums of points.           *)
(***************************************************************************)
EXTENDS BlockKernels

MCInput == [i \in 0 .. Operands - 1 |-> IF i < 16 THEN 3 ^ i ELSE 1]

Short   == PointSums \cup {"kernel_cal_S", "kernel_cal_vlr", "kernel_calip68"}
Several == PointSums \cup {"kernel_cal_S"}

MCLaunches == {LaunchOf(name, 4, W) : name \in Names, W \in {2, 4}}
                \cup {LaunchOf(name, 4, 1) : name \in Short}
                \cup {LaunchOf(name, 8, 4) : name \in Several}

MCPointSums == {LaunchOf(name, 4, W) : name \in PointSums, W \in {2, 4}}
=============================================================================
