--------------------------- MODULE MCGreedyChain ---------------------------
(* Model values of GreedyChain: the list of getEOSDBC (ascending, width 4, *)
(* no limit on the chains) and lists of getSubOptimalDBC (from the centre  *)
(* outwards, width 6), the latter also with a limit that stops it at the   *)
(* first chain, as DBCv2::getDBC does, and with the prices of gpuec/ on    *)
(* the scalars for which no bound is negative, as get_DBC.                 *)
EXTENDS GreedyChain

CONSTANT MaxB

EOS(m) == [n |-> m, b_try |-> [k \in 1 .. MaxB + 1 |-> k - 1], window |-> 4,
           dbc_coef |-> MaxB + 1, price |-> DBCTestCosts]

CentreOut == <<2, 3, 1, 4, 0, 5>>

Sub(m, w, coef) ==
  [n |-> m, b_try |-> CentreOut, window |-> w, dbc_coef |-> coef, price |-> DBCTestCosts]

GpuList == <<2, 1, 3, 0, 4>>

Gpu(m) == [n |-> m, b_try |-> GpuList, window |-> 6, dbc_coef |-> Len(GpuList),
           price |-> GpuecCosts]

MCScalars == (0 .. 60) \cup {67, 83, 100, 242, 245, 317, 511, 730}

MCGpuScalars == {m \in MCScalars : m > 81}

MCJobs == UNION { {EOS(m), Sub(m, 6, 10), Sub(m, 6, 0)} : m \in MCScalars }
            \cup {Gpu(m) : m \in MCGpuScalars}

MCLaterJobs == {EOS(11), Sub(23, 6, 10), EOS(100), Gpu(100)}
=============================================================================
