---------------------------- MODULE MCChainMul ----------------------------
(* Model values of ChainMul: every sound chain of up to MAX_2 terms over   *)
(* the exponents 0..MaxDbl and 0..MaxTpl.                                  *)
EXTENDS ChainMul

CONSTANTS MaxDbl, MaxTpl

MCEntry == [sign : {-1, 1}, dbl : 0 .. MaxDbl, tpl : 0 .. MaxTpl]

Padded(c, l) == [k \in 0 .. MAX_2 - 1 |-> IF k < l THEN c[k] ELSE ZeroEntry]

MCJobs ==
  UNION { {<<Padded(c, l), l>> :
             c \in {d \in [0 .. l - 1 -> MCEntry] : SoundChain(Padded(d, l), l)}}
          : l \in 1 .. MAX_2 }

MCScalars == 0 .. Pow23(MaxDbl, MaxTpl) * MAX_2
=============================================================================
