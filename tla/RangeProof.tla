----------------------------- MODULE RangeProof -----------------------------
(***************************************************************************)
(* The range proof: main of gpuec/rp.cu, which proves that a committed     *)
(* value has Bits bits, and the checks that main of gpuec/cuverify.cu      *)
(* computes for it, one step per host function or kernel.                  *)
(*                                                                         *)
(* A scalar is an integer below the group order N, kept plain or in        *)
(* Montgomery form as in the code.  A point is the function from           *)
(* generators to exponents modulo N it is known by; its coordinates, and   *)
(* what it is hashed to, are abstract.                                     *)
(*                                                                         *)
(* A kernel of one warp is one step, its threads executing in step.  Only  *)
(* kernel_cal_S has two warps, and nothing between its rounds to order     *)
(* them: what it leaves depends on the schedule (see BlockKernels).        *)
(***************************************************************************)
EXTENDS Integers, FiniteSetsExt, TLC

CONSTANTS
  N,        \* the order of the group, an odd prime
  W,        \* the width of a scalar (256)
  Bits,     \* the length of the vectors (32)
  Values,   \* the values committed to
  Randoms,  \* the random parameters of a proof
  Digests   \* what a hash may return

VARIABLES
  pc,       \* the host function or kernel that comes next
  value,
  ran,      \* h_ranParams and d_ranParams
  al, ar,   \* the two halves of aLR
  xyz,      \* d_xyz of the prover
  z22nyn,
  VLR,
  late,     \* kernel_cal_S read the sum of its second warp before it was complete
  prove,    \* what the prover hands over
  digests,  \* what each pair of points hashed so far has given
  hxyz,     \* h_xyz of the verifier, with (y - 1)^-1
  bLR,
  ipcommit, \* the commitment to both halves of bLR
  hprime,
  tmpJ      \* both sides of checks 65 and 66/67

prover   == <<value, ran, al, ar, xyz, z22nyn, VLR, late>>
verifier == <<hxyz, bLR, ipcommit, hprime, tmpJ>>
vars     == <<pc, prover, prove, digests, verifier>>

Index   == 0 .. Bits - 1
Scalars == 0 .. N - 1

Add(a, b) == (a + b) % N
Sub(a, b) == (a + N - b) % N
Neg(a)    == Sub(0, a)
Sum(f)    == MapThenSumSet(LAMBDA i : f[i], DOMAIN f) % N

(* Montgomery form: a stands for a / 2^W.                                  *)
MonMult(a, b) == (a * b * (CHOOSE r \in Scalars : (r * 2 ^ W) % N = 1)) % N
R2modN   == (2 ^ W * 2 ^ W) % N
MonOne   == 2 ^ W % N
MonTwo   == (2 * 2 ^ W) % N
ToMon(a) == MonMult(a, R2modN)
Plain(a) == MonMult(a, 1)

ModExp(a, k) ==
  LET up[m \in 0 .. k] ==
        CASE m = 0 -> MonOne
          [] m = 1 -> a
          [] OTHER -> LET square == MonMult(up[m \div 2], up[m \div 2])
                      IN  IF m % 2 = 1 THEN MonMult(square, a) ELSE square
  IN  up[k]

(* Phase I of the inversion, <<a^-1 2^k mod N, k>>, on registers of W bits *)
(* and with the carry of the last doubling or sum of r.                    *)
Fits(a)  == a % 2 ^ W
Carry(a) == a \div 2 ^ W

RECURSIVE AlmostInverse(_, _, _, _, _, _)
AlmostInverse(u, v, r, s, k, cr) ==
  IF v = 0 THEN LET low == IF r >= N \/ cr = 1 THEN Fits(r + 2 ^ W - N) ELSE r
                IN  <<N - low, k>>
  ELSE IF u % 2 = 0 THEN AlmostInverse(u \div 2, v, r, Fits(2 * s), k + 1, cr)
  ELSE IF v % 2 = 0 THEN AlmostInverse(u, v \div 2, Fits(2 * r), s, k + 1, Carry(2 * r))
  ELSE IF u > v     THEN AlmostInverse((u - v) \div 2, v, Fits(r + s), Fits(2 * s), k + 1, Carry(r + s))
                    ELSE AlmostInverse(u, (v - u) \div 2, Fits(2 * r), Fits(s + r), k + 1, Carry(2 * r))

(* a^-1 2^W mod N for a # 0.                                               *)
MonInv(a) ==
  LET phase1 == AlmostInverse(N, a, 0, 1, 0, 0)
      r == phase1[1]
      k == phase1[2]
  IN  IF k > W THEN MonMult(r, 2 ^ (2 * W - k)) ELSE (r * 2 ^ (W - k)) % N

Gens      == ({"G", "H", "torn"} \X {0}) \cup ({"Gg", "Hh", "ip"} \X Index)
Infinity  == [g \in Gens |-> 0]
Gen(a, i) == [Infinity EXCEPT ![<<a, i>>] = 1]
PAdd(p, q) == [g \in Gens |-> Add(p[g], q[g])]
PMul(p, k) == [g \in Gens |-> (p[g] * k) % N]
PSum(f)    == [g \in Gens |-> Sum([i \in DOMAIN f |-> f[i][g]])]
Minus(p)   == PMul(p, N - 1)
G          == Gen("G", 0)
H          == Gen("H", 0)

(* The point k places from the start of a vector of BPSetupParams, where   *)
(* Hh follows Gg and the parameters ipA, ipB, ... (of the inner product,   *)
(* read as points) follow Hh.                                              *)
At(vector, k) ==
  IF k < Bits THEN Gen(vector, k)
              ELSE Gen(IF vector = "Gg" THEN "Hh" ELSE "ip", k - Bits)

(* Equal points have equal digests.                                        *)
Hash(p, q) == IF <<p, q>> \in DOMAIN digests THEN {digests[<<p, q>>]} ELSE Digests

(* The step from one function to the next.  Multiplying a point by 0, and  *)
(* inverting 0, is undefined: the code reads k[-1], or an unset carry.     *)
Step(here, next, scalars) ==
  /\ pc = here
  /\ pc' = IF 0 \in scalars THEN "undefined" ELSE next

All(f) == {f[i] : i \in DOMAIN f}
NoPoints  == [V |-> Infinity, A |-> Infinity, S |-> Infinity, T1 |-> Infinity, T2 |-> Infinity,
              Taux |-> 0, Mu |-> 0, Tprime |-> 0]
Zeros     == [i \in Index |-> 0]

(* The bits of the value, and each bit minus 1 (compute_al_ar).            *)
Init ==
  /\ pc = "commitG1"
  /\ value \in Values
  /\ ran \in Randoms
  /\ al = [i \in Index |-> (value \div 2 ^ i) % 2]
  /\ ar = [i \in Index |-> IF al[i] = 1 THEN 0 ELSE N - 1]
  /\ xyz = [x |-> 0, y |-> 0, z |-> 0]
  /\ z22nyn = [z22n |-> Zeros, yn |-> Zeros]
  /\ VLR = [l |-> Zeros, r |-> Zeros]
  /\ late = FALSE
  /\ prove = NoPoints
  /\ digests = <<>>
  /\ hxyz = [x |-> 0, y |-> 0, z |-> 0, ym1inv |-> 0]
  /\ bLR = [l |-> Zeros, r |-> Zeros]
  /\ ipcommit = Infinity
  /\ hprime = [i \in Index |-> Infinity]
  /\ tmpJ = [lhs65 |-> Infinity, rhs65 |-> Infinity, P66 |-> Infinity, P67 |-> Infinity]

commitG1 ==
  /\ Step("commitG1", "cal_A", {value, ran.gamma})
  /\ prove' = [prove EXCEPT !.V = PAdd(PMul(G, value), PMul(H, ran.gamma))]
  /\ UNCHANGED <<prover, digests, verifier>>

(* Gg[i] where al[i] is 1, minus Hh[i] where ar[i] is not 0.               *)
cal_A ==
  LET term(i) == PAdd(IF al[i] = 1 THEN Gen("Gg", i) ELSE Infinity,
                      IF ar[i] # 0 THEN Minus(Gen("Hh", i)) ELSE Infinity)
  IN  /\ Step("cal_A", "kernel_cal_S", {ran.alpha})
      /\ prove' = [prove EXCEPT !.A = PAdd(PMul(H, ran.alpha), PSum([i \in Index |-> term(i)]))]
      /\ UNCHANGED <<prover, digests, verifier>>

(* The first warp sums up tp[0 .. Bits - 1], terms of the vector g, the    *)
(* second one tp[Bits ..], terms of h; each thread takes the point at its  *)
(* own index, so that the launch has to pass Gg for both.                  *)
LowerSum(g)    == PSum([i \in Index |-> PMul(At(g, i), ran.sl[i])])
UpperSum(h, k) == PSum([i \in 0 .. k - 1 |-> PMul(At(h, Bits + i), ran.sr[i])])

(* What thread 0 finds in tp[Bits] in its last round, and whether that is  *)
(* too early: the sum after some rounds of the second warp, of 1, 2, 4 ... *)
(* or all its terms, or the coordinates of two such sums, a point of which *)
(* no exponents are known.                                                 *)
TermsSummed == {2 ^ k : k \in 0 .. Bits} \cap 1 .. Bits

FoundInTp(h) ==
  {<<UpperSum(h, k), k # Bits>> : k \in TermsSummed} \cup {<<Gen("torn", 0), TRUE>>}

kernel_cal_S(g, h) ==
  /\ Step("kernel_cal_S", "trans_to_mon_N", All(ran.sl) \cup All(ran.sr) \cup {ran.rho})
  /\ \E found \in FoundInTp(h) :
       LET S == PAdd(PAdd(LowerSum(g), found[1]), PMul(H, ran.rho))
       IN  /\ prove' = [prove EXCEPT !.S = S]
           /\ late' = found[2]
           /\ \E d \in Hash(prove.A, S) :
                /\ digests' = (<<prove.A, S>> :> d) @@ digests
                /\ xyz' = [xyz EXCEPT !.y = ToMon(d[1]), !.z = ToMon(d[2])]
  /\ UNCHANGED <<value, ran, al, ar, z22nyn, VLR, verifier>>

CalSOfHh  == kernel_cal_S("Gg", "Hh")                               \* mutated
gpu_cal_S == kernel_cal_S("Gg", "Gg")

trans_to_mon_N ==
  /\ Step("trans_to_mon_N", "kernel_cal_t12", {})
  /\ al' = [i \in Index |-> ToMon(al[i])]
  /\ ar' = [i \in Index |-> ToMon(ar[i])]
  /\ UNCHANGED <<value, ran, xyz, z22nyn, VLR, late, prove, digests, verifier>>

(* The coefficients of t(X) = <l(X), r(X)>.  The kernel first converts sl  *)
(* and sr where they are, and leaves them so for the next kernel.          *)
kernel_cal_t12 ==
  LET sl   == [i \in Index |-> ToMon(ran.sl[i])]
      sr   == [i \in Index |-> ToMon(ran.sr[i])]
      yn   == [i \in Index |-> ModExp(xyz.y, i)]
      z22n == [i \in Index |-> MonMult(ModExp(MonTwo, i), MonMult(xyz.z, xyz.z))]
      ynsr == [i \in Index |-> MonMult(yn[i], sr[i])]
      lh   == Sum([i \in Index |-> MonMult(Sub(al[i], xyz.z), ynsr[i])])
      rh   == Sum([i \in Index |-> MonMult(Add(MonMult(Add(ar[i], xyz.z), yn[i]), z22n[i]), sl[i])])
      t1   == Plain(Add(lh, rh))
      t2   == Plain(Sum([i \in Index |-> MonMult(ynsr[i], sl[i])]))
      T1   == PAdd(PMul(G, t1), PMul(H, ran.tau1))
      T2   == PAdd(PMul(G, t2), PMul(H, ran.tau2))
  IN  /\ Step("kernel_cal_t12", "kernel_cal_vlr", {t1, t2, ran.tau1, ran.tau2})
      /\ ran' = [ran EXCEPT !.sl = sl, !.sr = sr]
      /\ z22nyn' = [z22n |-> z22n, yn |-> yn]
      /\ prove' = [prove EXCEPT !.T1 = T1, !.T2 = T2]
      /\ \E d \in {<<pair[1]>> : pair \in Hash(T1, T2)} :
           /\ digests' = (<<T1, T2>> :> d) @@ digests
           /\ xyz' = [xyz EXCEPT !.x = ToMon(d[1])]
      /\ UNCHANGED <<value, al, ar, VLR, late, verifier>>

(* The vectors l and r at x, their product and the two blinding factors.   *)
kernel_cal_vlr ==
  LET x    == xyz.x
      z    == xyz.z
      l    == [i \in Index |-> Add(Sub(al[i], z), MonMult(ran.sl[i], x))]
      r    == [i \in Index |->
                 Add(MonMult(Add(Add(MonMult(ran.sr[i], x), z), ar[i]), z22nyn.yn[i]), z22nyn.z22n[i])]
      taux == Add(MonMult(MonMult(x, x), ToMon(ran.tau2)),
                  Add(MonMult(ToMon(ran.tau1), x), MonMult(MonMult(z, z), ToMon(ran.gamma))))
      mu   == Add(MonMult(ToMon(ran.rho), x), ToMon(ran.alpha))
  IN  /\ Step("kernel_cal_vlr", "init", {})
      /\ VLR' = [l |-> l, r |-> r]
      /\ prove' = [prove EXCEPT !.Tprime = Plain(Sum([i \in Index |-> MonMult(l[i], r[i])])),
                                !.Taux = Plain(taux), !.Mu = Plain(mu)]
      /\ UNCHANGED <<value, ran, al, ar, xyz, z22nyn, late, digests, verifier>>

Prover == commitG1 \/ cal_A \/ gpu_cal_S \/ trans_to_mon_N \/ kernel_cal_t12 \/ kernel_cal_vlr

-----------------------------------------------------------------------------
(* The verifier holds the proof as constants: plain vectors, and their     *)
(* commitment under Gg and the generators Hh[i]^(y^-i).                    *)
init ==
  LET l      == [i \in Index |-> Plain(VLR.l[i])]
      r      == [i \in Index |-> Plain(VLR.r[i])]
      yinv(i) == Plain(MonInv(Plain(ModExp(xyz.y, i))))
  IN  /\ Step("init", "HashBP_V2", {})
      /\ bLR' = [l |-> l, r |-> r]
      /\ ipcommit' = PSum([i \in Index |-> PAdd(PMul(Gen("Gg", i), l[i]),
                                                PMul(Gen("Hh", i), r[i] * yinv(i)))])
      /\ UNCHANGED <<prover, prove, digests, hxyz, hprime, tmpJ>>

HashBP_V2 ==
  /\ pc = "HashBP_V2"
  /\ \E d \in Hash(prove.A, prove.S), e \in Hash(prove.T1, prove.T2) :
       /\ Step("HashBP_V2", "var2mon", {Sub(d[1], 1)})
       /\ hxyz' = [x |-> e[1], y |-> d[1], z |-> d[2],
                   ym1inv |-> IF d[1] = 1 THEN 0 ELSE MonInv(d[1] - 1)]
  /\ UNCHANGED <<prover, prove, digests, bLR, ipcommit, hprime, tmpJ>>

(* xyz_to_monN leaves (y - 1)^-1 alone, which is in Montgomery form.       *)
var2mon ==
  /\ Step("var2mon", "kernel_updateGen", {})
  /\ hxyz' = [hxyz EXCEPT !.x = ToMon(hxyz.x), !.y = ToMon(hxyz.y), !.z = ToMon(hxyz.z)]
  /\ bLR' = [l |-> [i \in Index |-> ToMon(bLR.l[i])], r |-> [i \in Index |-> ToMon(bLR.r[i])]]
  /\ UNCHANGED <<prover, prove, digests, ipcommit, hprime, tmpJ>>

(* The inverse of a Montgomery form is plain, as the exponent must be.     *)
kernel_updateGen ==
  /\ Step("kernel_updateGen", "kernel_commitG1", {})
  /\ hprime' = [i \in Index |-> PMul(Gen("Hh", i), MonInv(ModExp(hxyz.y, i)))]
  /\ UNCHANGED <<prover, prove, digests, hxyz, bLR, ipcommit, tmpJ>>

kernel_commitG1 ==
  /\ Step("kernel_commitG1", "kernel_rhs65", {prove.Tprime, prove.Taux})
  /\ tmpJ' = [tmpJ EXCEPT !.lhs65 = PAdd(PMul(H, prove.Taux), PMul(G, prove.Tprime))]
  /\ UNCHANGED <<prover, prove, digests, hxyz, bLR, ipcommit, hprime>>

(* V^(z^2) T1^x T2^(x^2) G^delta, with 0xffffffff for 2^32 - 1.            *)
kernel_rhs65 ==
  LET x     == hxyz.x
      z2    == MonMult(hxyz.z, hxyz.z)
      ones  == ToMon((2 ^ Bits - 1) % N)
      sumyn == MonMult(Sub(ModExp(hxyz.y, Bits), MonOne), hxyz.ym1inv)
      delta == Plain(Sub(MonMult(sumyn, Sub(hxyz.z, z2)), MonMult(MonMult(hxyz.z, z2), ones)))
      x2    == MonMult(x, x)
  IN  /\ Step("kernel_rhs65", "kernel_calP", {Plain(z2), Plain(x), Plain(x2), delta})
      /\ tmpJ' = [tmpJ EXCEPT !.rhs65 =
                    PAdd(PAdd(PMul(prove.V, Plain(z2)), PMul(prove.T1, Plain(x))),
                         PAdd(PMul(prove.T2, Plain(x2)), PMul(G, delta)))]
      /\ UNCHANGED <<prover, prove, digests, hxyz, bLR, ipcommit, hprime>>

(* A S^x Gg^-z hprime^(z y^i + z^2 2^i).                                   *)
kernel_calP ==
  LET z     == hxyz.z
      mz    == Plain(Neg(z))
      e     == [i \in Index |-> Plain(Add(MonMult(ModExp(hxyz.y, i), z),
                                          MonMult(ModExp(MonTwo, i), MonMult(z, z))))]
      bases == PSum([i \in Index |-> PAdd(PMul(Gen("Gg", i), mz), PMul(hprime[i], e[i]))])
  IN  /\ Step("kernel_calP", "kernel_calP67", {mz, Plain(hxyz.x)} \cup All(e))
      /\ tmpJ' = [tmpJ EXCEPT !.P66 = PAdd(PAdd(bases, prove.A), PMul(prove.S, Plain(hxyz.x)))]
      /\ UNCHANGED <<prover, prove, digests, hxyz, bLR, ipcommit, hprime>>

kernel_calP67 ==
  /\ Step("kernel_calP67", "kernel_calip68", {prove.Mu})
  /\ tmpJ' = [tmpJ EXCEPT !.P67 = PAdd(PMul(H, prove.Mu), ipcommit)]
  /\ UNCHANGED <<prover, prove, digests, hxyz, bLR, ipcommit, hprime>>

(* The products of the pairs, added up into the first cell.                *)
kernel_calip68 ==
  LET products == [i \in Index |-> MonMult(bLR.l[i], bLR.r[i])]
  IN  /\ Step("kernel_calip68", "done", {})
      /\ bLR' = [bLR EXCEPT !.l = [products EXCEPT ![0] = Sum(products)]]
      /\ UNCHANGED <<prover, prove, digests, hxyz, ipcommit, hprime, tmpJ>>

Verifier ==
  \/ init \/ HashBP_V2 \/ var2mon \/ kernel_updateGen \/ kernel_commitG1
  \/ kernel_rhs65 \/ kernel_calP \/ kernel_calP67 \/ kernel_calip68

Next == Prover \/ Verifier

Spec == Init /\ [][Next]_vars

-----------------------------------------------------------------------------
(* The equations (65), (66)/(67) and (68) of the protocol, as the kernels *)
(* of the verifier have computed their two sides.                          *)
Check65 == tmpJ.lhs65 = tmpJ.rhs65
Check67 == tmpJ.P66 = tmpJ.P67
Check68 == Plain(bLR.l[0]) = prove.Tprime

(* A proof passes the checks exactly if kernel_cal_S summed all its terms: *)
(* numbers pass from one program and kernel to the next in the form, plain *)
(* or Montgomery, that each expects, and points at the places where each   *)
(* looks for them; and if the second warp was late, the commitment S is    *)
(* not the one to sl and sr, which (66)/(67) shows, while (65) and (68),   *)
(* which do not contain S, hold nevertheless.                              *)
ProofAccepted ==
  pc = "done" => /\ Check65 /\ Check68
                 /\ Check67 <=> ~late
=============================================================================
