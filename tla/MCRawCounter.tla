---------------------------- MODULE MCRawCounter ----------------------------
(* The instance of RawCounter that TLC checks: CPUs are alike. *)
EXTENDS RawCounter, TLC

CONSTANTS u1, u2, u3

CpuSet == {u1, u2, u3}
CpuSymmetry == Permutations(CpuSet)
=============================================================================
