---------------------------- MODULE MCHostMemory ----------------------------
(* Small instances of HostMemory for TLC.                                  *)
EXTENDS HostMemory, TLC

CpuSymmetry == Permutations(Cpu)
FenceSymmetry == Permutations(Cpu) \cup Permutations(Holder)
=============================================================================
