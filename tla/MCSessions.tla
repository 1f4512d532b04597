----------------------------- MODULE MCSessions -----------------------------
(* The instance of Sessions that TLC checks. *)
EXTENDS Sessions, TLC

ProcSymmetry == Permutations(Procs)
=============================================================================
