--------------------------- MODULE MCPreforked ---------------------------
(* Instances of Preforked for TLC. *)
EXTENDS Preforked, TLC

(* Pids are interchangeable: no operator of the model orders them.         *)
PidSymmetry == Permutations(Pid)
===========================================================================
