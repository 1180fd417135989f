---------------------------- MODULE MCUdsServer ----------------------------
(* Instances of UdsServer for TLC: see the .cfg files named after it.      *)
EXTENDS UdsServer

CONSTANTS a, b, c

(* Client ends are interchangeable. *)
Symmetry == Permutations(Conns)
=============================================================================
