---------------------------- MODULE MCAdmission ----------------------------
(* Admission on a small instance: an ordinary address, a loopback one, and
   limits low enough that each of them bites. *)
EXTENDS Admission, TLC

CONSTANTS c1, c2, c3, c4, lan, lo

Symmetry == Permutations(Conns)
=============================================================================
