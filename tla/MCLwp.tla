------------------------------- MODULE MCLwp -------------------------------
(***************************************************************************)
(* Lwp for TLC: addresses of contexts are interchangeable.                 *)
(***************************************************************************)
EXTENDS Lwp, TLC

Addresses == Permutations(Thread)
=============================================================================
