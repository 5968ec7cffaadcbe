------------------------------ MODULE MCSecret ------------------------------
(***************************************************************************)
(* Secret for TLC: requests that fit once and then in part, and files that *)
(* are interchangeable.                                                    *)
(***************************************************************************)
EXTENDS Secret, TLC

TwoBytes == {<<0, 1>>}

Files == Permutations(Fd)
=============================================================================
