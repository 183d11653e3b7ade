-------------------------- MODULE MCClientDirectory --------------------------
(* Model checking of ClientDirectory: requests are interchangeable.            *)
EXTENDS ClientDirectory, TLC

Symmetry == Permutations(Tasks)
=============================================================================
