------------------------------ MODULE MCSignIn ------------------------------
(* A small server for TLC: the keys are interchangeable.                     *)
EXTENDS SignIn, TLC

Symmetry == Permutations(Keys) \cup Permutations(Requests)
=============================================================================
