------------------------------ MODULE MCJwksCache ----------------------------
(* Calls that come while keys are fetched, withdrawn and replaced. *)
EXTENDS JwksCache, TLC

Symmetry == Permutations(Calls) \cup Permutations(Kids)
=============================================================================
