---------------------------- MODULE MCDurableHost ----------------------------
(* A small instance of the synthetic host. *)
EXTENDS DurableHost, TLC

Symmetry ==
    Permutations(Instances) \cup Permutations(Operations)
      \cup Permutations(Sessions) \cup Permutations(Actions)
==============================================================================
