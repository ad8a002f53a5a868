--------------------------- MODULE MCHandoffStore ---------------------------
(* Model-checking instance of the worker half of the store: one job the    *)
(* worker may run and one only direct claimants may, two boot identities,  *)
(* two control sequences, two attempts per job and a clock that stands.    *)
EXTENDS HandoffStore
=============================================================================
