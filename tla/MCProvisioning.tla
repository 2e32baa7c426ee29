---------------------------- MODULE MCProvisioning ----------------------------
(***************************************************************************)
(* Provisioning for TLC.  Production enforces the grant check and has a    *)
(* person service; the other deployment has neither.                       *)
(***************************************************************************)
EXTENDS Provisioning, TLC

MCConfigs == {[mode |-> "enforce", store |-> TRUE], [mode |-> "log-only", store |-> FALSE]}
Symmetry == Permutations(Requests) \cup Permutations(Apps)
===============================================================================
