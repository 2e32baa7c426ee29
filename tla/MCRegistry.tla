---------------------------- MODULE MCRegistry ----------------------------
(***************************************************************************)
(* Registry for TLC: one name that the app and the operator take in turn,  *)
(* one route, two requests of the app in flight.                           *)
(***************************************************************************)
EXTENDS Registry, TLC

Symmetry == Permutations(Requests) \cup Permutations(Urls) \cup Permutations(Secrets)
=============================================================================
