---------------------------- MODULE MCPublisher ----------------------------
(***************************************************************************)
(* Publisher for TLC: two mint requests of one app.                        *)
(***************************************************************************)
EXTENDS Publisher, TLC

Symmetry == Permutations(Mints)
=============================================================================
