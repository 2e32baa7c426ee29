--------------------------- MODULE MCAppIdentity ---------------------------
(***************************************************************************)
(* AppIdentity for TLC: two workflows contend for one app, and the issuer  *)
(* rotates its signing key.                                                *)
(***************************************************************************)
EXTENDS AppIdentity, TLC

CONSTANTS t1, t2, k1, k2

MCClaims == (t1 :> [id |-> [repo |-> 1, owner |-> 1], exp |-> 0, kid |-> k1])
         @@ (t2 :> [id |-> [repo |-> 2, owner |-> 1], exp |-> 1, kid |-> k2])
Symmetry == Permutations(Exchanges)
=============================================================================
