--------------------------- MODULE MCMessageStore ---------------------------
(* Small instances of MessageStore: which app each key belongs to. *)
EXTENDS MessageStore, TLC

CONSTANTS c1, c2, k1, k2, app1, app2, x, d, e

MCOneKey == k1 :> app1
MCTwoKeys == k1 :> app1 @@ k2 :> app2

MCTimes == {Null, 1, 2}
MCTimes1 == {1}

Symmetry == Permutations({c1, c2}) \cup Permutations({d, e})
=============================================================================
