-------------------------- MODULE MCDeliveryWorker --------------------------
(* Instances of DeliveryWorker for TLC.                                    *)
EXTENDS DeliveryWorker, TLC

CONSTANTS w1, w2, hook, recipient

MCDest1 == <<hook>>
MCDest2 == <<hook, recipient>>
Loops == Permutations(Worker)
=============================================================================
