----------------------------- MODULE MCMailFlow -----------------------------
(* Small instances of MailFlow for TLC.                                    *)
EXTENDS MailFlow, TLC

CONSTANTS m1, m2, w1, w2

(* Nothing tells the slots of the pool apart.                              *)
Symmetry == Permutations(Worker)
=============================================================================
