----------------------------- MODULE MCTraining -----------------------------
(* Small instances of Training for TLC.                                    *)
EXTENDS Training

CONSTANTS w1, w2, t1, t2
=============================================================================
