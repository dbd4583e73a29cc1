----------------------------- MODULE MCVerdict -----------------------------
(* Small instances of Verdict for TLC: the limits of example.conf, scores  *)
(* on both sides of every limit and on the limit itself.                   *)
EXTENDS Verdict, TLC

CONSTANTS w1, w2, m1, m2, i1, i2

MCScores == {1, 45, 60, 80, 85, 92, 99}

Plain == [first |-> "user@", others |-> {}, ip |-> i1, infected |-> FALSE,
          mynetwork |-> FALSE, listed |-> "no", zombie |-> FALSE,
          ours |-> FALSE, size |-> 1, about |-> None]

(* What the tables tell apart: clients, traps, trainings.                  *)
Tables ==
    {Plain, [Plain EXCEPT !.ip = i2],
     [Plain EXCEPT !.others = {"trap@"}],
     [Plain EXCEPT !.infected = TRUE, !.first = "trap@"],
     [Plain EXCEPT !.first = "spam@", !.about = m1]}

(* What the decision tells apart: every way check_spam may return early,   *)
(* alone and with a later one, with and without a known bad attachment.    *)
Rules ==
    {[f EXCEPT !.infected = i, !.others = o] :
        i \in BOOLEAN, o \in {{}, {"ham@"}},
        f \in {[Plain EXCEPT !.mynetwork = TRUE, !.zombie = TRUE],
               [Plain EXCEPT !.listed = "white", !.size = 3],
               [Plain EXCEPT !.listed = "black", !.zombie = TRUE],
               [Plain EXCEPT !.zombie = TRUE, !.ours = TRUE],
               [Plain EXCEPT !.ours = TRUE],
               [Plain EXCEPT !.size = 2],
               Plain}}

AnyMail  == (m1 :> Rules \cup Tables) @@ (m2 :> Tables)
Zombies  == (m1 :> {Plain, [Plain EXCEPT !.zombie = TRUE]})
OneMail  == (m1 :> {Plain})

MCSymmetry == Permutations({w1, w2})
=============================================================================
