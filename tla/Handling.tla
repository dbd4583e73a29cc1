------------------------------ MODULE Handling ------------------------------
(***************************************************************************)
(* What MailFlow takes for granted about a message between the queue and   *)
(* the next hop: a worker takes it once and either learns from it or hands *)
(* it on; an attempt to relay it ends once, and for good; the next hop     *)
(* decides about the message with the last step of the attempt, and send   *)
(* knows that decision unless an answer of this attempt was not read to    *)
(* its end when it was expected.                                           *)
(***************************************************************************)
EXTENDS Naturals

VARIABLES
    state,      \* "queue", "taken", "trained", "sending", "true", "false"
    accepted,   \* the next hop has accepted it
    misses      \* lines of its answers that were not read with them

vars == <<state, accepted, misses>>

Init == state = "queue" /\ accepted = FALSE /\ misses = 0

Take ==
    /\ state = "queue" /\ state' = "taken"
    /\ UNCHANGED <<accepted, misses>>

Learn ==
    /\ state = "taken" /\ state' = "trained"
    /\ UNCHANGED <<accepted, misses>>

(* A message without a sender is not sent at all.                          *)
HandOn ==
    /\ state = "taken" /\ state' \in {"sending", "false"}
    /\ UNCHANGED <<accepted, misses>>

Miss ==
    /\ state = "sending" /\ misses' \in Nat /\ misses' > misses
    /\ UNCHANGED <<state, accepted>>

(* MailFlow's SendEmail: its result is the next hop's answer, or a fault.  *)
Finish ==
    /\ state = "sending" /\ state' \in {"true", "false"}
    /\ accepted' \in BOOLEAN
    /\ misses' \in {misses, misses + 1}
    /\ misses' = 0 => (accepted' <=> state' = "true")

Next == Take \/ Learn \/ HandOn \/ Miss \/ Finish

Spec == Init /\ [][Next]_vars
=============================================================================
