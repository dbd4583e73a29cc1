---------------------------- MODULE MessageFate ----------------------------
(***************************************************************************)
(* What kospam as a whole promises for a message, without its processes:   *)
(* a message goes one way through the stages of the service, the next hop  *)
(* gets at most one copy of it, and it is released only when the next hop  *)
(* has it.  A relay attempt whose outcome the relay does not know (it died,*)
(* an answer was lost or came late, or had more lines than are read of it, *)
(* a file could not be removed) puts the service in doubt; each doubt may  *)
(* cost one duplicate, and doubt is the only excuse for a release without  *)
(* a delivery.                                                             *)
(***************************************************************************)
EXTENDS Naturals

CONSTANT Message

VARIABLES
    stage,    \* stage[m]: where the message is in its life
    copies,   \* copies[m]: copies the next hop has accepted
    doubt     \* relay attempts of unknown outcome so far

vars == <<stage, copies, doubt>>

Init ==
    /\ stage = [m \in Message |-> "none"]
    /\ copies = [m \in Message |-> 0]
    /\ doubt = 0

MoveTo(m, from, to) ==
    /\ stage[m] = from
    /\ stage' = [stage EXCEPT ![m] = to]

MayDoubt == doubt' \in {doubt, doubt + 1}

Submit(m)  == MoveTo(m, "none", "queue") /\ UNCHANGED <<copies, doubt>>
Hold(m)    == MoveTo(m, "queue", "work") /\ UNCHANGED <<copies, doubt>>
Forward(m) == MoveTo(m, "work", "send") /\ UNCHANGED <<copies, doubt>>

Dismiss(m) ==
    /\ \E end \in {"dropped", "trained"} : MoveTo(m, "work", end)
    /\ UNCHANGED <<copies, doubt>>

Deliver(m) ==
    /\ stage[m] = "send"
    /\ copies[m] <= doubt
    /\ copies' = [copies EXCEPT ![m] = @ + 1]
    /\ MayDoubt
    /\ UNCHANGED stage

Release(m) ==
    /\ copies[m] > 0 \/ doubt > 0
    /\ MoveTo(m, "send", "released")
    /\ UNCHANGED <<copies, doubt>>

(* A message set aside has not been delivered, unless in doubt.            *)
SetAside(m) ==
    /\ MoveTo(m, "send", "error")
    /\ MayDoubt
    /\ copies[m] > 0 => doubt' > 0
    /\ UNCHANGED copies

Doubt == doubt' = doubt + 1 /\ UNCHANGED <<stage, copies>>

Next ==
    \/ \E m \in Message :
        \/ Submit(m) \/ Hold(m) \/ Forward(m) \/ Dismiss(m)
        \/ Deliver(m) \/ Release(m) \/ SetAside(m)
    \/ Doubt

Spec == Init /\ [][Next]_vars
=============================================================================
