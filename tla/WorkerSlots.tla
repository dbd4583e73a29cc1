---------------------------- MODULE WorkerSlots ----------------------------
(***************************************************************************)
(* What MailFlow takes for granted of kospam's process pool: a slot has at *)
(* most one worker; a worker that starts is idle, makes one pass over the  *)
(* slot's directory after the other, and may go away at any moment; only   *)
(* then can the slot have another one.                                     *)
(***************************************************************************)
CONSTANT Slot

VARIABLE worker     \* worker[i]: "down", "idle" or "pass"

Init == worker = [i \in Slot |-> "down"]

Start(i)     == worker[i] = "down" /\ worker' = [worker EXCEPT ![i] = "idle"]
BeginPass(i) == worker[i] = "idle" /\ worker' = [worker EXCEPT ![i] = "pass"]
EndPass(i)   == worker[i] = "pass" /\ worker' = [worker EXCEPT ![i] = "idle"]
Stop(i)      == worker[i] # "down" /\ worker' = [worker EXCEPT ![i] = "down"]

Next == \E i \in Slot : Start(i) \/ BeginPass(i) \/ EndPass(i) \/ Stop(i)

Spec == Init /\ [][Next]_worker
=============================================================================
