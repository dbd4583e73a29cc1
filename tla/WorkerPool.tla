----------------------------- MODULE WorkerPool -----------------------------
(***************************************************************************)
(* The process pool of kospam: the master (src/kospam.c main, src/child.c) *)
(* and the life of a worker process (child_make, child_main).              *)
(*                                                                         *)
(* The master forks one worker per slot and then only reacts to signals.   *)
(* Its three signals share the handler takesig, installed with an empty    *)
(* mask and no flags (src/sig.c): while it runs for one signal the other   *)
(* two may interrupt it at any point, the same one may not.  A pending     *)
(* signal is a bit, so that several deliveries may be merged.  The frames  *)
(* of interrupted handlers are the sequence "stack"; only its last one     *)
(* runs, and the master's own loop only when it is empty.                  *)
(*                                                                         *)
(* A worker inherits the master's handlers and mask and keeps them until   *)
(* it has set its own ("start"); HUP is blocked during a pass over its     *)
(* directory.  Abstracted: the configuration (a worker's copy is up to     *)
(* date or not), the messages of a pass (how many), dropping privileges,   *)
(* the pid file and the partition upkeep of the main loop.                 *)
(***************************************************************************)
EXTENDS Integers, FiniteSets, Sequences

CONSTANTS
    Slots,             \* number_of_worker_processes, after the clamping
    Pid,               \* the process ids; the system reuses reaped ones
    MaxRequests,       \* max_requests_per_child, 0 for no limit
    PassMax,           \* bound: messages one pass finds
    MaxHups,           \* bound: HUP signals sent to the master
    MaxDeaths,         \* bound: workers that crash
    EarlyDeaths,       \* may a worker crash before the master's handlers are set?
    ForkMayFail,       \* may fork fail?
    ConfigMayVanish    \* may the configuration be unreadable at a reload?

ASSUME ConstantsAssumption ==
    /\ Slots \in Nat \ {0}
    /\ Cardinality(Pid) > Slots
    /\ Pid \cap {-1, 0, 1} = {}
    /\ MaxRequests \in Nat /\ PassMax \in Nat
    /\ MaxHups \in Nat /\ MaxDeaths \in Nat
    /\ {EarlyDeaths, ForkMayFail, ConfigMayVanish} \subseteq BOOLEAN

Slot    == 0 .. Slots - 1
Signals == {"CHLD", "TERM", "HUP"}
NoPid   == 0
Failed  == -1                       \* what fork returned when it failed

VARIABLES
    master,    \* "run", "exited" (p_clean_exit) or "killed" (no handler yet)
    made,      \* slots child_pool_create has filled
    handlers,  \* signals takesig is installed for
    pending,   \* signals sent to the master and not yet taken
    stack,     \* the signals whose handlers are running, innermost last
    chld,      \* the SIGCHLD handler: [step, slot, pid]
    hup,       \* the SIGHUP handler: its step
    term,      \* the SIGTERM handler: its step
    quit,      \* the global of that name
    children,  \* children[i].pid
    proc,      \* proc[p]: the process with that id
    outdated,  \* processes whose configuration is not the master's
    missed,    \* live workers a reload's kill_children did not know of
    hups, deaths

masterVars  == <<master, made, handlers, quit>>
handlerVars == <<chld, hup, term>>
ghostVars   == <<outdated, missed>>
boundVars   == <<hups, deaths>>
vars == <<masterVars, pending, stack, handlerVars, children, proc, ghostVars,
          boundVars>>

(***************************************************************************)
(* A process: st "free" (no such process), "start" (before child_make has  *)
(* set the worker's handlers), "top" (at the top of child_main's loop),    *)
(* "block" (has seen no HUP, not yet in sig_block), "pass" (from sig_block *)
(* to sig_unblock), "check" (at the max_requests test) or "zombie"; caught *)
(* is received_sighup; inherits tells whether the process began with the   *)
(* master's takesig or with the default actions.                           *)
(***************************************************************************)
NoProc == [st |-> "free", slot |-> 0, pending |-> {}, masked |-> FALSE,
           caught |-> FALSE, inherits |-> FALSE, messages |-> 0]

WorkerOfFirst(i, masked, inherits) ==                              \* mutant
    [NoProc EXCEPT !.st = "start", !.slot = 0, !.masked = masked,
                   !.inherits = inherits]

Worker(i, masked, inherits) ==
    [NoProc EXCEPT !.st = "start", !.slot = i, !.masked = masked,
                   !.inherits = inherits]

Process == [st : {"free", "start", "top", "block", "pass", "check", "zombie"},
            slot : Slot, pending : SUBSET {"HUP", "TERM"}, masked : BOOLEAN,
            caught : BOOLEAN, inherits : BOOLEAN,
            messages : 0 .. MaxRequests + PassMax]

Live(p) == proc[p].st \notin {"free", "zombie"}
LiveIn(i) == {p \in Pid : Live(p) /\ proc[p].slot = i}

Init ==
    /\ master = "run"
    /\ made = 0
    /\ handlers = {}
    /\ pending = {}
    /\ stack = <<>>
    /\ chld = [step |-> "wait", slot |-> 0, pid |-> NoPid]
    /\ hup = "reload"
    /\ term = "quit"
    /\ quit = FALSE
    /\ children = [i \in Slot |-> NoPid]
    /\ proc = [p \in Pid |-> NoProc]
    /\ outdated = {}
    /\ missed = {}
    /\ hups = 0
    /\ deaths = 0

-----------------------------------------------------------------------------
(* Processes and signals                                                   *)

(* The process p ends.  Its parent is told by SIGCHLD (ignored as long as  *)
(* no handler is set); init reaps the children of a dead master.           *)
Ended(p, processes) ==
    [processes EXCEPT ![p] = IF master = "run"
                               THEN [NoProc EXCEPT !.st = "zombie",
                                                   !.slot = processes[p].slot]
                               ELSE NoProc]

TellParent ==
    pending' = IF master = "run" /\ "CHLD" \in handlers
                 THEN pending \cup {"CHLD"} ELSE pending

(* kill(): the processes of the set that are there get the signal.         *)
Signalled(s, pids, processes) ==
    [p \in Pid |->
        IF p \in pids /\ processes[p].st \notin {"free", "zombie"}
          THEN [processes[p] EXCEPT !.pending = @ \cup {s}]
          ELSE processes[p]]

(* kill_children: every slot is READY, and a pid is real when it is > 1.   *)
Recorded == {children[i] : i \in Slot} \ {NoPid, Failed}

FreePids == {p \in Pid : proc[p].st = "free"}

(* fork: a new process, or (where ForkMayFail) -1.                         *)
Forked(i, pid) ==
    \/ /\ pid \in FreePids
       /\ proc' = [proc EXCEPT ![pid] = Worker(i, "HUP" \in {stack[k] : k \in
                                             DOMAIN stack}, handlers # {})]
    \/ ForkMayFail /\ pid = Failed /\ UNCHANGED proc

-----------------------------------------------------------------------------
(* The master: child_pool_create, then the three set_signal_handler calls  *)

(* A failed fork ends the master through p_clean_exit.                     *)
CreateWorker ==
    /\ master = "run" /\ stack = <<>> /\ made < Slots
    /\ \E pid \in FreePids \cup {Failed} :
        /\ children' = [children EXCEPT ![made] = pid]
        /\ \/ /\ pid # Failed
              /\ Forked(made, pid)
              /\ made' = made + 1
              /\ UNCHANGED master
           \/ /\ ForkMayFail /\ pid = Failed
              /\ proc' = Signalled("TERM", Recorded, proc)
              /\ master' = "exited"
              /\ UNCHANGED made
    /\ UNCHANGED <<handlers, quit, pending, stack, handlerVars, ghostVars,
                   boundVars>>

InstallHandler ==
    /\ master = "run" /\ stack = <<>> /\ made = Slots
    /\ \E s \in Signals :
        /\ \/ s = "CHLD" /\ handlers = {}
           \/ s = "TERM" /\ handlers = {"CHLD"}
           \/ s = "HUP"  /\ handlers = {"CHLD", "TERM"}
        /\ handlers' = handlers \cup {s}
    /\ UNCHANGED <<master, made, quit, pending, stack, handlerVars, children,
                   proc, ghostVars, boundVars>>

(* An administrator signals the master; without a handler that kills it.   *)
SendMaster(s) ==
    /\ master = "run"
    /\ s = "HUP" => hups < MaxHups
    /\ hups' = IF s = "HUP" THEN hups + 1 ELSE hups
    /\ IF s \in handlers
         THEN pending' = pending \cup {s} /\ UNCHANGED <<master, stack>>
         ELSE master' = "killed" /\ stack' = <<>> /\ pending' = {}
    /\ UNCHANGED <<made, handlers, quit, handlerVars, children, proc, ghostVars,
                   deaths>>

-----------------------------------------------------------------------------
(* The master: takesig                                                     *)

Running(s) == master = "run" /\ stack # <<>> /\ stack[Len(stack)] = s
Return == stack' = SubSeq(stack, 1, Len(stack) - 1)
OnStack(s) == \E k \in DOMAIN stack : stack[k] = s

TakeSignalNested(s) ==                                             \* mutant
    /\ master = "run" /\ s \in pending
    /\ pending' = pending \ {s}
    /\ stack' = Append(stack, s)
    /\ UNCHANGED <<masterVars, handlerVars, children, proc, ghostVars,
                   boundVars>>

(* A pending signal interrupts whatever the master does, its own handler   *)
(* excepted.                                                               *)
TakeSignal(s) ==
    /\ master = "run"
    /\ s \in pending /\ ~OnStack(s)
    /\ pending' = pending \ {s}
    /\ stack' = Append(stack, s)
    /\ UNCHANGED <<masterVars, handlerVars, children, proc, ghostVars,
                   boundVars>>

(* search_slot_by_pid: the first slot, or none.                            *)
SlotsOf(pid) == {i \in Slot : children[i] = pid}
NextSlot(pid) ==                                                   \* mutant
    ((CHOOSE i \in SlotsOf(pid) : TRUE) + 1) % Slots

FirstSlot(pid) == CHOOSE i \in SlotsOf(pid) : \A j \in SlotsOf(pid) : i <= j

ReapOneWhileQuitting ==                                            \* mutant
    /\ Running("CHLD") /\ chld.step = "wait"
    /\ \E p \in Pid :
        /\ proc[p].st = "zombie"
        /\ proc' = [proc EXCEPT ![p] = NoProc]
        /\ outdated' = outdated \ {p}
        /\ missed' = missed \ {p}
        /\ chld' = IF SlotsOf(p) # {}
                     THEN [chld EXCEPT !.step = "fork", !.slot = FirstSlot(p)]
                     ELSE chld
    /\ UNCHANGED <<masterVars, pending, stack, hup, term, children, boundVars>>

(* waitpid(-1, WNOHANG), and the decision to fork.                         *)
ReapOne ==
    /\ Running("CHLD") /\ chld.step = "wait"
    /\ \E p \in Pid :
        /\ proc[p].st = "zombie"
        /\ proc' = [proc EXCEPT ![p] = NoProc]
        /\ outdated' = outdated \ {p}
        /\ missed' = missed \ {p}
        /\ chld' = IF ~quit /\ SlotsOf(p) # {}
                     THEN [chld EXCEPT !.step = "fork", !.slot = FirstSlot(p)]
                     ELSE chld
    /\ UNCHANGED <<masterVars, pending, stack, hup, term, children, boundVars>>

ReapNone ==
    /\ Running("CHLD") /\ chld.step = "wait"
    /\ \A p \in Pid : proc[p].st # "zombie"
    /\ Return
    /\ UNCHANGED <<masterVars, pending, handlerVars, children, proc, ghostVars,
                   boundVars>>

(* child_make: until the next step the new process is in no slot.          *)
Refork ==
    /\ Running("CHLD") /\ chld.step = "fork"
    /\ \E pid \in FreePids \cup {Failed} :
        /\ Forked(chld.slot, pid)
        /\ chld' = [chld EXCEPT !.step = "store", !.pid = pid]
    /\ UNCHANGED <<masterVars, pending, stack, hup, term, children, ghostVars,
                   boundVars>>

StoreAndReturn ==                                                  \* mutant
    /\ Running("CHLD") /\ chld.step = "store"
    /\ children' = [children EXCEPT ![chld.slot] = chld.pid]
    /\ chld' = [step |-> "wait", slot |-> 0, pid |-> NoPid]
    /\ Return
    /\ UNCHANGED <<masterVars, pending, hup, term, proc, ghostVars, boundVars>>

Store ==
    /\ Running("CHLD") /\ chld.step = "store"
    /\ children' = [children EXCEPT ![chld.slot] = chld.pid]
    /\ chld' = [step |-> "wait", slot |-> 0, pid |-> NoPid]
    /\ UNCHANGED <<masterVars, pending, stack, hup, term, proc, ghostVars,
                   boundVars>>

(* initialise_configuration; fatal (p_clean_exit) if it cannot be read.    *)
Reload ==
    /\ Running("HUP") /\ hup = "reload"
    /\ \/ /\ hup' = "kill"
          /\ outdated' = {p \in Pid : Live(p)}
       \/ /\ ConfigMayVanish
          /\ hup' = "clean"
          /\ UNCHANGED outdated
    /\ UNCHANGED <<masterVars, pending, stack, chld, term, children, proc,
                   missed, boundVars>>

KillHup ==
    /\ Running("HUP") /\ hup = "kill"
    /\ proc' = Signalled("HUP", Recorded, proc)
    /\ missed' = missed \cup {p \in Pid : Live(p) /\ p \notin Recorded}
    /\ hup' = "reload"
    /\ Return
    /\ UNCHANGED <<masterVars, pending, chld, term, children, outdated,
                   boundVars>>

(* The first statement of the SIGTERM branch; a SIGCHLD taken before it    *)
(* finds quit unset, and forks.                                            *)
SetQuit ==
    /\ Running("TERM") /\ term = "quit"
    /\ quit' = TRUE
    /\ term' = "clean"
    /\ UNCHANGED <<master, made, handlers, pending, stack, chld, hup, children,
                   proc, ghostVars, boundVars>>

(* p_clean_exit, from the SIGTERM branch or from fatal in the SIGHUP one:  *)
(* kill_children, then exit; a SIGCHLD may come in between.                *)
CleanKill ==
    /\ \/ /\ Running("TERM") /\ term = "clean"
          /\ term' = "exit" /\ UNCHANGED hup
       \/ /\ Running("HUP") /\ hup = "clean"
          /\ hup' = "exit" /\ UNCHANGED term
    /\ proc' = Signalled("TERM", Recorded, proc)
    /\ UNCHANGED <<masterVars, pending, stack, chld, children, ghostVars,
                   boundVars>>

MasterExit ==
    /\ \/ Running("TERM") /\ term = "exit"
       \/ Running("HUP") /\ hup = "exit"
    /\ master' = "exited"
    /\ stack' = <<>>
    /\ pending' = {}
    /\ proc' = [p \in Pid |-> IF proc[p].st = "zombie" THEN NoProc ELSE proc[p]]
    /\ UNCHANGED <<made, handlers, quit, handlerVars, children, ghostVars,
                   boundVars>>

Takesig ==
    \/ \E s \in Signals : TakeSignal(s)
    \/ ReapOne \/ ReapNone \/ Refork \/ Store
    \/ Reload \/ KillHup \/ SetQuit \/ CleanKill \/ MasterExit

-----------------------------------------------------------------------------
(* A worker                                                                *)

(* child_make: the three set_signal_handler calls of the new process.      *)
SetHandlers(p) ==
    /\ proc[p].st = "start"
    /\ proc' = [proc EXCEPT ![p].st = "top"]
    /\ UNCHANGED <<masterVars, pending, stack, handlerVars, children, ghostVars,
                   boundVars>>

(* The top of the loop: no HUP so far.                                     *)
Test(p) ==
    /\ proc[p].st = "top" /\ ~proc[p].caught
    /\ proc' = [proc EXCEPT ![p].st = "block"]
    /\ UNCHANGED <<masterVars, pending, stack, handlerVars, children, ghostVars,
                   boundVars>>

BeginPass(p) ==
    /\ proc[p].st = "block"
    /\ proc' = [proc EXCEPT ![p].st = "pass", ![p].masked = TRUE]
    /\ UNCHANGED <<masterVars, pending, stack, handlerVars, children, ghostVars,
                   boundVars>>

EndPassDropsHup(p) ==                                              \* mutant
    /\ proc[p].st = "pass"
    /\ \E n \in 0..PassMax :
          proc' = [proc EXCEPT ![p].st = "check", ![p].masked = FALSE,
                               ![p].pending = @ \ {"HUP"},
                               ![p].messages = IF MaxRequests = 0 THEN 0
                                                                  ELSE @ + n]
    /\ UNCHANGED <<masterVars, pending, stack, handlerVars, children, ghostVars,
                   boundVars>>

(* process_dir handles every message it finds (none without a database).   *)
EndPass(p) ==
    /\ proc[p].st = "pass"
    /\ \E n \in 0..PassMax :
          proc' = [proc EXCEPT ![p].st = "check", ![p].masked = FALSE,
                               ![p].messages = IF MaxRequests = 0 THEN 0
                                                                  ELSE @ + n]
    /\ UNCHANGED <<masterVars, pending, stack, handlerVars, children, ghostVars,
                   boundVars>>

Enough(p) == MaxRequests > 0 /\ proc[p].messages >= MaxRequests

GoOn(p) ==
    /\ proc[p].st = "check" /\ ~Enough(p)
    /\ proc' = [proc EXCEPT ![p].st = "top"]
    /\ UNCHANGED <<masterVars, pending, stack, handlerVars, children, ghostVars,
                   boundVars>>

ExitWorker(p) ==
    /\ \/ proc[p].st = "top" /\ proc[p].caught
       \/ proc[p].st = "check" /\ Enough(p)
    /\ proc' = Ended(p, proc)
    /\ TellParent
    /\ UNCHANGED <<masterVars, stack, handlerVars, children, ghostVars,
                   boundVars>>

(* A new process still has the master's takesig, and a copy of children[]  *)
(* with some of the siblings.                                              *)
Inherits(p) == proc[p].st = "start" /\ proc[p].inherits
Known(p) == IF Inherits(p) THEN SUBSET (Recorded \ {p}) ELSE {{}}

(* The default action of TERM, or the inherited p_clean_exit.              *)
TakeTerm(p) ==
    /\ Live(p) /\ "TERM" \in proc[p].pending
    /\ \E siblings \in Known(p) :
          proc' = Ended(p, Signalled("TERM", siblings, proc))
    /\ TellParent
    /\ UNCHANGED <<masterVars, stack, handlerVars, children, ghostVars,
                   boundVars>>

(* HUP in a worker: child_sighup_handler.                                  *)
TakeHup(p) ==
    /\ proc[p].st \in {"top", "block", "pass", "check"}
    /\ "HUP" \in proc[p].pending /\ ~proc[p].masked
    /\ proc' = [proc EXCEPT ![p].pending = @ \ {"HUP"}, ![p].caught = TRUE]
    /\ UNCHANGED <<masterVars, pending, stack, handlerVars, children, ghostVars,
                   boundVars>>

(* HUP in a process that has not set its handlers: the default action, or  *)
(* the inherited takesig, which reloads the process's own configuration    *)
(* and sends HUP to the siblings it knows, or ends it through p_clean_exit *)
(* (and fatal) if the configuration cannot be read.                        *)
TakeHupEarly(p) ==
    /\ proc[p].st = "start"
    /\ "HUP" \in proc[p].pending /\ ~proc[p].masked
    /\ \/ /\ Inherits(p)
          /\ \E siblings \in Known(p) :
                proc' = Signalled("HUP", siblings,
                                  [proc EXCEPT ![p].pending = @ \ {"HUP"}])
          /\ outdated' = outdated \ {p}
          /\ UNCHANGED pending
       \/ /\ ~Inherits(p) \/ ConfigMayVanish
          /\ \E siblings \in Known(p) :
                proc' = Ended(p, Signalled("TERM", siblings, proc))
          /\ TellParent
          /\ UNCHANGED outdated
    /\ UNCHANGED <<masterVars, stack, handlerVars, children, missed, boundVars>>

(* A worker crashes, or is killed by hand.                                 *)
Crash(p) ==
    /\ Live(p)
    /\ EarlyDeaths \/ handlers = Signals
    /\ deaths < MaxDeaths
    /\ deaths' = deaths + 1
    /\ proc' = Ended(p, proc)
    /\ TellParent
    /\ UNCHANGED <<masterVars, stack, handlerVars, children, ghostVars, hups>>

WorkerStep(p) ==
    \/ SetHandlers(p) \/ Test(p) \/ BeginPass(p) \/ EndPass(p) \/ GoOn(p)
    \/ ExitWorker(p) \/ TakeTerm(p) \/ TakeHup(p) \/ TakeHupEarly(p)

-----------------------------------------------------------------------------
MasterStep == CreateWorker \/ InstallHandler \/ Takesig

Next ==
    \/ MasterStep
    \/ \E s \in {"HUP", "TERM"} : SendMaster(s)
    \/ \E p \in Pid : WorkerStep(p) \/ Crash(p)

Spec == Init /\ [][Next]_vars

(* The master and the workers are scheduled and a pending signal is taken. *)
Fairness ==
    /\ WF_vars(MasterStep)
    /\ \A p \in Pid : WF_vars(WorkerStep(p))

FairSpec == Spec /\ Fairness

-----------------------------------------------------------------------------
(* Properties                                                              *)

(* Types; a handler is on the stack at most once; children[] is filled in  *)
(* the order child_pool_create fills it.                                   *)
TypeOK ==
    /\ master \in {"run", "exited", "killed"}
    /\ made \in 0..Slots
    /\ handlers \subseteq Signals /\ pending \subseteq Signals
    /\ stack \in Seq(Signals) /\ Len(stack) <= 3
    /\ \A j, k \in DOMAIN stack : stack[j] = stack[k] => j = k
    /\ chld \in [step : {"wait", "fork", "store"}, slot : Slot,
                 pid : Pid \cup {NoPid, Failed}]
    /\ hup \in {"reload", "kill", "clean", "exit"}
    /\ term \in {"quit", "clean", "exit"}
    /\ quit \in BOOLEAN
    /\ children \in [Slot -> Pid \cup {NoPid, Failed}]
    /\ proc \in [Pid -> Process]
    /\ outdated \subseteq Pid /\ missed \subseteq Pid
    /\ hups \in 0..MaxHups /\ deaths \in 0..MaxDeaths

(* A slot never has two workers: the master fills it again only after it   *)
(* has reaped the worker it recorded there, however handlers nest.         *)
OneWorkerPerSlot == \A i \in Slot : Cardinality(LiveIn(i)) <= 1

(* A master told to stop has sent TERM to every worker in its slots before *)
(* it exits, also when workers die, and are reaped, while it cleans up:    *)
(* quit keeps the SIGCHLD handler from filling their slots again.  (Not so *)
(* when fatal ends a reload: it leaves quit at 0.)                         *)
TermReachesWorkers ==
    master = "exited" /\ quit =>
        \A p \in Pid : Live(p) /\ p \in Recorded => "TERM" \in proc[p].pending

(* Nothing is going on: no handler runs or is due, no signal is on its way *)
(* to a worker and none is about to leave.                                 *)
Calm ==
    /\ master = "run" /\ handlers = Signals
    /\ stack = <<>> /\ pending = {}
    /\ \A p \in Pid : Live(p) => proc[p].pending = {} /\ ~proc[p].caught

(* After a reload every worker runs with the new configuration, except one *)
(* the master had forked but not recorded when it sent the HUPs.           *)
ReloadReachesRecorded ==
    Calm => \A p \in Pid : Live(p) /\ p \in outdated => p \in missed

(* "send a HUP signal to let clapf re-read its config" (Changelog).        *)
ReloadReachesAll == Calm => \A p \in Pid : Live(p) => p \notin outdated

(* A slot gets its worker (again), unless the master is told to stop:      *)
(* "number of worker processes" (example.conf).                            *)
SlotsAreServed ==
    \A i \in Slot : LiveIn(i) = {} ~> LiveIn(i) # {} \/ quit \/ master # "run"

(* The pool gives MailFlow what it assumes of its workers.                 *)
SlotState(i) ==
    LET live == LiveIn(i)
    IN  IF live = {} THEN "down"
        ELSE IF Cardinality(live) > 1 THEN "crowded"
        ELSE IF \E p \in live : proc[p].st = "pass" THEN "pass" ELSE "idle"
Served == INSTANCE WorkerSlots WITH worker <- [i \in Slot |-> SlotState(i)]
ServesSlots == Served!Spec
=============================================================================
