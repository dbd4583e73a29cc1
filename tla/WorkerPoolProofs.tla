-------------------------- MODULE WorkerPoolProofs --------------------------
(***************************************************************************)
(* Proofs about WorkerPool, for every number of slots and processes and    *)
(* every bound: however the handlers of the master's signals nest.         *)
(*                                                                         *)
(* The inductive invariant is a conjunction of parts, one per idea:        *)
(*   TypeOK      the types;                                                *)
(*   MessageInv  a worker that goes on has not had enough;                 *)
(*   FrameInv    which handlers are on the stack, and in what order;       *)
(*   SlotInv     where the master has the pid of each live worker;         *)
(*   TermInv     who has been sent TERM once p_clean_exit has been there;  *)
(*   ReloadInv   what keeps an outdated worker from going on as it is.     *)
(***************************************************************************)
EXTENDS WorkerPool, FiniteSetTheorems, SequenceTheorems, WellFoundedInduction,
        TLAPS

(* child_main stops at the limit, so that only a pass in hand exceeds it.  *)
MessageInv ==
    \A p \in Pid :
        /\ MaxRequests = 0 => proc[p].messages = 0
        /\ MaxRequests > 0 /\ proc[p].st \in {"start", "top", "block", "pass"}
             => proc[p].messages < MaxRequests

Above(s, t) == \E j, k \in DOMAIN stack : j < k /\ stack[j] = t /\ stack[k] = s

FrameInv ==
    /\ handlers # {} => made = Slots
    /\ pending # {} \/ stack # <<>> \/ chld.step # "wait" => handlers # {}
    /\ master = "run" =>
        /\ chld.step # "wait" => OnStack("CHLD")
        /\ hup # "reload" => OnStack("HUP")
        /\ term # "quit" => OnStack("TERM")
        /\ quit <=> term # "quit"
        /\ quit /\ Above("CHLD", "TERM") => chld.step = "wait"

(* Between fork and the store of what it returned a worker is in no slot,  *)
(* and its pid is in the frame of the SIGCHLD handler.                     *)
SlotInv ==
    /\ \A i \in Slot : i >= made => children[i] \notin Pid
    /\ \A p \in Pid : Live(p) =>
          \/ children[proc[p].slot] = p
          \/ chld.step = "store" /\ chld.pid = p /\ chld.slot = proc[p].slot
    /\ \A p \in Pid : Live(p) /\ proc[p].slot = chld.slot =>
          /\ chld.step # "fork"
          /\ chld.step = "store" => p = chld.pid

AllTold == \A p \in Pid : Live(p) /\ p \in Recorded => "TERM" \in proc[p].pending

TermInv ==
    /\ master = "run" /\ term = "exit" => AllTold
    /\ master = "run" /\ hup = "exit" /\ quit /\ Above("HUP", "TERM") => AllTold
    /\ TermReachesWorkers

ReloadInv ==
    master = "run" =>
        \A p \in outdated :
            /\ proc[p].st # "free"
            /\ Live(p) /\ p \notin missed =>
                 hup = "kill" \/ "HUP" \in proc[p].pending \/ proc[p].caught

IInv == TypeOK /\ MessageInv /\ FrameInv /\ SlotInv /\ TermInv /\ ReloadInv

-----------------------------------------------------------------------------
(* A non-empty set of numbers has a least one: what search_slot_by_pid     *)
(* returns exists.                                                         *)
LEMMA LeastExists ==
    ASSUME NEW T, T \subseteq Nat, T # {}
    PROVE  \E x \in T : \A y \in T : x <= y
<1> DEFINE R == OpToRel(<, Nat)
<1>1. IsWellFoundedOn(R, Nat)
    BY NatLessThanWellFounded
<1>2. \A y \in Nat, x \in Nat : y < x => <<y, x>> \in R
    BY DEF OpToRel
<1>3. \A y \in Nat, x \in Nat : ~(y < x) => x <= y
    OBVIOUS
<1> HIDE DEF R
<1>4. \E x \in T : \A y \in T : ~ (<<y, x>> \in R)
    BY <1>1, WFMin
<1>. QED
    BY <1>2, <1>3, <1>4

(* search_slot_by_pid finds a slot that has the pid, if there is one.      *)
LEMMA FirstSlotIsOne ==
    ASSUME NEW p, SlotsOf(p) # {}
    PROVE  FirstSlot(p) \in Slot /\ children[FirstSlot(p)] = p
<1>1. SlotsOf(p) \subseteq Nat
    BY ConstantsAssumption DEF SlotsOf, Slot
<1>2. \E i \in SlotsOf(p) : \A j \in SlotsOf(p) : i <= j
    BY <1>1, LeastExists
<1>3. FirstSlot(p) \in SlotsOf(p)
    BY <1>2 DEF FirstSlot
<1>. QED
    BY <1>3 DEF SlotsOf

-----------------------------------------------------------------------------
(* The stack of handlers: takesig is entered for a signal that has no      *)
(* handler running, so that at most the three signals are on it.           *)
StackOK ==
    /\ stack \in Seq(Signals) /\ Len(stack) <= 3
    /\ \A j, k \in DOMAIN stack : stack[j] = stack[k] => j = k

(* A signal interrupts: its handler is now the innermost.                  *)
LEMMA Push ==
    ASSUME StackOK, NEW s \in Signals, ~OnStack(s), stack' = Append(stack, s)
    PROVE  /\ StackOK'
           /\ stack' # <<>>
           /\ \A t : OnStack(t)' <=> OnStack(t) \/ t = s
           /\ \A t, u : Above(t, u)' <=> Above(t, u) \/ (t = s /\ OnStack(u))
<1>1. /\ stack \in Seq(Signals) /\ Len(stack) \in Nat /\ Len(stack) <= 3
      /\ DOMAIN stack = 1 .. Len(stack)
      /\ \A k \in 1 .. Len(stack) : stack[k] \in Signals
    BY DEF StackOK
<1>2. /\ stack' \in Seq(Signals) /\ Len(stack') = Len(stack) + 1
      /\ DOMAIN stack' = 1 .. Len(stack) + 1
      /\ stack'[Len(stack) + 1] = s
      /\ \A k \in 1 .. Len(stack) : stack'[k] = stack[k]
    BY <1>1
<1>3. \A k \in 1 .. Len(stack) : stack[k] # s
    BY <1>1 DEF OnStack
<1>4. Len(stack) < 3
    <2> SUFFICES ASSUME Len(stack) = 3 PROVE FALSE
        BY <1>1
    <2>1. /\ stack[1] \in Signals /\ stack[2] \in Signals /\ stack[3] \in Signals
          /\ stack[1] # s /\ stack[2] # s /\ stack[3] # s
        BY <1>1, <1>3
    <2>2. stack[1] # stack[2] /\ stack[2] # stack[3] /\ stack[1] # stack[3]
        BY <1>1 DEF StackOK
    <2>. QED
        BY <2>1, <2>2 DEF Signals
<1>5. StackOK'
    BY <1>1, <1>2, <1>3, <1>4 DEF StackOK
<1>6. stack' # <<>>
    BY <1>1, <1>2
<1>7. \A t : OnStack(t)' <=> OnStack(t) \/ t = s
    BY <1>1, <1>2 DEF OnStack
<1>8. ASSUME NEW t, NEW u
      PROVE  Above(t, u)' <=> Above(t, u) \/ (t = s /\ OnStack(u))
    <2>1. Above(t, u) \/ (t = s /\ OnStack(u)) => Above(t, u)'
        BY <1>1, <1>2 DEF Above, OnStack
    <2>2. ASSUME NEW j \in DOMAIN stack', NEW k \in DOMAIN stack', j < k,
                 stack'[j] = u, stack'[k] = t
          PROVE  Above(t, u) \/ (t = s /\ OnStack(u))
        <3>1. j \in 1 .. Len(stack) /\ stack[j] = u
            BY <1>1, <1>2, <2>2
        <3>2. CASE k = Len(stack) + 1
            BY <1>1, <1>2, <2>2, <3>1, <3>2 DEF OnStack
        <3>3. CASE k # Len(stack) + 1
            BY <1>1, <1>2, <2>2, <3>1, <3>3 DEF Above
        <3>. QED
            BY <3>2, <3>3
    <2>. QED
        BY <2>1, <2>2 DEF Above
<1>. QED
    BY <1>5, <1>6, <1>7, <1>8

(* A handler returns to the one it has interrupted, or to the main loop.   *)
LEMMA Pop ==
    ASSUME StackOK, NEW s, Running(s), Return
    PROVE  /\ StackOK'
           /\ \A t : OnStack(t)' <=> OnStack(t) /\ t # s
           /\ \A t, u : Above(t, u)' => Above(t, u)
<1>1. /\ stack \in Seq(Signals) /\ Len(stack) \in Nat /\ Len(stack) <= 3
      /\ DOMAIN stack = 1 .. Len(stack) /\ Len(stack) > 0
      /\ \A k \in 1 .. Len(stack) : stack[k] \in Signals
      /\ stack[Len(stack)] = s
    BY EmptySeq DEF StackOK, Running
<1>2. /\ stack' \in Seq(Signals) /\ Len(stack') = Len(stack) - 1
      /\ DOMAIN stack' = 1 .. Len(stack) - 1
      /\ \A k \in 1 .. Len(stack) - 1 : stack'[k] = stack[k]
    BY <1>1, SubSeqProperties DEF Return
<1>3. \A k \in 1 .. Len(stack) - 1 : stack[k] # s
    BY <1>1 DEF StackOK
<1>4. StackOK'
    BY <1>1, <1>2 DEF StackOK
<1>5. \A t : OnStack(t)' <=> OnStack(t) /\ t # s
    BY <1>1, <1>2, <1>3, SMTT(30) DEF OnStack
<1>6. \A t, u : Above(t, u)' => Above(t, u)
    BY <1>1, <1>2 DEF Above
<1>. QED
    BY <1>4, <1>5, <1>6

(* The running handler has interrupted the others.                         *)
LEMMA RunningIsAbove ==
    ASSUME StackOK, NEW s, NEW t, Running(s), OnStack(t), t # s
    PROVE  OnStack(s) /\ Above(s, t)
<1>1. /\ stack \in Seq(Signals) /\ Len(stack) \in Nat /\ Len(stack) > 0
      /\ DOMAIN stack = 1 .. Len(stack)
      /\ stack[Len(stack)] = s
    BY EmptySeq DEF StackOK, Running
<1>. QED
    BY <1>1 DEF OnStack, Above

(* The running handler is on the stack, and none above it.                 *)
LEMMA RunningIsOn ==
    ASSUME StackOK, NEW s, Running(s)
    PROVE  OnStack(s) /\ stack # <<>> /\ master = "run" /\ \A t : ~Above(t, s)
<1>1. /\ stack \in Seq(Signals) /\ Len(stack) \in Nat /\ Len(stack) > 0
      /\ DOMAIN stack = 1 .. Len(stack)
      /\ stack[Len(stack)] = s
    BY EmptySeq DEF StackOK, Running
<1>2. \A j \in DOMAIN stack : stack[j] = s => j = Len(stack)
    BY <1>1 DEF StackOK
<1>3. \A t : ~Above(t, s)
    BY <1>1, <1>2 DEF Above
<1>. QED
    BY <1>1, <1>3 DEF OnStack, Running

-----------------------------------------------------------------------------
(* Processes: what fork, kill() and the end of a process make of them.     *)
Processes == [Pid -> Process]

(* A new process, and no process, are processes.                           *)
LEMMA NewProcess ==
    /\ NoProc \in Process
    /\ \A i \in Slot, masked, inherits \in BOOLEAN :
          /\ Worker(i, masked, inherits) \in Process
          /\ Worker(i, masked, inherits).st = "start"
          /\ Worker(i, masked, inherits).slot = i
          /\ Worker(i, masked, inherits).messages = 0
<1>1. 0 \in Slot /\ 0 \in 0 .. MaxRequests + PassMax
    BY ConstantsAssumption DEF Slot
<1>. QED
    BY <1>1, ZenonT(60) DEF NoProc, Worker, Process

(* The process that ends becomes a zombie, or is gone; the others stay.    *)
LEMMA EndedProcess ==
    ASSUME NEW f \in Processes, NEW p \in Pid
    PROVE  /\ Ended(p, f) \in Processes
           /\ \A q \in Pid \ {p} : Ended(p, f)[q] = f[q]
           /\ Ended(p, f)[p].st \in {"free", "zombie"}
           /\ Ended(p, f)[p].messages = 0
           /\ master = "run" => Ended(p, f)[p].st = "zombie"
<1> DEFINE z == IF master = "run" THEN [NoProc EXCEPT !.st = "zombie", !.slot = f[p].slot]
                                  ELSE NoProc
<1>1. f[p].slot \in Slot
    BY DEF Processes, Process
<1>2. z \in Process /\ z.st \in {"free", "zombie"} /\ z.messages = 0
      /\ (master = "run" => z.st = "zombie")
    BY <1>1, NewProcess, ZenonT(60) DEF NoProc, Process
<1>3. Ended(p, f) = [f EXCEPT ![p] = z]
    BY DEF Ended
<1> HIDE DEF z
<1>. QED
    BY <1>2, <1>3 DEF Processes

(* kill() adds the signal to those that are pending, and nothing else.     *)
LEMMA SignalledProcess ==
    ASSUME NEW f \in Processes, NEW s \in {"HUP", "TERM"}, NEW S
    PROVE  /\ Signalled(s, S, f) \in Processes
           /\ \A q \in Pid :
                 /\ Signalled(s, S, f)[q].st = f[q].st
                 /\ Signalled(s, S, f)[q].slot = f[q].slot
                 /\ Signalled(s, S, f)[q].caught = f[q].caught
                 /\ Signalled(s, S, f)[q].messages = f[q].messages
                 /\ f[q].pending \subseteq Signalled(s, S, f)[q].pending
                 /\ q \in S /\ f[q].st \notin {"free", "zombie"}
                      => s \in Signalled(s, S, f)[q].pending
<1>1. ASSUME NEW q \in Pid
      PROVE  /\ Signalled(s, S, f)[q] \in Process
             /\ Signalled(s, S, f)[q].st = f[q].st
             /\ Signalled(s, S, f)[q].slot = f[q].slot
             /\ Signalled(s, S, f)[q].caught = f[q].caught
             /\ Signalled(s, S, f)[q].messages = f[q].messages
             /\ f[q].pending \subseteq Signalled(s, S, f)[q].pending
             /\ q \in S /\ f[q].st \notin {"free", "zombie"}
                  => s \in Signalled(s, S, f)[q].pending
    <2>1. f[q] \in Process
        BY DEF Processes
    <2>2. CASE q \in S /\ f[q].st \notin {"free", "zombie"}
        <3>1. Signalled(s, S, f)[q] = [f[q] EXCEPT !.pending = @ \cup {s}]
            BY <2>2 DEF Signalled
        <3>. QED
            BY <2>1, <2>2, <3>1 DEF Process
    <2>3. CASE ~(q \in S /\ f[q].st \notin {"free", "zombie"})
        <3>1. Signalled(s, S, f)[q] = f[q]
            BY <2>3 DEF Signalled
        <3>. QED
            BY <2>1, <2>3, <3>1
    <2>. QED
        BY <2>2, <2>3
<1>2. Signalled(s, S, f) \in Processes
    BY <1>1 DEF Signalled, Processes
<1>. QED
    BY <1>1, <1>2

(* fork makes a worker of a free process, or (returning -1) nothing.       *)
LEMMA ForkedProcess ==
    ASSUME TypeOK, NEW i \in Slot, NEW pid \in FreePids \cup {Failed},
           Forked(i, pid)
    PROVE  /\ proc' \in Processes
           /\ pid = Failed => pid \notin Pid /\ UNCHANGED proc
           /\ pid # Failed => /\ pid \in Pid /\ proc[pid].st = "free"
                              /\ proc'[pid].st = "start" /\ proc'[pid].slot = i
                              /\ proc'[pid].messages = 0
                              /\ \A q \in Pid \ {pid} : proc'[q] = proc[q]
<1> DEFINE masked == "HUP" \in {stack[k] : k \in DOMAIN stack}
           inherits == handlers # {}
           w == Worker(i, masked, inherits)
<1>1. Failed \notin Pid /\ proc \in Processes
    BY ConstantsAssumption DEF Failed, TypeOK, Processes
<1>2. w \in Process /\ w.st = "start" /\ w.slot = i /\ w.messages = 0
    <2>1. masked \in BOOLEAN /\ inherits \in BOOLEAN
        OBVIOUS
    <2> HIDE DEF masked, inherits
    <2>. QED
        BY <2>1, NewProcess
<1>3. CASE pid = Failed
    BY <1>1, <1>3 DEF Forked, FreePids
<1>4. CASE pid # Failed
    <2>1. pid \in Pid /\ proc[pid].st = "free" /\ proc' = [proc EXCEPT ![pid] = w]
        BY <1>4 DEF Forked, FreePids
    <2> HIDE DEF w
    <2>. QED
        BY <1>1, <1>2, <1>4, <2>1 DEF Processes
<1>. QED
    BY <1>3, <1>4

(* One process goes on in its loop.                                        *)
Loops(p) == SetHandlers(p) \/ Test(p) \/ BeginPass(p) \/ EndPass(p) \/ GoOn(p)

LoopVars == <<masterVars, pending, stack, handlerVars, children, ghostVars, boundVars>>

(* A worker in its loop stays the process it is and keeps its signals.     *)
LEMMA LoopProcess ==
    ASSUME TypeOK, MessageInv, NEW p \in Pid, Loops(p) \/ TakeHup(p)
    PROVE  /\ UNCHANGED LoopVars
           /\ proc' \in Processes /\ MessageInv'
           /\ \A q \in Pid \ {p} : proc'[q] = proc[q]
           /\ Live(p) /\ proc'[p].st \notin {"free", "zombie"}
           /\ proc'[p].slot = proc[p].slot
           /\ "TERM" \in proc[p].pending => "TERM" \in proc'[p].pending
           /\ "HUP" \in proc[p].pending \/ proc[p].caught
                => "HUP" \in proc'[p].pending \/ proc'[p].caught
<1> USE DEF LoopVars, Live
<1>1. proc \in [Pid -> Process] /\ proc[p] \in Process
      /\ MaxRequests \in Nat /\ PassMax \in Nat
    BY ConstantsAssumption DEF TypeOK
<1>2. CASE \/ SetHandlers(p) \/ Test(p) \/ BeginPass(p) \/ TakeHup(p)
    <2>1. /\ UNCHANGED LoopVars
          /\ proc' \in [Pid -> Process]
          /\ \A q \in Pid \ {p} : proc'[q] = proc[q]
          /\ proc'[p].st \in {"start", "top", "block", "pass", "check"}
          /\ proc[p].st \in {"start", "top", "block", "pass", "check"}
          /\ proc[p].st = "check" => proc'[p].st = "check"
          /\ proc'[p].slot = proc[p].slot /\ proc'[p].messages = proc[p].messages
          /\ "TERM" \in proc[p].pending => "TERM" \in proc'[p].pending
          /\ "HUP" \in proc[p].pending \/ proc[p].caught
                => "HUP" \in proc'[p].pending \/ proc'[p].caught
        <3>1. CASE SetHandlers(p) \/ Test(p)
            BY <1>1, <3>1 DEF SetHandlers, Test, Process
        <3>2. CASE BeginPass(p)
            BY <1>1, <3>2, ZenonT(60) DEF BeginPass, Process
        <3>3. CASE TakeHup(p)
            BY <1>1, <3>3, ZenonT(60) DEF TakeHup, Process
        <3>. QED
            BY <1>2, <3>1, <3>2, <3>3
    <2>2. MessageInv'
        BY <1>1, <2>1 DEF MessageInv
    <2>. QED
        BY <2>1, <2>2 DEF Processes
<1>3. CASE EndPass(p)
    <2>1. PICK n \in 0 .. PassMax :
              proc' = [proc EXCEPT ![p].st = "check", ![p].masked = FALSE,
                                   ![p].messages = IF MaxRequests = 0 THEN 0
                                                                      ELSE @ + n]
        BY <1>3 DEF EndPass
    <2> DEFINE total == IF MaxRequests = 0 THEN 0 ELSE proc[p].messages + n
    <2>2. proc[p].st = "pass" /\ UNCHANGED LoopVars
        BY <1>3 DEF EndPass
    <2>3. total \in 0 .. MaxRequests + PassMax /\ (MaxRequests = 0 => total = 0)
        <3>1. CASE MaxRequests = 0
            BY <1>1, <3>1
        <3>2. CASE MaxRequests > 0
            <4>1. proc[p].messages < MaxRequests
                BY <2>2, <3>2 DEF MessageInv
            <4>2. proc[p].messages \in Nat
                BY <1>1 DEF Process
            <4>. QED
                BY <1>1, <3>2, <4>1, <4>2
        <3>. QED
            BY <1>1, <3>1, <3>2
    <2>4. proc' = [proc EXCEPT ![p] = [proc[p] EXCEPT !.st = "check", !.masked = FALSE,
                                                      !.messages = total]]
        BY <1>1, <2>1
    <2> HIDE DEF total
    <2>5. [proc[p] EXCEPT !.st = "check", !.masked = FALSE, !.messages = total] \in Process
        BY <1>1, <2>3 DEF Process
    <2>6. /\ proc' \in [Pid -> Process]
          /\ \A q \in Pid \ {p} : proc'[q] = proc[q]
          /\ proc'[p].st = "check" /\ proc'[p].messages = total
          /\ proc'[p].slot = proc[p].slot
          /\ proc'[p].pending = proc[p].pending /\ proc'[p].caught = proc[p].caught
        BY <1>1, <2>4, <2>5 DEF Process
    <2>7. MessageInv'
        BY <1>1, <2>3, <2>6 DEF MessageInv
    <2>. QED
        BY <2>2, <2>6, <2>7 DEF Processes
<1>4. CASE GoOn(p)
    <2>1. /\ UNCHANGED LoopVars
          /\ proc[p].st = "check" /\ ~Enough(p)
          /\ proc' = [proc EXCEPT ![p].st = "top"]
        BY <1>4 DEF GoOn
    <2>2. /\ proc' \in [Pid -> Process]
          /\ \A q \in Pid \ {p} : proc'[q] = proc[q]
          /\ proc'[p].st = "top" /\ proc'[p].messages = proc[p].messages
          /\ proc'[p].slot = proc[p].slot
          /\ proc'[p].pending = proc[p].pending /\ proc'[p].caught = proc[p].caught
        BY <1>1, <2>1 DEF Process
    <2>3. MaxRequests > 0 => proc[p].messages < MaxRequests
        <3>1. proc[p].messages \in Nat
            BY <1>1 DEF Process
        <3>. QED
            BY <1>1, <2>1, <3>1 DEF Enough
    <2>4. MessageInv'
        BY <1>1, <2>2, <2>3 DEF MessageInv
    <2>. QED
        BY <2>1, <2>2, <2>4 DEF Processes
<1>. QED
    BY <1>2, <1>3, <1>4 DEF Loops

(* What no step of a worker does to a process q: bring it to life, move it *)
(* to another slot, or make it forget a signal it has been sent.           *)
GoesOn(q) ==
    /\ proc'[q].st \notin {"free", "zombie"} =>
          /\ Live(q) /\ proc'[q].slot = proc[q].slot
          /\ "TERM" \in proc[q].pending => "TERM" \in proc'[q].pending
          /\ q \in outdated' /\ ("HUP" \in proc[q].pending \/ proc[q].caught)
                => "HUP" \in proc'[q].pending \/ proc'[q].caught
    /\ master = "run" /\ proc'[q].st = "free" => proc[q].st = "free"

MasterUnchanged == UNCHANGED <<masterVars, stack, handlerVars, children, missed>>

(* A step of a worker: of child_main, of its handlers, or its end.         *)
LEMMA WorkerEffect ==
    ASSUME TypeOK, MessageInv, NEW p \in Pid, WorkerStep(p) \/ Crash(p)
    PROVE  /\ MasterUnchanged
           /\ proc' \in Processes /\ MessageInv'
           /\ outdated' \subseteq outdated
           /\ hups' = hups /\ deaths' \in 0 .. MaxDeaths
           /\ \/ pending' = pending
              \/ "CHLD" \in handlers /\ pending' = pending \cup {"CHLD"}
           /\ \A q \in Pid : GoesOn(q)
<1> USE DEF MasterUnchanged
<1>1. /\ proc \in Processes /\ proc[p] \in Process
      /\ deaths \in 0 .. MaxDeaths /\ MaxDeaths \in Nat
      /\ \A q \in Pid : /\ MaxRequests = 0 => proc[q].messages = 0
                        /\ MaxRequests > 0
                             /\ proc[q].st \in {"start", "top", "block", "pass"}
                             => proc[q].messages < MaxRequests
      /\ MaxRequests \in Nat
    BY ConstantsAssumption DEF TypeOK, Processes, MessageInv
<1>2. CASE Loops(p) \/ TakeHup(p)
    <2>1. UNCHANGED LoopVars
        BY <1>2, LoopProcess
    <2>2. /\ MasterUnchanged /\ outdated' = outdated /\ pending' = pending
          /\ hups' = hups /\ deaths' = deaths
        BY <2>1 DEF LoopVars, ghostVars, boundVars
    <2>3. \A q \in Pid : GoesOn(q)
        BY <1>2, LoopProcess DEF GoesOn, Live
    <2>. QED
        BY <1>1, <1>2, <2>2, <2>3, LoopProcess
<1>3. ASSUME NEW f \in Processes,
             \A q \in Pid : /\ f[q].st = proc[q].st /\ f[q].slot = proc[q].slot
                            /\ f[q].caught = proc[q].caught
                            /\ f[q].messages = proc[q].messages
                            /\ proc[q].pending \subseteq f[q].pending,
             proc' = Ended(p, f), TellParent
      PROVE  /\ proc' \in Processes /\ MessageInv'
             /\ \/ pending' = pending
                \/ "CHLD" \in handlers /\ pending' = pending \cup {"CHLD"}
             /\ outdated' = outdated => \A q \in Pid : GoesOn(q)
    <2>1. /\ proc' \in Processes
          /\ \A q \in Pid \ {p} : proc'[q] = f[q]
          /\ proc'[p].st \in {"free", "zombie"} /\ proc'[p].messages = 0
          /\ master = "run" => proc'[p].st = "zombie"
        BY <1>3, EndedProcess
    <2>2. MessageInv'
        BY <1>1, <1>3, <2>1, SMTT(30) DEF MessageInv
    <2>3. outdated' = outdated => \A q \in Pid : GoesOn(q)
        <3> SUFFICES ASSUME outdated' = outdated, NEW q \in Pid PROVE GoesOn(q)
            OBVIOUS
        <3>1. CASE q = p
            BY <2>1, <3>1 DEF GoesOn
        <3>2. CASE q # p
            BY <1>3, <2>1, <3>2 DEF GoesOn, Live
        <3>. QED
            BY <3>1, <3>2
    <2>. QED
        BY <1>3, <2>1, <2>2, <2>3 DEF TellParent
<1>t. ASSUME NEW S, proc' = Ended(p, Signalled("TERM", S, proc)), TellParent
      PROVE  /\ proc' \in Processes /\ MessageInv'
             /\ \/ pending' = pending
                \/ "CHLD" \in handlers /\ pending' = pending \cup {"CHLD"}
             /\ outdated' = outdated => \A q \in Pid : GoesOn(q)
    <2>1. PICK f : f = Signalled("TERM", S, proc)
        OBVIOUS
    <2>2. /\ f \in Processes
          /\ \A q \in Pid : /\ f[q].st = proc[q].st /\ f[q].slot = proc[q].slot
                            /\ f[q].caught = proc[q].caught
                            /\ f[q].messages = proc[q].messages
                            /\ proc[q].pending \subseteq f[q].pending
        BY <1>1, <2>1, SignalledProcess
    <2>. QED
        BY <1>3, <1>t, <2>1, <2>2
<1>4. CASE ExitWorker(p) \/ TakeTerm(p)
    <2>1. /\ TellParent /\ MasterUnchanged /\ outdated' = outdated
          /\ hups' = hups /\ deaths' = deaths
          /\ \/ proc' = Ended(p, proc)
             \/ \E S : proc' = Ended(p, Signalled("TERM", S, proc))
        BY <1>4 DEF ExitWorker, TakeTerm, ghostVars, boundVars
    <2>2. CASE proc' = Ended(p, proc)
        BY <1>1, <1>3, <2>1, <2>2
    <2>3. CASE \E S : proc' = Ended(p, Signalled("TERM", S, proc))
        BY <1>1, <1>t, <2>1, <2>3
    <2>. QED
        BY <2>1, <2>2, <2>3
<1>5. CASE Crash(p)
    <2>1. /\ proc' = Ended(p, proc) /\ TellParent
          /\ MasterUnchanged /\ outdated' = outdated
          /\ hups' = hups /\ deaths < MaxDeaths /\ deaths' = deaths + 1
        BY <1>5 DEF Crash, ghostVars
    <2>2. deaths' \in 0 .. MaxDeaths
        BY <1>1, <2>1
    <2>. QED
        BY <1>1, <1>3, <2>1, <2>2
<1>6. CASE TakeHupEarly(p)
    <2>1. MasterUnchanged /\ hups' = hups /\ deaths' = deaths
        BY <1>6 DEF TakeHupEarly, boundVars
    <2>2. CASE /\ \E S : proc' = Ended(p, Signalled("TERM", S, proc))
               /\ TellParent /\ UNCHANGED outdated
        BY <1>1, <1>t, <2>1, <2>2
    <2>3. CASE /\ \E S :
                     proc' = Signalled("HUP", S,
                                       [proc EXCEPT ![p].pending = @ \ {"HUP"}])
               /\ outdated' = outdated \ {p} /\ UNCHANGED pending
        <3> DEFINE f == [proc EXCEPT ![p].pending = @ \ {"HUP"}]
        <3>1. PICK S : proc' = Signalled("HUP", S, f)
            BY <2>3
        <3>2. /\ f \in Processes
              /\ \A q \in Pid \ {p} : f[q] = proc[q]
              /\ f[p].st = proc[p].st /\ f[p].slot = proc[p].slot
              /\ f[p].messages = proc[p].messages
              /\ "TERM" \in proc[p].pending => "TERM" \in f[p].pending
            BY <1>1 DEF Processes, Process
        <3> HIDE DEF f
        <3>3. /\ proc' \in Processes
              /\ \A q \in Pid :
                 /\ proc'[q].st = f[q].st /\ proc'[q].slot = f[q].slot
                 /\ proc'[q].caught = f[q].caught
                 /\ proc'[q].messages = f[q].messages
                 /\ f[q].pending \subseteq proc'[q].pending
            BY <3>1, <3>2, SignalledProcess
        <3>4. MessageInv'
            BY <1>1, <3>2, <3>3, SMTT(30) DEF MessageInv
        <3>5. \A q \in Pid : GoesOn(q)
            BY <2>3, <3>2, <3>3, ZenonT(60) DEF GoesOn, Live
        <3>. QED
            BY <1>1, <2>1, <2>3, <3>3, <3>4, <3>5
    <2>. QED
        BY <1>6, <2>2, <2>3 DEF TakeHupEarly
<1>. QED
    BY <1>2, <1>4, <1>5, <1>6 DEF WorkerStep, Loops

-----------------------------------------------------------------------------
(* The types are an invariant, and a worker that goes on has not had       *)
(* enough messages.                                                        *)
RestOK ==
    /\ master \in {"run", "exited", "killed"}
    /\ made \in 0..Slots
    /\ handlers \subseteq Signals /\ pending \subseteq Signals
    /\ chld \in [step : {"wait", "fork", "store"}, slot : Slot,
                 pid : Pid \cup {NoPid, Failed}]
    /\ hup \in {"reload", "kill", "clean", "exit"}
    /\ term \in {"quit", "clean", "exit"}
    /\ quit \in BOOLEAN
    /\ children \in [Slot -> Pid \cup {NoPid, Failed}]
    /\ outdated \subseteq Pid /\ missed \subseteq Pid
    /\ hups \in 0..MaxHups /\ deaths \in 0..MaxDeaths

(* The types of the stack, of the processes and of the rest.               *)
LEMMA TypeParts == TypeOK <=> StackOK /\ proc \in Processes /\ RestOK
BY DEF TypeOK, StackOK, Processes, RestOK

(* A master that has ended has no frames.                                  *)
LEMMA EmptyStack ==
    ASSUME stack' = <<>>
    PROVE  StackOK' /\ \A t : ~OnStack(t)'
BY EmptySeq DEF StackOK, OnStack

(* Nothing runs when the master starts.                                    *)
LEMMA TypeInit == Init => TypeOK /\ MessageInv
<1> SUFFICES ASSUME Init PROVE TypeOK /\ MessageInv
    OBVIOUS
<1>1. 0 \in Slot /\ Slots \in Nat /\ MaxHups \in Nat /\ MaxDeaths \in Nat
    BY ConstantsAssumption DEF Slot
<1>2. stack \in Seq(Signals) /\ Len(stack) = 0 /\ DOMAIN stack = {}
    BY EmptySeq DEF Init
<1>3. StackOK
    BY <1>2 DEF StackOK
<1>4. proc = [p \in Pid |-> NoProc] /\ NoProc \in Process
    BY NewProcess DEF Init
<1>5. RestOK
    BY <1>1 DEF Init, RestOK, Signals, NoPid
<1>6. MessageInv
    BY <1>4, ConstantsAssumption DEF MessageInv, NoProc
<1>. QED
    BY <1>3, <1>4, <1>5, <1>6, TypeParts DEF Processes

(* Types are preserved by each action of the master and the workers.       *)
LEMMA TypeStep ==
    ASSUME TypeOK, MessageInv, FrameInv, [Next]_vars
    PROVE  TypeOK' /\ MessageInv'
<1> USE DEF masterVars, handlerVars, ghostVars, boundVars
<1>1. StackOK /\ proc \in Processes /\ RestOK
    BY TypeParts
<1>2. /\ Slots \in Nat /\ MaxHups \in Nat /\ MaxDeaths \in Nat
      /\ Failed \notin Pid /\ NoPid \notin Pid /\ 0 \in Slot
    BY ConstantsAssumption DEF Failed, NoPid, Slot
<1>3. ASSUME StackOK', proc' \in Processes, RestOK', MessageInv'
      PROVE  TypeOK' /\ MessageInv'
    BY <1>3 DEF TypeOK, StackOK, Processes, RestOK
<1>4. stack' = stack => StackOK'
    BY <1>1 DEF StackOK
<1>5. proc' = proc => proc' \in Processes /\ MessageInv'
    BY <1>1 DEF MessageInv
<1>6. ASSUME proc' \in Processes, \A q \in Pid : /\ proc'[q].st = proc[q].st
                                                 /\ proc'[q].messages = proc[q].messages
      PROVE  MessageInv'
    BY <1>6 DEF MessageInv
<1>7. ASSUME \A q \in Pid : \/ proc'[q].st = proc[q].st
                               /\ proc'[q].messages = proc[q].messages
                            \/ proc'[q].messages = 0
      PROVE  MessageInv'
    BY <1>7, ConstantsAssumption DEF MessageInv
<1>8. CASE CreateWorker
    <2>1. PICK pid \in FreePids \cup {Failed} :
              /\ children' = [children EXCEPT ![made] = pid]
              /\ \/ pid # Failed /\ Forked(made, pid) /\ made' = made + 1
                    /\ UNCHANGED master
                 \/ ForkMayFail /\ pid = Failed
                    /\ proc' = Signalled("TERM", Recorded, proc)
                    /\ master' = "exited" /\ UNCHANGED made
        BY <1>8 DEF CreateWorker
    <2>2. made \in Slot /\ made < Slots /\ made \in Nat
        BY <1>1, <1>2, <1>8 DEF CreateWorker, RestOK, Slot
    <2>3. proc' \in Processes /\ MessageInv'
        <3>1. CASE Forked(made, pid)
            BY <1>5, <1>7, <2>1, <2>2, <3>1, ForkedProcess
        <3>2. CASE proc' = Signalled("TERM", Recorded, proc)
            BY <1>1, <1>6, <3>2, SignalledProcess
        <3>. QED
            BY <2>1, <3>1, <3>2
    <2>4. RestOK'
        BY <1>1, <1>2, <1>8, <2>1, <2>2 DEF CreateWorker, RestOK, FreePids
    <2>. QED
        BY <1>3, <1>4, <1>8, <2>3, <2>4 DEF CreateWorker
<1>9. CASE InstallHandler
    BY <1>1, <1>3, <1>4, <1>5, <1>9 DEF InstallHandler, RestOK
<1>10. CASE \E s \in {"HUP", "TERM"} : SendMaster(s)
    <2> PICK s \in {"HUP", "TERM"} : SendMaster(s)
        BY <1>10
    <2>1. /\ hups' \in 0 .. MaxHups
          /\ master' \in {"run", "exited", "killed"}
          /\ pending' \subseteq Signals
          /\ stack' = stack \/ stack' = <<>>
        <3>1. hups' \in 0 .. MaxHups
            BY <1>1, <1>2 DEF SendMaster, RestOK
        <3>2. CASE s \in handlers
            BY <1>1, <3>1, <3>2 DEF SendMaster, RestOK
        <3>3. CASE s \notin handlers
            BY <1>1, <3>1, <3>3 DEF SendMaster, RestOK
        <3>. QED
            BY <3>2, <3>3
    <2>2. RestOK'
        BY <1>1, <2>1 DEF SendMaster, RestOK
    <2>. QED
        BY <1>3, <1>4, <1>5, <2>1, <2>2, EmptyStack DEF SendMaster
<1>11. CASE \E s \in Signals : TakeSignal(s)
    <2> PICK s \in Signals : TakeSignal(s)
        BY <1>11
    <2>1. RestOK'
        BY <1>1 DEF TakeSignal, RestOK
    <2>2. StackOK'
        BY <1>1, Push DEF TakeSignal
    <2>. QED
        BY <1>3, <1>5, <2>1, <2>2 DEF TakeSignal
<1>12. CASE ReapOne
    <2>1. PICK p \in Pid :
              /\ proc' = [proc EXCEPT ![p] = NoProc]
              /\ outdated' = outdated \ {p} /\ missed' = missed \ {p}
              /\ chld' = IF ~quit /\ SlotsOf(p) # {}
                           THEN [chld EXCEPT !.step = "fork", !.slot = FirstSlot(p)]
                           ELSE chld
        BY <1>12 DEF ReapOne
    <2>2. SlotsOf(p) # {} => FirstSlot(p) \in Slot
        BY FirstSlotIsOne
    <2>3. chld' \in [step : {"wait", "fork", "store"}, slot : Slot,
                     pid : Pid \cup {NoPid, Failed}]
        BY <1>1, <2>1, <2>2 DEF RestOK
    <2>4. RestOK'
        BY <1>1, <1>12, <2>1, <2>3 DEF ReapOne, RestOK
    <2>5. proc' \in Processes /\ MessageInv'
        BY <1>1, <1>7, <2>1, NewProcess DEF Processes, NoProc
    <2>. QED
        BY <1>3, <1>4, <1>12, <2>4, <2>5 DEF ReapOne
<1>13. CASE ReapNone
    BY <1>1, <1>3, <1>5, <1>13, Pop DEF ReapNone, RestOK
<1>14. CASE Refork
    <2>1. PICK pid \in FreePids \cup {Failed} :
              /\ Forked(chld.slot, pid)
              /\ chld' = [chld EXCEPT !.step = "store", !.pid = pid]
        BY <1>14 DEF Refork
    <2>2. chld.slot \in Slot
        BY <1>1 DEF RestOK
    <2>3. proc' \in Processes /\ MessageInv'
        BY <1>5, <1>7, <2>1, <2>2, ForkedProcess
    <2>4. RestOK'
        BY <1>1, <1>14, <2>1, ZenonT(60) DEF Refork, RestOK, FreePids
    <2>. QED
        BY <1>3, <1>4, <1>14, <2>3, <2>4 DEF Refork
<1>15. CASE Store
    <2>1. RestOK'
        BY <1>1, <1>2, <1>15 DEF Store, RestOK
    <2>. QED
        BY <1>3, <1>4, <1>5, <1>15, <2>1 DEF Store
<1>16. CASE Reload
    BY <1>1, <1>3, <1>4, <1>5, <1>16 DEF Reload, RestOK
<1>17. CASE KillHup
    <2>1. proc' \in Processes /\ MessageInv'
        BY <1>1, <1>6, <1>17, SignalledProcess DEF KillHup
    <2>2. RestOK'
        BY <1>1, <1>17 DEF KillHup, RestOK
    <2>3. StackOK'
        BY <1>1, <1>17, Pop DEF KillHup
    <2>. QED
        BY <1>3, <2>1, <2>2, <2>3
<1>18. CASE SetQuit
    BY <1>1, <1>3, <1>4, <1>5, <1>18 DEF SetQuit, RestOK
<1>19. CASE CleanKill
    <2>1. proc' \in Processes /\ MessageInv'
        BY <1>1, <1>6, <1>19, SignalledProcess DEF CleanKill
    <2>2. RestOK'
        BY <1>1, <1>19 DEF CleanKill, RestOK
    <2>. QED
        BY <1>3, <1>4, <1>19, <2>1, <2>2 DEF CleanKill
<1>20. CASE MasterExit
    <2>1. proc' \in Processes /\ MessageInv'
        BY <1>1, <1>7, <1>20, NewProcess DEF MasterExit, Processes, NoProc
    <2>2. RestOK'
        BY <1>1, <1>20 DEF MasterExit, RestOK
    <2>. QED
        BY <1>3, <1>20, <2>1, <2>2, EmptyStack DEF MasterExit
<1>21. CASE \E p \in Pid : WorkerStep(p) \/ Crash(p)
    <2> PICK p \in Pid : WorkerStep(p) \/ Crash(p)
        BY <1>21
    <2>1. /\ MasterUnchanged /\ proc' \in Processes /\ MessageInv'
          /\ outdated' \subseteq outdated
          /\ hups' = hups /\ deaths' \in 0 .. MaxDeaths
          /\ \/ pending' = pending
             \/ "CHLD" \in handlers /\ pending' = pending \cup {"CHLD"}
        BY WorkerEffect
    <2>2. RestOK'
        BY <1>1, <2>1, ZenonT(60) DEF RestOK, MasterUnchanged, Signals
    <2>. QED
        BY <1>3, <1>4, <2>1, <2>2 DEF MasterUnchanged
<1>22. CASE UNCHANGED vars
    BY <1>1, <1>3, <1>4, <1>5, <1>22 DEF vars, RestOK
<1>. QED
    BY <1>8, <1>9, <1>10, <1>11, <1>12, <1>13, <1>14, <1>15, <1>16, <1>17, <1>18,
       <1>19, <1>20, <1>21, <1>22
       DEF Next, MasterStep, Takesig

-----------------------------------------------------------------------------
(* The frames: a handler that is in the middle of its work is on the       *)
(* stack, and once the SIGTERM handler has set quit no SIGCHLD handler     *)
(* forks on top of it.                                                     *)
LEMMA FrameInit == Init => FrameInv
<1> SUFFICES ASSUME Init PROVE FrameInv
    OBVIOUS
<1>1. DOMAIN stack = {}
    BY EmptySeq DEF Init
<1>. QED
    BY <1>1 DEF Init, FrameInv, OnStack, Above

(* Each step of the master and the workers keeps the frames in order.      *)
LEMMA FrameStep ==
    ASSUME TypeOK, MessageInv, FrameInv, [Next]_vars
    PROVE  FrameInv'
<1> USE DEF masterVars, handlerVars, ghostVars, boundVars
<1>1. StackOK /\ RestOK
    BY TypeParts
<1>2. stack' = stack =>
          /\ \A t : OnStack(t)' <=> OnStack(t)
          /\ \A t, u : Above(t, u)' <=> Above(t, u)
    BY DEF OnStack, Above
<1>3. ASSUME UNCHANGED <<masterVars, stack, handlerVars>>,
             pending' # {} => pending # {} \/ handlers # {}
      PROVE  FrameInv'
    BY <1>2, <1>3 DEF FrameInv
<1>4. ASSUME NEW s, Running(s)
      PROVE  OnStack(s) /\ stack # <<>> /\ master = "run" /\ handlers # {}
    BY <1>1, <1>4, RunningIsOn DEF FrameInv
<1>5. CASE CreateWorker
    <2>1. /\ stack = <<>> /\ made < Slots /\ master = "run"
          /\ UNCHANGED <<handlers, quit, pending, stack, handlerVars>>
          /\ master' \in {"run", "exited"}
        BY <1>5 DEF CreateWorker
    <2>2. handlers = {}
        BY <1>1, <2>1, ConstantsAssumption DEF FrameInv, RestOK
    <2>. QED
        BY <1>2, <2>1, <2>2 DEF FrameInv
<1>6. CASE InstallHandler
    <2>1. /\ made' = made /\ made = Slots /\ handlers' # {}
          /\ UNCHANGED <<master, quit, stack, pending, handlerVars>>
        BY <1>6 DEF InstallHandler
    <2>. QED
        BY <1>2, <2>1 DEF FrameInv
<1>7. CASE \E s \in {"HUP", "TERM"} : SendMaster(s)
    <2> PICK s \in {"HUP", "TERM"} : SendMaster(s)
        BY <1>7
    <2>1. UNCHANGED <<made, handlers, quit, handlerVars>>
        BY DEF SendMaster
    <2>2. CASE s \in handlers
        <3>1. UNCHANGED <<master, stack>>
            BY <2>2 DEF SendMaster
        <3>. QED
            BY <1>2, <2>1, <2>2, <3>1 DEF FrameInv
    <2>3. CASE s \notin handlers
        <3>1. master' = "killed" /\ stack' = <<>> /\ pending' = {}
            BY <2>3 DEF SendMaster
        <3>. QED
            BY <2>1, <3>1 DEF FrameInv
    <2>. QED
        BY <2>2, <2>3
<1>8. CASE \E s \in Signals : TakeSignal(s)
    <2> PICK s \in Signals : TakeSignal(s)
        BY <1>8
    <2>1. /\ master = "run" /\ ~OnStack(s) /\ pending # {}
          /\ stack' = Append(stack, s)
          /\ UNCHANGED <<masterVars, handlerVars>>
        BY DEF TakeSignal
    <2>2. /\ \A t : OnStack(t)' <=> OnStack(t) \/ t = s
          /\ \A t, u : Above(t, u)' <=> Above(t, u) \/ (t = s /\ OnStack(u))
        BY <1>1, <2>1, Push
    <2>. QED
        BY <2>1, <2>2 DEF FrameInv
<1>9. CASE ReapOne
    <2>1. /\ UNCHANGED <<masterVars, pending, stack, hup, term>>
          /\ Running("CHLD") /\ chld.step = "wait"
          /\ quit => chld' = chld
          /\ chld' = chld \/ chld'.step = "fork"
        BY <1>9, <1>1 DEF ReapOne, RestOK
    <2>2. OnStack("CHLD") /\ handlers # {} /\ master = "run"
        BY <1>4, <2>1
    <2>3. Above("CHLD", "TERM") => OnStack("TERM")
        BY DEF Above, OnStack
    <2>. QED
        BY <1>2, <2>1, <2>2, <2>3 DEF FrameInv
<1>10. CASE ReapNone
    <2>1. /\ UNCHANGED <<masterVars, pending, handlerVars>>
          /\ Running("CHLD") /\ Return /\ chld.step = "wait"
        BY <1>10 DEF ReapNone
    <2>2. /\ \A t : OnStack(t)' <=> OnStack(t) /\ t # "CHLD"
          /\ \A t, u : Above(t, u)' => Above(t, u)
        BY <1>1, <2>1, Pop
    <2>3. handlers # {}
        BY <1>4, <2>1
    <2>. QED
        BY <2>1, <2>2, <2>3 DEF FrameInv
<1>11. CASE Refork \/ Store
    <2>1. /\ UNCHANGED <<masterVars, pending, stack, hup, term>>
          /\ Running("CHLD") /\ chld.step # "wait"
        BY <1>11 DEF Refork, Store
    <2>2. OnStack("CHLD") /\ handlers # {} /\ ~(quit /\ Above("CHLD", "TERM"))
        BY <1>4, <2>1 DEF FrameInv
    <2>. QED
        BY <1>2, <2>1, <2>2, SMTT(30) DEF FrameInv
<1>12. CASE Reload
    <2>1. /\ UNCHANGED <<masterVars, pending, stack, chld, term>> /\ Running("HUP")
        BY <1>12 DEF Reload
    <2>2. OnStack("HUP") /\ handlers # {}
        BY <1>4, <2>1
    <2>. QED
        BY <1>2, <2>1, <2>2 DEF FrameInv
<1>13. CASE KillHup
    <2>1. /\ UNCHANGED <<masterVars, pending, chld, term>> /\ hup' = "reload"
          /\ Running("HUP") /\ Return
        BY <1>13 DEF KillHup
    <2>2. /\ \A t : OnStack(t)' <=> OnStack(t) /\ t # "HUP"
          /\ \A t, u : Above(t, u)' => Above(t, u)
        BY <1>1, <2>1, Pop
    <2>3. handlers # {}
        BY <1>4, <2>1
    <2>. QED
        BY <2>1, <2>2, <2>3 DEF FrameInv
<1>14. CASE CleanKill
    <2>1. /\ UNCHANGED <<masterVars, pending, stack, chld>>
          /\ \/ Running("TERM") /\ UNCHANGED hup /\ {term, term'} \cap {"quit"} = {}
             \/ Running("HUP") /\ UNCHANGED term
        BY <1>14 DEF CleanKill
    <2>2. /\ hup' # "reload" => OnStack("HUP")
          /\ term' # "quit" => OnStack("TERM")
          /\ term' # "quit" <=> term # "quit"
          /\ handlers # {}
        BY <1>4, <2>1 DEF FrameInv
    <2>. QED
        BY <1>2, <2>1, <2>2 DEF FrameInv
<1>15. CASE MasterExit
    <2>1. /\ UNCHANGED <<made, handlers, quit, handlerVars>>
          /\ master' = "exited" /\ stack' = <<>> /\ pending' = {}
        BY <1>15 DEF MasterExit
    <2>. QED
        BY <2>1 DEF FrameInv
<1>16. CASE \E p \in Pid : WorkerStep(p) \/ Crash(p)
    BY <1>3, <1>16, WorkerEffect DEF MasterUnchanged
<1>17. CASE UNCHANGED vars
    BY <1>3, <1>17 DEF vars
<1>18. CASE SetQuit
    <2>1. /\ UNCHANGED <<master, made, handlers, pending, stack, chld, hup>>
          /\ Running("TERM") /\ quit' = TRUE /\ term' = "clean"
        BY <1>18 DEF SetQuit
    <2>2. OnStack("TERM") /\ handlers # {} /\ ~Above("CHLD", "TERM")
        BY <1>1, <1>4, <2>1, RunningIsOn
    <2>. QED
        BY <1>2, <2>1, <2>2 DEF FrameInv
<1>. QED
    BY <1>5, <1>6, <1>7, <1>8, <1>9, <1>10, <1>11, <1>12, <1>13, <1>14, <1>15,
       <1>16, <1>17, <1>18
       DEF Next, MasterStep, Takesig

-----------------------------------------------------------------------------
(* Where the master has the pid of each live worker.                       *)
LEMMA SlotInit == Init => SlotInv
BY ConstantsAssumption DEF Init, SlotInv, Live, NoProc, NoPid

(* No step gives a slot a second worker, or loses one.                     *)
LEMMA SlotStep ==
    ASSUME TypeOK, MessageInv, FrameInv, SlotInv, [Next]_vars
    PROVE  SlotInv'
<1> USE DEF masterVars, handlerVars, ghostVars, boundVars
<1>1. /\ StackOK /\ RestOK /\ proc \in Processes
      /\ \A p \in Pid : proc[p].slot \in Slot
    BY TypeParts DEF Processes, Process
<1>2. ASSUME UNCHANGED <<made, children, chld>>,
             \A q \in Pid : proc'[q].st \notin {"free", "zombie"}
                              => Live(q) /\ proc'[q].slot = proc[q].slot
      PROVE  SlotInv'
    BY <1>2 DEF SlotInv, Live
<1>3. CASE CreateWorker
    <2>1. PICK pid \in FreePids \cup {Failed} :
              /\ children' = [children EXCEPT ![made] = pid]
              /\ \/ pid # Failed /\ Forked(made, pid) /\ made' = made + 1
                 \/ /\ pid = Failed /\ UNCHANGED made
                    /\ proc' = Signalled("TERM", Recorded, proc)
        BY <1>3 DEF CreateWorker
    <2>2. /\ made \in Slot /\ made \in Nat /\ UNCHANGED chld
          /\ children \in [Slot -> Pid \cup {NoPid, Failed}]
          /\ \A i \in Slot : i \in Int
        BY <1>1, <1>3, ConstantsAssumption DEF CreateWorker, RestOK, Slot
    <2>3. handlers = {}
        BY <1>1, <1>3, ConstantsAssumption DEF CreateWorker, FrameInv, RestOK
    <2>4. chld.step = "wait"
        BY <2>3 DEF FrameInv
    <2>5. CASE pid # Failed
        <3>1. /\ pid \in Pid /\ proc'[pid].slot = made
              /\ \A q \in Pid \ {pid} : proc'[q] = proc[q]
            BY <2>1, <2>2, <2>5, ForkedProcess
        <3>2. \A q \in Pid \ {pid} : proc'[q].st \notin {"free", "zombie"} =>
                  children[proc[q].slot] = q /\ proc[q].slot # made
            BY <2>2, <2>4, <3>1 DEF SlotInv, Live
        <3>3. made' = made + 1
            BY <2>1, <2>5
        <3>4. \A i \in Slot : i >= made' => children'[i] \notin Pid
            BY <2>1, <2>2, <3>3 DEF SlotInv
        <3>5. \A q \in Pid : proc'[q].st \notin {"free", "zombie"}
                                => children'[proc'[q].slot] = q
            BY <1>1, <2>1, <2>2, <3>1, <3>2
        <3>. QED
            BY <2>2, <2>4, <3>4, <3>5 DEF SlotInv, Live
    <2>6. CASE pid = Failed
        <3>1. /\ \A q \in Pid : proc'[q].st = proc[q].st /\ proc'[q].slot = proc[q].slot
              /\ UNCHANGED made
            BY <1>1, <2>1, <2>6, SignalledProcess
        <3>2. Failed \notin Pid
            BY ConstantsAssumption DEF Failed
        <3>3. \A q \in Pid : Live(q) => proc[q].slot # made
            BY <2>2, <2>4 DEF SlotInv
        <3>. QED
            BY <1>1, <2>1, <2>2, <2>4, <2>6, <3>1, <3>2, <3>3 DEF SlotInv, Live
    <2>. QED
        BY <2>5, <2>6
<1>4. CASE \/ InstallHandler \/ ReapNone \/ Reload \/ SetQuit
           \/ \E s \in Signals : SendMaster(s) \/ TakeSignal(s)
    <2>1. UNCHANGED <<made, children, chld, proc>>
        BY <1>4 DEF InstallHandler, ReapNone, Reload, SetQuit, SendMaster, TakeSignal
    <2>. QED
        BY <1>2, <2>1 DEF Live
<1>5. CASE KillHup \/ CleanKill
    <2>1. UNCHANGED <<made, children, chld>>
          /\ \E s \in {"HUP", "TERM"} : proc' = Signalled(s, Recorded, proc)
        BY <1>5 DEF KillHup, CleanKill
    <2>2. \A q \in Pid : proc'[q].st = proc[q].st /\ proc'[q].slot = proc[q].slot
        BY <1>1, <2>1, SignalledProcess
    <2>. QED
        BY <1>2, <2>1, <2>2 DEF Live
<1>6. CASE MasterExit
    <2>1. /\ UNCHANGED <<made, children, chld>>
          /\ \A q \in Pid : proc'[q] = IF proc[q].st = "zombie" THEN NoProc ELSE proc[q]
        BY <1>6 DEF MasterExit
    <2>2. \A q \in Pid : proc'[q].st \notin {"free", "zombie"}
                            => Live(q) /\ proc'[q].slot = proc[q].slot
        BY <2>1 DEF NoProc, Live
    <2>. QED
        BY <1>2, <2>1, <2>2
<1>7. CASE ReapOne
    <2>1. PICK p \in Pid :
              /\ proc[p].st = "zombie" /\ chld.step = "wait"
              /\ UNCHANGED <<made, children>>
              /\ proc' = [proc EXCEPT ![p] = NoProc]
              /\ chld' = IF ~quit /\ SlotsOf(p) # {}
                           THEN [chld EXCEPT !.step = "fork", !.slot = FirstSlot(p)]
                           ELSE chld
        BY <1>7 DEF ReapOne
    <2>2. \A q \in Pid : proc'[q].st \notin {"free", "zombie"}
                            => q # p /\ proc'[q] = proc[q] /\ children[proc[q].slot] = q
        BY <1>1, <2>1 DEF SlotInv, Live, Processes, NoProc
    <2>3. CASE chld' = chld
        BY <2>1, <2>2, <2>3, ZenonT(60) DEF SlotInv, Live
    <2>4. CASE SlotsOf(p) # {} /\ chld' = [chld EXCEPT !.step = "fork",
                                                       !.slot = FirstSlot(p)]
        <3>1. children[FirstSlot(p)] = p
            BY <2>4, FirstSlotIsOne
        <3>2. chld'.step = "fork" /\ chld'.slot = FirstSlot(p)
            BY <1>1, <2>4 DEF RestOK
        <3>. QED
            BY <2>1, <2>2, <3>1, <3>2 DEF SlotInv, Live
    <2>. QED
        BY <2>1, <2>3, <2>4
<1>8. CASE Refork
    <2>1. PICK pid \in FreePids \cup {Failed} :
              /\ Forked(chld.slot, pid) /\ chld.step = "fork"
              /\ UNCHANGED <<made, children>>
              /\ chld' = [chld EXCEPT !.step = "store", !.pid = pid]
        BY <1>8 DEF Refork
    <2>2. /\ chld.slot \in Slot
          /\ chld'.step = "store" /\ chld'.pid = pid /\ chld'.slot = chld.slot
        BY <1>1, <2>1 DEF RestOK
    <2>3. CASE pid = Failed
        <3>1. UNCHANGED proc
            BY <2>1, <2>2, <2>3, ForkedProcess
        <3>. QED
            BY <2>1, <2>2, <3>1 DEF SlotInv, Live
    <2>4. CASE pid # Failed
        <3>1. /\ pid \in Pid /\ proc'[pid].slot = chld.slot
              /\ \A q \in Pid \ {pid} : proc'[q] = proc[q]
            BY <2>1, <2>2, <2>4, ForkedProcess
        <3>. QED
            BY <2>1, <2>2, <3>1 DEF SlotInv, Live
    <2>. QED
        BY <2>3, <2>4
<1>9. CASE Store
    <2>1. /\ chld.step = "store" /\ UNCHANGED <<made, proc>>
          /\ children' = [children EXCEPT ![chld.slot] = chld.pid]
          /\ chld'.step = "wait" /\ chld.slot \in Slot
          /\ children \in [Slot -> Pid \cup {NoPid, Failed}]
          /\ Running("CHLD")
        BY <1>1, <1>9 DEF Store, RestOK
    <2>2. made = Slots /\ \A i \in Slot : ~(i >= made)
        BY <2>1, <1>1, RunningIsOn, ConstantsAssumption DEF FrameInv, Slot
    <2>. QED
        BY <1>1, <2>1, <2>2 DEF SlotInv, Live
<1>10. CASE \E p \in Pid : WorkerStep(p) \/ Crash(p)
    <2>1. MasterUnchanged /\ \A q \in Pid : GoesOn(q)
        BY <1>10, WorkerEffect
    <2>. QED
        BY <1>2, <2>1 DEF MasterUnchanged, GoesOn
<1>11. CASE UNCHANGED vars
    BY <1>2, <1>11 DEF vars, Live
<1>. QED
    BY <1>3, <1>4, <1>5, <1>6, <1>7, <1>8, <1>9, <1>10, <1>11
       DEF Next, MasterStep, Takesig, Signals

-----------------------------------------------------------------------------
(* Who has been sent TERM.                                                 *)
LEMMA TermInit == Init => TermInv
<1> SUFFICES ASSUME Init PROVE TermInv
    OBVIOUS
<1>. QED
    BY DEF Init, TermInv, TermReachesWorkers

(* Once p_clean_exit has signalled the workers none is added that it has   *)
(* not: quit is set, and keeps the SIGCHLD handler from forking.           *)
LEMMA TermStep ==
    ASSUME TypeOK, MessageInv, FrameInv, SlotInv, TermInv, [Next]_vars
    PROVE  TermInv'
<1> USE DEF masterVars, handlerVars, ghostVars, boundVars
<1>1. StackOK /\ RestOK /\ proc \in Processes
    BY TypeParts
<1>2. TermReachesWorkers <=> (master = "exited" /\ quit => AllTold)
    BY DEF TermReachesWorkers, AllTold
<1>3. TermReachesWorkers' <=> (master' = "exited" /\ quit' => AllTold')
    BY DEF TermReachesWorkers, AllTold
<1>4. ASSUME UNCHANGED children,
             \A q \in Pid : proc'[q].st \notin {"free", "zombie"} =>
                 Live(q) /\ ("TERM" \in proc[q].pending => "TERM" \in proc'[q].pending)
      PROVE  AllTold => AllTold'
    BY <1>4 DEF AllTold, Live, Recorded
<1>5. ASSUME UNCHANGED <<master, stack, hup, term, quit>>, AllTold => AllTold'
      PROVE  TermInv'
    BY <1>2, <1>3, <1>5 DEF TermInv, Above
<1>6. CASE CreateWorker
    <2>1. /\ stack = <<>> /\ master = "run"
          /\ UNCHANGED <<stack, hup, term, quit>>
        BY <1>6 DEF CreateWorker
    <2>2. ~OnStack("TERM") /\ ~Above("HUP", "TERM")
        BY <2>1, EmptySeq DEF OnStack, Above
    <2>3. term # "exit" /\ ~quit
        BY <2>1, <2>2 DEF FrameInv
    <2>. QED
        BY <1>3, <2>1, <2>2, <2>3 DEF TermInv, Above
<1>7. CASE InstallHandler
    <2>1. UNCHANGED <<master, stack, hup, term, quit, children, proc>>
        BY <1>7 DEF InstallHandler
    <2>. QED
        BY <1>4, <1>5, <2>1 DEF Live
<1>8. CASE \E s \in {"HUP", "TERM"} : SendMaster(s)
    <2> PICK s \in {"HUP", "TERM"} : SendMaster(s)
        BY <1>8
    <2>1. /\ UNCHANGED <<quit, hup, term, children, proc>>
          /\ UNCHANGED <<master, stack>> \/ master' = "killed"
        BY DEF SendMaster
    <2>. QED
        BY <1>3, <1>4, <1>5, <2>1 DEF TermInv, Live
<1>9. CASE \E s \in Signals : TakeSignal(s)
    <2> PICK s \in Signals : TakeSignal(s)
        BY <1>9
    <2>1. /\ master = "run" /\ ~OnStack(s) /\ stack' = Append(stack, s)
          /\ UNCHANGED <<master, hup, term, quit, children, proc>>
        BY DEF TakeSignal
    <2>2. \A t, u : Above(t, u)' <=> Above(t, u) \/ (t = s /\ OnStack(u))
        BY <1>1, <2>1, Push
    <2>3. AllTold => AllTold'
        BY <1>4, <2>1 DEF Live
    <2>4. s = "HUP" => hup = "reload"
        BY <2>1 DEF FrameInv
    <2>. QED
        BY <1>3, <2>1, <2>2, <2>3, <2>4 DEF TermInv
<1>10. CASE ReapOne
    <2>1. UNCHANGED <<master, stack, hup, term, quit, children>>
        BY <1>10 DEF ReapOne
    <2>2. PICK p \in Pid : proc' = [proc EXCEPT ![p] = NoProc]
        BY <1>10 DEF ReapOne
    <2>3. AllTold => AllTold'
        BY <1>1, <1>4, <2>1, <2>2 DEF Processes, NoProc, Live
    <2>. QED
        BY <1>5, <2>1, <2>3
<1>11. CASE ReapNone \/ KillHup
    <2>1. /\ UNCHANGED <<master, term, quit, children>>
          /\ hup' = hup \/ hup' = "reload"
          /\ Return /\ master = "run"
          /\ \E s : Running(s)
          /\ proc' = proc \/ proc' = Signalled("HUP", Recorded, proc)
        BY <1>11 DEF ReapNone, KillHup, Running
    <2>2. \A t, u : Above(t, u)' => Above(t, u)
        BY <1>1, <2>1, Pop
    <2>3. AllTold => AllTold'
        <3>1. CASE proc' = proc
            BY <1>4, <2>1, <3>1 DEF Live
        <3>2. CASE proc' = Signalled("HUP", Recorded, proc)
            <4>1. \A q \in Pid : proc'[q].st = proc[q].st
                                   /\ proc[q].pending \subseteq proc'[q].pending
                BY <1>1, <3>2, SignalledProcess
            <4>. QED
                BY <1>4, <2>1, <4>1 DEF Live
        <3>. QED
            BY <2>1, <3>1, <3>2
    <2>. QED
        BY <1>3, <2>1, <2>2, <2>3 DEF TermInv
<1>12. CASE Refork \/ Store
    <2>1. /\ UNCHANGED <<master, stack, hup, term, quit>>
          /\ Running("CHLD") /\ chld.step # "wait"
        BY <1>12 DEF Refork, Store
    <2>2. master = "run" /\ OnStack("CHLD")
        BY <1>1, <2>1, RunningIsOn
    <2>3. ~quit /\ term # "exit"
        <3>1. SUFFICES ASSUME term # "quit" PROVE FALSE
            BY <2>2 DEF FrameInv
        <3>2. quit /\ OnStack("TERM")
            BY <2>2, <3>1 DEF FrameInv
        <3>3. Above("CHLD", "TERM")
            BY <1>1, <2>1, <3>2, RunningIsAbove
        <3>. QED
            BY <2>1, <2>2, <3>2, <3>3 DEF FrameInv
    <2>. QED
        BY <1>3, <2>1, <2>2, <2>3, SMTT(30) DEF TermInv, Above
<1>13. CASE Reload
    <2>1. /\ UNCHANGED <<master, stack, term, quit, children, proc>>
          /\ hup' # "exit" /\ master = "run"
        BY <1>13 DEF Reload, Running
    <2>2. AllTold => AllTold'
        BY <1>4, <2>1 DEF Live
    <2>. QED
        BY <1>3, <2>1, <2>2 DEF TermInv
<1>14. CASE CleanKill
    <2>1. /\ UNCHANGED <<master, stack, quit, children>> /\ master = "run"
          /\ proc' = Signalled("TERM", Recorded, proc)
        BY <1>14 DEF CleanKill, Running
    <2>2. \A q \in Pid :
             /\ proc'[q].st = proc[q].st
             /\ q \in Recorded /\ proc[q].st \notin {"free", "zombie"}
                  => "TERM" \in proc'[q].pending
        BY <1>1, <2>1, SignalledProcess
    <2>3. AllTold'
        BY <2>1, <2>2 DEF AllTold, Live, Recorded
    <2>. QED
        BY <1>3, <2>3 DEF TermInv
<1>15. CASE MasterExit
    <2>1. /\ UNCHANGED <<quit, children>> /\ master' = "exited"
          /\ \/ Running("TERM") /\ term = "exit"
             \/ Running("HUP") /\ hup = "exit"
          /\ \A q \in Pid : proc'[q] = IF proc[q].st = "zombie" THEN NoProc ELSE proc[q]
        BY <1>15 DEF MasterExit
    <2>2. AllTold => AllTold'
        BY <1>4, <2>1 DEF Live, NoProc
    <2>3. master = "run"
        BY <2>1 DEF Running
    <2>4. quit => AllTold
        <3>1. CASE Running("TERM") /\ term = "exit"
            BY <2>3, <3>1 DEF TermInv
        <3>2. CASE Running("HUP") /\ hup = "exit"
            <4>1. quit => Above("HUP", "TERM")
                <5>1. quit => OnStack("TERM")
                    BY <2>3 DEF FrameInv
                <5>. QED
                    BY <1>1, <3>2, <5>1, RunningIsAbove
            <4>. QED
                BY <2>3, <3>2, <4>1 DEF TermInv
        <3>. QED
            BY <2>1, <3>1, <3>2
    <2>. QED
        BY <1>3, <2>1, <2>2, <2>4 DEF TermInv
<1>16. CASE \E p \in Pid : WorkerStep(p) \/ Crash(p)
    <2>1. MasterUnchanged /\ \A q \in Pid : GoesOn(q)
        BY <1>16, WorkerEffect
    <2>2. AllTold => AllTold'
        BY <1>4, <2>1 DEF MasterUnchanged, GoesOn
    <2>. QED
        BY <1>5, <2>1, <2>2 DEF MasterUnchanged
<1>17. CASE UNCHANGED vars
    BY <1>4, <1>5, <1>17 DEF vars, Live
<1>18. CASE SetQuit
    <2>1. /\ UNCHANGED <<master, stack, hup>> /\ term' = "clean"
          /\ Running("TERM")
        BY <1>18 DEF SetQuit
    <2>2. master = "run" /\ ~Above("HUP", "TERM")
        BY <1>1, <2>1, RunningIsOn
    <2>. QED
        BY <1>3, <2>1, <2>2 DEF TermInv, Above
<1>. QED
    BY <1>18, <1>6, <1>7, <1>8, <1>9, <1>10, <1>11, <1>12, <1>13, <1>14, <1>15, <1>16, <1>17
       DEF Next, MasterStep, Takesig

-----------------------------------------------------------------------------
(* Nothing is outdated when the master starts.                             *)
LEMMA ReloadInit == Init => ReloadInv
BY DEF Init, ReloadInv

(* An outdated worker has a HUP to take, or has taken it, until it ends.   *)
LEMMA ReloadStep ==
    ASSUME TypeOK, MessageInv, FrameInv, ReloadInv, [Next]_vars
    PROVE  ReloadInv'
<1> USE DEF masterVars, handlerVars, ghostVars, boundVars
<1>1. /\ StackOK /\ RestOK /\ proc \in Processes
      /\ outdated \subseteq Pid
    BY TypeParts DEF RestOK
<1>2. ASSUME UNCHANGED <<hup, missed>>, master' = "run" => master = "run",
             outdated' \subseteq outdated,
             \A q \in outdated' :
                 /\ proc'[q].st = "free" => proc[q].st = "free"
                 /\ proc'[q].st \notin {"free", "zombie"} =>
                       /\ Live(q)
                       /\ "HUP" \in proc[q].pending \/ proc[q].caught
                            => "HUP" \in proc'[q].pending \/ proc'[q].caught
      PROVE  ReloadInv'
    BY <1>2 DEF ReloadInv, Live
<1>3. CASE CreateWorker \/ Refork
    <2>1. /\ UNCHANGED <<hup, ghostVars>> /\ master = "run"
        BY <1>3 DEF CreateWorker, Refork, Running
    <2>2. \/ master' # "run"
          \/ \E i \in Slot, pid \in FreePids \cup {Failed} : Forked(i, pid)
        <3>1. made \in 0 .. Slots /\ chld.slot \in Slot
            BY <1>1 DEF RestOK
        <3>2. made < Slots => made \in Slot
            BY <3>1, ConstantsAssumption DEF Slot
        <3>. QED
            BY <1>3, <3>1, <3>2 DEF CreateWorker, Refork
    <2>3. ASSUME NEW i \in Slot, NEW pid \in FreePids \cup {Failed}, Forked(i, pid)
          PROVE  ReloadInv'
        <3>1. \A q \in outdated : proc'[q] = proc[q]
            BY <1>1, <2>1, <2>3, ForkedProcess DEF ReloadInv
        <3>. QED
            BY <1>2, <2>1, <3>1 DEF Live
    <2>. QED
        BY <2>2, <2>3, SMTT(30) DEF ReloadInv
<1>4. CASE \/ InstallHandler \/ ReapNone \/ Store \/ SetQuit
           \/ \E s \in Signals : SendMaster(s) \/ TakeSignal(s)
    <2>1. /\ UNCHANGED <<hup, ghostVars, proc>>
          /\ master' = "run" => master = "run"
        BY <1>4 DEF InstallHandler, ReapNone, Store, SetQuit, SendMaster, TakeSignal
    <2>. QED
        BY <1>2, <2>1 DEF Live
<1>5. CASE ReapOne
    <2>1. PICK p \in Pid : /\ proc' = [proc EXCEPT ![p] = NoProc]
                           /\ outdated' = outdated \ {p} /\ missed' = missed \ {p}
        BY <1>5 DEF ReapOne
    <2>2. UNCHANGED <<hup, master>>
        BY <1>5 DEF ReapOne
    <2>3. \A q \in outdated' : proc'[q] = proc[q] /\ q \in outdated
                                /\ (q \in missed' <=> q \in missed)
        BY <1>1, <2>1 DEF Processes
    <2>. QED
        BY <2>2, <2>3 DEF ReloadInv, Live
<1>6. CASE Reload
    <2>1. UNCHANGED <<proc, missed>> /\ hup = "reload"
        BY <1>6 DEF Reload
    <2>2. CASE hup' = "kill" /\ outdated' = {p \in Pid : Live(p)}
        BY <2>1, <2>2 DEF ReloadInv, Live
    <2>3. CASE UNCHANGED <<master, outdated>>
        BY <2>1, <2>3 DEF ReloadInv, Live
    <2>. QED
        BY <1>6, <2>2, <2>3 DEF Reload
<1>7. CASE KillHup
    <2>1. /\ proc' = Signalled("HUP", Recorded, proc)
          /\ missed' = missed \cup {p \in Pid : Live(p) /\ p \notin Recorded}
          /\ UNCHANGED <<outdated, master>>
        BY <1>7 DEF KillHup
    <2>2. \A q \in Pid :
             /\ proc'[q].st = proc[q].st
             /\ q \in Recorded /\ proc[q].st \notin {"free", "zombie"}
                  => "HUP" \in proc'[q].pending
        BY <1>1, <2>1, SignalledProcess
    <2>. QED
        BY <1>1, <2>1, <2>2 DEF ReloadInv, Live
<1>8. CASE CleanKill
    <2>1. /\ proc' = Signalled("TERM", Recorded, proc)
          /\ UNCHANGED <<outdated, missed, master>>
          /\ hup' = hup \/ hup = "clean"
        BY <1>8 DEF CleanKill
    <2>2. \A q \in Pid : /\ proc'[q].st = proc[q].st
                         /\ proc'[q].caught = proc[q].caught
                         /\ proc[q].pending \subseteq proc'[q].pending
        BY <1>1, <2>1, SignalledProcess
    <2>. QED
        BY <1>1, <2>1, <2>2 DEF ReloadInv, Live
<1>9. CASE MasterExit
    BY <1>9 DEF MasterExit, ReloadInv
<1>10. CASE \E p \in Pid : WorkerStep(p) \/ Crash(p)
    <2>1. /\ MasterUnchanged /\ outdated' \subseteq outdated
          /\ \A q \in Pid : GoesOn(q)
        BY <1>10, WorkerEffect
    <2>2. CASE master = "run"
        <3>1. UNCHANGED <<hup, missed>> /\ (master' = "run" => master = "run")
            BY <2>1 DEF MasterUnchanged
        <3>. QED
            BY <1>1, <1>2, <2>1, <2>2, <3>1 DEF GoesOn
    <2>3. CASE master # "run"
        BY <2>1, <2>3 DEF MasterUnchanged, ReloadInv
    <2>. QED
        BY <2>2, <2>3
<1>11. CASE UNCHANGED vars
    BY <1>2, <1>11 DEF vars, Live
<1>. QED
    BY <1>3, <1>4, <1>5, <1>6, <1>7, <1>8, <1>9, <1>10, <1>11
       DEF Next, MasterStep, Takesig, Signals

-----------------------------------------------------------------------------
(* The inductive invariant holds in every reachable state.                 *)
THEOREM Inductive == Spec => []IInv
<1>1. Init => IInv
    BY TypeInit, FrameInit, SlotInit, TermInit, ReloadInit DEF IInv
<1>2. IInv /\ [Next]_vars => IInv'
    BY TypeStep, FrameStep, SlotStep, TermStep, ReloadStep DEF IInv
<1>. QED
    BY <1>1, <1>2, PTL DEF Spec

(* The types; a handler is on the stack of frames at most once.            *)
THEOREM TypeCorrect == Spec => []TypeOK
<1>1. IInv => TypeOK
    BY DEF IInv
<1>. QED
    BY <1>1, Inductive, PTL

(* Two live workers of one slot are one.                                   *)
LEMMA Alone ==
    ASSUME SlotInv, NEW p \in Pid, NEW q \in Pid, Live(p), Live(q),
           proc[p].slot = proc[q].slot
    PROVE  p = q
BY DEF SlotInv

(* The master never fills a slot that has a worker: it forks only into the *)
(* slot of one it has reaped, however the handlers of its signals nest.    *)
THEOREM OneWorkerInASlot == Spec => []OneWorkerPerSlot
<1>1. IInv => OneWorkerPerSlot
    <2> SUFFICES ASSUME SlotInv, NEW i \in Slot PROVE Cardinality(LiveIn(i)) <= 1
        BY DEF IInv, OneWorkerPerSlot
    <2>1. CASE LiveIn(i) = {}
        BY <2>1, FS_EmptySet
    <2>2. CASE LiveIn(i) # {}
        <3>1. PICK p : p \in LiveIn(i)
            BY <2>2
        <3>2. LiveIn(i) = {p}
            BY <3>1, Alone DEF LiveIn
        <3>3. Cardinality({p}) = 1
            BY FS_Singleton
        <3>. QED
            BY <3>2, <3>3
    <2>. QED
        BY <2>1, <2>2
<1>. QED
    BY <1>1, Inductive, PTL

(* A master told to stop has told its workers, also those of the slots the *)
(* SIGCHLD handler was busy with, before it exits.                         *)
THEOREM StopReachesWorkers == Spec => []TermReachesWorkers
<1>1. IInv => TermReachesWorkers
    BY DEF IInv, TermInv
<1>. QED
    BY <1>1, Inductive, PTL

(* When all is calm after a reload, only workers that were forked but not  *)
(* recorded when the HUPs were sent still have the old configuration.      *)
THEOREM ReloadReaches == Spec => []ReloadReachesRecorded
<1>1. IInv => ReloadReachesRecorded
    <2> SUFFICES ASSUME FrameInv, ReloadInv, Calm, NEW p \in Pid, Live(p),
                        p \in outdated, p \notin missed
                 PROVE  FALSE
        BY DEF IInv, ReloadReachesRecorded
    <2>1. ~OnStack("HUP")
        BY EmptySeq DEF Calm, OnStack
    <2>. QED
        BY <2>1 DEF Calm, FrameInv, ReloadInv
<1>. QED
    BY <1>1, Inductive, PTL

-----------------------------------------------------------------------------
(* The pool implements WorkerSlots: what each step does to the slots.      *)
LiveOf(f, p) == f[p].st \notin {"free", "zombie"}
PassOf(f, p) == f[p].st = "pass"
AloneIn(f) == \A p, q \in Pid : LiveOf(f, p) /\ LiveOf(f, q)
                                  /\ f[p].slot = f[q].slot => p = q
StateOf(f, i) ==
    LET live == {p \in Pid : LiveOf(f, p) /\ f[p].slot = i}
    IN  IF live = {} THEN "down"
        ELSE IF Cardinality(live) > 1 THEN "crowded"
        ELSE IF \E p \in live : PassOf(f, p) THEN "pass" ELSE "idle"

(* A slot is as its worker is, and down without one.                       *)
LEMMA StateOfSlot ==
    ASSUME NEW f, AloneIn(f), NEW i
    PROVE  /\ (\A p \in Pid : LiveOf(f, p) => f[p].slot # i) => StateOf(f, i) = "down"
           /\ \A p \in Pid : LiveOf(f, p) /\ f[p].slot = i =>
                 StateOf(f, i) = IF PassOf(f, p) THEN "pass" ELSE "idle"
<1> DEFINE live == {p \in Pid : LiveOf(f, p) /\ f[p].slot = i}
<1>1. (\A p \in Pid : LiveOf(f, p) => f[p].slot # i) => StateOf(f, i) = "down"
    BY DEF StateOf
<1>2. ASSUME NEW p \in Pid, LiveOf(f, p), f[p].slot = i
      PROVE  StateOf(f, i) = IF PassOf(f, p) THEN "pass" ELSE "idle"
    <2>1. live = {p}
        BY <1>2 DEF AloneIn
    <2>2. Cardinality(live) = 1
        BY <2>1, FS_Singleton
    <2>3. StateOf(f, i) = IF live = {} THEN "down"
                          ELSE IF Cardinality(live) > 1 THEN "crowded"
                          ELSE IF \E q \in live : PassOf(f, q) THEN "pass" ELSE "idle"
        BY DEF StateOf
    <2> HIDE DEF live
    <2>4. ~(Cardinality(live) > 1) /\ live # {}
        BY <2>1, <2>2
    <2>. QED
        BY <2>1, <2>3, <2>4
<1>. QED
    BY <1>1, <1>2

(* A process of f and g that the slots do not tell apart.                  *)
Alike(f, g, q) ==
    /\ LiveOf(f, q) <=> LiveOf(g, q)
    /\ LiveOf(f, q) => f[q].slot = g[q].slot /\ (PassOf(f, q) <=> PassOf(g, q))

(* A step that concerns one process changes one slot at most.              *)
LEMMA OneSlotChanges ==
    ASSUME NEW f, NEW g, AloneIn(f), AloneIn(g), NEW p \in Pid,
           \A q \in Pid \ {p} : Alike(f, g, q),
           LiveOf(g, p) => \/ LiveOf(f, p) /\ f[p].slot = g[p].slot
                           \/ ~LiveOf(f, p) /\ ~PassOf(g, p),
           f[p].slot \in Slot, g[p].slot \in Slot
    PROVE  \E i \in Slot :
              /\ \A j \in Slot \ {i} : StateOf(g, j) = StateOf(f, j)
              /\ \/ StateOf(g, i) = StateOf(f, i)
                 \/ StateOf(f, i) = "down" /\ StateOf(g, i) = "idle"
                 \/ StateOf(f, i) = "idle" /\ StateOf(g, i) = "pass"
                 \/ StateOf(f, i) = "pass" /\ StateOf(g, i) = "idle"
                 \/ StateOf(f, i) # "down" /\ StateOf(g, i) = "down"
<1>1. ASSUME NEW j \in Slot, LiveOf(f, p) => f[p].slot # j, LiveOf(g, p) => g[p].slot # j
      PROVE  StateOf(g, j) = StateOf(f, j)
    <2>1. CASE \E q \in Pid : LiveOf(f, q) /\ f[q].slot = j
        <3>1. PICK q \in Pid : LiveOf(f, q) /\ f[q].slot = j
            BY <2>1
        <3>2. LiveOf(g, q) /\ g[q].slot = j /\ (PassOf(f, q) <=> PassOf(g, q))
            BY <1>1, <3>1 DEF Alike
        <3>3. /\ StateOf(f, j) = IF PassOf(f, q) THEN "pass" ELSE "idle"
              /\ StateOf(g, j) = IF PassOf(g, q) THEN "pass" ELSE "idle"
            BY <3>1, <3>2, StateOfSlot
        <3>. QED
            BY <3>2, <3>3
    <2>2. CASE \A q \in Pid : LiveOf(f, q) => f[q].slot # j
        <3>1. \A q \in Pid : LiveOf(g, q) => g[q].slot # j
            BY <1>1, <2>2 DEF Alike
        <3>2. StateOf(f, j) = "down" /\ StateOf(g, j) = "down"
            BY <2>2, <3>1, StateOfSlot
        <3>. QED
            BY <3>2
    <2>. QED
        BY <2>1, <2>2
<1>2. CASE ~LiveOf(f, p) /\ ~LiveOf(g, p)
    BY <1>1, <1>2
<1>3. CASE LiveOf(f, p) /\ LiveOf(g, p)
    <2> DEFINE i == f[p].slot
    <2>1. /\ StateOf(f, i) = IF PassOf(f, p) THEN "pass" ELSE "idle"
          /\ StateOf(g, i) = IF PassOf(g, p) THEN "pass" ELSE "idle"
        BY <1>3, StateOfSlot
    <2>2. g[p].slot = i
        BY <1>3
    <2> HIDE DEF i
    <2>3. \A j \in Slot \ {i} : StateOf(g, j) = StateOf(f, j)
        BY <1>1, <2>2 DEF i
    <2>4. i \in Slot
        BY DEF i
    <2>. QED
        BY <2>1, <2>3, <2>4
<1>4. CASE LiveOf(f, p) /\ ~LiveOf(g, p)
    <2> DEFINE i == f[p].slot
    <2>1. StateOf(f, i) = IF PassOf(f, p) THEN "pass" ELSE "idle"
        BY <1>4, StateOfSlot
    <2>2. \A q \in Pid : LiveOf(g, q) => g[q].slot # i
        BY <1>4 DEF Alike, AloneIn
    <2>3. StateOf(g, i) = "down"
        BY <2>2, StateOfSlot
    <2>4. \A j \in Slot \ {i} : StateOf(g, j) = StateOf(f, j)
        BY <1>1, <1>4
    <2>5. i \in Slot
        OBVIOUS
    <2> HIDE DEF i
    <2>. QED
        BY <2>1, <2>3, <2>4, <2>5
<1>5. CASE ~LiveOf(f, p) /\ LiveOf(g, p)
    <2> DEFINE i == g[p].slot
    <2>1. StateOf(g, i) = "idle"
        BY <1>5, StateOfSlot
    <2>2. \A q \in Pid : LiveOf(f, q) => f[q].slot # i
        BY <1>5 DEF Alike, AloneIn
    <2>3. StateOf(f, i) = "down"
        BY <2>2, StateOfSlot
    <2>4. \A j \in Slot \ {i} : StateOf(g, j) = StateOf(f, j)
        BY <1>1, <1>5
    <2>5. i \in Slot
        OBVIOUS
    <2> HIDE DEF i
    <2>. QED
        BY <2>1, <2>3, <2>4, <2>5
<1>. QED
    BY <1>2, <1>3, <1>4, <1>5

(* A step of a worker leaves the other workers where they are.             *)
LEMMA OneWorkerMoves ==
    ASSUME TypeOK, MessageInv, NEW p \in Pid, WorkerStep(p) \/ Crash(p)
    PROVE  \A q \in Pid \ {p} : proc'[q].st = proc[q].st /\ proc'[q].slot = proc[q].slot
<1>1. proc \in Processes
    BY TypeParts
<1>2. CASE Loops(p) \/ TakeHup(p)
    BY <1>2, LoopProcess
<1>3. CASE proc' = Ended(p, proc)
    BY <1>1, <1>3, EndedProcess
<1>5. CASE \E S : proc' = Ended(p, Signalled("TERM", S, proc))
    <2>1. PICK S, f : f = Signalled("TERM", S, proc) /\ proc' = Ended(p, f)
        BY <1>5
    <2>2. /\ f \in Processes
          /\ \A q \in Pid : f[q].st = proc[q].st /\ f[q].slot = proc[q].slot
        BY <1>1, <2>1, SignalledProcess
    <2>. QED
        BY <2>1, <2>2, EndedProcess
<1>4. CASE \E S : proc' = Signalled("HUP", S, [proc EXCEPT ![p].pending = @ \ {"HUP"}])
    <2> DEFINE f == [proc EXCEPT ![p].pending = @ \ {"HUP"}]
    <2>1. f \in Processes /\ \A q \in Pid \ {p} : f[q] = proc[q]
        BY <1>1 DEF Processes, Process
    <2>2. PICK S : proc' = Signalled("HUP", S, f)
        BY <1>4
    <2> HIDE DEF f
    <2>. QED
        BY <2>1, <2>2, SignalledProcess
<1>. QED
    BY <1>2, <1>3, <1>4, <1>5
       DEF WorkerStep, Loops, ExitWorker, TakeTerm, Crash, TakeHupEarly

(* Every step of the pool concerns one process, or none that is alive.     *)
LEMMA OneProcessMoves ==
    ASSUME IInv, [Next]_vars
    PROVE  \E p \in Pid :
              /\ \A q \in Pid \ {p} : Alike(proc, proc', q)
              /\ LiveOf(proc', p) =>
                    \/ LiveOf(proc, p) /\ proc[p].slot = proc'[p].slot
                    \/ ~LiveOf(proc, p) /\ ~PassOf(proc', p)
<1> USE DEF LiveOf, PassOf, Alike
<1>1. /\ TypeOK /\ MessageInv /\ proc \in Processes /\ RestOK
    BY TypeParts DEF IInv
<1>2. \E p : p \in Pid
    <2>1. CASE Pid = {}
        BY <2>1, FS_EmptySet, ConstantsAssumption
    <2>. QED
        BY <2>1
<1>3. ASSUME \A q \in Pid : proc'[q].st = proc[q].st /\ proc'[q].slot = proc[q].slot
      PROVE  \E p \in Pid :
                /\ \A q \in Pid \ {p} : Alike(proc, proc', q)
                /\ LiveOf(proc', p) =>
                      \/ LiveOf(proc, p) /\ proc[p].slot = proc'[p].slot
                      \/ ~LiveOf(proc, p) /\ ~PassOf(proc', p)
    BY <1>2, <1>3
<1>4. ASSUME NEW i \in Slot, NEW pid \in FreePids \cup {Failed}, Forked(i, pid)
      PROVE  \E p \in Pid :
                /\ \A q \in Pid \ {p} : Alike(proc, proc', q)
                /\ LiveOf(proc', p) =>
                      \/ LiveOf(proc, p) /\ proc[p].slot = proc'[p].slot
                      \/ ~LiveOf(proc, p) /\ ~PassOf(proc', p)
    <2>1. CASE pid = Failed
        BY <1>1, <1>3, <1>4, <2>1, ForkedProcess
    <2>2. CASE pid # Failed
        <3>1. /\ pid \in Pid /\ proc[pid].st = "free" /\ proc'[pid].st = "start"
              /\ \A q \in Pid \ {pid} : proc'[q] = proc[q]
            BY <1>1, <1>4, <2>2, ForkedProcess
        <3>. QED
            BY <3>1
    <2>. QED
        BY <2>1, <2>2
<1>5. CASE CreateWorker \/ Refork
    <2>1. \/ \E i \in Slot, pid \in FreePids \cup {Failed} : Forked(i, pid)
          \/ proc' = Signalled("TERM", Recorded, proc)
        <3>1. made \in 0 .. Slots /\ chld.slot \in Slot
            BY <1>1 DEF RestOK
        <3>2. made < Slots => made \in Slot
            BY <3>1, ConstantsAssumption DEF Slot
        <3>. QED
            BY <1>5, <3>1, <3>2 DEF CreateWorker, Refork
    <2>2. CASE proc' = Signalled("TERM", Recorded, proc)
        BY <1>1, <1>3, <2>2, SignalledProcess
    <2>. QED
        BY <1>4, <2>1, <2>2
<1>6. CASE \/ InstallHandler \/ ReapNone \/ Store \/ Reload \/ SetQuit
           \/ UNCHANGED vars
           \/ \E s \in Signals : SendMaster(s) \/ TakeSignal(s)
    <2>1. UNCHANGED proc
        BY <1>6 DEF InstallHandler, ReapNone, Store, Reload, SetQuit, SendMaster, TakeSignal,
                    vars
    <2>. QED
        BY <1>3, <2>1
<1>7. CASE ReapOne
    <2>1. PICK p \in Pid : proc' = [proc EXCEPT ![p] = NoProc]
        BY <1>7 DEF ReapOne
    <2>. QED
        BY <1>1, <2>1 DEF Processes, NoProc
<1>8. CASE KillHup \/ CleanKill
    <2>1. \E s \in {"HUP", "TERM"} : proc' = Signalled(s, Recorded, proc)
        BY <1>8 DEF KillHup, CleanKill
    <2>. QED
        BY <1>1, <1>3, <2>1, SignalledProcess
<1>9. CASE MasterExit
    <2>1. \A q \in Pid : proc'[q] = IF proc[q].st = "zombie" THEN NoProc ELSE proc[q]
        BY <1>9 DEF MasterExit
    <2>. QED
        BY <1>2, <2>1 DEF NoProc
<1>10. CASE \E p \in Pid : WorkerStep(p) \/ Crash(p)
    <2> PICK p \in Pid : WorkerStep(p) \/ Crash(p)
        BY <1>10
    <2>1. \A q \in Pid \ {p} : proc'[q].st = proc[q].st /\ proc'[q].slot = proc[q].slot
        BY <1>1, OneWorkerMoves
    <2>2. GoesOn(p)
        BY <1>1, WorkerEffect
    <2>. QED
        BY <2>1, <2>2 DEF GoesOn, Live
<1>. QED
    BY <1>5, <1>6, <1>7, <1>8, <1>9, <1>10
       DEF Next, MasterStep, Takesig, Signals

(* Every step of the pool is a step of WorkerSlots, or none.               *)
LEMMA SlotsStep ==
    ASSUME IInv, IInv', [Next]_vars
    PROVE  [Served!Next]_([i \in Slot |-> SlotState(i)])
<1> DEFINE W == [i \in Slot |-> StateOf(proc, i)]
           X == [i \in Slot |-> StateOf(proc', i)]
<1>1. /\ [i \in Slot |-> SlotState(i)] = W
      /\ [i \in Slot |-> SlotState(i)]' = X
    BY DEF SlotState, LiveIn, Live, StateOf, LiveOf, PassOf
<1>2. AloneIn(proc)
    BY DEF AloneIn, LiveOf, IInv, SlotInv, Live
<1>3. AloneIn(proc')
    BY DEF AloneIn, LiveOf, IInv, SlotInv, Live
<1>4. PICK p \in Pid :
              /\ \A q \in Pid \ {p} : Alike(proc, proc', q)
              /\ LiveOf(proc', p) =>
                    \/ LiveOf(proc, p) /\ proc[p].slot = proc'[p].slot
                    \/ ~LiveOf(proc, p) /\ ~PassOf(proc', p)
    BY OneProcessMoves
<1>5. proc[p].slot \in Slot /\ proc'[p].slot \in Slot
    BY DEF IInv, TypeOK, Process
<1>6. PICK f, g : f = proc /\ g = proc'
    OBVIOUS
<1>7. PICK i \in Slot :
              /\ \A j \in Slot \ {i} : StateOf(g, j) = StateOf(f, j)
              /\ \/ StateOf(g, i) = StateOf(f, i)
                 \/ StateOf(f, i) = "down" /\ StateOf(g, i) = "idle"
                 \/ StateOf(f, i) = "idle" /\ StateOf(g, i) = "pass"
                 \/ StateOf(f, i) = "pass" /\ StateOf(g, i) = "idle"
                 \/ StateOf(f, i) # "down" /\ StateOf(g, i) = "down"
    <2>1. /\ AloneIn(f) /\ AloneIn(g)
          /\ \A q \in Pid \ {p} : Alike(f, g, q)
          /\ LiveOf(g, p) => \/ LiveOf(f, p) /\ f[p].slot = g[p].slot
                             \/ ~LiveOf(f, p) /\ ~PassOf(g, p)
          /\ f[p].slot \in Slot /\ g[p].slot \in Slot
        BY <1>2, <1>3, <1>4, <1>5, <1>6
    <2>. QED
        BY <2>1, OneSlotChanges
<1>8. /\ W = [j \in Slot |-> StateOf(f, j)]
      /\ X = [j \in Slot |-> StateOf(g, j)]
    BY <1>6
<1> HIDE DEF W, X
<1>9. /\ W[i] = StateOf(f, i) /\ X[i] = StateOf(g, i)
      /\ X = [W EXCEPT ![i] = StateOf(g, i)]
    BY <1>7, <1>8
<1>10. \/ X = W
       \/ W[i] = "down" /\ X = [W EXCEPT ![i] = "idle"]
       \/ W[i] = "idle" /\ X = [W EXCEPT ![i] = "pass"]
       \/ W[i] = "pass" /\ X = [W EXCEPT ![i] = "idle"]
       \/ W[i] # "down" /\ X = [W EXCEPT ![i] = "down"]
    BY <1>7, <1>8, <1>9
<1>. QED
    BY <1>1, <1>10 DEF Served!Next, Served!Start, Served!BeginPass, Served!EndPass,
                       Served!Stop

(* MailFlow's workers are what the pool provides: one at a time in a slot, *)
(* idle or in a pass over its directory, and replaced only when gone.      *)
THEOREM SlotsServed == Spec => ServesSlots
<1>1. Init => Served!Init
    <2> SUFFICES ASSUME Init PROVE Served!Init
        OBVIOUS
    <2>1. \A i \in Slot : LiveIn(i) = {}
        BY DEF Init, LiveIn, Live, NoProc
    <2>2. \A i \in Slot : SlotState(i) = "down"
        BY <2>1 DEF SlotState
    <2>. QED
        BY <2>2 DEF Served!Init
<1>2. IInv /\ IInv' /\ [Next]_vars => [Served!Next]_([i \in Slot |-> SlotState(i)])
    BY SlotsStep
<1>. QED
    BY <1>1, <1>2, Inductive, PTL DEF Spec, ServesSlots, Served!Spec
=============================================================================
