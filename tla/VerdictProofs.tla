---------------------------- MODULE VerdictProofs ----------------------------
(***************************************************************************)
(* Proofs about Verdict, for any number of workers and messages, whatever  *)
(* the parser finds in them and whatever the limits and scores are.        *)
(*                                                                         *)
(* The inductive invariant:                                                *)
(*   TypeOK          the types;                                            *)
(*   Holding         the message of a busy worker is its own;              *)
(*   JobsJudged      what process_email has found so far, statement by     *)
(*                   statement (Judged, Known, Recorded);                  *)
(*   FatesJudged     the same of the messages disposed of;                 *)
(*   CountersSettle  rcvd exceeds the verdicts by at most the training     *)
(*                   requests no worker is still to count.                 *)
(***************************************************************************)
EXTENDS Verdict, CountingLemmas

Done == {"sent", "dropped"}

Holding ==
    \A w \in Worker :
        IF At(w, "idle")
          THEN job[w].m = None
          ELSE /\ job[w].m \in Message
               /\ fate[job[w].m].st \in IF At(w, "count") THEN Done ELSE {"taken"}

(* What the sdata j of a message f holds, by how far check_spam is.        *)
Judged(j, f) ==
    /\ f.infected /\ j.pc \notin {"idle", "attachments"}
         => j.malware \/ "malware" \in j.blind
    /\ j.pc \in {"minefield", "evaluate", "history"} \/ j.scored => ~Training(f)
    /\ j.pc \in {"minefield", "evaluate"} \/ (j.result = "discard" /\ ~Training(f))
         => ~f.mynetwork /\ (f.listed = "no" \/ "lists" \in j.blind)
    /\ j.scored => /\ j.pc \in {"history", "dispose", "count"}
                   /\ j.headers # {} =>
                        ("spam" \in j.headers <=> j.spaminess >= SpamLimit)
    /\ j.pc \in {"dispose", "count"} /\ Training(f) => j.result = "discard"

(* The trap that f or its client has hit is in the table, and was seen.    *)
Known(j, f) ==
    failures = 0 =>
        /\ j.armed => f.ip \in minefield
        /\ j.pc \notin {"idle", "attachments", "trap"} /\ Trapped(f)
             => f.ip \in minefield
        /\ (j.pc = "evaluate" \/ j.scored) /\ (j.armed \/ Trapped(f)) => j.trapped

Recorded(j) ==
    failures = 0 =>
        (j.pc \in {"dispose", "count"} /\ j.result = "ok" => history[j.m] # None)

JobsJudged ==
    \A w \in Worker : ~At(w, "idle") =>
        Judged(job[w], Of(w)) /\ Known(job[w], Of(w)) /\ Recorded(job[w])

FatesJudged ==
    \A m \in Message : fate[m].st \in Done =>
        /\ fate[m].job.pc = "dispose" /\ fate[m].job.m = m
        /\ fate[m].job.result = IF fate[m].st = "sent" THEN "ok" ELSE "discard"
        /\ fate[m].verdict = IF Training(mail[m]) THEN "none"
                                                  ELSE VerdictOf(fate[m].job)
        /\ Judged(fate[m].job, mail[m])
        /\ Known(fate[m].job, mail[m]) /\ Recorded(fate[m].job)

(* The training requests that have been counted, or never will be.         *)
Settled == {m \in Trainings :
              /\ fate[m].st \in Done
              /\ \A w \in Worker : At(w, "count") => job[w].m # m}

CountersSettle ==
    LET judged == counter["ham"] + counter["spam"] + counter["virus"]
    IN  /\ judged <= counter["rcvd"]
        /\ counter["rcvd"] - judged <= Cardinality(Settled)
        /\ counter["possible"] + counter["unsure"] <= counter["ham"]

IInv == TypeOK /\ Holding /\ JobsJudged /\ FatesJudged /\ CountersSettle

-----------------------------------------------------------------------------
(* The limits are naturals, and None is no message.                        *)
LEMMA Limits ==
    /\ SpamLimit \in Nat /\ Possible \in Nat /\ MaxHam \in Nat
    /\ MaxFailures \in Nat /\ MaxCrashes \in Nat
    /\ Scores \subseteq 0..100
    /\ IsFiniteSet(Message) /\ None \notin Message
    /\ 0 # None /\ 1 # None /\ 2 # None
BY ConstantsAssumption

(* The session data that init_session_data leaves is of its type.          *)
LEMMA NoJobType == NoJob \in Job
BY DEF NoJob, Job, Progress, Headers, Default

(* What the parser finds in a message is of its type.                      *)
LEMMA MailTypes ==
    ASSUME TypeOK, NEW m \in Message
    PROVE  mail[m] \in MailType
BY ConstantsAssumption DEF TypeOK, Mails

(* What check_spam has decided: as Returned, for the session data alone.   *)
Decided(j, f, s, H, r) ==
    [j EXCEPT !.pc = IF Training(f) THEN "dispose" ELSE "history",
              !.spaminess = s, !.headers = H, !.result = r]

(* What check_spam returns is well typed, and leaves the message alone.    *)
LEMMA DecidedType ==
    ASSUME NEW j \in Job, NEW f, NEW s \in 0..100, NEW H \in SUBSET Headers,
           NEW r \in {"ok", "discard"}
    PROVE  Decided(j, f, s, H, r) \in Job
<1> DEFINE pc == IF Training(f) THEN "dispose" ELSE "history"
           d == [j EXCEPT !.pc = pc, !.spaminess = s, !.headers = H, !.result = r]
<1>1. pc \in Progress
    BY DEF Progress
<1> HIDE DEF pc
<1>2. d \in Job
    BY <1>1, ZenonT(60) DEF Job
<1>. QED
    BY <1>2 DEF Decided, pc

(* What check_spam does not decide stays as it was.                        *)
LEMMA DecidedKeeps ==
    ASSUME NEW j \in Job, NEW f, NEW s, NEW H, NEW r
    PROVE  /\ Decided(j, f, s, H, r).m = j.m
           /\ Decided(j, f, s, H, r).pc \in {"dispose", "history"}
<1>1. Decided(j, f, s, H, r).m = j.m
    BY DEF Decided, Job
<1>2. Decided(j, f, s, H, r).pc = IF Training(f) THEN "dispose" ELSE "history"
    BY DEF Decided, Job
<1>. QED
    BY <1>1, <1>2

-----------------------------------------------------------------------------
(* A worker's step changes only its own session data.                      *)
LEMMA OthersStay ==
    ASSUME job \in [Worker -> Job], NEW w \in Worker, Step(w) \/ Crash(w)
    PROVE  \A v \in Worker \ {w} : job'[v] = job[v]
<1>1. CASE Train(w) \/ MyNetwork(w) \/ Listed(w)
    BY <1>1 DEF Train, MyNetwork, Listed, Returned, Goto
<1>2. CASE Evaluate(w)
    BY <1>2, ZenonT(60) DEF Evaluate, Returned
<1>3. CASE Dispose(w) \/ Count(w) \/ Crash(w) \/ WriteHistory(w)
    BY <1>3 DEF Dispose, Count, Crash, WriteHistory, Goto
<1>4. CASE Attachments(w) \/ Trap(w) \/ Minefield(w) \/ \E m \in Message : Start(w, m)
    BY <1>4, ZenonT(60) DEF Attachments, Trap, Minefield, Start
<1>. QED
    BY <1>1, <1>2, <1>3, <1>4 DEF Step

(* The parser's findings of the message in hand.                           *)
LEMMA MailInHand ==
    ASSUME TypeOK, Holding, NEW w \in Worker, ~At(w, "idle")
    PROVE  job[w].m \in Message /\ Of(w) \in MailType
BY MailTypes DEF Holding, Of

(* Assignments to the fields of sdata.                                     *)
LEMMA Assigned ==
    ASSUME NEW j \in Job
    PROVE  /\ \A p \in Progress : [j EXCEPT !.pc = p] \in Job
           /\ \A p \in Progress, b \in BOOLEAN :
                 [j EXCEPT !.pc = p, !.malware = b] \in Job
           /\ \A p \in Progress, b \in BOOLEAN :
                 [j EXCEPT !.pc = p, !.trapped = b] \in Job
           /\ \A p \in Progress, n \in 0..1 : [j EXCEPT !.pc = p, !.mine = n] \in Job
           /\ \A p \in Progress, x \in {"malware", "lists", "minefield"} :
                 [j EXCEPT !.pc = p, !.blind = @ \cup {x}] \in Job
           /\ \A b \in BOOLEAN : [j EXCEPT !.scored = b] \in Job
<1>1. \A p \in Progress : [j EXCEPT !.pc = p] \in Job
    BY DEF Job
<1>2. \A p \in Progress, b \in BOOLEAN : [j EXCEPT !.pc = p, !.malware = b] \in Job
    BY ZenonT(60) DEF Job
<1>3. \A p \in Progress, b \in BOOLEAN : [j EXCEPT !.pc = p, !.trapped = b] \in Job
    BY ZenonT(60) DEF Job
<1>4. \A p \in Progress, n \in 0..1 : [j EXCEPT !.pc = p, !.mine = n] \in Job
    BY ZenonT(60) DEF Job
<1>5. \A p \in Progress, x \in {"malware", "lists", "minefield"} :
         [j EXCEPT !.pc = p, !.blind = @ \cup {x}] \in Job
    BY ZenonT(60) DEF Job
<1>6. \A b \in BOOLEAN : [j EXCEPT !.scored = b] \in Job
    BY DEF Job
<1>. QED
    BY <1>1, <1>2, <1>3, <1>4, <1>5, <1>6, ZenonT(60)

(* Returned is the decision, for the worker at hand.                       *)
LEMMA ReturnedDecides ==
    ASSUME job \in [Worker -> Job], NEW w \in Worker, NEW s \in 0..100,
           NEW H \in SUBSET Headers, NEW r \in {"ok", "discard"}
    PROVE  /\ Returned(w, s, H, r) = [job EXCEPT ![w] = Decided(job[w], Of(w), s, H, r)]
           /\ Decided(job[w], Of(w), s, H, r) \in Job
           /\ Returned(w, s, H, r) \in [Worker -> Job]
           /\ Returned(w, s, H, r)[w] = Decided(job[w], Of(w), s, H, r)
<1>1. Returned(w, s, H, r) = [job EXCEPT ![w] = Decided(job[w], Of(w), s, H, r)]
    BY DEF Returned, Decided
<1>2. Decided(job[w], Of(w), s, H, r) \in Job
    BY DecidedType
<1>. QED
    BY <1>1, <1>2

(* Returned changes what check_spam decides, and no more.                  *)
LEMMA ReturnedKeeps ==
    ASSUME job \in [Worker -> Job], NEW w \in Worker, NEW s \in 0..100,
           NEW H \in SUBSET Headers, NEW r \in {"ok", "discard"},
           NEW x, x = Returned(w, s, H, r)[w]
    PROVE  /\ x.pc = IF Training(Of(w)) THEN "dispose" ELSE "history"
           /\ x.pc \in {"dispose", "history"}
           /\ x.headers = H /\ x.result = r /\ x.spaminess = s
           /\ x.m = job[w].m /\ x.malware = job[w].malware
           /\ x.trapped = job[w].trapped /\ x.scored = job[w].scored
           /\ x.blind = job[w].blind /\ x.armed = job[w].armed
<1>1. x = Decided(job[w], Of(w), s, H, r)
    BY ReturnedDecides, SMTT(30)
<1>2. job[w] \in Job
    OBVIOUS
<1>. QED
    BY <1>1, <1>2, SMTT(30) DEF Decided, Job

(* The values with which check_spam returns.                               *)
LEMMA Returns ==
    /\ Default \in 0..100 /\ 1 \in 0..100 /\ 99 \in 0..100
    /\ {"watermark"} \in SUBSET Headers
    /\ "ok" \in {"ok", "discard"} /\ "discard" \in {"ok", "discard"}
    /\ \A s \in Scores : /\ s \in 0..100
                         /\ (IF s >= SpamLimit THEN Headers ELSE Headers \ {"spam"})
                              \in SUBSET Headers
BY Limits DEF Default, Headers

(* The session data stays well typed.                                      *)
LEMMA JobType ==
    ASSUME TypeOK, Holding, NEW w \in Worker, Step(w) \/ Crash(w)
    PROVE  job' \in [Worker -> Job]
<1>0. job \in [Worker -> Job] /\ job[w] \in Job
    BY SMTT(30) DEF TypeOK
<1>1. ASSUME NEW s \in 0..100, NEW H \in SUBSET Headers, NEW r \in {"ok", "discard"}
      PROVE  Returned(w, s, H, r) \in [Worker -> Job]
    BY <1>0, ReturnedDecides, SMTT(30)
<1>2. ASSUME NEW m \in Message, Start(w, m) PROVE job' \in [Worker -> Job]
    <2>1. (mail[m].ip \in minefield) \in BOOLEAN
        OBVIOUS
    <2>2. [NoJob EXCEPT !.pc = "attachments", !.m = m,
                        !.armed = mail[m].ip \in minefield] \in Job
        BY <2>1, NoJobType, ZenonT(60) DEF Job, Progress
    <2>. QED
        BY <1>0, <1>2, <2>2 DEF Start
<1>3. CASE Attachments(w)
    <2>1. Of(w).infected \in BOOLEAN
        BY <1>3, MailInHand, SMTT(30) DEF MailType, Attachments, At
    <2>2. /\ [job[w] EXCEPT !.pc = "trap", !.malware = Of(w).infected] \in Job
          /\ [job[w] EXCEPT !.pc = "trap", !.blind = @ \cup {"malware"}] \in Job
        BY <1>0, <2>1, Assigned, ZenonT(60) DEF Progress
    <2>. QED
        BY <1>0, <1>3, <2>2 DEF Attachments
<1>4. CASE Trap(w)
    <2> DEFINE mine == IF Trapped(Of(w)) THEN 1 ELSE 0
    <2>1. mine \in 0..1
        OBVIOUS
    <2>2. job' = [job EXCEPT ![w].pc = "check", ![w].mine = mine]
        BY <1>4 DEF Trap
    <2> HIDE DEF mine
    <2>3. [job[w] EXCEPT !.pc = "check", !.mine = mine] \in Job
        BY <1>0, <2>1, Assigned, ZenonT(60) DEF Progress
    <2>. QED
        BY <1>0, <2>2, <2>3
<1>5. CASE Train(w)
    BY <1>1, <1>5, Returns, SMTT(30) DEF Train
<1>6. CASE MyNetwork(w)
    BY <1>1, <1>6, Returns, SMTT(30) DEF MyNetwork
<1>7. CASE Listed(w)
    <2>1. CASE job' = Returned(w, IF Of(w).listed = "white" THEN 1 ELSE 99,
                               {"watermark"}, "ok")
        <3>1. (IF Of(w).listed = "white" THEN 1 ELSE 99) \in 0..100
            BY SMTT(30)
        <3>. QED
            BY <1>1, <2>1, <3>1, Returns, SMTT(30)
    <2>2. /\ [job[w] EXCEPT !.pc = "minefield"] \in Job
          /\ [job[w] EXCEPT !.pc = "minefield", !.blind = @ \cup {"lists"}] \in Job
        BY <1>0, Assigned, ZenonT(60) DEF Progress
    <2>. QED
        BY <1>0, <1>7, <2>1, <2>2 DEF Listed, Goto
<1>8. CASE Minefield(w)
    <2>1. (Of(w).ip \in minefield) \in BOOLEAN
        OBVIOUS
    <2>2. /\ [job[w] EXCEPT !.pc = "evaluate", !.trapped = Of(w).ip \in minefield] \in Job
          /\ [job[w] EXCEPT !.pc = "evaluate", !.blind = @ \cup {"minefield"}] \in Job
        BY <1>0, <2>1, Assigned, ZenonT(60) DEF Progress
    <2>. QED
        BY <1>0, <1>8, <2>2, ZenonT(60) DEF Minefield
<1>9. CASE Evaluate(w)
    <2>1. CASE job' = Returned(w, 99, {"watermark"},
                               IF OnZombie = 1 THEN "ok" ELSE "discard")
        <3>1. (IF OnZombie = 1 THEN "ok" ELSE "discard") \in {"ok", "discard"}
            OBVIOUS
        <3>. QED
            BY <1>1, <2>1, <3>1, Returns, SMTT(30)
    <2>2. CASE job' = Returned(w, Default, {"watermark"}, "ok")
        BY <1>1, <2>2, Returns, SMTT(30)
    <2>3. ASSUME NEW s \in Scores,
                 job' = [Returned(w, s, IF s >= SpamLimit THEN Headers
                                        ELSE Headers \ {"spam"}, "ok")
                           EXCEPT ![w].scored = TRUE]
          PROVE  job' \in [Worker -> Job]
        <3> DEFINE H == IF s >= SpamLimit THEN Headers ELSE Headers \ {"spam"}
                   R == Returned(w, s, H, "ok")
        <3>1. H \in SUBSET Headers /\ s \in 0..100
            BY Returns
        <3> HIDE DEF H
        <3>2. R \in [Worker -> Job]
            BY <1>1, <3>1, SMTT(30)
        <3>3. job' = [R EXCEPT ![w].scored = TRUE]
            BY <2>3, SMTT(30) DEF H
        <3> HIDE DEF R
        <3>4. [R[w] EXCEPT !.scored = TRUE] \in Job
            BY <3>2, Assigned, ZenonT(60) DEF Progress
        <3>. QED
            BY <3>2, <3>3, <3>4
    <2>. QED
        BY <1>9, <2>1, <2>2, <2>3, SMTT(30) DEF Evaluate
<1>10. CASE WriteHistory(w) \/ Dispose(w)
    <2>1. /\ [job[w] EXCEPT !.pc = "dispose"] \in Job
          /\ [job[w] EXCEPT !.pc = "count"] \in Job
        BY <1>0, Assigned, ZenonT(60) DEF Progress
    <2>. QED
        BY <1>0, <1>10, <2>1, SMTT(30) DEF WriteHistory, Dispose, Goto
<1>11. CASE Count(w) \/ Crash(w)
    BY <1>0, <1>11, NoJobType DEF Count, Crash
<1>. QED
    BY <1>2, <1>3, <1>4, <1>5, <1>6, <1>7, <1>8, <1>9, <1>10, <1>11 DEF Step

(* Between taking a message up and letting it go, a worker keeps it.       *)
LEMMA MessageStays ==
    ASSUME TypeOK, NEW w \in Worker, Step(w) \/ Crash(w)
    PROVE  \/ \E m \in Message : Start(w, m)
           \/ job'[w] = NoJob
           \/ /\ job'[w].m = job[w].m /\ ~At(w, "idle")
              /\ job'[w].pc # "idle" /\ (job'[w].pc = "count" <=> Dispose(w))
<1>0. job \in [Worker -> Job] /\ job[w] \in Job
    BY DEF TypeOK
<1> DEFINE Goal == /\ job'[w].m = job[w].m /\ ~At(w, "idle")
                   /\ job'[w].pc # "idle" /\ (job'[w].pc = "count" <=> Dispose(w))
<1>1. CASE Attachments(w)
    BY <1>0, <1>1, SMTT(30) DEF Attachments, Dispose, At, Job
<1>2. CASE Trap(w) \/ Minefield(w)
    BY <1>0, <1>2 DEF Trap, Minefield, Dispose, At, Job
<1>3. CASE WriteHistory(w) \/ Dispose(w)
    BY <1>0, <1>3, SMTT(30) DEF WriteHistory, Dispose, Goto, At, Job
<1>4. ASSUME NEW s \in 0..100, NEW H \in SUBSET Headers, NEW r \in {"ok", "discard"}
      PROVE  /\ Returned(w, s, H, r)[w].m = job[w].m
             /\ Returned(w, s, H, r)[w].pc \in {"dispose", "history"}
    <2>1. Returned(w, s, H, r)[w] = Decided(job[w], Of(w), s, H, r)
        BY <1>0, ReturnedDecides, SMTT(30)
    <2>2. /\ Decided(job[w], Of(w), s, H, r).m = job[w].m
          /\ Decided(job[w], Of(w), s, H, r).pc \in {"dispose", "history"}
        BY <1>0, DecidedKeeps
    <2>. QED
        BY <2>1, <2>2, SMTT(30)
<1>r. ASSUME NEW s \in 0..100, NEW H \in SUBSET Headers, NEW r \in {"ok", "discard"},
             job' = Returned(w, s, H, r), job[w].pc \in {"check", "evaluate"}
      PROVE  Goal
    <2>1. job'[w].m = job[w].m /\ job'[w].pc \in {"dispose", "history"}
        BY <1>4, <1>r, ZenonT(60)
    <2>2. job[w].pc # "idle" /\ ~Dispose(w)
        BY <1>r, ZenonT(60) DEF Dispose, At
    <2>. QED
        BY <2>1, <2>2, ZenonT(60) DEF At
<1>5. CASE Train(w) \/ MyNetwork(w)
    <2>1. job[w].pc = "check"
        BY <1>5 DEF Train, MyNetwork, At
    <2>2. \E r \in {"ok", "discard"} : job' = Returned(w, Default, {"watermark"}, r)
        BY <1>5 DEF Train, MyNetwork
    <2>. QED
        BY <1>r, <2>1, <2>2, Returns, ZenonT(60)
<1>6. CASE Listed(w)
    <2>1. CASE job' = Returned(w, IF Of(w).listed = "white" THEN 1 ELSE 99,
                               {"watermark"}, "ok")
        <3>1. (IF Of(w).listed = "white" THEN 1 ELSE 99) \in 0..100
            OBVIOUS
        <3>. QED
            BY <1>6, <1>r, <2>1, <3>1, Returns, ZenonT(60) DEF Listed, At
    <2>2. CASE Goto(w, "minefield")
        BY <1>0, <1>6, <2>2 DEF Listed, Dispose, At, Goto, Job
    <2>3. CASE job' = [job EXCEPT ![w].pc = "minefield", ![w].blind = @ \cup {"lists"}]
        BY <1>0, <1>6, <2>3 DEF Listed, Dispose, At, Job
    <2>. QED
        BY <1>6, <2>1, <2>2, <2>3 DEF Listed
<1>7. CASE Evaluate(w)
    <2>0. job[w].pc = "evaluate"
        BY <1>7 DEF Evaluate, At
    <2>1. CASE job' = Returned(w, 99, {"watermark"},
                               IF OnZombie = 1 THEN "ok" ELSE "discard")
        <3>1. (IF OnZombie = 1 THEN "ok" ELSE "discard") \in {"ok", "discard"}
            BY SMTT(30)
        <3>. QED
            BY <1>r, <2>0, <2>1, <3>1, Returns, ZenonT(60)
    <2>2. CASE job' = Returned(w, Default, {"watermark"}, "ok")
        BY <1>r, <2>0, <2>2, Returns, ZenonT(60)
    <2>3. ASSUME NEW s \in Scores,
                 job' = [Returned(w, s, IF s >= SpamLimit THEN Headers
                                        ELSE Headers \ {"spam"}, "ok")
                           EXCEPT ![w].scored = TRUE]
          PROVE  Goal
        <3> DEFINE H == IF s >= SpamLimit THEN Headers ELSE Headers \ {"spam"}
                   R == Returned(w, s, H, "ok")
        <3>1. H \in SUBSET Headers /\ s \in 0..100
            BY Returns
        <3>2. job' = [R EXCEPT ![w].scored = TRUE]
            BY <2>3
        <3> HIDE DEF H
        <3>3. R[w].m = job[w].m /\ R[w].pc \in {"dispose", "history"}
            BY <1>4, <3>1, SMTT(60)
        <3>4. R \in [Worker -> Job]
            BY <1>0, <3>1, ReturnedDecides, SMTT(60)
        <3> HIDE DEF R
        <3>. QED
            BY <2>0, <3>2, <3>3, <3>4, SMTT(60) DEF Dispose, At, Job
    <2>. QED
        BY <1>7, <2>1, <2>2, <2>3, ZenonT(60) DEF Evaluate
<1>8. CASE Count(w) \/ Crash(w)
    BY <1>0, <1>8 DEF Count, Crash
<1>. QED
    BY <1>1, <1>2, <1>3, <1>5, <1>6, <1>7, <1>8 DEF Step

-----------------------------------------------------------------------------
(* The types, and who holds what, hold initially.                          *)
LEMMA TypeInit == Init => TypeOK /\ Holding
<1> SUFFICES ASSUME Init PROVE TypeOK /\ Holding
    OBVIOUS
<1>1. job \in [Worker -> Job]
    BY NoJobType DEF Init
<1>2. fate \in [Message -> [st : {"queued", "taken", "sent", "dropped"},
                            verdict : Verdicts \cup {"none"}, job : Job]]
    BY NoJobType DEF Init, Untouched
<1>3. /\ minefield \subseteq Ip
      /\ history \in [Message -> 0..2 \cup {None}]
      /\ counter \in Counter
      /\ learnt \subseteq {"nham", "nspam"} \X Message
      /\ failures \in 0..MaxFailures /\ crashes \in 0..MaxCrashes
      /\ mail \in Mails
    BY Limits DEF Init, Counter
<1>4. \A w \in Worker : At(w, "idle") /\ job[w].m = None
    BY DEF Init, At, NoJob
<1>. QED
    BY <1>1, <1>2, <1>3, <1>4 DEF TypeOK, Holding

(* What became of a message is well typed.                                 *)
LEMMA FateType ==
    ASSUME TypeOK, Holding, NEW w \in Worker, Step(w) \/ Crash(w)
    PROVE  fate' \in [Message -> [st : {"queued", "taken", "sent", "dropped"},
                                  verdict : Verdicts \cup {"none"}, job : Job]]
<1> DEFINE Fate == [st : {"queued", "taken", "sent", "dropped"},
                    verdict : Verdicts \cup {"none"}, job : Job]
<1>0. fate \in [Message -> Fate]
    BY DEF TypeOK
<1>1. CASE UNCHANGED fate
    BY <1>0, <1>1
<1>2. ASSUME NEW m \in Message, Start(w, m) PROVE fate' \in [Message -> Fate]
    BY <1>0, <1>2 DEF Start
<1>3. CASE Dispose(w)
    <2>1. job[w] \in Job /\ job[w].m \in Message /\ job[w].headers \in SUBSET Headers
        BY <1>3, MailInHand DEF Dispose, At, TypeOK, Job
    <2> DEFINE verdict == IF Training(Of(w)) THEN "none" ELSE VerdictOf(job[w])
    <2>2. verdict \in Verdicts \cup {"none"}
        BY DEF VerdictOf, Verdicts
    <2>3. ASSUME NEW H \in SUBSET Headers
          PROVE  [job[w] EXCEPT !.headers = H] \in Job
        BY <2>1 DEF Job
    <2>4. PICK st \in {"sent", "dropped"}, H \in SUBSET Headers :
             fate' = [fate EXCEPT ![job[w].m] =
                        [st |-> st, verdict |-> verdict,
                         job |-> [job[w] EXCEPT !.headers = H]]]
        BY <1>3, <2>1 DEF Dispose
    <2> HIDE DEF verdict
    <2>. QED
        BY <1>0, <2>1, <2>2, <2>3, <2>4
<1>4. UNCHANGED fate \/ Dispose(w) \/ \E m \in Message : Start(w, m)
    BY DEF Step, Attachments, Trap, Train, MyNetwork, Listed, Minefield, Evaluate,
           WriteHistory, Count, Crash
<1>. QED
    BY <1>1, <1>2, <1>3, <1>4

(* What one message adds to the counters.                                  *)
LEMMA CountedType ==
    ASSUME NEW j \in Job, NEW training \in BOOLEAN
    PROVE  /\ DOMAIN Counted(j, training) = {"rcvd"} \cup Kinds
           /\ \A k \in {"rcvd"} \cup Kinds : Counted(j, training)[k] \in 0..1
           /\ Counted(j, training)["rcvd"] = 1
           /\ LET a == Counted(j, training)
              IN  /\ a["ham"] + a["spam"] + a["virus"] = IF training THEN 0 ELSE 1
                  /\ a["possible"] + a["unsure"] <= a["ham"]
<1> DEFINE a == Counted(j, training)
<1>0. j.spaminess \in Nat /\ Possible \in Nat /\ MaxHam \in Nat /\ j.mine \in 0..1
    BY Limits DEF Job
<1>1. DOMAIN a = {"rcvd"} \cup Kinds
    BY DEF Counted
<1>2. /\ a["rcvd"] = 1 /\ a["minefield"] = j.mine /\ a["mynetwork"] = 0
      /\ a["ham"] = IF ~training /\ VerdictOf(j) = "ham" THEN 1 ELSE 0
      /\ a["spam"] = IF ~training /\ VerdictOf(j) = "spam" THEN 1 ELSE 0
      /\ a["virus"] = IF ~training /\ VerdictOf(j) = "virus" THEN 1 ELSE 0
      /\ a["possible"] = IF ~training /\ VerdictOf(j) = "ham" /\ j.spaminess > Possible
                           THEN 1 ELSE 0
      /\ a["unsure"] = IF ~training /\ VerdictOf(j) = "ham" /\ j.spaminess < Possible
                           /\ j.spaminess > MaxHam THEN 1 ELSE 0
    BY DEF Counted, Kinds, Verdicts
<1>3. VerdictOf(j) \in {"ham", "spam", "virus"}
    BY DEF VerdictOf
<1> HIDE DEF a
<1>4. \A k \in {"rcvd"} \cup Kinds : a[k] \in 0..1
    BY <1>0, <1>2 DEF Kinds, Verdicts
<1>5. a["ham"] + a["spam"] + a["virus"] = IF training THEN 0 ELSE 1
    BY <1>2, <1>3
<1>6. a["possible"] + a["unsure"] <= a["ham"]
    BY <1>0, <1>2
<1>. QED
    BY <1>1, <1>2, <1>4, <1>5, <1>6 DEF a

(* The counters stay well typed.                                           *)
LEMMA CounterType ==
    ASSUME TypeOK, NEW w \in Worker, Step(w) \/ Crash(w)
    PROVE  counter' \in Counter
<1>1. counter \in Counter /\ job[w] \in Job /\ Training(Of(w)) \in BOOLEAN
    BY DEF TypeOK, Training
<1>2. CASE UNCHANGED counter
    BY <1>1, <1>2
<1>3. CASE Count(w)
    <2> DEFINE add == Counted(job[w], Training(Of(w)))
    <2>1. \A k \in {"rcvd"} \cup Kinds : add[k] \in Nat
        BY <1>1, CountedType
    <2>2. \/ UNCHANGED counter
          \/ counter' = [k \in DOMAIN counter |-> counter[k] + add[k]]
        BY <1>3 DEF Count
    <2> HIDE DEF add
    <2>3. /\ DOMAIN counter = {"rcvd"} \cup Kinds
          /\ \A k \in {"rcvd"} \cup Kinds : counter[k] \in Nat
        BY <1>1 DEF Counter
    <2>4. \A k \in {"rcvd"} \cup Kinds : counter[k] + add[k] \in Nat
        BY <2>1, <2>3
    <2>. QED
        BY <1>1, <2>2, <2>3, <2>4 DEF Counter
<1>4. UNCHANGED counter \/ Count(w)
    BY ZenonT(60)
       DEF Step, Start, Attachments, Trap, Train, MyNetwork, Listed, Minefield,
           Evaluate, WriteHistory, Dispose, Crash
<1>. QED
    BY <1>2, <1>3, <1>4

(* What a step leaves of the messages workers hold: each is still held by  *)
(* one worker only, which has not let go of it.                            *)
LEMMA HoldingStep ==
    ASSUME TypeOK, Holding, NEW w \in Worker, Step(w) \/ Crash(w)
    PROVE  /\ Holding'
           /\ \A v, u \in Worker : v # u /\ ~At(v, "idle")' => job'[v].m # job'[u].m
<1>0. /\ job \in [Worker -> Job] /\ job' \in [Worker -> Job]
      /\ \A v \in Worker \ {w} : job'[v] = job[v]
      /\ None \notin Message
    BY JobType, OthersStay, Limits DEF TypeOK
<1>1. \A v, u \in Worker : v # u /\ ~At(v, "idle") => job[v].m # job[u].m
    BY DEF TypeOK
<1>2. \A v \in Worker : At(v, "idle") => job[v].m = None
    BY DEF Holding
<1>3. \A v \in Worker : ~At(v, "idle") => job[v].m \in Message
    BY DEF Holding
<1>4. ASSUME NEW m \in Message, Start(w, m)
      PROVE  /\ job'[w].m = m /\ job'[w].pc = "attachments" /\ At(w, "idle")
             /\ fate' = [fate EXCEPT ![m].st = "taken"]
             /\ \A v \in Worker : job[v].m # m
    <2>1. job'[w].m = m /\ job'[w].pc = "attachments" /\ At(w, "idle")
        BY <1>0, <1>4 DEF Start, NoJob
    <2>2. fate[m].st = "queued" /\ fate' = [fate EXCEPT ![m].st = "taken"]
        BY <1>4 DEF Start
    <2>3. ASSUME NEW v \in Worker PROVE job[v].m # m
        BY <1>0, <1>2, <2>2 DEF Holding, Done
    <2>. QED
        BY <2>1, <2>2, <2>3
<1>5. \A v, u \in Worker : v # u /\ ~At(v, "idle")' => job'[v].m # job'[u].m
    <2>1. ASSUME NEW m \in Message, Start(w, m), NEW v \in Worker, NEW u \in Worker,
                 v # u, ~At(v, "idle")'
          PROVE  job'[v].m # job'[u].m
        BY <1>0, <1>1, <1>4, <2>1 DEF At
    <2>2. ASSUME job'[w] = NoJob, NEW v \in Worker, NEW u \in Worker,
                 v # u, ~At(v, "idle")'
          PROVE  job'[v].m # job'[u].m
        BY <1>0, <1>1, <1>3, <2>2 DEF At, NoJob
    <2>3. ASSUME job'[w].m = job[w].m, ~At(w, "idle"), NEW v \in Worker,
                 NEW u \in Worker, v # u, ~At(v, "idle")'
          PROVE  job'[v].m # job'[u].m
        BY <1>0, <1>1, <2>3 DEF At
    <2>. QED
        BY <2>1, <2>2, <2>3, MessageStays
<1>6. ASSUME NEW v \in Worker
      PROVE  IF At(v, "idle")'
               THEN job'[v].m = None
               ELSE /\ job'[v].m \in Message
                    /\ fate'[job'[v].m].st \in IF At(v, "count")' THEN Done ELSE {"taken"}
    <2> DEFINE Fate == [st : {"queued", "taken", "sent", "dropped"},
                        verdict : Verdicts \cup {"none"}, job : Job]
    <2>0. fate \in [Message -> Fate]
        BY DEF TypeOK
    <2>1. ASSUME NEW m \in Message, Start(w, m), v = w
          PROVE  /\ ~At(v, "idle")' /\ ~At(v, "count")' /\ job'[v].m \in Message
                 /\ fate'[job'[v].m].st = "taken"
        BY <1>4, <2>0, <2>1 DEF At
    <2>2. ASSUME v # w, ~At(v, "idle")
          PROVE  fate'[job[v].m].st = fate[job[v].m].st
        <3>1. ASSUME NEW m \in Message, Start(w, m)
              PROVE  fate'[job[v].m].st = fate[job[v].m].st
            BY <1>3, <1>4, <2>0, <2>2, <3>1
        <3>2. CASE Dispose(w)
            <4>1. ~At(w, "idle") /\ job[w].m \in Message
                BY <1>3, <3>2 DEF Dispose, At
            <4>2. \A m \in Message \ {job[w].m} : fate'[m] = fate[m]
                BY <2>0, <3>2, <4>1 DEF Dispose
            <4>. QED
                BY <1>1, <1>3, <2>2, <4>1, <4>2
        <3>3. CASE UNCHANGED fate
            BY <3>3
        <3>4. UNCHANGED fate \/ Dispose(w) \/ \E m \in Message : Start(w, m)
            BY DEF Step, Attachments, Trap, Train, MyNetwork, Listed, Minefield,
                   Evaluate, WriteHistory, Count, Crash
        <3>. QED
            BY <3>1, <3>2, <3>3, <3>4
    <2>3. CASE v # w
        BY <1>0, <2>2, <2>3 DEF Holding, At
    <2>4. CASE v = w /\ job'[w] = NoJob
        BY <2>4 DEF At, NoJob
    <2>5. CASE v = w /\ Dispose(w)
        <3>1. ~At(w, "idle") /\ job[w].m \in Message
            BY <1>3, <2>5 DEF Dispose, At
        <3>2. job'[w].m = job[w].m /\ job'[w].pc = "count"
            BY <1>0, <2>5 DEF Dispose, Goto, Job
        <3>3. fate'[job[w].m].st \in Done
            BY <2>0, <2>5, <3>1 DEF Dispose, Done
        <3>. QED
            BY <2>5, <3>1, <3>2, <3>3 DEF At
    <2>6. ASSUME v = w, ~Dispose(w), job'[w].m = job[w].m, ~At(w, "idle"),
                 job'[w].pc \notin {"idle", "count"}
          PROVE  /\ ~At(v, "idle")' /\ ~At(v, "count")' /\ job'[v].m \in Message
                 /\ fate'[job'[v].m].st = "taken"
        <3>1. ~Count(w) /\ ~Crash(w) /\ \A m \in Message : ~Start(w, m)
            <4>1. ~Count(w) /\ ~Crash(w)
                BY <1>0, <2>6 DEF Count, Crash, NoJob
            <4>2. \A m \in Message : ~Start(w, m)
                BY <2>6 DEF Start
            <4>. QED
                BY <4>1, <4>2
        <3>2. UNCHANGED fate
            BY <2>6, <3>1 DEF Step, Attachments, Trap, Train, MyNetwork, Listed,
                   Minefield, Evaluate, WriteHistory
        <3>3. ~At(w, "count")
            BY <2>6, <3>1 DEF Step, Attachments, Trap, Train, MyNetwork, Listed,
                   Minefield, Evaluate, WriteHistory, At
        <3>. QED
            BY <1>3, <2>6, <3>2, <3>3 DEF Holding, At
    <2>. QED
        BY <2>1, <2>3, <2>4, <2>5, <2>6, MessageStays
<1>7. Holding'
    BY <1>6 DEF Holding
<1>. QED
    BY <1>5, <1>7

(* Each statement keeps the types.                                         *)
LEMMA TypeStep ==
    ASSUME TypeOK, Holding, NEW w \in Worker, Step(w) \/ Crash(w)
    PROVE  TypeOK'
<1>1. mail' = mail
    BY ZenonT(60)
       DEF Step, Start, Attachments, Trap, Train, MyNetwork, Listed, Minefield,
           Evaluate, WriteHistory, Dispose, Count, Crash
<1>2. minefield' \subseteq Ip
    <2>1. CASE Trap(w)
        <3>1. Of(w).ip \in Ip
            BY <2>1, MailInHand, SMTT(30) DEF Trap, At, MailType
        <3>. QED
            BY <2>1, <3>1 DEF Trap, TypeOK
    <2>2. UNCHANGED minefield \/ Trap(w)
        BY ZenonT(60) DEF Step, Start, Attachments, Train, MyNetwork, Listed, Minefield,
               Evaluate, WriteHistory, Dispose, Count, Crash
    <2>. QED
        BY <2>1, <2>2 DEF TypeOK
<1>3. history' \in [Message -> 0..2 \cup {None}]
    <2>1. CASE WriteHistory(w)
        <3>1. history' \in {history, [history EXCEPT ![job[w].m] = 0]}
            BY <2>1, SMTT(30) DEF WriteHistory, Status
        <3>. QED
            BY <3>1 DEF TypeOK
    <2>2. UNCHANGED history \/ WriteHistory(w)
        BY ZenonT(60)
           DEF Step, Start, Attachments, Trap, Train, MyNetwork, Listed, Minefield,
               Evaluate, Dispose, Count, Crash
    <2>. QED
        BY <2>1, <2>2 DEF TypeOK
<1>4. learnt' \subseteq {"nham", "nspam"} \X Message
    <2>1. CASE Train(w)
        <3>1. job[w].m \in Message
            BY <2>1, MailInHand, SMTT(30) DEF Train, At
        <3>. QED
            BY <2>1, <3>1 DEF Train, TypeOK
    <2>2. UNCHANGED learnt \/ Train(w)
        BY ZenonT(60) DEF Step, Start, Attachments, Trap, MyNetwork, Listed, Minefield,
               Evaluate, WriteHistory, Dispose, Count, Crash
    <2>. QED
        BY <2>1, <2>2 DEF TypeOK
<1>5. failures' \in 0..MaxFailures /\ crashes' \in 0..MaxCrashes
    <2>1. UNCHANGED failures \/ Fails
        BY ZenonT(60)
            DEF Step, Start, Attachments, Trap, Train, MyNetwork, Listed, Minefield,
               Evaluate, WriteHistory, Dispose, Count, Crash
    <2>2. UNCHANGED crashes \/ Crash(w)
        BY ZenonT(60)
           DEF Step, Start, Attachments, Trap, Train, MyNetwork, Listed, Minefield,
               Evaluate, WriteHistory, Dispose, Count
    <2>. QED
        BY <2>1, <2>2, Limits, SMTT(30) DEF TypeOK, Fails, Crash
<1>. QED
    BY <1>1, <1>2, <1>3, <1>4, <1>5, JobType, FateType, CounterType, HoldingStep,
       SMTT(30) DEF TypeOK

-----------------------------------------------------------------------------
(* Nothing is taken out of the tables, and a failure is never forgotten.   *)
LEMMA TablesGrow ==
    ASSUME TypeOK, Holding, NEW w \in Worker, Step(w) \/ Crash(w)
    PROVE  /\ mail' = mail
           /\ failures' = 0 => failures = 0
           /\ minefield \subseteq minefield'
           /\ \A m \in Message : history[m] # None => history'[m] # None
<1>1. mail' = mail
    BY ZenonT(60)
       DEF Step, Start, Attachments, Trap, Train, MyNetwork, Listed, Minefield,
           Evaluate, WriteHistory, Dispose, Count, Crash
<1>2. failures' = 0 => failures = 0
    <2>1. UNCHANGED failures \/ Fails
        BY DEF Step, Start, Attachments, Trap, Train, MyNetwork, Listed, Minefield,
               Evaluate, WriteHistory, Dispose, Count, Crash
    <2>. QED
        BY <2>1, Limits DEF Fails, TypeOK
<1>3. minefield \subseteq minefield'
    <2>1. UNCHANGED minefield \/ Trap(w)
        BY ZenonT(60) DEF Step, Start, Attachments, Train, MyNetwork, Listed, Minefield,
               Evaluate, WriteHistory, Dispose, Count, Crash
    <2>. QED
        BY <2>1 DEF Trap
<1>4. \A m \in Message : history[m] # None => history'[m] # None
    <2>1. UNCHANGED history \/ WriteHistory(w)
        BY ZenonT(60)
           DEF Step, Start, Attachments, Trap, Train, MyNetwork, Listed, Minefield,
               Evaluate, Dispose, Count, Crash
    <2>. QED
        BY <2>1, Limits DEF WriteHistory, TypeOK, Status
<1>. QED
    BY <1>1, <1>2, <1>3, <1>4

(* What a worker finds out in a step, but for Dispose, is true of the      *)
(* message in its hands: check_spam in the order of its tests.             *)
LEMMA JudgedStep ==
    ASSUME TypeOK, Holding, JobsJudged, NEW w \in Worker, Step(w) \/ Crash(w),
           ~At(w, "idle")'
    PROVE  Judged(job'[w], mail[job'[w].m])
<1> DEFINE k == job'[w]
           j == job[w]
           f == Of(w)
<1>0. job \in [Worker -> Job] /\ j \in Job
    BY DEF TypeOK
<1>1. CASE \E m \in Message : Start(w, m)
    <2>1. PICK m \in Message : Start(w, m)
        BY <1>1
    <2>2. /\ k.pc = "attachments" /\ k.m = m /\ k.scored = FALSE /\ k.result = "ok"
        BY <1>0, <2>1 DEF Start, NoJob
    <2> HIDE DEF k
    <2>. QED
        BY <2>2 DEF Judged, k
<1>2. ASSUME ~At(w, "idle")
      PROVE  Judged(j, f) /\ j.m \in Message /\ f \in MailType
    BY <1>2, MailInHand DEF JobsJudged
<1>3. CASE Attachments(w)
    <2>1. /\ k.pc = "trap" /\ k.m = j.m /\ k.scored = j.scored /\ k.result = j.result
          /\ k.malware = f.infected \/ "malware" \in k.blind
          /\ j.blind \subseteq k.blind /\ j.pc = "attachments"
        BY <1>0, <1>3 DEF Attachments, Job, At
    <2>2. Judged(j, f)
        BY <1>2, <2>1 DEF At
    <2>3. f.infected \in BOOLEAN
        BY <1>2, <2>1 DEF At, MailType
    <2> HIDE DEF k, j, f
    <2>4. Judged(k, f)
        BY <2>1, <2>2, <2>3 DEF Judged
    <2>. QED
        BY <2>1, <2>4 DEF k, j, f, Of
<1>4. CASE Trap(w)
    <2>1. /\ k.pc = "check" /\ k.m = j.m /\ k.scored = j.scored /\ k.result = j.result
          /\ k.malware = j.malware /\ k.blind = j.blind /\ j.pc = "trap"
        BY <1>0, <1>4 DEF Trap, Job, At
    <2>2. Judged(j, f)
        BY <1>2, <2>1 DEF At
    <2> HIDE DEF k, j, f
    <2>3. Judged(k, f)
        BY <2>1, <2>2 DEF Judged
    <2>. QED
        BY <2>1, <2>3 DEF k, j, f, Of
<1>5. CASE Minefield(w)
    <2>1. /\ k.pc = "evaluate" /\ k.m = j.m /\ k.scored = j.scored /\ k.result = j.result
          /\ k.malware = j.malware /\ j.blind \subseteq k.blind /\ j.pc = "minefield"
        BY <1>0, <1>5 DEF Minefield, Job, At
    <2>2. Judged(j, f)
        BY <1>2, <2>1 DEF At
    <2> HIDE DEF k, j, f
    <2>3. Judged(k, f)
        BY <2>1, <2>2 DEF Judged
    <2>. QED
        BY <2>1, <2>3 DEF k, j, f, Of
<1>6. CASE WriteHistory(w) \/ Dispose(w)
    <2>1. /\ k.pc \in {"dispose", "count"} /\ k.m = j.m /\ k.scored = j.scored
          /\ k.result = j.result /\ k.malware = j.malware /\ k.blind = j.blind
          /\ k.headers = j.headers /\ k.spaminess = j.spaminess
          /\ j.pc \in {"history", "dispose"}
          /\ k.pc = "dispose" => j.pc = "history"
          /\ k.pc = "count" => j.pc = "dispose"
        BY <1>0, <1>6 DEF WriteHistory, Dispose, Goto, Job, At
    <2>2. Judged(j, f)
        BY <1>2, <2>1 DEF At
    <2> HIDE DEF k, j, f
    <2>3. Judged(k, f)
        BY <2>1, <2>2 DEF Judged
    <2>. QED
        BY <2>1, <2>3 DEF k, j, f, Of
<1>7. ASSUME NEW s \in 0..100, NEW H \in SUBSET Headers, NEW r \in {"ok", "discard"},
             job' = Returned(w, s, H, r), Judged(j, f),
             j.pc \in {"check", "minefield", "evaluate"},
             r = "ok" \/ Training(f) \/ j.pc = "evaluate",
             Training(f) => r = "discard"
      PROVE  Judged(k, mail[k.m])
    <2>0. k = Decided(j, f, s, H, r)
        BY <1>0, <1>7, ReturnedDecides, SMTT(30)
    <2> HIDE DEF k, j, f
    <2>1. /\ k.pc = IF Training(f) THEN "dispose" ELSE "history"
          /\ k.headers = H /\ k.result = r /\ k.spaminess = s /\ k.m = j.m
          /\ k.malware = j.malware /\ k.scored = j.scored /\ k.blind = j.blind
        BY <1>0, <2>0 DEF Decided, Job
    <2>2. Judged(k, f)
        BY <1>7, <2>1 DEF Judged
    <2>. QED
        BY <2>1, <2>2, SMTT(30) DEF k, j, f, Of
<1>8. CASE Train(w)
    <2>1. Judged(j, f) /\ j.pc = "check" /\ Training(f)
        BY <1>2, <1>8, SMTT(30) DEF Train, At
    <2>. QED
        BY <1>7, <1>8, <2>1, Returns, SMTT(30) DEF Train
<1>9. CASE MyNetwork(w)
    <2>1. Judged(j, f) /\ j.pc = "check" /\ ~Training(f)
        BY <1>2, <1>9 DEF MyNetwork, At
    <2>. QED
        BY <1>7, <1>9, <2>1, Returns DEF MyNetwork
<1>10. CASE Listed(w)
    <2>1. Judged(j, f) /\ j.pc = "check" /\ ~Training(f) /\ ~f.mynetwork
        BY <1>2, <1>10, SMTT(30) DEF Listed, At
    <2>2. CASE job' = Returned(w, IF Of(w).listed = "white" THEN 1 ELSE 99,
                               {"watermark"}, "ok")
        <3>1. (IF Of(w).listed = "white" THEN 1 ELSE 99) \in 0..100
            OBVIOUS
        <3>. QED
            BY <1>7, <2>1, <2>2, <3>1, Returns, ZenonT(60)
    <2>3. ASSUME k.pc = "minefield", k.m = j.m, k.scored = j.scored,
                 k.result = j.result, k.malware = j.malware, j.blind \subseteq k.blind,
                 f.listed = "no" \/ "lists" \in k.blind
          PROVE  Judged(k, mail[k.m])
        <3> HIDE DEF k, j, f
        <3>1. Judged(k, f)
            BY <2>1, <2>3 DEF Judged
        <3>. QED
            BY <2>3, <3>1 DEF k, j, f, Of
    <2>4. CASE f.listed = "no" /\ Goto(w, "minefield")
        BY <1>0, <2>3, <2>4 DEF Goto, Job
    <2>5. CASE job' = [job EXCEPT ![w].pc = "minefield", ![w].blind = @ \cup {"lists"}]
        BY <1>0, <2>3, <2>5 DEF Job
    <2>. QED
        BY <1>10, <2>2, <2>4, <2>5 DEF Listed
<1>11. CASE Evaluate(w)
    <2>1. Judged(j, f) /\ j.pc = "evaluate" /\ ~Training(f)
        BY <1>2, <1>11 DEF Evaluate, At, Judged
    <2>2. CASE job' = Returned(w, 99, {"watermark"},
                               IF OnZombie = 1 THEN "ok" ELSE "discard")
        <3>1. (IF OnZombie = 1 THEN "ok" ELSE "discard") \in {"ok", "discard"}
            BY SMTT(30)
        <3>. QED
            BY <1>7, <2>1, <2>2, <3>1, Returns
    <2>3. CASE job' = Returned(w, Default, {"watermark"}, "ok")
        BY <1>7, <2>1, <2>3, Returns
    <2>4. ASSUME NEW s \in Scores,
                 job' = [Returned(w, s, IF s >= SpamLimit THEN Headers
                                        ELSE Headers \ {"spam"}, "ok")
                           EXCEPT ![w].scored = TRUE]
          PROVE  Judged(k, mail[k.m])
        <3> DEFINE H == IF s >= SpamLimit THEN Headers ELSE Headers \ {"spam"}
                   R == Returned(w, s, H, "ok")
        <3>1. /\ H \in SUBSET Headers /\ s \in 0..100
              /\ "spam" \in H <=> s >= SpamLimit
            BY Returns DEF Headers
        <3>2. job' = [R EXCEPT ![w].scored = TRUE]
            BY <2>4, SMTT(30)
        <3> HIDE DEF H
        <3> DEFINE q == R[w]
        <3>a. R \in [Worker -> Job]
            BY <1>0, <3>1, ReturnedDecides, SMTT(30)
        <3>b. q = Decided(j, f, s, H, "ok")
            BY <1>0, <3>1, ReturnedDecides, SMTT(30)
        <3> HIDE DEF q, j, f
        <3>c. /\ q.pc = IF Training(f) THEN "dispose" ELSE "history"
              /\ q.headers = H /\ q.result = "ok" /\ q.spaminess = s
              /\ q.m = j.m /\ q.malware = j.malware /\ q.blind = j.blind
            BY <1>0, <3>b DEF Decided, Job
        <3> HIDE DEF R
        <3>3. /\ R \in [Worker -> Job]
              /\ R[w].pc = IF Training(f) THEN "dispose" ELSE "history"
              /\ R[w].headers = H /\ R[w].result = "ok" /\ R[w].spaminess = s
              /\ R[w].m = j.m /\ R[w].malware = j.malware /\ R[w].blind = j.blind
            BY <3>a, <3>c DEF q
        <3>4. /\ k.pc = IF Training(f) THEN "dispose" ELSE "history"
              /\ k.headers = H /\ k.result = "ok" /\ k.spaminess = s
              /\ k.m = j.m /\ k.malware = j.malware /\ k.blind = j.blind
            BY <3>2, <3>3 DEF Job
        <3> HIDE DEF k, j, f
        <3>5. Judged(k, f)
            BY <2>1, <3>1, <3>4 DEF Judged
        <3>. QED
            BY <3>4, <3>5 DEF k, j, f, Of
    <2>. QED
        BY <1>11, <2>2, <2>3, <2>4, SMTT(30) DEF Evaluate
<1>12. CASE Count(w) \/ Crash(w)
    BY <1>0, <1>12 DEF Count, Crash, At, NoJob
<1>. QED
    BY <1>1, <1>3, <1>4, <1>5, <1>6, <1>8, <1>9, <1>10, <1>11, <1>12 DEF Step

(* What a step of a worker leaves of its session data.                     *)
LEMMA SessionKeeps ==
    ASSUME TypeOK, NEW w \in Worker, Step(w), ~\E m \in Message : Start(w, m),
           ~Count(w)
    PROVE  /\ ~At(w, "idle") /\ job'[w].m = job[w].m
           /\ job'[w].armed = job[w].armed
           /\ job'[w].trapped = job[w].trapped \/ Minefield(w)
           /\ job'[w].scored = job[w].scored \/ Evaluate(w)
           /\ job'[w].pc \in {"idle", "attachments", "trap"} => Attachments(w)
           /\ job[w].pc \in {"attachments", "trap"} => Attachments(w) \/ Trap(w)
           /\ job'[w].pc = "evaluate" => Minefield(w)
           /\ job'[w].pc = "dispose" => WriteHistory(w) \/ Training(Of(w))
           /\ job'[w].pc = "count" => Dispose(w) /\ job'[w].result = job[w].result
           /\ ~Evaluate(w) => job'[w].scored = job[w].scored
<1> DEFINE k == job'[w]
           j == job[w]
           f == Of(w)
<1>0. job \in [Worker -> Job] /\ j \in Job
    BY DEF TypeOK
<1> DEFINE Goal == /\ ~At(w, "idle") /\ k.m = j.m
                   /\ k.armed = j.armed
                   /\ k.trapped = j.trapped \/ Minefield(w)
                   /\ k.scored = j.scored \/ Evaluate(w)
                   /\ k.pc \in {"idle", "attachments", "trap"} => Attachments(w)
                   /\ j.pc \in {"attachments", "trap"} => Attachments(w) \/ Trap(w)
                   /\ k.pc = "evaluate" => Minefield(w)
                   /\ k.pc = "dispose" => WriteHistory(w) \/ Training(Of(w))
                   /\ k.pc = "count" => Dispose(w) /\ k.result = j.result
                   /\ ~Evaluate(w) => k.scored = j.scored
<1>1. CASE Attachments(w)
    <2>1. /\ k.pc = "trap" /\ j.pc = "attachments" /\ k.m = j.m /\ k.armed = j.armed
          /\ k.trapped = j.trapped /\ k.scored = j.scored
        BY <1>0, <1>1 DEF Attachments, At, Job
    <2> HIDE DEF k
    <2>. QED
        BY <1>1, <2>1 DEF At, k
<1>2. CASE Trap(w)
    <2>1. /\ k.pc = "check" /\ j.pc = "trap" /\ k.m = j.m /\ k.armed = j.armed
          /\ k.trapped = j.trapped /\ k.scored = j.scored
        BY <1>0, <1>2 DEF Trap, At, Job
    <2> HIDE DEF k
    <2>. QED
        BY <1>2, <2>1 DEF At, k
<1>3. CASE Minefield(w)
    <2>1. /\ k.pc = "evaluate" /\ j.pc = "minefield" /\ k.m = j.m /\ k.armed = j.armed
          /\ k.scored = j.scored
        BY <1>0, <1>3 DEF Minefield, At, Job
    <2> HIDE DEF k
    <2>. QED
        BY <1>3, <2>1 DEF At, k
<1>4. CASE WriteHistory(w)
    <2>1. /\ k.pc = "dispose" /\ j.pc = "history" /\ k.m = j.m /\ k.armed = j.armed
          /\ k.trapped = j.trapped /\ k.scored = j.scored
        BY <1>0, <1>4 DEF WriteHistory, Goto, At, Job
    <2> HIDE DEF k
    <2>. QED
        BY <1>4, <2>1 DEF At, k
<1>5. CASE Dispose(w)
    <2>1. /\ k.pc = "count" /\ j.pc = "dispose" /\ k.m = j.m /\ k.armed = j.armed
          /\ k.trapped = j.trapped /\ k.scored = j.scored /\ k.result = j.result
        BY <1>0, <1>5 DEF Dispose, Goto, At, Job
    <2> HIDE DEF k
    <2>. QED
        BY <1>5, <2>1 DEF At, k
<1>6. ASSUME NEW s \in 0..100, NEW H \in SUBSET Headers, NEW r \in {"ok", "discard"},
             job' = Returned(w, s, H, r), j.pc \in {"check", "minefield", "evaluate"}
      PROVE  Goal
    <2>1. k = Decided(j, f, s, H, r)
        BY <1>0, <1>6, ReturnedDecides, SMTT(30)
    <2> HIDE DEF k, j, f
    <2>2. /\ k.pc = IF Training(f) THEN "dispose" ELSE "history"
          /\ k.m = j.m /\ k.armed = j.armed
          /\ k.trapped = j.trapped /\ k.scored = j.scored
        BY <1>0, <2>1 DEF Decided, Job
    <2>. QED
        BY <1>6, <2>2, SMTT(30) DEF At, f, j, k
<1>7. CASE Train(w) \/ MyNetwork(w)
    BY <1>6, <1>7, Returns, ZenonT(60) DEF Train, MyNetwork, At
<1>8. CASE Listed(w)
    <2>1. j.pc = "check"
        BY <1>8, SMTT(30) DEF Listed, At
    <2>2. CASE job' = Returned(w, IF Of(w).listed = "white" THEN 1 ELSE 99,
                               {"watermark"}, "ok")
        <3>1. (IF Of(w).listed = "white" THEN 1 ELSE 99) \in 0..100
            OBVIOUS
        <3>. QED
            BY <1>6, <2>1, <2>2, <3>1, Returns, ZenonT(60)
    <2>3. ASSUME k.pc = "minefield", k.m = j.m, k.armed = j.armed,
                 k.trapped = j.trapped, k.scored = j.scored
          PROVE  Goal
        BY <2>1, <2>3 DEF At
    <2>4. CASE Goto(w, "minefield")
        BY <1>0, <2>3, <2>4 DEF Goto, Job
    <2>5. CASE job' = [job EXCEPT ![w].pc = "minefield", ![w].blind = @ \cup {"lists"}]
        BY <1>0, <2>3, <2>5 DEF Job
    <2>. QED
        BY <1>8, <2>2, <2>4, <2>5 DEF Listed
<1>9. CASE Evaluate(w)
    <2>1. j.pc = "evaluate"
        BY <1>9 DEF Evaluate, At
    <2>2. CASE job' = Returned(w, 99, {"watermark"},
                               IF OnZombie = 1 THEN "ok" ELSE "discard")
        <3>1. (IF OnZombie = 1 THEN "ok" ELSE "discard") \in {"ok", "discard"}
            OBVIOUS
        <3>. QED
            BY <1>6, <2>1, <2>2, <3>1, Returns, ZenonT(60)
    <2>3. CASE job' = Returned(w, Default, {"watermark"}, "ok")
        BY <1>6, <2>1, <2>3, Returns, ZenonT(60)
    <2>4. ASSUME NEW s \in Scores,
                 job' = [Returned(w, s, IF s >= SpamLimit THEN Headers
                                        ELSE Headers \ {"spam"}, "ok")
                           EXCEPT ![w].scored = TRUE]
          PROVE  Goal
        <3> DEFINE H == IF s >= SpamLimit THEN Headers ELSE Headers \ {"spam"}
                   R == Returned(w, s, H, "ok")
                   q == R[w]
        <3>1. H \in SUBSET Headers /\ s \in 0..100
            BY Returns
        <3>2. job' = [R EXCEPT ![w].scored = TRUE]
            BY <2>4, SMTT(30)
        <3> HIDE DEF H
        <3>3. R \in [Worker -> Job] /\ q = Decided(j, f, s, H, "ok")
            BY <1>0, <3>1, ReturnedDecides, SMTT(30)
        <3> HIDE DEF R
        <3>4. /\ k.pc = q.pc /\ k.m = q.m /\ k.armed = q.armed
              /\ k.trapped = q.trapped
            BY <3>2, <3>3 DEF Job
        <3> HIDE DEF q, j, f
        <3>5. /\ q.pc = IF Training(f) THEN "dispose" ELSE "history"
              /\ q.m = j.m /\ q.armed = j.armed /\ q.trapped = j.trapped
            BY <1>0, <3>3 DEF Decided, Job
        <3> HIDE DEF k
        <3>. QED
            BY <1>9, <2>1, <3>4, <3>5 DEF At, f, j, k
    <2>. QED
        BY <1>9, <2>2, <2>3, <2>4 DEF Evaluate
<1>. QED
    BY <1>1, <1>2, <1>3, <1>4, <1>5, <1>7, <1>8, <1>9 DEF Step

(* A trap, once hit, is in the table by the time the message is judged,    *)
(* and is_sender_on_minefield sees it, unless a statement failed.          *)
LEMMA KnownStep ==
    ASSUME TypeOK, Holding, JobsJudged, NEW w \in Worker, Step(w) \/ Crash(w),
           ~At(w, "idle")', NEW k, k = job'[w]
    PROVE  Known(k, mail[k.m])'
<1> DEFINE j == job[w]
           f == Of(w)
<1>0. job \in [Worker -> Job] /\ j \in Job
    BY DEF TypeOK
<1>1. /\ mail' = mail
      /\ failures' = 0 => failures = 0
      /\ minefield \subseteq minefield'
    BY TablesGrow
<1>2. SUFFICES ASSUME failures' = 0
               PROVE  LET g == mail[k.m]
                      IN  /\ k.armed => g.ip \in minefield'
                          /\ k.pc \notin {"idle", "attachments", "trap"} /\ Trapped(g)
                               => g.ip \in minefield'
                          /\ (k.pc = "evaluate" \/ k.scored) /\ (k.armed \/ Trapped(g))
                               => k.trapped
    BY <1>1 DEF Known
<1>3. ~Fails
    BY <1>2, Limits DEF Fails, TypeOK
<1>4. CASE \E m \in Message : Start(w, m)
    <2>1. PICK m \in Message : Start(w, m)
        BY <1>4
    <2>2. /\ k.pc = "attachments" /\ k.m = m /\ k.scored = FALSE
          /\ k.armed = (mail[m].ip \in minefield)
        BY <1>0, <2>1 DEF Start, NoJob
    <2>. QED
        BY <1>1, <2>2
<1>5. CASE Count(w) \/ Crash(w)
    BY <1>0, <1>5 DEF Count, Crash, At, NoJob
<1>6. ASSUME Step(w), ~\E m \in Message : Start(w, m), ~Count(w)
      PROVE  LET g == mail[k.m]
             IN  /\ k.armed => g.ip \in minefield'
                 /\ k.pc \notin {"idle", "attachments", "trap"} /\ Trapped(g)
                      => g.ip \in minefield'
                 /\ (k.pc = "evaluate" \/ k.scored) /\ (k.armed \/ Trapped(g))
                      => k.trapped
    <2>1. /\ ~At(w, "idle") /\ k.m = j.m /\ k.armed = j.armed
          /\ k.trapped = j.trapped \/ Minefield(w)
          /\ ~Evaluate(w) => k.scored = j.scored
          /\ k.pc \in {"idle", "attachments", "trap"} => Attachments(w)
          /\ j.pc \in {"attachments", "trap"} => Attachments(w) \/ Trap(w)
          /\ k.pc = "evaluate" => Minefield(w)
        BY <1>6, SessionKeeps
    <2>2. Known(j, f) /\ Judged(j, f) /\ f = mail[k.m] /\ j.pc # "idle"
        BY <2>1 DEF JobsJudged, Of, At
    <2>3. Attachments(w) => j.pc = "attachments" /\ k.pc = "trap"
        BY <1>0 DEF Attachments, At, Job
    <2>4. Trap(w) => j.pc = "trap" /\ k.pc = "check" /\ (Trapped(f) => f.ip \in minefield')
        BY <1>0, <1>3 DEF Trap, At, Job
    <2>5. Minefield(w) => /\ j.pc = "minefield" /\ k.pc = "evaluate"
                          /\ k.trapped = (f.ip \in minefield)
        BY <1>0, <1>3 DEF Minefield, At, Job
    <2>6. Evaluate(w) => j.pc = "evaluate" /\ ~Minefield(w)
        BY DEF Evaluate, Minefield, At
    <2> HIDE DEF j, f
    <2>7. k.armed => f.ip \in minefield'
        BY <1>1, <1>2, <2>1, <2>2 DEF Known
    <2>8. k.pc \notin {"idle", "attachments", "trap"} /\ Trapped(f)
             => f.ip \in minefield'
        <3>1. CASE Trap(w)
            BY <2>4, <3>1
        <3>2. CASE ~Trap(w) /\ ~Attachments(w)
            BY <1>1, <1>2, <2>1, <2>2, <3>2 DEF Known
        <3>. QED
            BY <2>3, <3>1, <3>2
    <2>9. (k.pc = "evaluate" \/ k.scored) /\ (k.armed \/ Trapped(f)) => k.trapped
        <3>1. CASE Minefield(w)
            BY <1>1, <1>2, <2>1, <2>2, <2>5, <3>1 DEF Known
        <3>2. CASE ~Minefield(w)
            BY <1>1, <1>2, <2>1, <2>2, <2>6, <3>2 DEF Known
        <3>. QED
            BY <3>1, <3>2
    <2>. QED
        BY <2>2, <2>7, <2>8, <2>9
<1>. QED
    BY <1>4, <1>5, <1>6

(* A message that is to be released has its row in history, unless the     *)
(* INSERT failed.                                                          *)
LEMMA RecordedStep ==
    ASSUME TypeOK, Holding, JobsJudged, NEW w \in Worker, Step(w) \/ Crash(w),
           ~At(w, "idle")', NEW k, k = job'[w]
    PROVE  Recorded(k)'
<1> DEFINE j == job[w]
           f == Of(w)
<1>0. job \in [Worker -> Job] /\ j \in Job
    BY DEF TypeOK
<1>1. /\ failures' = 0 => failures = 0
      /\ \A m \in Message : history[m] # None => history'[m] # None
    BY TablesGrow
<1>2. SUFFICES ASSUME failures' = 0, k.pc \in {"dispose", "count"}, k.result = "ok"
               PROVE  history'[k.m] # None
    BY DEF Recorded
<1>3. ~\E m \in Message : Start(w, m)
    BY <1>0, <1>2, ZenonT(60) DEF Start, NoJob
<1>4. ~Count(w) /\ ~Crash(w)
    BY <1>0 DEF Count, Crash, At, NoJob
<1>5. /\ ~At(w, "idle") /\ k.m = j.m
      /\ k.pc = "dispose" => WriteHistory(w) \/ Training(f)
      /\ k.pc = "count" => Dispose(w) /\ k.result = j.result
    BY <1>3, <1>4, SessionKeeps
<1>6. j.m \in Message /\ Recorded(j)
    BY <1>5, MailInHand DEF JobsJudged
<1>7. ~Training(f)
    <2>1. Judged(k, mail[k.m])
        BY JudgedStep
    <2>. QED
        BY <1>2, <1>5, <2>1 DEF Judged, Of
<1>8. CASE WriteHistory(w)
    <2>1. history' = [history EXCEPT ![j.m] = Status("ham")]
        BY <1>2, <1>8, Limits DEF WriteHistory, Fails, TypeOK
    <2>. QED
        BY <1>5, <1>6, <2>1, Limits DEF TypeOK, Status
<1>9. CASE Dispose(w)
    <2>1. j.pc = "dispose"
        BY <1>9 DEF Dispose, At
    <2>2. ~WriteHistory(w)
        BY <2>1 DEF WriteHistory, At
    <2>3. k.result = j.result
        BY <1>0, <1>9 DEF Dispose, Goto, Job
    <2>4. history[j.m] # None
        BY <1>1, <1>2, <1>6, <2>1, <2>3 DEF Recorded
    <2>. QED
        BY <1>1, <1>5, <1>6, <2>4
<1>. QED
    BY <1>2, <1>5, <1>7, <1>8, <1>9

(* What is known of a message stays known.                                 *)
LEMMA KnownStays ==
    ASSUME TypeOK, Holding, NEW w \in Worker, Step(w) \/ Crash(w),
           NEW j, NEW f, j.m \in Message
    PROVE  /\ Known(j, f) => Known(j, f)'
           /\ Recorded(j) => Recorded(j)'
<1>1. /\ failures' = 0 => failures = 0
      /\ minefield \subseteq minefield'
      /\ history[j.m] # None => history'[j.m] # None
    BY TablesGrow
<1>. QED
    BY <1>1 DEF Known, Recorded

(* Every worker's findings stay true, the other workers' too.              *)
LEMMA JobsStep ==
    ASSUME TypeOK, Holding, JobsJudged, NEW w \in Worker, Step(w) \/ Crash(w)
    PROVE  JobsJudged'
<1> SUFFICES ASSUME NEW v \in Worker, ~At(v, "idle")'
             PROVE  /\ Judged(job[v], Of(v))'
                    /\ Known(job[v], Of(v))' /\ Recorded(job[v])'
    BY DEF JobsJudged
<1>1. mail' = mail
    BY TablesGrow
<1>2. CASE v = w
    <2>1. PICK k : k = job'[w]
        OBVIOUS
    <2>2. Judged(k, mail[k.m]) /\ Known(k, mail[k.m])' /\ Recorded(k)'
        BY <1>2, <2>1, JudgedStep, KnownStep, RecordedStep
    <2>. QED
        BY <1>1, <1>2, <2>1, <2>2 DEF Of, Judged, Known, Recorded
<1>3. CASE v # w
    <2>1. job'[v] = job[v] /\ ~At(v, "idle")
        BY <1>3, OthersStay DEF TypeOK, At
    <2>2. job[v].m \in Message
        BY <2>1, MailInHand
    <2>3. Judged(job[v], Of(v)) /\ Known(job[v], Of(v)) /\ Recorded(job[v])
        BY <2>1 DEF JobsJudged
    <2>4. PICK j, f : j = job[v] /\ f = Of(v)
        OBVIOUS
    <2>5. Judged(j, f) /\ Known(j, f)' /\ Recorded(j)'
        BY <2>2, <2>3, <2>4, KnownStays
    <2>6. job'[v] = j /\ Of(v)' = f
        BY <1>1, <2>1, <2>4 DEF Of
    <2>. QED
        BY <2>5, <2>6 DEF Judged, Known, Recorded
<1>. QED
    BY <1>2, <1>3

(* What Dispose records of a message is what the worker knew.              *)
LEMMA FatesStep ==
    ASSUME TypeOK, Holding, JobsJudged, FatesJudged, NEW w \in Worker,
           Step(w) \/ Crash(w)
    PROVE  FatesJudged'
<1> DEFINE Fate == [st : {"queued", "taken", "sent", "dropped"},
                    verdict : Verdicts \cup {"none"}, job : Job]
<1>0. fate \in [Message -> Fate] /\ job \in [Worker -> Job] /\ job[w] \in Job
    BY DEF TypeOK
<1>1. mail' = mail
    BY TablesGrow
<1> SUFFICES ASSUME NEW m \in Message, fate'[m].st \in Done
             PROVE  LET j == fate'[m].job
                    IN  /\ j.pc = "dispose" /\ j.m = m
                        /\ j.result = IF fate'[m].st = "sent" THEN "ok" ELSE "discard"
                        /\ fate'[m].verdict = IF Training(mail[m]) THEN "none"
                                                                   ELSE VerdictOf(j)
                        /\ Judged(j, mail[m])
                        /\ Known(fate[m].job, mail[m])' /\ Recorded(fate[m].job)'
    BY <1>1 DEF FatesJudged
<1>2. CASE fate'[m] = fate[m]
    <2>1. PICK j, f : j = fate[m].job /\ f = mail[m]
        OBVIOUS
    <2>2. /\ j.pc = "dispose" /\ j.m = m
          /\ j.result = IF fate[m].st = "sent" THEN "ok" ELSE "discard"
          /\ fate[m].verdict = IF Training(f) THEN "none" ELSE VerdictOf(j)
          /\ Judged(j, f) /\ Known(j, f) /\ Recorded(j)
        BY <1>2, <2>1 DEF FatesJudged
    <2>3. Known(j, f)' /\ Recorded(j)'
        BY <2>2, KnownStays
    <2>4. Known(fate[m].job, mail[m])' /\ Recorded(fate[m].job)'
        BY <1>1, <1>2, <2>1, <2>3 DEF Known, Recorded
    <2>. QED
        BY <1>2, <2>1, <2>2, <2>4
<1>3. CASE Dispose(w) /\ m = job[w].m
    <2>1. job[w].pc = "dispose" /\ Judged(job[w], Of(w)) /\ Known(job[w], Of(w))
          /\ Recorded(job[w]) /\ Of(w) = mail[m]
        BY <1>3 DEF Dispose, At, JobsJudged, Of
    <2>2. PICK st \in Done, H \in {job[w].headers, {}} :
             /\ fate' = [fate EXCEPT ![m] =
                  [st |-> st,
                   verdict |-> IF Training(Of(w)) THEN "none" ELSE VerdictOf(job[w]),
                   job |-> [job[w] EXCEPT !.headers = H]]]
             /\ job[w].result = IF st = "sent" THEN "ok" ELSE "discard"
        BY <1>3 DEF Dispose, Done
    <2>3. PICK j : j = [job[w] EXCEPT !.headers = H]
        OBVIOUS
    <2>4. /\ fate'[m].st = st /\ fate'[m].job = j
          /\ fate'[m].verdict = IF Training(Of(w)) THEN "none" ELSE VerdictOf(job[w])
        BY <1>0, <2>2, <2>3
    <2>5. /\ j.pc = "dispose" /\ j.m = m /\ j.result = job[w].result /\ j.headers = H
          /\ j.malware = job[w].malware /\ j.spaminess = job[w].spaminess
          /\ j.scored = job[w].scored /\ j.blind = job[w].blind
          /\ j.armed = job[w].armed /\ j.trapped = job[w].trapped
        BY <1>0, <1>3, <2>1, <2>3 DEF Job
    <2>6. VerdictOf(j) = VerdictOf(job[w])
        BY <2>5 DEF VerdictOf
    <2>7. Judged(j, mail[m])
        BY <2>1, <2>2, <2>5 DEF Judged
    <2>8. Known(j, mail[m]) /\ Recorded(j)
        BY <1>3, <2>1, <2>5 DEF Known, Recorded
    <2>9. PICK f : f = mail[m]
        OBVIOUS
    <2>10. Known(j, f)' /\ Recorded(j)'
        BY <2>5, <2>8, <2>9, KnownStays
    <2>11. Known(fate[m].job, mail[m])' /\ Recorded(fate[m].job)'
        BY <1>1, <2>4, <2>9, <2>10 DEF Known, Recorded
    <2>. QED
        BY <2>1, <2>2, <2>4, <2>5, <2>6, <2>7, <2>11, ZenonT(60)
<1>4. CASE \E n \in Message : Start(w, n)
    <2>1. PICK n \in Message : Start(w, n)
        BY <1>4
    <2>2. fate' = [fate EXCEPT ![n].st = "taken"]
        BY <2>1 DEF Start
    <2>3. m # n
        BY <1>0, <2>2 DEF Done
    <2>. QED
        BY <1>0, <1>2, <2>2, <2>3
<1>5. CASE Dispose(w) /\ m # job[w].m
    <2>1. fate'[m] = fate[m]
        BY <1>0, <1>5 DEF Dispose
    <2>. QED
        BY <1>2, <2>1
<1>6. UNCHANGED fate \/ Dispose(w) \/ \E n \in Message : Start(w, n)
    BY DEF Step, Attachments, Trap, Train, MyNetwork, Listed, Minefield,
           Evaluate, WriteHistory, Count, Crash
<1>. QED
    BY <1>2, <1>3, <1>4, <1>5, <1>6

(* Only Count settles a training request, and it settles one.              *)
LEMMA SettledStep ==
    ASSUME TypeOK, Holding, NEW w \in Worker, Step(w) \/ Crash(w)
    PROVE  /\ Settled \subseteq Settled'
           /\ Count(w) /\ Training(Of(w)) =>
                /\ job[w].m \notin Settled
                /\ job[w].m \in Settled'
<1>0. /\ job \in [Worker -> Job] /\ job' \in [Worker -> Job]
      /\ \A v \in Worker \ {w} : job'[v] = job[v]
      /\ \A v, u \in Worker : v # u /\ ~At(v, "idle") => job[v].m # job[u].m
      /\ fate \in [Message -> [st : {"queued", "taken", "sent", "dropped"},
                               verdict : Verdicts \cup {"none"}, job : Job]]
    BY OthersStay, JobType DEF TypeOK
<1>1. Trainings' = Trainings
    BY TablesGrow DEF Trainings
<1>2. ASSUME NEW m \in Message, fate[m].st \in Done
      PROVE  fate'[m] = fate[m] /\ (Dispose(w) => m # job[w].m)
    <2>1. CASE \E n \in Message : Start(w, n)
        <3>1. PICK n \in Message : Start(w, n)
            BY <2>1
        <3>2. n # m /\ ~Dispose(w)
            BY <1>2, <3>1 DEF Start, Done, Dispose, At
        <3>. QED
            BY <1>0, <3>1, <3>2 DEF Start
    <2>2. CASE Dispose(w)
        <3>1. fate[job[w].m].st = "taken"
            BY <2>2 DEF Holding, Dispose, At
        <3>2. m # job[w].m
            BY <1>2, <3>1 DEF Done
        <3>. QED
            BY <1>0, <2>2, <3>2 DEF Dispose
    <2>3. UNCHANGED fate \/ Dispose(w) \/ \E n \in Message : Start(w, n)
        BY DEF Step, Attachments, Trap, Train, MyNetwork, Listed, Minefield,
               Evaluate, WriteHistory, Count, Crash
    <2>. QED
        BY <2>1, <2>2, <2>3
<1>3. ASSUME NEW m \in Settled, NEW v \in Worker, At(v, "count")'
      PROVE  job'[v].m # m
    <2>1. m \in Message /\ fate[m].st \in Done /\ \A u \in Worker : At(u, "count") => job[u].m # m
        BY DEF Settled, Trainings
    <2>2. CASE v # w
        BY <1>0, <1>3, <2>1, <2>2 DEF At
    <2>3. CASE v = w
        <3>1. Dispose(w) /\ job'[w].m = job[w].m
            <4>0. ASSUME NEW n \in Message, Start(w, n) PROVE job'[w].pc = "attachments"
                BY <1>0, <4>0 DEF Start, NoJob
            <4>1. ~\E n \in Message : Start(w, n)
                BY <1>3, <2>3, <4>0 DEF At
            <4>2. job'[w] # NoJob
                BY <1>3, <2>3 DEF At, NoJob
            <4>. QED
                BY <1>3, <2>3, <4>1, <4>2, MessageStays DEF At
        <3>. QED
            BY <1>2, <2>1, <2>3, <3>1
    <2>. QED
        BY <2>2, <2>3
<1>4. Settled \subseteq Settled'
    BY <1>1, <1>2, <1>3 DEF Settled, Trainings
<1>5. ASSUME Count(w), Training(Of(w))
      PROVE  job[w].m \notin Settled /\ job[w].m \in Settled'
    <2>1. At(w, "count") /\ ~At(w, "idle")
        BY <1>5 DEF Count, At
    <2>2. job[w].m \in Trainings /\ fate[job[w].m].st \in Done
        BY <1>5, <2>1 DEF Holding, Trainings, Of
    <2>3. job[w].m \notin Settled
        BY <2>1 DEF Settled
    <2>4. job' = [job EXCEPT ![w] = NoJob] /\ UNCHANGED fate
        BY <1>5 DEF Count
    <2>5. \A v \in Worker : At(v, "count")' => job'[v].m # job[w].m
        BY <1>0, <2>1, <2>4 DEF At, NoJob
    <2>. QED
        BY <1>1, <2>2, <2>3, <2>4, <2>5 DEF Settled
<1>. QED
    BY <1>4, <1>5

(* The settled training requests are finitely many.                        *)
LEMMA SettledFinite ==
    /\ IsFiniteSet(Trainings) /\ IsFiniteSet(Settled)
    /\ Cardinality(Settled) \in Nat
    /\ Cardinality(Settled) <= Cardinality(Trainings)
<1>1. Trainings \subseteq Message /\ Settled \subseteq Trainings
    BY DEF Trainings, Settled
<1>2. IsFiniteSet(Trainings)
    BY <1>1, Limits, GainsNone
<1>. QED
    BY <1>1, <1>2, GainsNone

(* The counters of the verdicts add up to rcvd, but for the training       *)
(* requests settled.                                                       *)
LEMMA SettleStep ==
    ASSUME TypeOK, Holding, CountersSettle, NEW w \in Worker, Step(w) \/ Crash(w)
    PROVE  CountersSettle'
<1> DEFINE n == Cardinality(Settled)
<1>0. IsFiniteSet(Settled) /\ n \in Nat
    BY SettledFinite
<1>1. mail' = mail
    BY TablesGrow
<1>2. Settled \subseteq Settled' /\ IsFiniteSet(Settled') /\ n' \in Nat /\ n' >= n
    <2>1. Settled' \subseteq Message
        BY <1>1 DEF Settled, Trainings
    <2>2. IsFiniteSet(Settled')
        BY <2>1, Limits, GainsNone
    <2>3. Settled \subseteq Settled'
        BY SettledStep
    <2>4. Cardinality(Settled') \in Nat /\ Cardinality(Settled) <= Cardinality(Settled')
        BY <2>2, <2>3, GainsNone
    <2>. QED
        BY <1>0, <2>2, <2>3, <2>4
<1>3. /\ counter \in [({"rcvd"} \cup Kinds) -> Nat]
      /\ counter["ham"] \in Nat /\ counter["spam"] \in Nat /\ counter["virus"] \in Nat
      /\ counter["rcvd"] \in Nat /\ counter["possible"] \in Nat
      /\ counter["unsure"] \in Nat
    BY DEF TypeOK, Counter, Kinds, Verdicts
<1>4. CASE UNCHANGED counter
    BY <1>0, <1>2, <1>3, <1>4 DEF CountersSettle
<1>5. CASE Count(w) /\ ~UNCHANGED counter
    <2> DEFINE add == Counted(job[w], Training(Of(w)))
    <2>1. job[w] \in Job /\ Training(Of(w)) \in BOOLEAN
        BY DEF TypeOK, Training
    <2>2. /\ \A k \in {"rcvd"} \cup Kinds : add[k] \in 0..1
          /\ add["rcvd"] = 1
          /\ add["ham"] + add["spam"] + add["virus"] = IF Training(Of(w)) THEN 0 ELSE 1
          /\ add["possible"] + add["unsure"] <= add["ham"]
        BY <2>1, CountedType
    <2>3. counter' = [k \in DOMAIN counter |-> counter[k] + add[k]]
        BY <1>5 DEF Count
    <2> HIDE DEF add
    <2>4. \A k \in {"rcvd"} \cup Kinds : counter'[k] = counter[k] + add[k]
        BY <1>3, <2>3
    <2>5. /\ counter'["ham"] = counter["ham"] + add["ham"]
          /\ counter'["spam"] = counter["spam"] + add["spam"]
          /\ counter'["virus"] = counter["virus"] + add["virus"]
          /\ counter'["rcvd"] = counter["rcvd"] + 1
          /\ counter'["possible"] = counter["possible"] + add["possible"]
          /\ counter'["unsure"] = counter["unsure"] + add["unsure"]
        BY <2>2, <2>4 DEF Kinds, Verdicts
    <2>6. /\ add["ham"] \in Nat /\ add["spam"] \in Nat /\ add["virus"] \in Nat
          /\ add["possible"] \in Nat /\ add["unsure"] \in Nat
        BY <2>2 DEF Kinds, Verdicts
    <2>7. CASE Training(Of(w))
        <3>1. Settled \cup {job[w].m} \subseteq Settled' /\ job[w].m \notin Settled
            BY <1>5, <2>7, SettledStep
        <3>2. /\ IsFiniteSet(Settled \cup {job[w].m})
              /\ Cardinality(Settled \cup {job[w].m}) = n + 1
            BY <1>0, <3>1, GainsExactly
        <3>3. n' >= n + 1
            BY <1>0, <1>2, <3>1, <3>2, GainsNone
        <3>. QED
            BY <1>0, <1>2, <1>3, <2>2, <2>5, <2>6, <2>7, <3>3 DEF CountersSettle
    <2>8. CASE ~Training(Of(w))
        BY <1>0, <1>2, <1>3, <2>2, <2>5, <2>6, <2>8, SMTT(30) DEF CountersSettle
    <2>. QED
        BY <2>7, <2>8
<1>6. UNCHANGED counter \/ Count(w)
    BY ZenonT(60)
       DEF Step, Start, Attachments, Trap, Train, MyNetwork, Listed, Minefield,
           Evaluate, WriteHistory, Dispose, Crash
<1>. QED
    BY <1>4, <1>5, <1>6

-----------------------------------------------------------------------------
(* An idle pool and empty tables satisfy the invariant, and every          *)
(* statement, failing statement and crash keeps it.                        *)
THEOREM Inductive == (Init => IInv) /\ (IInv /\ [Next]_vars => IInv')
<1>1. Init => IInv
    <2> SUFFICES ASSUME Init PROVE IInv
        OBVIOUS
    <2>1. TypeOK /\ Holding
        BY TypeInit
    <2>2. \A w \in Worker : At(w, "idle")
        BY DEF Init, At, NoJob
    <2>3. \A m \in Message : fate[m].st = "queued"
        BY DEF Init, Untouched
    <2>4. CountersSettle
        BY SettledFinite DEF Init, CountersSettle, Kinds, Verdicts
    <2>. QED
        BY <2>1, <2>2, <2>3, <2>4 DEF IInv, JobsJudged, FatesJudged, Done
<1>2. IInv /\ [Next]_vars => IInv'
    <2> SUFFICES ASSUME IInv, [Next]_vars PROVE IInv'
        BY SMTT(30)
    <2>1. CASE UNCHANGED vars
        BY <2>1 DEF vars, IInv, TypeOK, Holding, JobsJudged, FatesJudged, CountersSettle,
               Known, Recorded, Settled, Trainings, At, Of
    <2>2. ASSUME NEW w \in Worker, Step(w) \/ Crash(w) PROVE IInv'
        <3>1. TypeOK' /\ Holding'
            BY <2>2, TypeStep, HoldingStep DEF IInv
        <3>2. JobsJudged' /\ FatesJudged'
            BY <2>2, JobsStep, FatesStep DEF IInv
        <3>3. CountersSettle'
            BY <2>2, SettleStep DEF IInv
        <3>. QED
            BY <3>1, <3>2, <3>3 DEF IInv
    <2>. QED
        BY <2>1, <2>2 DEF Next
<1>. QED
    BY <1>1, <1>2

(* Types of the session data, the tables and the fates of the messages; a  *)
(* worker that is busy has a message of its own.                           *)
THEOREM TypeCorrect == Spec => []TypeOK
<1>1. IInv => TypeOK
    BY DEF IInv
<1>. QED
    BY <1>1, Inductive, PTL DEF Spec

(* update_counters, message by message and whichever worker's: ham, spam   *)
(* and virus never exceed rcvd, and what is missing are training requests. *)
THEOREM CountersRight == Spec => []CountersAddUp
<1>1. IInv => CountersAddUp
    <2> SUFFICES ASSUME IInv PROVE CountersAddUp
        OBVIOUS
    <2>1. /\ counter["ham"] \in Nat /\ counter["spam"] \in Nat
          /\ counter["virus"] \in Nat /\ counter["rcvd"] \in Nat
        BY DEF IInv, TypeOK, Counter, Kinds, Verdicts
    <2>2. /\ Cardinality(Settled) \in Nat /\ Cardinality(Trainings) \in Nat
          /\ Cardinality(Settled) <= Cardinality(Trainings)
        BY SettledFinite, GainsNone
    <2>. QED
        BY <2>1, <2>2 DEF IInv, CountersSettle, CountersAddUp
<1>. QED
    BY <1>1, Inductive, PTL DEF Spec

(* has_known_bad_attachment comes before check_spam and its early returns: *)
(* no message with a known bad attachment is disposed of as anything but a *)
(* virus, unless the query failed.                                         *)
THEOREM InfectedSeen == Spec => []InfectedIsSeen
<1>1. IInv => InfectedIsSeen
    BY DEF IInv, FatesJudged, InfectedIsSeen, Judged, VerdictOf, Done
<1>. QED
    BY <1>1, Inductive, PTL DEF Spec

(* The comparison with spam_overall_limit in check_spam and the one in     *)
(* process_email agree on every message scored and released.               *)
THEOREM MarksAgree == Spec => []MarkedAsCounted
<1>1. IInv => MarkedAsCounted
    BY DEF IInv, FatesJudged, MarkedAsCounted, Judged, VerdictOf, Done
<1>. QED
    BY <1>1, Inductive, PTL DEF Spec

(* process_email writes to the history before it releases a message.       *)
THEOREM ReleasedTrainable == Spec => []ReleasedCanBeTrained
<1>1. IInv => ReleasedCanBeTrained
    <2> SUFFICES ASSUME IInv, NEW m \in Message, fate[m].st = "sent", ~(failures > 0)
                 PROVE  history[m] # None
        BY DEF ReleasedCanBeTrained, Done
    <2>1. failures = 0
        BY Limits DEF IInv, TypeOK
    <2>. QED
        BY <2>1 DEF IInv, FatesJudged, Recorded, Done
<1>. QED
    BY <1>1, Inductive, PTL DEF Spec

(* store_minefield_ip comes before is_sender_on_minefield, in one worker   *)
(* and, for the traps of the past, across workers.                         *)
THEOREM TrapsKnown == Spec => []TrappedIsKnown
<1>1. IInv => TrappedIsKnown
    BY DEF IInv, FatesJudged, TrappedIsKnown, Known, Done
<1>. QED
    BY <1>1, Inductive, PTL DEF Spec

(* Of the messages check_spam discards none is from mynetwork or from a    *)
(* listed sender, unless the lists could not be read.                      *)
THEOREM ListedKept == Spec => []ListedIsNotDropped
<1>1. IInv => ListedIsNotDropped
    BY DEF IInv, FatesJudged, ListedIsNotDropped, Judged, Done
<1>. QED
    BY <1>1, Inductive, PTL DEF Spec
=============================================================================
