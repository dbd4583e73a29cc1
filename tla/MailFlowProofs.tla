--------------------------- MODULE MailFlowProofs ---------------------------
(***************************************************************************)
(* Proofs about MailFlow, for every set of messages and workers, every     *)
(* number of relay jobs and every bound on the faults.                     *)
(*                                                                         *)
(* The inductive invariant is a conjunction of parts, one per idea, each   *)
(* proved in a lemma of its own from the parts before it:                  *)
(*   TypeOK      the types, and which worker states hold a message;        *)
(*   WorkerInv   a worker's message is one of its own subdirectory;        *)
(*   RelayInv    what each state of a relay job says of the deliveries;    *)
(*   LengthInv   a message no fault or early pickup concerns has its       *)
(*               envelope lines wherever it is, and is complete unless its *)
(*               header does not fit;                                      *)
(*   TrainInv    what has let a training message pass, or made kospam      *)
(*               learn from another.                                       *)
(***************************************************************************)
EXTENDS MailFlow, TLAPS

WorkerInv ==
    /\ \A m \in Message : smtpd[m] = "idle" => place[m] = "none"
    /\ \A w \in Worker : cur[w] # None =>
          /\ subdir[cur[w]] = w
          /\ \/ place[cur[w]] = "work"
             \/ place[cur[w]] = "queue" /\ cur[w] \in damaged

RelayInv ==
    /\ relay # "dispatch" => batch = {} /\ Busy = {}
    /\ \A m \in Message : job[m] # "none" => place[m] = "send"
    /\ \A m \in batch : place[m] = "send" /\ job[m] = "none"
    /\ \A m \in Message :
          place[m] \in {"none", "queue", "work", "dropped", "trained"}
             => sent[m] = 0
    /\ \A m \in Message :
          place[m] = "send" /\ job[m] # "true" => sent[m] <= relayFaults
    /\ \A m \in Message :
          job[m] = "true" => sent[m] > 0 \/ relayFaults > 0
    /\ AtMostOnce

Suspect == early \cup damaged

LengthInv ==
    /\ \A m \in Message : smtpd[m] \in {"idle", "open"} => written[m] = Empty
    /\ \A m \in Message :
          place[m] \notin {"none", "queue"} /\ m \notin early
             => written[m] = Full
    /\ \A m \in Message \ Suspect : copy[m] # Empty /\ tmp[m] # Empty
    /\ \A m \in Message \ (Suspect \cup Clipped) :
                                    /\ copy[m] \in {Live, Full}
                                    /\ tmp[m] \in {Absent, Full}
                                    /\ job[m] = "sending" => mail[m] = Full
    /\ TruncationHasCause

Passing(w) == wpc[w] \in {"judged", "rewritten", "fixed"} /\ verdict[w] # "train"

Learnable == Training \cup Misread \cup damaged

TrainInv ==
    /\ \A w \in Worker :
          Passing(w) /\ cur[w] \in Training \ Misread => cur[w] \in Suspect
    /\ \A m \in Training \ Misread :
          place[m] \in {"send", "error", "released"} => m \in Suspect
    /\ \A w \in Worker : verdict[w] = "train" => cur[w] \in Learnable
    /\ \A m \in Message : place[m] = "trained" => m \in Learnable

-----------------------------------------------------------------------------
(* The types are an invariant of every step.                               *)
LEMMA TypeInit == Init => TypeOK
BY SMTT(30)
    DEF Init, TypeOK, Places, Length, Empty, Envelope, Full, Live, Absent

(* Types are preserved by each action of the three daemons.               *)
LEMMA TypeStep == TypeOK /\ [Next]_vars => TypeOK'
<1> SUFFICES ASSUME TypeOK, [Next]_vars PROVE TypeOK'
    OBVIOUS
<1> USE DEF TypeOK, Places, Length, Empty, Envelope, Full, Live, Absent,
            smtpdVars, workerVars, relayVars, ghostVars, faultVars
<1>1. CASE \E m \in Message : DataOpen(m)
    BY <1>1 DEF DataOpen
<1>2. CASE \E m \in Message : DataWrite(m)
    BY <1>2, SMTT(30) DEF DataWrite
<1>3. CASE \E m \in Message : DataAccept(m)
    BY <1>3 DEF DataAccept
<1>4. CASE \E m \in Message : DataFail(m)
    BY <1>4 DEF DataFail
<1>5. CASE \E w \in Worker : OpenDir(w)
    BY <1>5 DEF OpenDir, InSubdir
<1>6. CASE \E w \in Worker : EndScan(w)
    BY <1>6 DEF EndScan
<1>7. CASE \E w \in Worker : Judge(w)
    BY <1>7 DEF Judge, Verdicts, WorkerFault, NoWorkerFault
<1>8. CASE \E w \in Worker : WriteTmp(w)
    <2> SUFFICES ASSUME NEW w \in Worker, WriteTmp(w) PROVE TypeOK'
        BY <1>8
    <2>1. cur[w] \in Message
        BY DEF WriteTmp
    <2>2. Content(cur[w]) \in Length
        BY <2>1 DEF Content
    <2>3. (Empty..Content(cur[w])) \subseteq Length
        BY <2>2, SMTT(30)
    <2>4. \/ tmp' = tmp
          \/ \E len \in Length \cup {Absent} :
                tmp' = [tmp EXCEPT ![cur[w]] = len]
        <3>1. Rewritten(cur[w]) \in Length
            BY <2>2 DEF Rewritten
        <3> HIDE DEF TypeOK, Length
        <3>. QED BY <2>1, <2>3, <3>1 DEF WriteTmp
    <2>5. tmp' \in [Message -> Length \cup {Absent}]
        BY <2>1, <2>4, SMTT(30)
    <2>. QED
        BY <2>1, <2>5, SMTT(30) DEF WriteTmp, WorkerFault, NoWorkerFault
<1>9. CASE \E w \in Worker : RenameTmp(w)
    BY <1>9, SMTT(30) DEF RenameTmp, WorkerFault, NoWorkerFault
<1>10. CASE \E w \in Worker : Dispose(w)
    BY <1>10, SMTT(30) DEF Dispose, Outcome, WorkerFault, NoWorkerFault
<1>11. CASE \E w \in Worker : Respawn(w)
    BY <1>11 DEF Respawn
<1>12. CASE \E w \in Worker : WorkerCrash(w)
    BY <1>12 DEF WorkerCrash
<1>13. CASE \E w \in Worker, m \in Message : Take(w, m)
    BY <1>13, ConstantsAssumption, SMTT(30)
        DEF Take, InSubdir, WorkerFault, NoWorkerFault
<1>14. CASE ReadSendDir
    BY <1>14 DEF ReadSendDir
<1>15. CASE EndBatch
    BY <1>15 DEF EndBatch
<1>16. CASE RelayRestart
    BY <1>16 DEF RelayRestart
<1>17. CASE RelayCrash
    BY <1>17 DEF RelayCrash, RelayFault
<1>18. CASE \E m \in Message : Dispatch(m)
    BY <1>18 DEF Dispatch, Content
<1>19. CASE \E m \in Message : DispatchBad(m)
    BY <1>19 DEF DispatchBad, RelayFault
<1>20. CASE \E m \in Message : SendEmail(m)
    BY <1>20, SMTT(30) DEF SendEmail, NextHopAccepts, RelayFault
<1>21. CASE \E m \in Message : Remove(m)
    BY <1>21 DEF Remove, RelayFault
<1>22. CASE \E m \in Message : MoveToError(m)
    BY <1>22, SMTT(30) DEF MoveToError, RelayFault
<1>23. CASE UNCHANGED vars
    BY <1>23 DEF vars
<1>. QED
    BY <1>1, <1>2, <1>3, <1>4, <1>5, <1>6, <1>7, <1>8, <1>9, <1>10, <1>11,
       <1>12, <1>13, <1>14, <1>15, <1>16, <1>17, <1>18, <1>19, <1>20, <1>21,
       <1>22, <1>23
       DEF Next, Smtpd, WorkerStep, RelayLoop, RelayJob

(* A worker holds a message of its own subdirectory, in the work dir unless
   the rename out of the queue failed. *)
LEMMA WorkerInvInit == Init => WorkerInv
BY ConstantsAssumption, SMTT(30) DEF Init, WorkerInv

(* No step of a daemon gives a message to a second worker.                *)
LEMMA WorkerInvStep ==
    ASSUME TypeOK, WorkerInv, RelayInv, [Next]_vars
    PROVE  WorkerInv'
<1> USE DEF TypeOK, WorkerInv, RelayInv, Busy, smtpdVars, workerVars,
            relayVars, ghostVars, faultVars
<1>1. CASE \E m \in Message : DataOpen(m)
    BY <1>1 DEF DataOpen
<1>2. CASE \E m \in Message : DataWrite(m)
    BY <1>2 DEF DataWrite
<1>3. CASE \E m \in Message : DataAccept(m)
    BY <1>3 DEF DataAccept
<1>4. CASE \E m \in Message : DataFail(m)
    BY <1>4 DEF DataFail
<1>5. CASE \E w \in Worker : OpenDir(w)
    BY <1>5 DEF OpenDir, InSubdir
<1>6. CASE \E w \in Worker : EndScan(w)
    BY <1>6 DEF EndScan
<1>7. CASE \E w \in Worker : Judge(w)
    BY <1>7 DEF Judge, Verdicts, WorkerFault, NoWorkerFault
<1>8. CASE \E w \in Worker : WriteTmp(w)
    BY <1>8 DEF WriteTmp, WorkerFault, NoWorkerFault
<1>9. CASE \E w \in Worker : RenameTmp(w)
    BY <1>9 DEF RenameTmp, WorkerFault, NoWorkerFault
<1>10. CASE \E w \in Worker : Dispose(w)
    BY <1>10 DEF Dispose, Outcome, WorkerFault, NoWorkerFault
<1>11. CASE \E w \in Worker : Respawn(w)
    BY <1>11 DEF Respawn
<1>12. CASE \E w \in Worker : WorkerCrash(w)
    BY <1>12, ConstantsAssumption DEF WorkerCrash
<1>13. CASE \E w \in Worker, m \in Message : Take(w, m)
    BY <1>13, ConstantsAssumption, SMTT(30)
        DEF Take, InSubdir, WorkerFault, NoWorkerFault
<1>14. CASE ReadSendDir
    BY <1>14 DEF ReadSendDir, Busy
<1>15. CASE EndBatch
    BY <1>15 DEF EndBatch, Busy
<1>16. CASE RelayRestart
    BY <1>16 DEF RelayRestart
<1>17. CASE RelayCrash
    BY <1>17 DEF RelayCrash, RelayFault, Busy
<1>18. CASE \E m \in Message : Dispatch(m)
    BY <1>18 DEF Dispatch, Content
<1>19. CASE \E m \in Message : DispatchBad(m)
    BY <1>19 DEF DispatchBad, RelayFault, Busy
<1>20. CASE \E m \in Message : SendEmail(m)
    BY <1>20 DEF SendEmail, NextHopAccepts, RelayFault, Busy
<1>21. CASE \E m \in Message : Remove(m)
    BY <1>21, SMTT(30) DEF Remove, RelayFault, Busy
<1>22. CASE \E m \in Message : MoveToError(m)
    BY <1>22 DEF MoveToError, RelayFault, Busy
<1>23. CASE UNCHANGED vars
    BY <1>23 DEF vars
<1>. QED
    BY <1>1, <1>2, <1>3, <1>4, <1>5, <1>6, <1>7, <1>8, <1>9, <1>10, <1>11,
       <1>12, <1>13, <1>14, <1>15, <1>16, <1>17, <1>18, <1>19, <1>20, <1>21,
       <1>22, <1>23
       DEF Next, Smtpd, WorkerStep, RelayLoop, RelayJob

(* What the state of a relay job says of the deliveries of its message. *)
LEMMA RelayInvInit == Init => RelayInv
BY ConstantsAssumption DEF Init, RelayInv, Busy, AtMostOnce

(* No step starts a second job for a message or delivers it unpaid.       *)
LEMMA RelayInvStep ==
    ASSUME TypeOK, WorkerInv, RelayInv, [Next]_vars
    PROVE  RelayInv'
<1> USE DEF TypeOK, WorkerInv, RelayInv, AtMostOnce, Busy, smtpdVars,
            workerVars, relayVars, ghostVars, faultVars
<1>1. CASE \E m \in Message : DataOpen(m)
    BY <1>1 DEF DataOpen
<1>2. CASE \E m \in Message : DataWrite(m)
    BY <1>2 DEF DataWrite
<1>3. CASE \E m \in Message : DataAccept(m)
    BY <1>3 DEF DataAccept
<1>4. CASE \E m \in Message : DataFail(m)
    BY <1>4 DEF DataFail
<1>5. CASE \E w \in Worker : OpenDir(w)
    BY <1>5 DEF OpenDir, InSubdir
<1>6. CASE \E w \in Worker : EndScan(w)
    BY <1>6 DEF EndScan
<1>7. CASE \E w \in Worker : Judge(w)
    BY <1>7 DEF Judge, Verdicts, WorkerFault, NoWorkerFault
<1>8. CASE \E w \in Worker : WriteTmp(w)
    BY <1>8 DEF WriteTmp, WorkerFault, NoWorkerFault
<1>9. CASE \E w \in Worker : RenameTmp(w)
    BY <1>9 DEF RenameTmp, WorkerFault, NoWorkerFault
<1>10. CASE \E w \in Worker : Dispose(w)
    BY <1>10 DEF Dispose, Outcome, WorkerFault, NoWorkerFault
<1>11. CASE \E w \in Worker : Respawn(w)
    BY <1>11 DEF Respawn
<1>12. CASE \E w \in Worker : WorkerCrash(w)
    BY <1>12 DEF WorkerCrash
<1>13. CASE \E w \in Worker, m \in Message : Take(w, m)
    BY <1>13 DEF Take, InSubdir, WorkerFault, NoWorkerFault
<1>14. CASE ReadSendDir
    BY <1>14 DEF ReadSendDir, Busy
<1>15. CASE EndBatch
    BY <1>15 DEF EndBatch, Busy
<1>16. CASE RelayRestart
    BY <1>16 DEF RelayRestart
<1>17. CASE RelayCrash
    BY <1>17 DEF RelayCrash, RelayFault, Busy
<1>18. CASE \E m \in Message : Dispatch(m)
    BY <1>18 DEF Dispatch, Content
<1>19. CASE \E m \in Message : DispatchBad(m)
    BY <1>19 DEF DispatchBad, RelayFault, Busy
<1>20. CASE \E m \in Message : SendEmail(m)
    BY <1>20, SMTT(30) DEF SendEmail, NextHopAccepts, RelayFault, Busy
<1>21. CASE \E m \in Message : Remove(m)
    BY <1>21 DEF Remove, RelayFault, Busy
<1>22. CASE \E m \in Message : MoveToError(m)
    BY <1>22 DEF MoveToError, RelayFault, Busy
<1>23. CASE UNCHANGED vars
    BY <1>23 DEF vars
<1>. QED
    BY <1>1, <1>2, <1>3, <1>4, <1>5, <1>6, <1>7, <1>8, <1>9, <1>10, <1>11,
       <1>12, <1>13, <1>14, <1>15, <1>16, <1>17, <1>18, <1>19, <1>20, <1>21,
       <1>22, <1>23
       DEF Next, Smtpd, WorkerStep, RelayLoop, RelayJob

(* A message that is not suspect, and fits, is complete wherever it is.    *)
LEMMA LengthInvInit == Init => LengthInv
BY ConstantsAssumption DEF Init, LengthInv, TruncationHasCause, Length, Empty, Envelope, Full, Live, Absent

(* No step shortens a message that fits without making it suspect.         *)
LEMMA LengthInvStep ==
    ASSUME TypeOK, WorkerInv, RelayInv, LengthInv, [Next]_vars
    PROVE  LengthInv'
<1> USE DEF TypeOK, WorkerInv, RelayInv, LengthInv, Suspect,
            TruncationHasCause, Content, Rewritten, Length, Empty, Envelope,
            Full, Live, Absent, smtpdVars, workerVars, relayVars, ghostVars,
            faultVars
<1>1. CASE \E m \in Message : DataOpen(m)
    BY <1>1 DEF DataOpen
<1>2. CASE \E m \in Message : DataWrite(m)
    BY <1>2, SMTT(30) DEF DataWrite
<1>3. CASE \E m \in Message : DataAccept(m)
    BY <1>3 DEF DataAccept
<1>4. CASE \E m \in Message : DataFail(m)
    BY <1>4 DEF DataFail
<1>5. CASE \E w \in Worker : OpenDir(w)
    BY <1>5 DEF OpenDir, InSubdir
<1>6. CASE \E w \in Worker : EndScan(w)
    BY <1>6 DEF EndScan
<1>7. CASE \E w \in Worker : Judge(w)
    BY <1>7 DEF Judge, Verdicts, WorkerFault, NoWorkerFault
<1>8. CASE \E w \in Worker : WriteTmp(w)
    BY <1>8, SMTT(30) DEF WriteTmp, WorkerFault, NoWorkerFault
<1>9. CASE \E w \in Worker : RenameTmp(w)
    BY <1>9 DEF RenameTmp, WorkerFault, NoWorkerFault
<1>10. CASE \E w \in Worker : Dispose(w)
    BY <1>10 DEF Dispose, Outcome, WorkerFault, NoWorkerFault
<1>11. CASE \E w \in Worker : Respawn(w)
    BY <1>11 DEF Respawn
<1>12. CASE \E w \in Worker : WorkerCrash(w)
    BY <1>12 DEF WorkerCrash
<1>13. CASE \E w \in Worker, m \in Message : Take(w, m)
    BY <1>13, ConstantsAssumption, SMTT(30)
        DEF Take, InSubdir, WorkerFault, NoWorkerFault
<1>14. CASE ReadSendDir
    BY <1>14 DEF ReadSendDir, Busy
<1>15. CASE EndBatch
    BY <1>15 DEF EndBatch, Busy
<1>16. CASE RelayRestart
    BY <1>16 DEF RelayRestart
<1>17. CASE RelayCrash
    BY <1>17 DEF RelayCrash, RelayFault, Busy
<1>18. CASE \E m \in Message : Dispatch(m)
    BY <1>18 DEF Dispatch, Content
<1>19. CASE \E m \in Message : DispatchBad(m)
    BY <1>19 DEF DispatchBad, RelayFault, Busy
<1>20. CASE \E m \in Message : SendEmail(m)
    BY <1>20 DEF SendEmail, NextHopAccepts, RelayFault, Busy
<1>21. CASE \E m \in Message : Remove(m)
    BY <1>21, SMTT(30) DEF Remove, RelayFault, Busy
<1>22. CASE \E m \in Message : MoveToError(m)
    BY <1>22 DEF MoveToError, RelayFault, Busy
<1>23. CASE UNCHANGED vars
    BY <1>23 DEF vars
<1>. QED
    BY <1>1, <1>2, <1>3, <1>4, <1>5, <1>6, <1>7, <1>8, <1>9, <1>10, <1>11,
       <1>12, <1>13, <1>14, <1>15, <1>16, <1>17, <1>18, <1>19, <1>20, <1>21,
       <1>22, <1>23
       DEF Next, Smtpd, WorkerStep, RelayLoop, RelayJob

(* Only a suspect training message passes, and no other is learnt from.    *)
LEMMA TrainInvInit == Init => TrainInv
BY ConstantsAssumption, SMTT(30) DEF Init, TrainInv, Passing

(* No step lets a training message pass that is not suspect, or learns     *)
(* from another.                                                           *)
LEMMA TrainInvStep ==
    ASSUME TypeOK, WorkerInv, RelayInv, LengthInv, TrainInv, [Next]_vars
    PROVE  TrainInv'
<1> USE DEF TypeOK, WorkerInv, RelayInv, LengthInv, TrainInv, Passing,
            Learnable, Suspect, Content, Length, Empty, Envelope, Full, Live, Absent,
            smtpdVars, workerVars, relayVars, ghostVars, faultVars
<1>1. CASE \E m \in Message : DataOpen(m)
    BY <1>1 DEF DataOpen
<1>2. CASE \E m \in Message : DataWrite(m)
    BY <1>2 DEF DataWrite
<1>3. CASE \E m \in Message : DataAccept(m)
    BY <1>3 DEF DataAccept
<1>4. CASE \E m \in Message : DataFail(m)
    BY <1>4, SMTT(30) DEF DataFail
<1>5. CASE \E w \in Worker : OpenDir(w)
    BY <1>5 DEF OpenDir, InSubdir
<1>6. CASE \E w \in Worker : EndScan(w)
    BY <1>6, SMTT(30) DEF EndScan
<1>7. CASE \E w \in Worker : Judge(w)
    <2> SUFFICES ASSUME NEW w \in Worker, Judge(w) PROVE TrainInv'
        BY <1>7
    <2>1. /\ verdict' \in [Worker -> {"ok", "drop", "train"}]
          /\ verdict' = [verdict EXCEPT ![w] = verdict'[w]]
          /\ wpc' = [wpc EXCEPT ![w] = "judged"]
          /\ damaged \subseteq damaged'
          /\ cur' = cur /\ place' = place /\ early' = early
        BY SMTT(30) DEF Judge, Verdicts, WorkerFault, NoWorkerFault
    <2>2. verdict'[w] = "train" => cur[w] \in Training \cup Misread \cup damaged'
        BY SMTT(30) DEF Judge, Verdicts, WorkerFault, NoWorkerFault
    <2>3. cur[w] \in Training \ Misread /\ verdict'[w] # "train"
            => cur[w] \in early \cup damaged'
        BY SMTT(30) DEF Judge, Verdicts, WorkerFault, NoWorkerFault
    <2>4. \A v \in Worker \ {w} : verdict'[v] = verdict[v] /\ wpc'[v] = wpc[v]
        BY <2>1, SMTT(30)
    <2>5. ASSUME NEW v \in Worker
          PROVE  /\ Passing(v)' /\ cur[v] \in Training \ Misread => cur[v] \in Suspect'
                 /\ verdict'[v] = "train" => cur[v] \in Learnable'
        BY <2>1, <2>2, <2>3, <2>4, SMTT(30)
    <2>6. ASSUME NEW m \in Message
          PROVE  /\ m \in Training \ Misread /\ place[m] \in {"send", "error", "released"}
                       => m \in Suspect'
                 /\ place[m] = "trained" => m \in Learnable'
        BY <2>1, SMTT(30)
    <2> HIDE DEF Suspect, Learnable, Passing
    <2>. QED
        BY <2>1, <2>5, <2>6, ConstantsAssumption DEF ConstantsAssumption
<1>8. CASE \E w \in Worker : WriteTmp(w)
    BY <1>8 DEF WriteTmp, WorkerFault, NoWorkerFault
<1>9. CASE \E w \in Worker : RenameTmp(w)
    BY <1>9 DEF RenameTmp, WorkerFault, NoWorkerFault
<1>10. CASE \E w \in Worker : Dispose(w)
    BY <1>10, ConstantsAssumption DEF Dispose, Outcome, WorkerFault, NoWorkerFault
<1>11. CASE \E w \in Worker : Respawn(w)
    BY <1>11 DEF Respawn
<1>12. CASE \E w \in Worker : WorkerCrash(w)
    BY <1>12 DEF WorkerCrash
<1>13. CASE \E w \in Worker, m \in Message : Take(w, m)
    BY <1>13, ConstantsAssumption DEF Take, InSubdir, WorkerFault, NoWorkerFault
<1>14. CASE ReadSendDir
    BY <1>14 DEF ReadSendDir, Busy
<1>15. CASE EndBatch
    BY <1>15 DEF EndBatch, Busy
<1>16. CASE RelayRestart
    BY <1>16 DEF RelayRestart
<1>17. CASE RelayCrash
    BY <1>17 DEF RelayCrash, RelayFault, Busy
<1>18. CASE \E m \in Message : Dispatch(m)
    BY <1>18 DEF Dispatch, Content
<1>19. CASE \E m \in Message : DispatchBad(m)
    BY <1>19, ConstantsAssumption DEF DispatchBad, RelayFault, Busy
<1>20. CASE \E m \in Message : SendEmail(m)
    BY <1>20 DEF SendEmail, NextHopAccepts, RelayFault, Busy
<1>21. CASE \E m \in Message : Remove(m)
    BY <1>21, ConstantsAssumption DEF Remove, RelayFault, Busy
<1>22. CASE \E m \in Message : MoveToError(m)
    BY <1>22, ConstantsAssumption DEF MoveToError, RelayFault, Busy
<1>23. CASE UNCHANGED vars
    BY <1>23 DEF vars
<1>. QED
    BY <1>1, <1>2, <1>3, <1>4, <1>5, <1>6, <1>7, <1>8, <1>9, <1>10, <1>11,
       <1>12, <1>13, <1>14, <1>15, <1>16, <1>17, <1>18, <1>19, <1>20, <1>21,
       <1>22, <1>23
       DEF Next, Smtpd, WorkerStep, RelayLoop, RelayJob
-----------------------------------------------------------------------------
IInv == TypeOK /\ WorkerInv /\ RelayInv /\ LengthInv /\ TrainInv

(* The inductive invariant holds in every reachable state.                 *)
THEOREM Inductive == Spec => []IInv
<1>1. Init => IInv
    BY TypeInit, WorkerInvInit, RelayInvInit, LengthInvInit, TrainInvInit
       DEF IInv
<1>2. IInv /\ [Next]_vars => IInv'
    BY TypeStep, WorkerInvStep, RelayInvStep, LengthInvStep, TrainInvStep
       DEF IInv
<1>. QED
    BY <1>1, <1>2, PTL DEF Spec

(* The types of the state, and which worker states hold a message.         *)
THEOREM TypeCorrect == Spec => []TypeOK
<1>1. IInv => TypeOK
    BY DEF IInv
<1>. QED
    BY <1>1, Inductive, PTL

(* go-app/cmd/send relays a message once, plus once per fault of its own.  *)
THEOREM DeliveredAtMostOnce == Spec => []AtMostOnce
<1>1. IInv => AtMostOnce
    BY DEF IInv, RelayInv
<1>. QED
    BY <1>1, Inductive, PTL

(* No two workers of kospam process the same message.                      *)
THEOREM ProcessedByOneWorker == Spec => []OneWorker
<1>1. IInv => OneWorker
    BY DEF IInv, WorkerInv, OneWorker
<1>. QED
    BY <1>1, Inductive, PTL

(* The next hop gets an incomplete message only if a worker took it early, *)
(* a worker's file operation failed on it, or fix_message_file has no room *)
(* for its header.                                                         *)
THEOREM TruncatedForACause == Spec => []TruncationHasCause
<1>1. IInv => TruncationHasCause
    BY DEF IInv, LengthInv
<1>. QED
    BY <1>1, Inductive, PTL

(* A training message whose recipients the worker read never reaches the   *)
(* next hop, and kospam learns from no other message.                      *)
THEOREM TrainingStaysLocal == Spec => []TrainedByAddress
<1>1. IInv => TrainedByAddress
    <2> SUFFICES ASSUME IInv, NEW m \in Message, m \notin Misread \cup damaged
                 PROVE  /\ m \in Training /\ sent[m] > 0 => m \in early
                        /\ place[m] = "trained" => m \in Training
        BY DEF TrainedByAddress
    <2>1. ASSUME m \in Training, sent[m] > 0 PROVE m \in early
        <3>1. place[m] \in {"send", "error", "released"}
            BY <2>1, SMTT(30) DEF IInv, TypeOK, Places, RelayInv
        <3>. QED
            BY <2>1, <3>1 DEF IInv, TrainInv, Suspect
    <2>2. place[m] = "trained" => m \in Training
        BY DEF IInv, TrainInv, Learnable
    <2>. QED
        BY <2>1, <2>2
<1>. QED
    BY <1>1, Inductive, PTL

(* A message a worker left in the work dir is never taken up again: the    *)
(* claim of kospam.c's comment on its rename out of the queue directory.   *)
THEOREM LeftBehindForGood == Spec => NeverTakenAgain
<1> DEFINE Left(m) == place[m] = "work" /\ ~Processing(m)
<1>1. ASSUME IInv, [Next]_vars, NEW m \in Message, Left(m)
      PROVE  place'[m] = "work" /\ ~Processing(m)'
    <2> USE <1>1 DEF IInv, TypeOK, WorkerInv, RelayInv, Processing, Busy,
                     smtpdVars, workerVars, relayVars, ghostVars, faultVars
    <2>1. CASE \E n \in Message : Smtpd(n)
        BY <2>1 DEF Smtpd, DataOpen, DataWrite, DataAccept, DataFail
    <2>2. CASE \E n \in Message : RelayJob(n)
        BY <2>2 DEF RelayJob, SendEmail, NextHopAccepts, Remove, MoveToError
    <2>3. CASE RelayLoop
        BY <2>3 DEF RelayLoop, ReadSendDir, EndBatch, RelayRestart, Dispatch,
                    DispatchBad
    <2>4. CASE \E w \in Worker, n \in Message : Take(w, n)
        BY <2>4 DEF Take, InSubdir
    <2>5. CASE \E w \in Worker : Dispose(w)
        BY <2>5, ConstantsAssumption DEF Dispose
    <2>6. CASE \E w \in Worker :
                  OpenDir(w) \/ EndScan(w) \/ Judge(w) \/ WriteTmp(w)
                    \/ RenameTmp(w) \/ Respawn(w)
        BY <2>6 DEF OpenDir, EndScan, Judge, WriteTmp, RenameTmp, Respawn
    <2>7. CASE \E w \in Worker : WorkerCrash(w)
        BY <2>7, ConstantsAssumption DEF WorkerCrash
    <2>8. CASE RelayCrash
        BY <2>8 DEF RelayCrash
    <2>9. CASE UNCHANGED vars
        BY <2>9 DEF vars
    <2>. QED
        BY <2>1, <2>2, <2>3, <2>4, <2>5, <2>6, <2>7, <2>8, <2>9
           DEF Next, WorkerStep
<1>2. IInv /\ [Next]_vars
        => [\A m \in Message :
              place[m] = "work" /\ ~Processing(m)
                => place'[m] = "work" /\ ~Processing(m)']_vars
    BY <1>1
<1>. QED
    BY <1>2, Inductive, PTL DEF Spec, NeverTakenAgain

-----------------------------------------------------------------------------
(* Every step of the service is a step of MessageFate, or none.            *)
LEMMA FateStep ==
    ASSUME IInv, IInv', [Next]_vars
    PROVE  [Fate!Next]_(Fate!vars)
<1> USE DEF Fate!Next, Fate!vars, Fate!MoveTo, Fate!MayDoubt
<1> USE DEF smtpdVars, workerVars, relayVars, ghostVars, faultVars
<1> USE DEF IInv, TypeOK
<1>1. CASE \E m \in Message : DataOpen(m)
    <2> PICK m \in Message : DataOpen(m)
        BY <1>1
    <2>1. /\ place[m] = "none"
          /\ place' = [place EXCEPT ![m] = "queue"]
          /\ UNCHANGED <<sent, relayFaults>>
        BY DEF DataOpen, WorkerInv
    <2>. QED
        BY <2>1 DEF Fate!Submit
<1>2. CASE \E m \in Message : DataWrite(m) \/ DataAccept(m) \/ DataFail(m)
    BY <1>2 DEF DataWrite, DataAccept, DataFail
<1>3. CASE \E w \in Worker, m \in Message : Take(w, m)
    BY <1>3 DEF Take, InSubdir, Fate!Hold
<1>4. CASE \E w \in Worker : Dispose(w)
    <2> PICK w \in Worker : Dispose(w)
        BY <1>4
    <2>1. cur[w] \in Message
        BY SMTT(30) DEF Dispose
    <2>2. CASE UNCHANGED place
        BY <2>2 DEF Dispose
    <2>3. CASE /\ place[cur[w]] = "work"
               /\ place' = [place EXCEPT ![cur[w]] = Outcome(verdict[w])]
        <3>1. UNCHANGED <<sent, relayFaults>>
            BY DEF Dispose
        <3>2. CASE verdict[w] = "ok"
            BY <2>1, <2>3, <3>1, <3>2 DEF Outcome, Fate!Forward
        <3>3. CASE verdict[w] # "ok"
            <4>1. Outcome(verdict[w]) \in {"dropped", "trained"}
                BY <3>3 DEF Outcome
            <4>. QED
                BY <2>1, <2>3, <3>1, <4>1 DEF Fate!Dismiss
        <3>. QED
            BY <3>2, <3>3
    <2>. QED
        BY <2>2, <2>3 DEF Dispose
<1>5. CASE \E w \in Worker :
              OpenDir(w) \/ EndScan(w) \/ Judge(w) \/ WriteTmp(w)
                \/ RenameTmp(w) \/ Respawn(w) \/ WorkerCrash(w)
    BY <1>5 DEF OpenDir, EndScan, Judge, WriteTmp, RenameTmp, Respawn,
                WorkerCrash
<1>6. CASE ReadSendDir \/ EndBatch \/ RelayRestart
              \/ \E m \in Message : Dispatch(m)
    BY <1>6 DEF ReadSendDir, EndBatch, RelayRestart, Dispatch
<1>7. CASE \E m \in Message : DispatchBad(m)
    <2> PICK m \in Message : DispatchBad(m)
        BY <1>7
    <2>1. /\ place[m] = "send" /\ sent[m] <= relayFaults
          /\ relayFaults' \in {relayFaults, relayFaults + 1}
          /\ UNCHANGED sent
        BY DEF DispatchBad, RelayFault, RelayInv
    <2>2. CASE place' = [place EXCEPT ![m] = "error"]
        <3>1. sent[m] > 0 => relayFaults' > 0
            BY <2>1
        <3>. QED
            BY <2>1, <2>2, <3>1 DEF Fate!SetAside
    <2>3. CASE UNCHANGED place
        BY <2>1, <2>3 DEF Fate!Doubt
    <2>. QED
        BY <2>2, <2>3 DEF DispatchBad
<1>8. CASE \E m \in Message : SendEmail(m)
    BY <1>8 DEF SendEmail, NextHopAccepts, RelayFault, RelayInv, Fate!Deliver,
                Fate!Doubt
<1>9. CASE \E m \in Message : Remove(m)
    BY <1>9 DEF Remove, RelayFault, RelayInv, Fate!Release, Fate!Doubt
<1>10. CASE \E m \in Message : MoveToError(m)
    BY <1>10, SMTT(30)
        DEF MoveToError, RelayFault, RelayInv, Fate!SetAside, Fate!Doubt
<1>11. CASE RelayCrash
    BY <1>11 DEF RelayCrash, RelayFault, Fate!Doubt
<1>12. CASE UNCHANGED vars
    BY <1>12 DEF vars
<1>. QED
    BY <1>1, <1>2, <1>3, <1>4, <1>5, <1>6, <1>7, <1>8, <1>9, <1>10, <1>11,
       <1>12
       DEF Next, Smtpd, WorkerStep, RelayLoop, RelayJob

(* The service keeps the promise of MessageFate: stages one way, at most   *)
(* one copy and no release without a delivery, but for the relay's doubts. *)
THEOREM PromiseKept == Spec => KeepsPromise
<1>1. Init => Fate!Init
    BY DEF Init, Fate!Init
<1>2. IInv /\ IInv' /\ [Next]_vars => [Fate!Next]_(Fate!vars)
    BY FateStep
<1>. QED
    BY <1>1, <1>2, Inductive, PTL DEF Spec, KeepsPromise, Fate!Spec
=============================================================================
