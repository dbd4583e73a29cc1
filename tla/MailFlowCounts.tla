--------------------------- MODULE MailFlowCounts ---------------------------
(***************************************************************************)
(* Proofs of the properties of MailFlow that count: what faults leave      *)
(* behind, what the relay removes undelivered, and the queue counter.      *)
(* Message may be infinite, so that each counted set is shown to be finite *)
(* together with its bound: a step adds at most one message to it.         *)
(*                                                                         *)
(* Each bound is strengthened to count what a later step will add:         *)
(*   UnsentInv   also the jobs that took a late answer for their own;      *)
(*   OwingInv    also the messages in hand whose .tmp will stay behind;    *)
(*   TmpInv      (there is no .tmp of a message nobody has taken);         *)
(*   CounterInv  is inductive as it stands.                                *)
(***************************************************************************)
EXTENDS MailFlowProofs, CountingLemmas

Unsent == {m \in Message :
             sent[m] = 0 /\ (place[m] = "released" \/ job[m] = "true")}
UnsentInv == IsFiniteSet(Unsent) /\ Cardinality(Unsent) <= relayFaults

TmpInv == \A m \in Message : place[m] \in {"none", "queue"} => tmp[m] = Absent

(* The messages left behind, or sure to be when their worker ends.         *)
Owing == {m \in Message :
            IF Processing(m)
              THEN tmp[m] # Absent
                   /\ \A w \in Worker : cur[w] = m => wpc[w] # "rewritten"
              ELSE place[m] = "work" \/ tmp[m] # Absent}
OwingInv == IsFiniteSet(Owing) /\ Cardinality(Owing) <= workerFaults

(* What the queue may be long by, but for the messages it left uncounted.  *)
Credit == counter + relayFaults + redisErrors
CounterInv ==
    /\ IsFiniteSet(Queued) /\ IsFiniteSet(Uncounted)
    /\ Cardinality(Queued) <= Cardinality(Uncounted) + Credit

CInv == IInv /\ UnsentInv /\ TmpInv /\ OwingInv /\ CounterInv

-----------------------------------------------------------------------------
(* No fault is taken back.                                                 *)
LEMMA FaultsGrow ==
    ASSUME TypeOK, [Next]_vars
    PROVE  /\ relayFaults \in Nat /\ workerFaults \in Nat /\ redisErrors \in Nat
           /\ relayFaults' \in {relayFaults, relayFaults + 1}
           /\ workerFaults' \in {workerFaults, workerFaults + 1}
           /\ redisErrors' \in {redisErrors, redisErrors + 1}
<1> USE DEF faultVars, WorkerFault, NoWorkerFault, RelayFault
<1>1. relayFaults \in Nat /\ workerFaults \in Nat /\ redisErrors \in Nat
    BY DEF TypeOK
<1>2. CASE \E m \in Message : Smtpd(m) \/ RelayJob(m)
    BY <1>1, <1>2, SMTT(30)
        DEF Smtpd, DataOpen, DataWrite, DataAccept, DataFail, RelayJob,
                      SendEmail, Remove, MoveToError
<1>3. CASE \E w \in Worker : WorkerStep(w) \/ WorkerCrash(w)
    BY <1>1, <1>3 DEF WorkerStep, OpenDir, EndScan, Judge, WriteTmp, RenameTmp,
                      Dispose, Respawn, Take, WorkerCrash
<1>4. CASE RelayLoop \/ RelayCrash
    BY <1>1, <1>4 DEF RelayLoop, ReadSendDir, EndBatch, RelayRestart, Dispatch,
                      DispatchBad, RelayCrash
<1>5. CASE UNCHANGED vars
    BY <1>1, <1>5 DEF vars
<1>. QED
    BY <1>2, <1>3, <1>4, <1>5 DEF Next

(* Every late answer a relay job took for its own has cost a fault.        *)
LEMMA UnsentStep ==
    ASSUME TypeOK, RelayInv, UnsentInv, [Next]_vars
    PROVE  UnsentInv'
<1> USE DEF smtpdVars, workerVars, relayVars, ghostVars, faultVars
<1>1. /\ sent \in [Message -> Nat] /\ place \in [Message -> Places]
      /\ job \in [Message -> {"none", "sending", "true", "false"}]
      /\ \A m \in Message : job[m] # "none" => place[m] = "send"
      /\ \A m \in batch : place[m] = "send"
    BY DEF TypeOK, RelayInv
<1>2. ASSUME Unsent' \subseteq Unsent PROVE UnsentInv'
    BY <1>2, FaultsGrow, GainsNone DEF UnsentInv
<1>3. ASSUME NEW m, Unsent' \subseteq Unsent \cup {m}, relayFaults' = relayFaults + 1
      PROVE  UnsentInv'
    BY <1>3, FaultsGrow, GainsOne, SMTT(30) DEF UnsentInv
<1>4. CASE UNCHANGED <<sent, place, job>>
    BY <1>2, <1>4 DEF Unsent
<1>5. ASSUME NEW m \in Message, DataOpen(m) PROVE UnsentInv'
    <2>1. UNCHANGED <<sent, job>> /\ place' = [place EXCEPT ![m] = "queue"]
        BY <1>5 DEF DataOpen
    <2>. QED
        BY <1>1, <1>2, <2>1 DEF Unsent
<1>6. ASSUME NEW w \in Worker, NEW m \in Message, Take(w, m) PROVE UnsentInv'
    <2>1. /\ UNCHANGED <<sent, job>>
          /\ UNCHANGED place \/ place' = [place EXCEPT ![m] = "work"]
        BY <1>6 DEF Take
    <2>. QED
        BY <1>1, <1>2, <2>1 DEF Unsent
<1>7. ASSUME NEW w \in Worker, Dispose(w) PROVE UnsentInv'
    <2>1. /\ UNCHANGED <<sent, job>>
          /\ \/ UNCHANGED place
             \/ \E x \in {"send", "dropped", "trained"} :
                    place' = [place EXCEPT ![cur[w]] = x]
        BY <1>7 DEF Dispose, Outcome, TypeOK
    <2>. QED
        BY <1>1, <1>2, <2>1 DEF Unsent
<1>8. ASSUME NEW m \in Message, DispatchBad(m) \/ MoveToError(m) PROVE UnsentInv'
    <2>1. /\ UNCHANGED sent
          /\ UNCHANGED job \/ job' = [job EXCEPT ![m] = "none"]
          /\ UNCHANGED place \/ place' = [place EXCEPT ![m] = "error"]
        BY <1>8 DEF DispatchBad, MoveToError
    <2>. QED
        BY <1>1, <1>2, <2>1 DEF Unsent
<1>9. ASSUME NEW m \in Message, Dispatch(m) PROVE UnsentInv'
    <2>1. UNCHANGED <<sent, place>> /\ job' = [job EXCEPT ![m] = "sending"]
        BY <1>9 DEF Dispatch
    <2>. QED
        BY <1>1, <1>2, <2>1 DEF Unsent
<1>10. ASSUME NEW m \in Message, SendEmail(m) PROVE UnsentInv'
    <2>1. UNCHANGED place
        BY <1>10 DEF SendEmail
    <2>2. CASE sent' = [sent EXCEPT ![m] = @ + 1] /\ UNCHANGED relayFaults
               /\ job' = [job EXCEPT ![m] = "true"]
        <3>1. Unsent' \subseteq Unsent
            BY <1>1, <2>1, <2>2 DEF Unsent
        <3>. QED
            BY <1>2, <3>1
    <2>3. CASE \E x \in Nat : sent' = [sent EXCEPT ![m] = @ + x]
                              /\ job' = [job EXCEPT ![m] = "false"]
        <3>1. Unsent' \subseteq Unsent
            BY <1>1, <2>1, <2>3 DEF Unsent
        <3>. QED
            BY <1>2, <3>1
    <2>4. CASE RelayFault /\ job' = [job EXCEPT ![m] = "true"] /\ UNCHANGED sent
        <3>1. Unsent' \subseteq Unsent \cup {m}
            BY <1>1, <2>1, <2>4 DEF Unsent
        <3>. QED
            BY <1>3, <2>4, <3>1 DEF RelayFault
    <2>5. CASE UNCHANGED sent /\ job' = [job EXCEPT ![m] = "false"]
        <3>1. Unsent' \subseteq Unsent
            BY <1>1, <2>1, <2>5 DEF Unsent
        <3>. QED
            BY <1>2, <3>1
    <2>. QED
        BY <1>10, <2>2, <2>3, <2>4, <2>5 DEF SendEmail, NextHopAccepts
<1>11. ASSUME NEW m \in Message, Remove(m) PROVE UnsentInv'
    <2>1. /\ UNCHANGED sent /\ job[m] = "true"
          /\ job' = [job EXCEPT ![m] = "none"]
          /\ UNCHANGED place \/ place' = [place EXCEPT ![m] = "released"]
        BY <1>11 DEF Remove
    <2>. QED
        BY <1>1, <1>2, <2>1 DEF Unsent
<1>12. CASE RelayCrash
    <2>1. UNCHANGED <<sent, place>> /\ job' = [m \in Message |-> "none"]
        BY <1>12 DEF RelayCrash
    <2>. QED
        BY <1>1, <1>2, <2>1 DEF Unsent
<1>13. ASSUME NEW m \in Message, DataWrite(m) \/ DataAccept(m) \/ DataFail(m)
       PROVE  UNCHANGED <<sent, place, job>>
    BY <1>13 DEF DataWrite, DataAccept, DataFail
<1>14. ASSUME NEW w \in Worker, \/ OpenDir(w) \/ EndScan(w) \/ Judge(w) \/ WriteTmp(w)
                                \/ RenameTmp(w) \/ Respawn(w) \/ WorkerCrash(w)
       PROVE  UNCHANGED <<sent, place, job>>
    BY <1>14 DEF OpenDir, EndScan, Judge, WriteTmp, RenameTmp, Respawn, WorkerCrash
<1>15. ASSUME ReadSendDir \/ EndBatch \/ RelayRestart \/ UNCHANGED vars
       PROVE  UNCHANGED <<sent, place, job>>
    BY <1>15 DEF ReadSendDir, EndBatch, RelayRestart, vars
<1>. QED
    BY <1>4, <1>5, <1>6, <1>7, <1>8, <1>9, <1>10, <1>11, <1>12, <1>13, <1>14, <1>15
       DEF Next, Smtpd, WorkerStep, RelayLoop, RelayJob

(* A message of the queue directory has no rewritten copy beside it: one   *)
(* is written only of a message a worker has moved to the work dir.        *)
LEMMA TmpStep ==
    ASSUME TypeOK, WorkerInv, RelayInv, TmpInv, [Next]_vars
    PROVE  TmpInv'
<1> USE DEF smtpdVars, workerVars, relayVars, ghostVars, faultVars
<1>1. /\ place \in [Message -> Places]
      /\ tmp \in [Message -> Length \cup {Absent}]
      /\ cur \in [Worker -> Message \cup {None}]
      /\ wpc \in [Worker -> {"idle", "scan", "parse", "judged", "rewritten",
                             "fixed", "down"}]
      /\ \A w \in Worker : cur[w] = None <=> wpc[w] \in {"idle", "scan", "down"}
    BY DEF TypeOK
<1>2. CASE UNCHANGED <<place, tmp>>
    BY <1>2 DEF TmpInv
<1>3. ASSUME NEW m \in Message, DataOpen(m) PROVE TmpInv'
    <2>1. /\ UNCHANGED tmp /\ smtpd[m] = "idle"
          /\ place' = [place EXCEPT ![m] = "queue"]
        BY <1>3 DEF DataOpen
    <2>2. place[m] = "none"
        BY <2>1 DEF WorkerInv
    <2>. QED
        BY <1>1, <2>1, <2>2 DEF TmpInv
<1>4. ASSUME NEW w \in Worker, NEW m \in Message, Take(w, m) PROVE TmpInv'
    <2>1. /\ UNCHANGED tmp
          /\ UNCHANGED place \/ place' = [place EXCEPT ![m] = "work"]
        BY <1>4 DEF Take
    <2>. QED
        BY <1>1, <2>1 DEF TmpInv
<1>5. ASSUME NEW w \in Worker, WriteTmp(w) PROVE TmpInv'
    <2>1. /\ UNCHANGED place
          /\ \/ UNCHANGED tmp
             \/ /\ place[cur[w]] = "work"
                /\ \A m \in Message : m # cur[w] => tmp'[m] = tmp[m]
        BY <1>1, <1>5 DEF WriteTmp
    <2>. QED
        BY <1>1, <2>1 DEF TmpInv
<1>6. ASSUME NEW w \in Worker, RenameTmp(w) PROVE TmpInv'
    <2>1. /\ UNCHANGED place
          /\ UNCHANGED tmp \/ tmp' = [tmp EXCEPT ![cur[w]] = Absent]
        BY <1>6 DEF RenameTmp
    <2>. QED
        BY <1>1, <2>1 DEF TmpInv
<1>7. ASSUME NEW w \in Worker, Dispose(w) PROVE TmpInv'
    <2>1. /\ UNCHANGED tmp
          /\ \/ UNCHANGED place
             \/ \E x \in {"send", "dropped", "trained"} :
                    place' = [place EXCEPT ![cur[w]] = x]
        BY <1>7 DEF Dispose, Outcome, TypeOK
    <2>. QED
        BY <1>1, <2>1 DEF TmpInv
<1>8. ASSUME NEW m \in Message, DispatchBad(m) \/ MoveToError(m) \/ Remove(m)
      PROVE  TmpInv'
    <2>1. /\ UNCHANGED tmp
          /\ \/ UNCHANGED place
             \/ \E x \in {"error", "released"} : place' = [place EXCEPT ![m] = x]
        BY <1>8 DEF DispatchBad, MoveToError, Remove
    <2>. QED
        BY <1>1, <2>1 DEF TmpInv
<1>9. ASSUME NEW m \in Message, \/ DataWrite(m) \/ DataAccept(m) \/ DataFail(m)
                                \/ Dispatch(m) \/ SendEmail(m)
      PROVE  UNCHANGED <<place, tmp>>
    BY <1>9 DEF DataWrite, DataAccept, DataFail, Dispatch, SendEmail
<1>10. ASSUME NEW w \in Worker, \/ OpenDir(w) \/ EndScan(w) \/ Judge(w)
                                \/ Respawn(w) \/ WorkerCrash(w)
       PROVE  UNCHANGED <<place, tmp>>
    BY <1>10 DEF OpenDir, EndScan, Judge, Respawn, WorkerCrash
<1>11. ASSUME ReadSendDir \/ EndBatch \/ RelayRestart \/ RelayCrash
                \/ UNCHANGED vars
       PROVE  UNCHANGED <<place, tmp>>
    BY <1>11 DEF ReadSendDir, EndBatch, RelayRestart, RelayCrash, vars
<1>. QED
    BY <1>2, <1>3, <1>4, <1>5, <1>6, <1>7, <1>8, <1>9, <1>10, <1>11
       DEF Next, Smtpd, WorkerStep, RelayLoop, RelayJob

(* Each message a worker leaves behind, or will, has cost a fault of it.   *)
LEMMA OwingStep ==
    ASSUME TypeOK, WorkerInv, RelayInv, TmpInv, OwingInv, [Next]_vars
    PROVE  OwingInv'
<1> USE DEF smtpdVars, workerVars, relayVars, ghostVars, faultVars
<1>1. /\ place \in [Message -> Places]
      /\ tmp \in [Message -> Length \cup {Absent}]
      /\ cur \in [Worker -> Message \cup {None}]
      /\ wpc \in [Worker -> {"idle", "scan", "parse", "judged", "rewritten",
                             "fixed", "down"}]
      /\ \A w \in Worker : cur[w] = None <=> wpc[w] \in {"idle", "scan", "down"}
      /\ None \notin Message
    BY ConstantsAssumption DEF TypeOK
<1>2. /\ \A w \in Worker : cur[w] # None =>
             place[cur[w]] = "work" \/ place[cur[w]] = "queue"
      /\ \A v, w \in Worker : cur[v] = cur[w] /\ cur[v] # None => v = w
      /\ \A m \in Message : smtpd[m] = "idle" => place[m] = "none"
      /\ \A m \in Message : job[m] # "none" => place[m] = "send"
      /\ \A m \in batch : place[m] = "send"
      /\ batch \in SUBSET Message
    BY DEF TypeOK, WorkerInv, RelayInv
<1>3. ASSUME Owing' \subseteq Owing PROVE OwingInv'
    BY <1>3, FaultsGrow, GainsNone DEF OwingInv
<1>4. ASSUME NEW m, Owing' \subseteq Owing \cup {m}, workerFaults' = workerFaults + 1
      PROVE  OwingInv'
    <2>1. workerFaults \in Nat
        BY FaultsGrow
    <2>2. IsFiniteSet(Owing') /\ Cardinality(Owing') \in Nat
          /\ Cardinality(Owing) \in Nat /\ Cardinality(Owing') <= Cardinality(Owing) + 1
        BY <1>4, GainsOne DEF OwingInv
    <2>. QED
        BY <1>4, <2>1, <2>2 DEF OwingInv
<1>5. CASE UNCHANGED <<place, tmp, cur, wpc>>
    BY <1>3, <1>5 DEF Owing, Processing
<1>6. ASSUME UNCHANGED <<tmp, cur, wpc>>, NEW m \in Message,
             place[m] \in {"none", "send"}, NEW x, x # "work",
             place' = [place EXCEPT ![m] = x]
      PROVE  OwingInv'
    <2>1. Owing' \subseteq Owing
        BY <1>1, <1>2, <1>6 DEF Owing, Processing
    <2>. QED
        BY <1>3, <2>1
<1>7. ASSUME NEW m \in Message, DataOpen(m) PROVE OwingInv'
    BY <1>2, <1>6, <1>7 DEF DataOpen
<1>8. ASSUME NEW m \in Message, DispatchBad(m) \/ MoveToError(m) \/ Remove(m)
      PROVE  OwingInv'
    <2>1. UNCHANGED <<tmp, cur, wpc>> /\ place[m] = "send"
        BY <1>2, <1>8 DEF DispatchBad, MoveToError, Remove
    <2>2. \/ UNCHANGED place
          \/ place' = [place EXCEPT ![m] = "error"]
          \/ place' = [place EXCEPT ![m] = "released"]
        BY <1>8 DEF DispatchBad, MoveToError, Remove
    <2>. QED
        BY <1>5, <1>6, <2>1, <2>2
<1>9. ASSUME NEW w \in Worker, NEW m \in Message, Take(w, m) PROVE OwingInv'
    <2>1. /\ UNCHANGED tmp /\ place[m] = "queue" /\ wpc[w] = "scan"
          /\ cur' = [cur EXCEPT ![w] = m] /\ wpc' = [wpc EXCEPT ![w] = "parse"]
          /\ UNCHANGED place \/ place' = [place EXCEPT ![m] = "work"]
        BY <1>9 DEF Take, InSubdir
    <2>2. tmp[m] = Absent /\ cur[w] = None
        BY <1>1, <2>1 DEF TmpInv
    <2>3. ASSUME NEW n \in Owing' PROVE n \in Owing
        <3>1. n \in Message /\ (n = m => Processing(n)') /\ n # m
            BY <1>1, <2>1, <2>2, <2>3 DEF Owing, Processing
        <3>2. /\ tmp'[n] = tmp[n] /\ place'[n] = place[n]
              /\ \A v \in Worker : cur'[v] = n <=> cur[v] = n
              /\ \A v \in Worker : cur'[v] = n => wpc'[v] = wpc[v]
            BY <1>1, <2>1, <2>2, <3>1
        <3>. QED
            BY <2>3, <3>1, <3>2 DEF Owing, Processing
    <2>. QED
        BY <1>3, <2>3
<1>10. ASSUME NEW w \in Worker, OpenDir(w) \/ EndScan(w) \/ Respawn(w) PROVE OwingInv'
    <2>1. UNCHANGED <<place, tmp, cur>> /\ cur[w] = None
        BY <1>1, <1>10 DEF OpenDir, EndScan, Respawn
    <2>2. \A v \in Worker : v # w => wpc'[v] = wpc[v]
        BY <1>1, <1>10 DEF OpenDir, EndScan, Respawn
    <2>3. Owing' \subseteq Owing
        BY <1>1, <2>1, <2>2 DEF Owing, Processing
    <2>. QED
        BY <1>3, <2>3
<1>11. ASSUME NEW w \in Worker, Judge(w) PROVE OwingInv'
    <2>1. /\ UNCHANGED <<place, tmp, cur>> /\ wpc[w] = "parse"
          /\ wpc' = [wpc EXCEPT ![w] = "judged"]
        BY <1>11 DEF Judge
    <2>2. Owing' \subseteq Owing
        BY <1>1, <2>1 DEF Owing, Processing
    <2>. QED
        BY <1>3, <2>2
<1>12. ASSUME NEW w \in Worker, WriteTmp(w) PROVE OwingInv'
    <2>1. UNCHANGED <<place, cur>> /\ wpc[w] = "judged" /\ cur[w] \in Message
        BY <1>1, <1>12 DEF WriteTmp
    <2>2. CASE wpc' = [wpc EXCEPT ![w] = "fixed"] /\ UNCHANGED tmp
        <3>1. Owing' \subseteq Owing
            BY <1>1, <2>1, <2>2 DEF Owing, Processing
        <3>. QED
            BY <1>3, <3>1
    <2>3. CASE /\ wpc' = [wpc EXCEPT ![w] = "rewritten"]
               /\ \A n \in Message : n # cur[w] => tmp'[n] = tmp[n]
        <3>1. Owing' \subseteq Owing
            BY <1>1, <2>1, <2>3 DEF Owing, Processing
        <3>. QED
            BY <1>3, <3>1
    <2>. QED
        BY <1>1, <1>12, <2>2, <2>3 DEF WriteTmp
<1>13. ASSUME NEW w \in Worker, RenameTmp(w) PROVE OwingInv'
    <2>1. /\ UNCHANGED <<place, cur>> /\ wpc[w] = "rewritten" /\ cur[w] \in Message
          /\ wpc' = [wpc EXCEPT ![w] = "fixed"]
        BY <1>1, <1>13 DEF RenameTmp
    <2>2. \A n \in Message : n # cur[w] =>
              \A v \in Worker : cur[v] = n => wpc'[v] = wpc[v]
        BY <1>1, <2>1
    <2>3. CASE tmp' = [tmp EXCEPT ![cur[w]] = Absent]
        <3>1. Owing' \subseteq Owing
            BY <1>1, <2>1, <2>2, <2>3 DEF Owing, Processing
        <3>. QED
            BY <1>3, <3>1
    <2>4. CASE tmp[cur[w]] = Absent /\ UNCHANGED tmp
        <3>1. Owing' \subseteq Owing
            BY <1>1, <2>1, <2>2, <2>4 DEF Owing, Processing
        <3>. QED
            BY <1>3, <3>1
    <2>5. CASE WorkerFault(cur[w]) /\ UNCHANGED tmp
        <3>1. Owing' \subseteq Owing \cup {cur[w]}
            BY <1>1, <2>1, <2>2, <2>5 DEF Owing, Processing
        <3>. QED
            BY <1>4, <2>5, <3>1 DEF WorkerFault
    <2>. QED
        BY <1>13, <2>3, <2>4, <2>5 DEF RenameTmp
<1>14. ASSUME NEW w \in Worker, Dispose(w) PROVE OwingInv'
    <2>1. /\ UNCHANGED tmp /\ wpc[w] \in {"judged", "fixed"} /\ cur[w] \in Message
          /\ cur' = [cur EXCEPT ![w] = None] /\ wpc' = [wpc EXCEPT ![w] = "scan"]
        BY <1>1, <1>14 DEF Dispose
    <2>2. \A n \in Message : n # cur[w] =>
              \A v \in Worker : (cur'[v] = n <=> cur[v] = n)
                                /\ (cur[v] = n => wpc'[v] = wpc[v])
        BY <1>1, <2>1
    <2>3. ~\E v \in Worker : cur'[v] = cur[w]
        BY <1>1, <1>2, <2>1
    <2>4. ASSUME \A n \in Message : n # cur[w] => place'[n] = place[n]
          PROVE  Owing' \subseteq Owing \cup {cur[w]}
        BY <1>1, <2>1, <2>2, <2>4 DEF Owing, Processing
    <2>5. ASSUME \A n \in Message : n # cur[w] => place'[n] = place[n],
                 cur[w] \in Owing' => cur[w] \in Owing
          PROVE  OwingInv'
        BY <1>3, <2>4, <2>5
    <2>6. tmp[cur[w]] # Absent => cur[w] \in Owing
        BY <1>1, <1>2, <2>1 DEF Owing, Processing
    <2>7. CASE place' = [place EXCEPT ![cur[w]] = Outcome(verdict[w])]
        <3>1. Outcome(verdict[w]) # "work"
            BY DEF Outcome, TypeOK
        <3>2. cur[w] \in Owing' => tmp[cur[w]] # Absent
            BY <1>1, <2>1, <2>3, <2>7, <3>1 DEF Owing, Processing
        <3>. QED
            BY <1>1, <2>5, <2>6, <2>7, <3>2
    <2>8. CASE WorkerFault(cur[w]) /\ UNCHANGED place
        BY <1>4, <2>4, <2>8 DEF WorkerFault
    <2>9. CASE place[cur[w]] # "work" /\ UNCHANGED place
        <3>1. tmp[cur[w]] = Absent
            BY <1>1, <1>2, <2>1, <2>9 DEF TmpInv
        <3>2. cur[w] \notin Owing'
            BY <1>1, <2>1, <2>3, <2>9, <3>1 DEF Owing, Processing
        <3>. QED
            BY <2>5, <2>9, <3>2
    <2>. QED
        BY <1>14, <2>7, <2>8, <2>9 DEF Dispose
<1>15. ASSUME NEW w \in Worker, WorkerCrash(w) PROVE OwingInv'
    <2>1. /\ UNCHANGED <<tmp, place>> /\ workerFaults' = workerFaults + 1
          /\ cur' = [cur EXCEPT ![w] = None] /\ wpc' = [wpc EXCEPT ![w] = "down"]
        BY <1>15 DEF WorkerCrash
    <2>2. \A n \in Message : n # cur[w] =>
              \A v \in Worker : (cur'[v] = n <=> cur[v] = n)
                                /\ (cur[v] = n => wpc'[v] = wpc[v])
        BY <1>1, <2>1
    <2>3. Owing' \subseteq Owing \cup {cur[w]}
        BY <1>1, <2>1, <2>2 DEF Owing, Processing
    <2>. QED
        BY <1>4, <2>1, <2>3
<1>16. ASSUME NEW m \in Message, \/ DataWrite(m) \/ DataAccept(m) \/ DataFail(m)
                                 \/ Dispatch(m) \/ SendEmail(m)
       PROVE  UNCHANGED <<place, tmp, cur, wpc>>
    BY <1>16 DEF DataWrite, DataAccept, DataFail, Dispatch, SendEmail
<1>17. ASSUME ReadSendDir \/ EndBatch \/ RelayRestart \/ RelayCrash
                \/ UNCHANGED vars
       PROVE  UNCHANGED <<place, tmp, cur, wpc>>
    BY <1>17 DEF ReadSendDir, EndBatch, RelayRestart, RelayCrash, vars
<1>. QED
    BY <1>5, <1>7, <1>8, <1>9, <1>10, <1>11, <1>12, <1>13, <1>14, <1>15, <1>16,
       <1>17
       DEF Next, Smtpd, WorkerStep, RelayLoop, RelayJob

(* The counter keeps up with the queue: a message that joins it is counted *)
(* in the same step, and one that leaves it is taken off in the same step, *)
(* but for a refused update, a failed removal and a message that left      *)
(* before it was counted.                                                  *)
LEMMA CounterStep ==
    ASSUME TypeOK, WorkerInv, RelayInv, CounterInv, [Next]_vars
    PROVE  CounterInv'
<1> USE DEF smtpdVars, workerVars, relayVars, ghostVars, faultVars
<1>1. /\ place \in [Message -> Places] /\ counter \in Int
      /\ smtpd \in [Message -> {"idle", "open", "header", "copied", "accepted",
                                "refused"}]
      /\ \A m \in Message : job[m] # "none" => place[m] = "send"
      /\ \A m \in batch : place[m] = "send"
      /\ \A m \in Message : smtpd[m] = "idle" => place[m] = "none"
    BY DEF TypeOK, RelayInv, WorkerInv
<1>2. /\ IsFiniteSet(Queued) /\ Cardinality(Queued) \in Nat
      /\ IsFiniteSet(Uncounted) /\ Cardinality(Uncounted) \in Nat
      /\ Cardinality(Queued) <= Cardinality(Uncounted) + Credit
    BY FS_CardinalityType DEF CounterInv
<1>3. /\ counter \in Int
      /\ relayFaults \in Int /\ relayFaults' \in Int
      /\ redisErrors \in Int /\ redisErrors' \in Int
      /\ relayFaults' >= relayFaults /\ redisErrors' >= redisErrors
      /\ Credit \in Int
      /\ counter' \in Int => Credit' \in Int
    BY <1>1, FaultsGrow DEF Credit
<1>4. counter' = counter => Credit' \in Int /\ Credit' >= Credit
    <2>1. PICK c \in Int, f \in Int, g \in Int, r \in Int, e \in Int :
              /\ c = counter /\ f = relayFaults /\ r = redisErrors
              /\ g = relayFaults' /\ e = redisErrors'
        BY <1>3
    <2>2. g >= f /\ e >= r
        BY <1>3, <2>1
    <2>3. c + g + e >= c + f + r
        BY <2>2
    <2>. QED
        BY <1>3, <2>1, <2>3 DEF Credit
<1>5. ASSUME Queued' \subseteq Queued, Uncounted' = Uncounted,
             Credit' \in Int, Credit' >= Credit
      PROVE  CounterInv'
    <2>1. /\ IsFiniteSet(Queued') /\ Cardinality(Queued') \in Nat
          /\ Cardinality(Queued') <= Cardinality(Queued)
        BY <1>2, <1>5, GainsNone
    <2>2. Cardinality(Queued') <= Cardinality(Uncounted) + Credit'
        BY <1>2, <1>3, <1>5, <2>1
    <2>. QED
        BY <1>2, <1>5, <2>1, <2>2 DEF CounterInv
<1>6. ASSUME UNCHANGED <<place, smtpd, counter>> PROVE CounterInv'
    <2>1. Queued' = Queued /\ Uncounted' = Uncounted
        BY <1>6 DEF Queued, Uncounted
    <2>. QED
        BY <1>4, <1>5, <1>6, <2>1
<1>7. ASSUME NEW m \in Message, UNCHANGED <<smtpd, counter>>,
             \/ UNCHANGED place
             \/ place[m] = "queue" /\ place' = [place EXCEPT ![m] = "work"]
             \/ \E x \in {"send", "dropped", "trained", "error"} :
                   /\ place[m] \in {"work", "send"}
                   /\ place' = [place EXCEPT ![m] = x]
      PROVE  CounterInv'
    <2>1. Queued' \subseteq Queued /\ Uncounted' = Uncounted
        BY <1>1, <1>7 DEF Queued, Uncounted
    <2>. QED
        BY <1>4, <1>5, <1>7, <2>1
<1>8. ASSUME NEW m \in Message, DataOpen(m) \/ DataWrite(m) \/ DataFail(m)
      PROVE  CounterInv'
    <2>1. CASE DataOpen(m)
        <3>1. /\ place[m] = "none" /\ place' = [place EXCEPT ![m] = "queue"]
              /\ smtpd' = [smtpd EXCEPT ![m] = "open"] /\ UNCHANGED counter
            BY <1>1, <2>1 DEF DataOpen
        <3>2. Queued' \subseteq Queued /\ Uncounted' = Uncounted
            BY <1>1, <3>1 DEF Queued, Uncounted
        <3>. QED
            BY <1>4, <1>5, <3>1, <3>2
    <2>2. CASE DataWrite(m) \/ DataFail(m)
        <3>1. /\ UNCHANGED <<place, counter>> /\ smtpd[m] # "accepted"
              /\ \E x \in {"header", "copied", "refused"} :
                    smtpd' = [smtpd EXCEPT ![m] = x]
            BY <2>2 DEF DataWrite, DataFail
        <3>2. Queued' \subseteq Queued /\ Uncounted' = Uncounted
            BY <1>1, <3>1 DEF Queued, Uncounted
        <3>. QED
            BY <1>4, <1>5, <3>1, <3>2
    <2>. QED
        BY <1>8, <2>1, <2>2
<1>9. ASSUME NEW m \in Message, DataAccept(m) PROVE CounterInv'
    <2>1. /\ UNCHANGED <<place, relayFaults>> /\ smtpd[m] = "copied"
          /\ smtpd' = [smtpd EXCEPT ![m] = "accepted"]
        BY <1>9 DEF DataAccept
    <2>3. CASE m \in Training
        <3>1. Queued' \subseteq Queued /\ Uncounted' = Uncounted
            BY <1>1, <2>1, <2>3 DEF Queued, Uncounted
        <3>2. UNCHANGED <<counter, redisErrors>>
            BY <1>9, <2>3 DEF DataAccept, Counted
        <3>. QED
            BY <1>4, <1>5, <3>1, <3>2
    <2>4. CASE m \notin Training
        <3>1. Credit' \in Int /\ Credit' = Credit + 1
            <4>1. CASE counter' = counter + 1 /\ redisErrors' = redisErrors
                BY <1>3, <2>1, <4>1 DEF Credit
            <4>2. CASE counter' = counter /\ redisErrors' = redisErrors + 1
                BY <1>3, <2>1, <4>2 DEF Credit
            <4>. QED
                BY <1>9, <2>4, <4>1, <4>2 DEF DataAccept, Counted
        <3>2. CASE place[m] = "released"
            <4>1. Queued' \subseteq Queued
                BY <1>1, <2>1, <3>2 DEF Queued
            <4>2. m \in Uncounted /\ Uncounted' = Uncounted \ {m}
                BY <1>1, <2>1, <2>4, <3>2 DEF Uncounted
            <4>3. /\ IsFiniteSet(Queued') /\ Cardinality(Queued') \in Nat
                  /\ Cardinality(Queued') <= Cardinality(Queued)
                BY <1>2, <4>1, GainsNone
            <4>4. /\ IsFiniteSet(Uncounted')
                  /\ Cardinality(Uncounted') = Cardinality(Uncounted) - 1
                BY <1>2, <4>2, LosesExactly
            <4>5. Cardinality(Queued') <= Cardinality(Uncounted') + Credit'
                BY <1>2, <1>3, <3>1, <4>3, <4>4
            <4>. QED
                BY <4>3, <4>4, <4>5 DEF CounterInv
        <3>3. CASE place[m] # "released"
            <4>1. Queued' \subseteq Queued \cup {m}
                BY <1>1, <2>1 DEF Queued
            <4>2. Uncounted' = Uncounted
                BY <1>1, <2>1, <3>3 DEF Uncounted
            <4>3. /\ IsFiniteSet(Queued') /\ Cardinality(Queued') \in Nat
                  /\ Cardinality(Queued') <= Cardinality(Queued) + 1
                BY <1>2, <4>1, GainsOne
            <4>4. Cardinality(Queued') <= Cardinality(Uncounted) + Credit'
                BY <1>2, <1>3, <3>1, <4>3
            <4>. QED
                BY <1>2, <4>2, <4>3, <4>4 DEF CounterInv
        <3>. QED
            BY <3>2, <3>3
    <2>. QED
        BY <2>3, <2>4
<1>10. ASSUME NEW w \in Worker, NEW m \in Message, Take(w, m) PROVE CounterInv'
    <2>1. /\ UNCHANGED <<smtpd, counter>> /\ place[m] = "queue"
          /\ UNCHANGED place \/ place' = [place EXCEPT ![m] = "work"]
        BY <1>10 DEF Take, InSubdir
    <2>. QED
        BY <1>7, <2>1
<1>11. ASSUME NEW w \in Worker, Dispose(w) PROVE CounterInv'
    <2>1. /\ UNCHANGED <<smtpd, counter>> /\ cur[w] \in Message
          /\ \/ UNCHANGED place
             \/ \E x \in {"send", "dropped", "trained"} :
                    /\ place[cur[w]] = "work"
                    /\ place' = [place EXCEPT ![cur[w]] = x]
        BY <1>11, SMTT(30) DEF Dispose, Outcome, TypeOK
    <2>. QED
        BY <1>7, <2>1
<1>12. ASSUME NEW m \in Message, DispatchBad(m) \/ MoveToError(m) PROVE CounterInv'
    <2>1. /\ UNCHANGED <<smtpd, counter>> /\ place[m] = "send"
          /\ UNCHANGED place \/ place' = [place EXCEPT ![m] = "error"]
        BY <1>1, <1>12 DEF DispatchBad, MoveToError
    <2>. QED
        BY <1>7, <2>1
<1>13. ASSUME NEW m \in Message, Remove(m) PROVE CounterInv'
    <2>1. UNCHANGED smtpd /\ place[m] = "send"
        BY <1>1, <1>13 DEF Remove
    <2>2. \/ counter' = counter - 1 /\ redisErrors' = redisErrors
          \/ counter' = counter /\ redisErrors' = redisErrors + 1
        BY <1>13 DEF Remove
    <2>3. Credit' \in Int
        BY <1>3, <2>2
    <2>4. CASE RelayFault /\ UNCHANGED place
        <3>1. Queued' \subseteq Queued /\ Uncounted' = Uncounted
            BY <2>1, <2>4 DEF Queued, Uncounted
        <3>2. relayFaults' = relayFaults + 1
            BY <2>4 DEF RelayFault
        <3>3. CASE counter' = counter - 1 /\ redisErrors' = redisErrors
            <4>1. Credit' = Credit
                BY <1>3, <3>2, <3>3 DEF Credit
            <4>. QED
                BY <1>3, <1>5, <2>3, <3>1, <4>1
        <3>4. CASE counter' = counter
            BY <1>4, <1>5, <3>1, <3>4
        <3>. QED
            BY <2>2, <3>3, <3>4
    <2>5. CASE place' = [place EXCEPT ![m] = "released"] /\ UNCHANGED relayFaults
        <3>1. Credit' >= Credit - 1
            <4>1. CASE counter' = counter - 1 /\ redisErrors' = redisErrors
                BY <1>3, <2>5, <4>1 DEF Credit
            <4>2. CASE counter' = counter
                BY <1>3, <1>4, <4>2
            <4>. QED
                BY <2>2, <4>1, <4>2
        <3>2. CASE smtpd[m] = "accepted" /\ m \notin Training
            <4>1. m \in Queued /\ Queued' = Queued \ {m} /\ Uncounted' = Uncounted
                BY <1>1, <2>1, <2>5, <3>2 DEF Queued, Uncounted
            <4>2. /\ IsFiniteSet(Queued')
                  /\ Cardinality(Queued') = Cardinality(Queued) - 1
                BY <1>2, <4>1, LosesExactly
            <4>3. Cardinality(Queued') <= Cardinality(Uncounted) + Credit'
                BY <1>2, <1>3, <2>3, <3>1, <4>2
            <4>. QED
                BY <1>2, <4>1, <4>2, <4>3 DEF CounterInv
        <3>3. CASE ~(smtpd[m] = "accepted" /\ m \notin Training)
            <4>1. Queued' \subseteq Queued
                BY <1>1, <2>1, <2>5, <3>3 DEF Queued
            <4>2. m \notin Uncounted /\ Uncounted' = Uncounted \cup {m}
                BY <1>1, <2>1, <2>5, <3>3 DEF Uncounted
            <4>3. /\ IsFiniteSet(Queued') /\ Cardinality(Queued') \in Nat
                  /\ Cardinality(Queued') <= Cardinality(Queued)
                BY <1>2, <4>1, GainsNone
            <4>4. /\ IsFiniteSet(Uncounted')
                  /\ Cardinality(Uncounted') = Cardinality(Uncounted) + 1
                BY <1>2, <4>2, GainsExactly
            <4>5. Cardinality(Queued') <= Cardinality(Uncounted') + Credit'
                BY <1>2, <1>3, <2>3, <3>1, <4>3, <4>4
            <4>. QED
                BY <4>3, <4>4, <4>5 DEF CounterInv
        <3>. QED
            BY <3>2, <3>3
    <2>. QED
        BY <1>13, <2>4, <2>5 DEF Remove
<1>14. ASSUME NEW m \in Message, Dispatch(m) \/ SendEmail(m)
       PROVE  UNCHANGED <<place, smtpd, counter>>
    BY <1>14 DEF Dispatch, SendEmail
<1>15. ASSUME NEW w \in Worker, \/ OpenDir(w) \/ EndScan(w) \/ Judge(w) \/ WriteTmp(w)
                                \/ RenameTmp(w) \/ Respawn(w) \/ WorkerCrash(w)
       PROVE  UNCHANGED <<place, smtpd, counter>>
    BY <1>15 DEF OpenDir, EndScan, Judge, WriteTmp, RenameTmp, Respawn, WorkerCrash
<1>16. ASSUME ReadSendDir \/ EndBatch \/ RelayRestart \/ RelayCrash
                \/ UNCHANGED vars
       PROVE  UNCHANGED <<place, smtpd, counter>>
    BY <1>16 DEF ReadSendDir, EndBatch, RelayRestart, RelayCrash, vars
<1>. QED
    BY <1>6, <1>8, <1>9, <1>10, <1>11, <1>12, <1>13, <1>14, <1>15, <1>16
       DEF Next, Smtpd, WorkerStep, RelayLoop, RelayJob

-----------------------------------------------------------------------------
(* Nothing is left behind, released or queued when the daemons start.      *)
LEMMA CountsInit == Init => UnsentInv /\ TmpInv /\ OwingInv /\ CounterInv
<1> SUFFICES ASSUME Init PROVE UnsentInv /\ TmpInv /\ OwingInv /\ CounterInv
    OBVIOUS
<1>1. IsFiniteSet({}) /\ Cardinality({}) = 0
    BY FS_EmptySet
<1>2. Unsent = {} /\ Queued = {} /\ Uncounted = {}
    BY DEF Init, Unsent, Queued, Uncounted
<1>3. Owing = {}
    BY ConstantsAssumption DEF Init, Owing, Processing
<1>4. relayFaults = 0 /\ workerFaults = 0 /\ redisErrors = 0 /\ counter = 0
    BY DEF Init
<1>5. TmpInv
    BY DEF Init, TmpInv
<1>6. UnsentInv /\ OwingInv
    BY <1>1, <1>2, <1>3, <1>4 DEF UnsentInv, OwingInv
<1>7. CounterInv
    BY <1>1, <1>2, <1>4 DEF CounterInv, Credit
<1>. QED
    BY <1>5, <1>6, <1>7

(* The invariant that counts holds in every reachable state.               *)
THEOREM CountsInductive == Spec => []CInv
<1> DEFINE Counts == UnsentInv /\ TmpInv /\ OwingInv /\ CounterInv
<1>1. Init => Counts
    BY CountsInit
<1>2. IInv /\ Counts /\ [Next]_vars => Counts'
    <2> SUFFICES ASSUME TypeOK, WorkerInv, RelayInv, Counts, [Next]_vars
                 PROVE  Counts'
        BY DEF IInv
    <2>. QED
        BY UnsentStep, TmpStep, OwingStep, CounterStep
<1>3. IInv /\ Counts <=> CInv
    BY DEF CInv
<1>. HIDE DEF Counts
<1>. QED
    BY <1>1, <1>2, <1>3, Inductive, PTL DEF Spec

(* What the relay removes has reached the next hop, but for one message    *)
(* per late answer sendEmail took for the answer to the message.           *)
THEOREM RemovedAfterDelivery == Spec => []ReleasedIsSent
<1>1. CInv => ReleasedIsSent
    <2> SUFFICES ASSUME IInv, UnsentInv PROVE ReleasedIsSent
        BY DEF CInv
    <2> DEFINE R == {m \in Message : place[m] = "released" /\ sent[m] = 0}
    <2>1. R \subseteq Unsent
        BY DEF Unsent
    <2>2. Cardinality(R) \in Nat /\ Cardinality(R) <= Cardinality(Unsent)
          /\ Cardinality(Unsent) \in Nat
        BY <2>1, GainsNone DEF UnsentInv
    <2>3. relayFaults \in Nat
        BY DEF IInv, TypeOK
    <2>. QED
        BY <2>2, <2>3 DEF UnsentInv, ReleasedIsSent
<1>. QED
    BY <1>1, CountsInductive, PTL

(* Nothing rescans the work dir; what stays there has cost a worker's fault*)
(* each: a crash, or a failed rename, read or write.                       *)
THEOREM OrphansHaveACause == Spec => []OrphansPaidFor
<1>1. CInv => OrphansPaidFor
    <2> SUFFICES ASSUME IInv, OwingInv PROVE OrphansPaidFor
        BY DEF CInv
    <2> DEFINE O == {m \in Message : /\ place[m] = "work" \/ tmp[m] # Absent
                                     /\ ~Processing(m)}
    <2>1. O \subseteq Owing
        BY DEF Owing
    <2>2. Cardinality(O) \in Nat /\ Cardinality(O) <= Cardinality(Owing)
          /\ Cardinality(Owing) \in Nat
        BY <2>1, GainsNone DEF OwingInv
    <2>3. workerFaults \in Nat
        BY DEF IInv, TypeOK
    <2>. QED
        BY <2>2, <2>3 DEF OwingInv, OrphansPaidFor
<1>. QED
    BY <1>1, CountsInductive, PTL

(* The Redis counter smtpd and the relay keep is never less than the queue *)
(* is long, but for what left it uncounted and for faults.                 *)
THEOREM CounterKeepsUp == Spec => []CounterCoversQueue
<1>1. CInv => CounterCoversQueue
    <2> SUFFICES ASSUME TypeOK, CounterInv PROVE CounterCoversQueue
        BY DEF CInv, IInv
    <2>1. /\ Cardinality(Queued) \in Nat /\ Cardinality(Uncounted) \in Nat
          /\ counter \in Int /\ relayFaults \in Nat /\ redisErrors \in Nat
        BY FS_CardinalityType DEF CounterInv, TypeOK
    <2>2. PICK q \in Nat, u \in Nat, c \in Int, f \in Nat, r \in Nat :
              /\ q = Cardinality(Queued) /\ u = Cardinality(Uncounted)
              /\ c = counter /\ f = relayFaults /\ r = redisErrors
        BY <2>1
    <2>3. q <= u + (c + f + r)
        BY <2>2 DEF CounterInv, Credit
    <2>4. q <= c + u + f + r
        BY <2>3
    <2>. QED
        BY <2>2, <2>4 DEF CounterCoversQueue
<1>. QED
    BY <1>1, CountsInductive, PTL
=============================================================================
