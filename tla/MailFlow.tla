------------------------------ MODULE MailFlow ------------------------------
(***************************************************************************)
(* The path of a message through the three daemons of kospam.              *)
(*                                                                         *)
(*   smtpd  (go-app/cmd/smtpd)  writes it to <queue>/<subdir>/<queue id>;  *)
(*   kospam (src/kospam.c)      one worker per subdir moves it to the work *)
(*                              dir, judges it, rewrites its header and    *)
(*                              moves it to the send dir, or unlinks it;   *)
(*   send   (go-app/cmd/send)   scans the send dir, relays each file to    *)
(*                              the next hop and removes it, or moves it   *)
(*                              to send-error.                             *)
(*                                                                         *)
(* The daemons share nothing but the directories (and a Redis counter), so *)
(* the state is the file system: where the file named after the queue id   *)
(* is, and how much of the message it holds.  A queue id is used by one    *)
(* Data call only, so a message and its file name are the same value here. *)
(*                                                                         *)
(* Abstracted: the text of a message (three lengths tell all that matters  *)
(* to the file protocol, see Length), the filter's decision (any decision  *)
(* a complete or an incomplete file may lead to), the SMTP dialogue of the *)
(* relay (its four possible outcomes).                                     *)
(***************************************************************************)
EXTENDS Integers, FiniteSets

CONSTANTS
    Message,          \* the queue ids, one per DATA command smtpd receives
    Training,         \* the messages addressed to spam@ or ham@
    NullSender,       \* the messages whose envelope sender is empty
    Clipped,          \* those that the rewriting of the header shortens
    Misread,          \* those whose recipients kospam reads otherwise than
                      \* smtpd wrote them
    Worker,           \* kospam's worker slots = the queue subdirectories
    MaxConcurrency,   \* relay jobs that may run at once
    MaxFaults,        \* bound: crashes and failed file operations of workers
                      \* and relay, and answers of the next hop that are lost
                      \* or not read to their end
    MaxRedisErrors,   \* bound: queue counter updates that Redis refuses
    None              \* "no message"

ASSUME ConstantsAssumption ==
    /\ Training \subseteq Message
    /\ NullSender \subseteq Message
    /\ Clipped \subseteq Message /\ Misread \subseteq Message
    /\ MaxConcurrency \in Nat \ {0}
    /\ MaxFaults \in Nat
    /\ MaxRedisErrors \in Nat
    /\ None \notin Message

(***************************************************************************)
(* How much of a message a file holds.  Empty: no complete envelope line;  *)
(* Envelope: the three Kospam- lines and perhaps a part of the message;    *)
(* Full: all of it.  Live is not a length: it marks a directory entry that *)
(* still names the inode smtpd's Data handler writes to.                   *)
(***************************************************************************)
Empty    == 0
Envelope == 1
Full     == 2
Length   == Empty..Full
Live     == -1
Absent   == -1

VARIABLES
    smtpd,        \* smtpd[m]: progress of the Data call that receives m
    written,      \* written[m]: length of the inode that call writes to
    subdir,       \* subdir[m]: the queue subdirectory the call chose
    place,        \* place[m]: the directory the file m is in, or its end
    copy,         \* copy[m]: Live, or the length of the rewritten file
    tmp,          \* tmp[m]: length of <m>.tmp in the work dir, or Absent
    wpc,          \* wpc[w]: program counter of worker w
    cur,          \* cur[w]: the message process_email of w is called with
    todo,         \* todo[w]: entries in w's subdir when it was opened
    seen,         \* seen[w]: entries readdir has returned since
    verdict,      \* verdict[w]: what process_email will do with cur[w]
    relay,        \* program counter of processQueue
    batch,        \* names read from the send dir and not yet dispatched
    job,          \* job[m]: state of the goroutine that relays m
    mail,         \* mail[m]: length of the content parseEmailFile returned
    counter,      \* the Redis queue counter
    sent,         \* sent[m]: times the next hop has accepted m
    truncated,    \* messages the next hop has accepted an incomplete copy of
    early,        \* messages a worker took before smtpd had written all
    damaged,      \* messages a failed operation of a worker was about
    workerFaults, relayFaults, redisErrors   \* faults so far

smtpdVars  == <<smtpd, written, subdir>>
workerVars == <<wpc, cur, todo, seen, verdict>>
relayVars  == <<relay, batch, job, mail>>
ghostVars  == <<early, damaged>>
faultVars  == <<workerFaults, relayFaults, redisErrors>>
vars == <<smtpdVars, place, copy, tmp, workerVars, relayVars, counter,
          sent, truncated, ghostVars, faultVars>>

(* What a reader of the file m finds.                                      *)
Content(m) == IF copy[m] = Live THEN written[m] ELSE copy[m]

Places == {"none", "queue", "work", "send", "error",
           "released", "dropped", "trained"}

Init ==
    /\ smtpd = [m \in Message |-> "idle"]
    /\ written = [m \in Message |-> Empty]
    /\ subdir = [m \in Message |-> None]
    /\ place = [m \in Message |-> "none"]
    /\ copy = [m \in Message |-> Live]
    /\ tmp = [m \in Message |-> Absent]
    /\ wpc = [w \in Worker |-> "idle"]
    /\ cur = [w \in Worker |-> None]
    /\ todo = [w \in Worker |-> {}]
    /\ seen = [w \in Worker |-> {}]
    /\ verdict = [w \in Worker |-> "ok"]
    /\ relay = "sleep"
    /\ batch = {}
    /\ job = [m \in Message |-> "none"]
    /\ mail = [m \in Message |-> Empty]
    /\ counter = 0
    /\ sent = [m \in Message |-> 0]
    /\ truncated = {}
    /\ early = {}
    /\ damaged = {}
    /\ workerFaults = 0
    /\ relayFaults = 0
    /\ redisErrors = 0

-----------------------------------------------------------------------------
(* smtpd: Session.Data                                                     *)

(* A subdirectory is drawn at random and OpenFile with O_CREATE puts the   *)
(* file there, under its final name, before anything is written to it.     *)
DataOpen(m) ==
    /\ smtpd[m] = "idle"
    /\ smtpd' = [smtpd EXCEPT ![m] = "open"]
    /\ \E w \in Worker : subdir' = [subdir EXCEPT ![m] = w]
    /\ place' = [place EXCEPT ![m] = "queue"]
    /\ UNCHANGED <<written, copy, tmp, workerVars, relayVars, counter,
                   sent, truncated, ghostVars, faultVars>>

(* The next WriteString or the whole of io.Copy: the length of the inode   *)
(* grows wherever the file has been moved to meanwhile.                    *)
DataWrite(m) ==
    /\ \/ /\ smtpd[m] = "open"
          /\ smtpd' = [smtpd EXCEPT ![m] = "header"]
          /\ written' = [written EXCEPT ![m] = Envelope]
       \/ /\ smtpd[m] = "header"
          /\ smtpd' = [smtpd EXCEPT ![m] = "copied"]
          /\ written' = [written EXCEPT ![m] = Full]
    /\ UNCHANGED <<subdir, place, copy, tmp, workerVars, relayVars, counter,
                   sent, truncated, ghostVars, faultVars>>

(* Only what is not a training message is counted.                         *)
CountedInverted(m) == m \in Training                              \* mutant
Counted(m) == m \notin Training

(* UpdateQueueCounter(+1) and the 250; a Redis error is only logged.       *)
DataAccept(m) ==
    /\ smtpd[m] = "copied"
    /\ smtpd' = [smtpd EXCEPT ![m] = "accepted"]
    /\ \/ /\ counter' = IF Counted(m) THEN counter + 1 ELSE counter
          /\ UNCHANGED redisErrors
       \/ /\ Counted(m)
          /\ redisErrors < MaxRedisErrors
          /\ redisErrors' = redisErrors + 1
          /\ UNCHANGED counter
    /\ UNCHANGED <<written, subdir, place, copy, tmp, workerVars, relayVars,
                   sent, truncated, ghostVars, workerFaults, relayFaults>>

(* The file cannot be created; WriteString or io.Copy fails (the client    *)
(* goes away, the message is too large); smtpd dies.  What has been        *)
(* written stays where it is.                                              *)
DataFail(m) ==
    /\ smtpd[m] \in {"idle", "open", "header", "copied"}
    /\ smtpd' = [smtpd EXCEPT ![m] = "refused"]
    /\ UNCHANGED <<written, subdir, place, copy, tmp, workerVars, relayVars,
                   counter, sent, truncated, ghostVars, faultVars>>

Smtpd(m) == DataOpen(m) \/ DataWrite(m) \/ DataAccept(m) \/ DataFail(m)

-----------------------------------------------------------------------------
(* kospam: a worker's process_dir and process_email                        *)

WorkerFault(m) ==
    /\ workerFaults + relayFaults < MaxFaults
    /\ workerFaults' = workerFaults + 1
    /\ damaged' = damaged \cup {m}

NoWorkerFault == UNCHANGED <<workerFaults, damaged>>

(* The entries of worker w's own queue subdirectory.                       *)
InAnySubdir(w) == {m \in Message : place[m] = "queue"}             \* mutant
InSubdirOrWork(w) ==                                               \* mutant
    {m \in Message : place[m] \in {"queue", "work"} /\ subdir[m] = w}
InSubdir(w) == {m \in Message : place[m] = "queue" /\ subdir[m] = w}

(* opendir; a pass over an empty directory changes nothing and is left out.*)
OpenDir(w) ==
    /\ wpc[w] = "idle"
    /\ InSubdir(w) # {}
    /\ wpc' = [wpc EXCEPT ![w] = "scan"]
    /\ todo' = [todo EXCEPT ![w] = InSubdir(w)]
    /\ UNCHANGED <<smtpdVars, place, copy, tmp, cur, seen, verdict, relayVars,
                   counter, sent, truncated, ghostVars, faultVars>>

(* readdir returns an entry it has not returned yet (one created since the *)
(* opendir may be among them) and the file is renamed into the work dir.   *)
(* The result of rename is ignored: process_email is called either way.    *)
Take(w, m) ==
    /\ wpc[w] = "scan"
    /\ m \in InSubdir(w) \ seen[w]
    /\ seen' = [seen EXCEPT ![w] = @ \cup {m}]
    /\ cur' = [cur EXCEPT ![w] = m]
    /\ wpc' = [wpc EXCEPT ![w] = "parse"]
    /\ \/ /\ place' = [place EXCEPT ![m] = "work"]
          /\ early' = IF written[m] < Full THEN early \cup {m} ELSE early
          /\ NoWorkerFault
       \/ WorkerFault(m) /\ UNCHANGED <<place, early>>
    /\ UNCHANGED <<smtpdVars, copy, tmp, todo, verdict, relayVars, counter,
                   sent, truncated, relayFaults, redisErrors>>

EndScanKeepsSeen(w) ==                                             \* mutant
    /\ wpc[w] = "scan"
    /\ todo[w] \subseteq seen[w]
    /\ wpc' = [wpc EXCEPT ![w] = "idle"]
    /\ todo' = [todo EXCEPT ![w] = {}]
    /\ UNCHANGED <<smtpdVars, place, copy, tmp, cur, seen, verdict, relayVars,
                   counter, sent, truncated, ghostVars, faultVars>>

(* readdir returns NULL only when every entry that was in the directory    *)
(* at opendir has been returned.                                           *)
EndScan(w) ==
    /\ wpc[w] = "scan"
    /\ todo[w] \subseteq seen[w]
    /\ wpc' = [wpc EXCEPT ![w] = "idle"]
    /\ todo' = [todo EXCEPT ![w] = {}]
    /\ seen' = [seen EXCEPT ![w] = {}]
    /\ UNCHANGED <<smtpdVars, place, copy, tmp, cur, verdict, relayVars,
                   counter, sent, truncated, ghostVars, faultVars>>

(* parse_message and check_spam.  The envelope lines decide whether this   *)
(* is a training message, so a file without them never is one - unless the *)
(* list is too long for the parser, or an attached message has such lines  *)
(* too and the parser takes those.  When the file cannot be read the       *)
(* parser's state is uninitialised: any decision.                          *)
VerdictsNoTraining(m, len) == {"ok", "drop"}                       \* mutant
Verdicts(m, len) ==
    IF m \in Misread THEN {"ok", "drop", "train"}
    ELSE IF m \in Training /\ len >= Envelope THEN {"train"}
    ELSE {"ok", "drop"}

Judge(w) ==
    LET m == cur[w] IN
    /\ wpc[w] = "parse"
    /\ \/ /\ place[m] = "work"
          /\ \E v \in Verdicts(m, Content(m)) :
                verdict' = [verdict EXCEPT ![w] = v]
          /\ NoWorkerFault
       \/ /\ place[m] = "work"
          /\ \E v \in {"ok", "drop", "train"} :
                verdict' = [verdict EXCEPT ![w] = v]
          /\ WorkerFault(m)
       \/ /\ place[m] # "work"
          /\ \E v \in {"ok", "drop", "train"} :
                verdict' = [verdict EXCEPT ![w] = v]
          /\ NoWorkerFault
    /\ wpc' = [wpc EXCEPT ![w] = "judged"]
    /\ UNCHANGED <<smtpdVars, place, copy, tmp, cur, todo, seen, relayVars,
                   counter, sent, truncated, early, relayFaults, redisErrors>>

(* What fix_message_file writes of a message: header buffer and body.  A   *)
(* header line of more than 511 bytes is cut; lines are left out when the  *)
(* buffer is full, and what follows a NUL in the header.  The Kospam-      *)
(* lines come first and are at most cut.  (Lines of the spamicity field    *)
(* are left out on purpose, one is added.)                                 *)
RewrittenTwice(m) == Content(m) + Content(m)                       \* mutant
RewrittenNoBody(m) ==                                              \* mutant
    IF Content(m) > Envelope THEN Envelope ELSE Content(m)
Rewritten(m) ==
    IF m \in Clipped /\ Content(m) > Envelope THEN Envelope ELSE Content(m)

(* fix_message_file up to write_buffers_to_file: the file is read and what *)
(* was read is written to <m>.tmp.  A short write leaves a shorter .tmp, a *)
(* failed open none; both are logged and ignored.  When the file cannot be *)
(* read the function returns at once.                                      *)
WriteTmp(w) ==
    LET m == cur[w] IN
    /\ wpc[w] = "judged" /\ verdict[w] = "ok"
    /\ \/ /\ place[m] = "work"
          /\ tmp' = [tmp EXCEPT ![m] = Rewritten(m)]
          /\ wpc' = [wpc EXCEPT ![w] = "rewritten"]
          /\ NoWorkerFault
       \/ /\ place[m] = "work"
          /\ \E len \in (Empty..Content(m)) \cup {Absent} :
                tmp' = [tmp EXCEPT ![m] = len]
          /\ wpc' = [wpc EXCEPT ![w] = "rewritten"]
          /\ WorkerFault(m)
       \/ /\ place[m] = "work"
          /\ wpc' = [wpc EXCEPT ![w] = "fixed"]
          /\ WorkerFault(m)
          /\ UNCHANGED tmp
       \/ /\ place[m] # "work"
          /\ wpc' = [wpc EXCEPT ![w] = "fixed"]
          /\ NoWorkerFault
          /\ UNCHANGED tmp
    /\ UNCHANGED <<smtpdVars, place, copy, cur, todo, seen, verdict, relayVars,
                   counter, sent, truncated, early, relayFaults, redisErrors>>

(* rename(tmp, ttmpfile): the name now refers to the rewritten file.  It   *)
(* fails when there is no .tmp, and then the message stays as it was.      *)
RenameTmp(w) ==
    LET m == cur[w] IN
    /\ wpc[w] = "rewritten"
    /\ wpc' = [wpc EXCEPT ![w] = "fixed"]
    /\ \/ /\ tmp[m] # Absent
          /\ copy' = [copy EXCEPT ![m] = tmp[m]]
          /\ tmp' = [tmp EXCEPT ![m] = Absent]
          /\ NoWorkerFault
       \/ /\ tmp[m] = Absent
          /\ NoWorkerFault
          /\ UNCHANGED <<copy, tmp>>
       \/ /\ tmp[m] # Absent
          /\ WorkerFault(m)
          /\ UNCHANGED <<copy, tmp>>
    /\ UNCHANGED <<smtpdVars, place, cur, todo, seen, verdict, relayVars,
                   counter, sent, truncated, early, relayFaults, redisErrors>>

(* The end of process_email: rename to the send dir, or unlink.            *)
OutcomeNoUnlink(v) ==                                              \* mutant
    CASE v = "ok" -> "send" [] v = "drop" -> "work" [] v = "train" -> "trained"
Outcome(v) ==
    CASE v = "ok" -> "send"
      [] v = "drop" -> "dropped"
      [] v = "train" -> "trained"

(* A failure is at most logged; the file stays in the work dir.            *)
Dispose(w) ==
    LET m == cur[w] IN
    /\ \/ wpc[w] = "fixed"
       \/ wpc[w] = "judged" /\ verdict[w] # "ok"
    /\ \/ /\ place[m] = "work"
          /\ place' = [place EXCEPT ![m] = Outcome(verdict[w])]
          /\ NoWorkerFault
       \/ /\ place[m] = "work"
          /\ WorkerFault(m)
          /\ UNCHANGED place
       \/ /\ place[m] # "work"
          /\ NoWorkerFault
          /\ UNCHANGED place
    /\ wpc' = [wpc EXCEPT ![w] = "scan"]
    /\ cur' = [cur EXCEPT ![w] = None]
    /\ verdict' = [verdict EXCEPT ![w] = "ok"]
    /\ UNCHANGED <<smtpdVars, copy, tmp, todo, seen, relayVars,
                   counter, sent, truncated, early, relayFaults, redisErrors>>

(* The worker dies in the middle of a pass (a signal, a crash on a         *)
(* message); what it held stays in the work dir, which nobody scans.       *)
WorkerCrash(w) ==
    /\ wpc[w] \notin {"idle", "down"}
    /\ workerFaults + relayFaults < MaxFaults
    /\ workerFaults' = workerFaults + 1
    /\ damaged' = damaged \cup ({cur[w]} \ {None})
    /\ wpc' = [wpc EXCEPT ![w] = "down"]
    /\ cur' = [cur EXCEPT ![w] = None]
    /\ todo' = [todo EXCEPT ![w] = {}]
    /\ seen' = [seen EXCEPT ![w] = {}]
    /\ verdict' = [verdict EXCEPT ![w] = "ok"]
    /\ UNCHANGED <<smtpdVars, place, copy, tmp, relayVars, counter,
                   sent, truncated, early, relayFaults, redisErrors>>

(* The master forks a new worker for the slot.                             *)
Respawn(w) ==
    /\ wpc[w] = "down"
    /\ wpc' = [wpc EXCEPT ![w] = "idle"]
    /\ UNCHANGED <<smtpdVars, place, copy, tmp, cur, todo, seen, verdict,
                   relayVars, counter, sent, truncated, ghostVars, faultVars>>

WorkerStep(w) ==
    \/ OpenDir(w) \/ EndScan(w) \/ Judge(w) \/ WriteTmp(w) \/ RenameTmp(w)
    \/ Dispose(w) \/ Respawn(w)
    \/ \E m \in Message : Take(w, m)

-----------------------------------------------------------------------------
(* send: processQueue and the goroutines it starts                         *)

RelayFault ==
    /\ workerFaults + relayFaults < MaxFaults
    /\ relayFaults' = relayFaults + 1

Busy == {m \in Message : job[m] # "none"}

(* os.ReadDir; a scan that finds nothing changes nothing and is left out.  *)
ReadSendDir ==
    /\ relay = "sleep"
    /\ relay' = "dispatch"
    /\ batch' = {m \in Message : place[m] = "send"}
    /\ batch' # {}
    /\ UNCHANGED <<smtpdVars, place, copy, tmp, workerVars, job, mail, counter,
                   sent, truncated, ghostVars, faultVars>>

(* parseEmailFile wants the envelope lines and a sender.                   *)
Parsable(m) == Content(m) >= Envelope /\ m \notin NullSender

(* A file it cannot make sense of goes to send-error; so does one it cannot*)
(* read (a fault); a failed rename is ignored and the file found again by  *)
(* the next scan.                                                          *)
DispatchBad(m) ==
    /\ relay = "dispatch" /\ m \in batch
    /\ batch' = batch \ {m}
    /\ \/ /\ ~Parsable(m)
          /\ place' = [place EXCEPT ![m] = "error"]
          /\ UNCHANGED relayFaults
       \/ /\ RelayFault
          /\ \/ place' = [place EXCEPT ![m] = "error"]
             \/ ~Parsable(m) /\ UNCHANGED place
    /\ UNCHANGED <<smtpdVars, copy, tmp, workerVars, relay, job, mail, counter,
                   sent, truncated, ghostVars, workerFaults, redisErrors>>

(* The semaphore is acquired before the goroutine is started.              *)
SemaphoreFree == Cardinality(Busy) < MaxConcurrency

Dispatch(m) ==
    /\ relay = "dispatch" /\ m \in batch
    /\ Parsable(m)
    /\ SemaphoreFree
    /\ batch' = batch \ {m}
    /\ job' = [job EXCEPT ![m] = "sending"]
    /\ mail' = [mail EXCEPT ![m] = Content(m)]
    /\ UNCHANGED <<smtpdVars, place, copy, tmp, workerVars, relay, counter,
                   sent, truncated, ghostVars, faultVars>>

EndBatchNoWait ==                                                  \* mutant
    /\ relay = "dispatch" /\ batch = {}
    /\ relay' = "sleep"
    /\ UNCHANGED <<smtpdVars, place, copy, tmp, workerVars, batch, job, mail,
                   counter, sent, truncated, ghostVars, faultVars>>

(* wg.Wait, then the sleep until the next scan.                            *)
EndBatch ==
    /\ relay = "dispatch" /\ batch = {} /\ Busy = {}
    /\ relay' = "sleep"
    /\ UNCHANGED <<smtpdVars, place, copy, tmp, workerVars, batch, job, mail,
                   counter, sent, truncated, ghostVars, faultVars>>

NextHopAccepts(m) ==
    /\ sent' = [sent EXCEPT ![m] = @ + 1]
    /\ truncated' = IF mail[m] < Full THEN truncated \cup {m} ELSE truncated

SendEmailIgnoresAnswer(m) ==                                       \* mutant
    /\ job[m] = "sending"
    /\ job' = [job EXCEPT ![m] = "true"]
    /\ NextHopAccepts(m) \/ UNCHANGED <<sent, truncated>>
    /\ UNCHANGED <<smtpdVars, place, copy, tmp, workerVars, relay, batch, mail,
                   counter, ghostVars, faultVars>>

(* sendEmail.  Without a fault its result is the next hop's answer to the  *)
(* message.  A lost answer makes it false although the next hop accepted;  *)
(* one that is late or has several lines makes the last read return that   *)
(* to an earlier command, so that it may be true although the next hop has *)
(* not accepted.                                                           *)
SendEmail(m) ==
    /\ job[m] = "sending"
    /\ \/ /\ NextHopAccepts(m)
          /\ job' = [job EXCEPT ![m] = "true"]
          /\ UNCHANGED relayFaults
       \/ /\ job' = [job EXCEPT ![m] = "false"]
          /\ UNCHANGED <<sent, truncated, relayFaults>>
       \/ /\ NextHopAccepts(m)
          /\ job' = [job EXCEPT ![m] = "false"]
          /\ RelayFault
       \/ /\ job' = [job EXCEPT ![m] = "true"]
          /\ RelayFault
          /\ UNCHANGED <<sent, truncated>>
    /\ UNCHANGED <<smtpdVars, place, copy, tmp, workerVars, relay, batch, mail,
                   counter, ghostVars, workerFaults, redisErrors>>

(* After true: os.Remove, and the counter is decremented whether or not    *)
(* the file could be removed.                                              *)
Remove(m) ==
    /\ job[m] = "true"
    /\ job' = [job EXCEPT ![m] = "none"]
    /\ mail' = [mail EXCEPT ![m] = Empty]
    /\ \/ place' = [place EXCEPT ![m] = "released"] /\ UNCHANGED relayFaults
       \/ RelayFault /\ UNCHANGED place
    /\ \/ counter' = counter - 1 /\ UNCHANGED redisErrors
       \/ /\ redisErrors < MaxRedisErrors
          /\ redisErrors' = redisErrors + 1
          /\ UNCHANGED counter
    /\ UNCHANGED <<smtpdVars, copy, tmp, workerVars, relay, batch, sent,
                   truncated, ghostVars, workerFaults>>

MoveToErrorRemoves(m) ==                                           \* mutant
    /\ job[m] = "false"
    /\ job' = [job EXCEPT ![m] = "none"]
    /\ mail' = [mail EXCEPT ![m] = Empty]
    /\ place' = [place EXCEPT ![m] = "released"]
    /\ UNCHANGED <<smtpdVars, copy, tmp, workerVars, relay, batch, counter,
                   sent, truncated, ghostVars, faultVars>>

(* After false: os.Rename to send-error, the result ignored.               *)
MoveToError(m) ==
    /\ job[m] = "false"
    /\ job' = [job EXCEPT ![m] = "none"]
    /\ mail' = [mail EXCEPT ![m] = Empty]
    /\ \/ place' = [place EXCEPT ![m] = "error"] /\ UNCHANGED relayFaults
       \/ RelayFault /\ UNCHANGED place
    /\ UNCHANGED <<smtpdVars, copy, tmp, workerVars, relay, batch, counter,
                   sent, truncated, ghostVars, workerFaults, redisErrors>>

(* The relay dies with its goroutines and is started again.                *)
RelayCrash ==
    /\ relay # "down"
    /\ RelayFault
    /\ relay' = "down"
    /\ batch' = {}
    /\ job' = [m \in Message |-> "none"]
    /\ mail' = [m \in Message |-> Empty]
    /\ UNCHANGED <<smtpdVars, place, copy, tmp, workerVars, counter, sent,
                   truncated, ghostVars, workerFaults, redisErrors>>

RelayRestart ==
    /\ relay = "down"
    /\ relay' = "sleep"
    /\ UNCHANGED <<smtpdVars, place, copy, tmp, workerVars, batch, job, mail,
                   counter, sent, truncated, ghostVars, faultVars>>

RelayLoop ==
    \/ ReadSendDir \/ EndBatch \/ RelayRestart
    \/ \E m \in Message : Dispatch(m) \/ DispatchBad(m)

RelayJob(m) == SendEmail(m) \/ Remove(m) \/ MoveToError(m)

-----------------------------------------------------------------------------
Next ==
    \/ \E m \in Message : Smtpd(m) \/ RelayJob(m)
    \/ \E w \in Worker : WorkerStep(w) \/ WorkerCrash(w)
    \/ RelayLoop
    \/ RelayCrash

Spec == Init /\ [][Next]_vars

(* Every process the operating system schedules takes its next step: the   *)
(* loops of a worker and of the relay never end and a goroutine's reads    *)
(* have deadlines.  Nothing is assumed of clients, so nothing of smtpd.    *)
Fairness ==
    /\ \A m \in Message : WF_vars(RelayJob(m))
    /\ \A w \in Worker : WF_vars(WorkerStep(w))
    /\ WF_vars(RelayLoop)

FairSpec == Spec /\ Fairness

-----------------------------------------------------------------------------
(* Properties                                                              *)

Processing(m) == \E w \in Worker : cur[w] = m

(* Types, and which worker states hold a message.                          *)
TypeOK ==
    /\ smtpd \in [Message -> {"idle", "open", "header", "copied", "accepted",
                              "refused"}]
    /\ written \in [Message -> Length]
    /\ subdir \in [Message -> Worker \cup {None}]
    /\ place \in [Message -> Places]
    /\ copy \in [Message -> Length \cup {Live}]
    /\ tmp \in [Message -> Length \cup {Absent}]
    /\ wpc \in [Worker -> {"idle", "scan", "parse", "judged", "rewritten",
                           "fixed", "down"}]
    /\ cur \in [Worker -> Message \cup {None}]
    /\ todo \in [Worker -> SUBSET Message]
    /\ seen \in [Worker -> SUBSET Message]
    /\ verdict \in [Worker -> {"ok", "drop", "train"}]
    /\ \A w \in Worker : cur[w] = None <=> wpc[w] \in {"idle", "scan", "down"}
    /\ relay \in {"sleep", "dispatch", "down"}
    /\ batch \in SUBSET Message
    /\ job \in [Message -> {"none", "sending", "true", "false"}]
    /\ mail \in [Message -> Length]
    /\ counter \in Int
    /\ sent \in [Message -> Nat]
    /\ truncated \in SUBSET Message
    /\ early \in SUBSET Message
    /\ damaged \in SUBSET Message
    /\ workerFaults \in Nat /\ relayFaults \in Nat /\ redisErrors \in Nat

(* Each fault of the relay costs at most one duplicate: go-app/cmd/send    *)
(* removes a file after the next hop's 250, never before, and never starts *)
(* two goroutines for one file.                                            *)
AtMostOnce == \A m \in Message : sent[m] <= 1 + relayFaults

(* A file the relay removed has reached the next hop, but for one message  *)
(* per dialogue in which some answer was late or had several lines         *)
(* (sendEmail takes whatever line it reads last for the answer to the      *)
(* message).                                                               *)
ReleasedIsSent ==
    Cardinality({m \in Message : place[m] = "released" /\ sent[m] = 0})
        <= relayFaults

(* Nothing rescans the work dir, so what is left there is lost: each fault *)
(* of a worker leaves at most one message (or its .tmp) behind.            *)
OrphansPaidFor ==
    Cardinality({m \in Message : /\ place[m] = "work" \/ tmp[m] # Absent
                                 /\ ~Processing(m)})
        <= workerFaults

(* "This prevents any looping issue if the email crashes the kospam child  *)
(* process" (kospam.c): a message left in the work dir is never taken up   *)
(* again, by any worker.                                                   *)
NeverTakenAgain ==
    [][\A m \in Message :
         place[m] = "work" /\ ~Processing(m)
            => place'[m] = "work" /\ ~Processing(m)']_vars

(* At most one worker processes a message, also when the rename out of the *)
(* queue directory failed and its file is still there to be found.         *)
OneWorker ==
    \A v, w \in Worker : cur[v] = cur[w] /\ cur[v] # None => v = w

(* The next hop gets an incomplete copy only of a message a worker took    *)
(* before smtpd had written all of it (smtpd writes in place, under the    *)
(* final name), of one a worker's read or write failed on, or of one whose *)
(* header does not fit the buffers of fix_message_file.                    *)
TruncationHasCause == truncated \subseteq early \cup damaged \cup Clipped

(* A message sent to the training addresses is consumed, not relayed,      *)
(* unless the worker read it before its envelope lines were there; and     *)
(* kospam learns from no other message.  But for those it reads wrongly    *)
(* (parse_eml_buffer), and for a read that failed.                         *)
TrainedByAddress ==
    \A m \in Message \ (Misread \cup damaged) :
        /\ m \in Training /\ sent[m] > 0 => m \in early
        /\ place[m] = "trained" => m \in Training

(* The queue counter is never less than the number of accepted messages in *)
(* the queue, but for the messages that left it before (or without) having *)
(* been counted and for faults.                                            *)
Queued ==
    {m \in Message \ Training :
        smtpd[m] = "accepted" /\ place[m] \in {"queue", "work", "send"}}
Uncounted ==
    {m \in Message :
        place[m] = "released" /\ (smtpd[m] # "accepted" \/ m \in Training)}
CounterCoversQueue ==
    Cardinality(Queued)
        <= counter + Cardinality(Uncounted) + relayFaults + redisErrors

(* The whole service keeps the promise of MessageFate.                     *)
Fate == INSTANCE MessageFate WITH stage <- place, copies <- sent,
                                  doubt <- relayFaults
KeepsPromise == Fate!Spec

(* A message in the queue ends: relayed, set aside, dropped, learnt from,  *)
(* or stranded in the work dir by a fault of its worker.                   *)
Settled(m) ==
    \/ place[m] \in {"released", "error", "dropped", "trained"}
    \/ place[m] = "work" /\ ~Processing(m)
Settles == \A m \in Message : place[m] = "queue" ~> Settled(m)
=============================================================================
