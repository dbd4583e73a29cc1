------------------------------ MODULE Verdict ------------------------------
(***************************************************************************)
(* What kospam decides about a message, and what it tells the database:    *)
(* process_email (src/kospam.c) and check_spam (src/antispam.c) in the     *)
(* workers of the pool, over the tables minefield, history and counter.    *)
(*                                                                         *)
(* One action per statement the database sees, in the order of the code,   *)
(* so that workers interleave and may crash between any two.  A query that *)
(* fails is taken for "not found", an update that fails is only logged.    *)
(*                                                                         *)
(* Abstracted: a message is what the parser finds in it (Mail); spamicity  *)
(* is in percent; the statistical check yields any value of Scores; the    *)
(* files are MailFlow's, the training itself is Training's.                *)
(***************************************************************************)
EXTENDS Integers, FiniteSets, Sequences

CONSTANTS
    Worker, Message,
    Mail,            \* Mail[m]: what the message m may be
    Ip,
    Scores,          \* what run_statistical_check may return
    MaxHam, Possible, SpamLimit, \* max_ham_spamicity, possible_spam_limit,
                     \* spam_overall_limit
    SizeLimit,       \* max_message_size_to_filter, 0 for no limit
    OnZombie,        \* message_from_a_zombie
    MaxFailures,     \* bound: statements that fail
    MaxCrashes,      \* bound: workers that crash
    None

(* first and others: recipients; the one at ham@ or spam@ asks for a       *)
(* training, the one at trap@ is on blackhole_email_list.  ours: a bounce  *)
(* with our signature in it.  about: the message whose watermark it quotes.*)
Recipient == {"user@", "spam@", "ham@", "trap@"}
MailType ==
    [first : Recipient, others : SUBSET Recipient, ip : Ip, infected : BOOLEAN,
     mynetwork : BOOLEAN, listed : {"no", "white", "black"}, zombie : BOOLEAN,
     ours : BOOLEAN, size : Nat, about : Message \cup {None}]

ASSUME ConstantsAssumption ==
    /\ \A m \in Message : Mail[m] \subseteq MailType
    /\ Scores \subseteq 0..100
    /\ {MaxHam, Possible, SpamLimit, SizeLimit, MaxFailures, MaxCrashes} \subseteq Nat
    /\ OnZombie \in 0..2
    /\ IsFiniteSet(Message)
    /\ None \notin Message \cup (0..2)

VARIABLES
    mail,        \* mail[m]: what the parser finds in m
    job,         \* job[w]: sdata and the locals of process_email
    minefield,   \* the trapped addresses
    history,     \* history[m]: the column spam of its row, or None
    counter,     \* the row of counter
    fate,        \* fate[m]: what became of m, and how it looked then
    learnt,      \* trainings started: <<column, message>>
    failures, crashes

vars == <<mail, job, minefield, history, counter, fate, learnt, failures, crashes>>

Default == 50                       \* DEFAULT_SPAMICITY
Verdicts == {"ham", "spam", "virus"}
Status(v) == CASE v = "ham" -> 0 [] v = "spam" -> 1 [] v = "virus" -> 2
Headers == {"watermark", "score", "spam"}

Kinds == Verdicts \cup {"possible", "unsure", "minefield", "mynetwork"}
Counter == [{"rcvd"} \cup Kinds -> Nat]

(* blind: what this worker could not see for failing queries; armed: the   *)
(* client was trapped before the message came (both for the properties).   *)
NoJob == [pc |-> "idle", m |-> None, malware |-> FALSE, trapped |-> FALSE,
          spaminess |-> Default, result |-> "ok", headers |-> {},
          scored |-> FALSE, mine |-> 0, blind |-> {}, armed |-> FALSE]

Untouched == [st |-> "queued", verdict |-> "none", job |-> NoJob]

Mails == {f \in [Message -> UNION {Mail[m] : m \in Message}] :
            \A m \in Message : f[m] \in Mail[m]}

Init ==
    /\ mail \in Mails
    /\ job = [w \in Worker |-> NoJob]
    /\ minefield = {}
    /\ history = [m \in Message |-> None]
    /\ counter = [k \in {"rcvd"} \cup Kinds |-> 0]
    /\ fate = [m \in Message |-> Untouched]
    /\ learnt = {}
    /\ failures = 0 /\ crashes = 0

-----------------------------------------------------------------------------
At(w, pc) == job[w].pc = pc
Of(w) == mail[job[w].m]
Goto(w, pc) == job' = [job EXCEPT ![w].pc = pc]

Training(f) == f.first \in {"spam@", "ham@"} \/ f.others \cap {"spam@", "ham@"} # {}
Trapped(f)  == "trap@" \in {f.first} \cup f.others

Fails == failures < MaxFailures /\ failures' = failures + 1

(* check_spam returns.                                                     *)
Returned(w, spaminess, headers, result) ==
    [job EXCEPT ![w].pc = IF Training(Of(w)) THEN "dispose" ELSE "history",
                ![w].spaminess = spaminess, ![w].headers = headers,
                ![w].result = result]

(* process_dir hands the next message of the directory to process_email,   *)
(* which has it parsed.                                                    *)
Start(w, m) ==
    /\ At(w, "idle")
    /\ fate[m].st = "queued"
    /\ fate' = [fate EXCEPT ![m].st = "taken"]
    /\ job' = [job EXCEPT ![w] = [NoJob EXCEPT !.pc = "attachments", !.m = m,
                                      !.armed = mail[m].ip \in minefield]]
    /\ UNCHANGED <<mail, minefield, history, counter, learnt, failures, crashes>>

(* has_known_bad_attachment.                                               *)
Attachments(w) ==
    /\ At(w, "attachments")
    /\ \/ /\ job' = [job EXCEPT ![w].pc = "trap", ![w].malware = Of(w).infected]
          /\ UNCHANGED failures
       \/ /\ Fails
          /\ job' = [job EXCEPT ![w].pc = "trap", ![w].blind = @ \cup {"malware"}]
    /\ UNCHANGED <<mail, minefield, history, counter, fate, learnt, crashes>>

TrapOnTraining(w) ==                                               \* mutant
    /\ At(w, "trap")
    /\ job' = [job EXCEPT ![w].pc = "check",
                          ![w].mine = IF Trapped(Of(w)) THEN 1 ELSE 0]
    /\ minefield' = IF Trapped(Of(w)) /\ Training(Of(w))
                      THEN minefield \cup {Of(w).ip} ELSE minefield
    /\ UNCHANGED <<mail, history, counter, fate, learnt, failures, crashes>>

(* store_minefield_ip, when a recipient is a trap.                         *)
Trap(w) ==
    /\ At(w, "trap")
    /\ job' = [job EXCEPT ![w].pc = "check",
                          ![w].mine = IF Trapped(Of(w)) THEN 1 ELSE 0]
    /\ \/ /\ minefield' = IF Trapped(Of(w)) THEN minefield \cup {Of(w).ip}
                                            ELSE minefield
          /\ UNCHANGED failures
       \/ Trapped(Of(w)) /\ Fails /\ UNCHANGED minefield
    /\ UNCHANGED <<mail, history, counter, fate, learnt, crashes>>

(* check_spam: a training request; do_training needs the row of the quoted *)
(* message, and takes the column from the first recipient.                 *)
Train(w) ==
    /\ At(w, "check") /\ Training(Of(w))
    /\ LET about == Of(w).about
           column == IF Of(w).first = "spam@" THEN "nspam" ELSE "nham"
       IN \/ /\ learnt' = IF about # None /\ (about # None => history[about] # None)
                            THEN learnt \cup {<<column, job[w].m>>} ELSE learnt
             /\ UNCHANGED failures
          \/ about # None /\ Fails /\ UNCHANGED learnt
    /\ job' = Returned(w, Default, {"watermark"}, "discard")
    /\ UNCHANGED <<mail, minefield, history, counter, fate, crashes>>

ListedUnlessZombie(w) ==                                           \* mutant
    /\ At(w, "check") /\ ~Training(Of(w)) /\ ~Of(w).mynetwork
    /\ IF Of(w).listed # "no" /\ ~Of(w).zombie
         THEN job' = Returned(w, IF Of(w).listed = "white" THEN 1 ELSE 99,
                              {"watermark"}, "ok")
         ELSE Goto(w, "minefield")
    /\ UNCHANGED <<mail, minefield, history, counter, fate, learnt, failures, crashes>>

(* A client on mynetwork, then the white list, then the black list.        *)
MyNetwork(w) ==
    /\ At(w, "check") /\ ~Training(Of(w)) /\ Of(w).mynetwork
    /\ job' = Returned(w, Default, {"watermark"}, "ok")
    /\ UNCHANGED <<mail, minefield, history, counter, fate, learnt, failures, crashes>>

Listed(w) ==
    /\ At(w, "check") /\ ~Training(Of(w)) /\ ~Of(w).mynetwork
    /\ \/ /\ Of(w).listed # "no"
          /\ job' = Returned(w, IF Of(w).listed = "white" THEN 1 ELSE 99,
                             {"watermark"}, "ok")
          /\ UNCHANGED failures
       \/ Of(w).listed = "no" /\ Goto(w, "minefield") /\ UNCHANGED failures
       \/ /\ Of(w).listed # "no" /\ Fails
          /\ job' = [job EXCEPT ![w].pc = "minefield", ![w].blind = @ \cup {"lists"}]
    /\ UNCHANGED <<mail, minefield, history, counter, fate, learnt, crashes>>

(* is_sender_on_minefield.                                                 *)
Minefield(w) ==
    /\ At(w, "minefield")
    /\ \/ /\ job' = [job EXCEPT ![w].pc = "evaluate",
                                ![w].trapped = Of(w).ip \in minefield]
          /\ UNCHANGED failures
       \/ /\ Fails
          /\ job' = [job EXCEPT ![w].pc = "evaluate", ![w].blind = @ \cup {"minefield"}]
    /\ UNCHANGED <<mail, minefield, history, counter, fate, learnt, crashes>>

(* The rest of check_spam: a zombie, our own bounce, a message too large,  *)
(* and only then the statistical check.                                    *)
Zombie(w) == Of(w).zombie /\ OnZombie > 0
Small(w) == SizeLimit = 0 \/ Of(w).size < SizeLimit

Evaluate(w) ==
    /\ At(w, "evaluate")
    /\ \/ /\ Zombie(w)
          /\ job' = Returned(w, 99, {"watermark"},
                             IF OnZombie = 1 THEN "ok" ELSE "discard")
       \/ /\ ~Zombie(w) /\ (Of(w).ours \/ ~Small(w))
          /\ job' = Returned(w, Default, {"watermark"}, "ok")
       \/ /\ ~Zombie(w) /\ ~Of(w).ours /\ Small(w)
          /\ \E s \in Scores :
                job' = [Returned(w, s,
                            IF s >= SpamLimit THEN Headers ELSE Headers \ {"spam"},
                            "ok") EXCEPT ![w].scored = TRUE]
    /\ UNCHANGED <<mail, minefield, history, counter, fate, learnt, failures, crashes>>

HistoryOfSpam(w) ==                                                \* mutant
    /\ At(w, "history")
    /\ Goto(w, "dispose")
    /\ history' = IF job[w].spaminess >= SpamLimit
                    THEN [history EXCEPT ![job[w].m] = Status("spam")] ELSE history
    /\ UNCHANGED <<mail, minefield, counter, fate, learnt, failures, crashes>>

(* write_history_to_sql; sdata.status is what init_session_data left.      *)
WriteHistory(w) ==
    /\ At(w, "history")
    /\ Goto(w, "dispose")
    /\ \/ history' = [history EXCEPT ![job[w].m] = Status("ham")] /\ UNCHANGED failures
       \/ Fails /\ UNCHANGED history
    /\ UNCHANGED <<mail, minefield, counter, fate, learnt, crashes>>

VerdictFirstSpam(j) ==                                             \* mutant
    IF j.spaminess > SpamLimit THEN "spam" ELSE IF j.malware THEN "virus" ELSE "ham"
VerdictAboveLimit(j) ==                                            \* mutant
    IF j.malware THEN "virus" ELSE IF j.spaminess > SpamLimit THEN "spam" ELSE "ham"

(* The verdict of process_email.                                           *)
VerdictOf(j) ==
    IF j.malware THEN "virus" ELSE IF j.spaminess >= SpamLimit THEN "spam" ELSE "ham"

(* fix_message_file and rename, or unlink; a message that cannot be read   *)
(* again is released without the headers.                                  *)
Dispose(w) ==
    /\ At(w, "dispose")
    /\ Goto(w, "count")
    /\ LET m == job[w].m
           became(st, headers) ==
             [fate EXCEPT ![m] = [st |-> st,
                 verdict |-> IF Training(Of(w)) THEN "none" ELSE VerdictOf(job[w]),
                 job |-> [job[w] EXCEPT !.headers = headers]]]
       IN \/ /\ job[w].result = "ok"
             /\ \/ fate' = became("sent", job[w].headers) /\ UNCHANGED failures
                \/ Fails /\ fate' = became("sent", {})
          \/ /\ job[w].result = "discard"
             /\ fate' = became("dropped", {})
             /\ UNCHANGED failures
    /\ UNCHANGED <<mail, minefield, history, counter, learnt, crashes>>

CountedAnyway(j, training) ==                                      \* mutant
    LET v == VerdictOf(j)
    IN  [k \in {"rcvd"} \cup Kinds |->
           CASE k = "rcvd" -> 1
             [] k = "minefield" -> j.mine
             [] k = "mynetwork" -> 0
             [] k = "possible" -> IF j.spaminess > Possible THEN 1 ELSE 0
             [] k = "unsure" ->
                  IF j.spaminess < Possible /\ j.spaminess > MaxHam THEN 1 ELSE 0
             [] OTHER -> IF ~training /\ v = k THEN 1 ELSE 0]

(* What this message adds to the counters; c_mynetwork is never set.       *)
Counted(j, training) ==
    LET v == VerdictOf(j)
    IN  [k \in {"rcvd"} \cup Kinds |->
           CASE k = "rcvd" -> 1
             [] k = "minefield" -> j.mine
             [] k = "mynetwork" -> 0
             [] k = "possible" ->
                  IF ~training /\ v = "ham" /\ j.spaminess > Possible THEN 1 ELSE 0
             [] k = "unsure" ->
                  IF ~training /\ v = "ham" /\ j.spaminess < Possible
                               /\ j.spaminess > MaxHam THEN 1 ELSE 0
             [] OTHER -> IF ~training /\ v = k THEN 1 ELSE 0]

(* update_counters.                                                        *)
Count(w) ==
    /\ At(w, "count")
    /\ LET add == Counted(job[w], Training(Of(w)))
       IN \/ /\ counter' = [k \in DOMAIN counter |-> counter[k] + add[k]]
             /\ UNCHANGED failures
          \/ Fails /\ UNCHANGED counter
    /\ job' = [job EXCEPT ![w] = NoJob]
    /\ UNCHANGED <<mail, minefield, history, fate, learnt, crashes>>

(* A worker dies: a message it has not disposed of stays in the work       *)
(* directory for ever.                                                     *)
Crash(w) ==
    /\ ~At(w, "idle")
    /\ crashes < MaxCrashes
    /\ crashes' = crashes + 1
    /\ job' = [job EXCEPT ![w] = NoJob]
    /\ UNCHANGED <<mail, minefield, history, counter, fate, learnt, failures>>

Step(w) ==
    \/ \E m \in Message : Start(w, m)
    \/ Attachments(w) \/ Trap(w) \/ Train(w) \/ MyNetwork(w) \/ Listed(w)
    \/ Minefield(w) \/ Evaluate(w) \/ WriteHistory(w) \/ Dispose(w) \/ Count(w)

Next == \E w \in Worker : Step(w) \/ Crash(w)

Spec == Init /\ [][Next]_vars

-----------------------------------------------------------------------------
(* Properties                                                              *)

Progress == {"idle", "attachments", "trap", "check", "minefield", "evaluate",
             "history", "dispose", "count"}
Job == [pc : Progress, m : Message \cup {None}, malware : BOOLEAN,
        trapped : BOOLEAN, spaminess : 0..100, result : {"ok", "discard"},
        headers : SUBSET Headers, scored : BOOLEAN, mine : 0..1,
        blind : SUBSET {"malware", "lists", "minefield"}, armed : BOOLEAN]

(* Types; a worker that is busy has a message of its own.                  *)
TypeOK ==
    /\ mail \in Mails
    /\ job \in [Worker -> Job]
    /\ \A w, v \in Worker : w # v /\ ~At(w, "idle") => job[w].m # job[v].m
    /\ minefield \subseteq Ip
    /\ history \in [Message -> 0..2 \cup {None}]
    /\ counter \in Counter
    /\ fate \in [Message -> [st : {"queued", "taken", "sent", "dropped"},
                             verdict : Verdicts \cup {"none"}, job : Job]]
    /\ learnt \subseteq {"nham", "nspam"} \X Message
    /\ failures \in 0..MaxFailures /\ crashes \in 0..MaxCrashes

(* The counters add up: of the messages received each has one verdict, but *)
(* for the training requests.                                              *)
Trainings == {m \in Message : Training(mail[m])}
CountersAddUp ==
    LET judged == counter["ham"] + counter["spam"] + counter["virus"]
    IN  /\ judged <= counter["rcvd"]
        /\ counter["rcvd"] - judged <= Cardinality(Trainings)
        /\ counter["possible"] + counter["unsure"] <= counter["ham"]

(* "kospam checks for viruses even in emails coming from mynetwork"        *)
(* (example.conf), from listed senders and from zombies: what check_spam   *)
(* returns early does not hide a known bad attachment.                     *)
InfectedIsSeen ==
    \A m \in Message :
        fate[m].st \in {"sent", "dropped"} /\ mail[m].infected /\ ~Training(mail[m])
          => "malware" \in fate[m].job.blind \/ fate[m].verdict = "virus"

(* The two comparisons with spam_overall_limit agree: check_spam marks     *)
(* what it has scored exactly when process_email counts it as spam.        *)
MarkedAsCounted ==
    \A m \in Message :
        LET j == fate[m].job
        IN  fate[m].st = "sent" /\ j.scored /\ j.headers # {} /\ ~j.malware =>
               ("spam" \in j.headers <=> fate[m].verdict = "spam")

(* A released message can be trained: the watermark it carries is in the   *)
(* history before it leaves, unless the insert failed, and a crash of the  *)
(* worker does not change that.                                            *)
ReleasedCanBeTrained ==
    \A m \in Message : fate[m].st = "sent" => history[m] # None \/ failures > 0

(* A client that hit a trap, through whichever worker, is known to the     *)
(* statistical check of its later messages and of that message itself.     *)
TrappedIsKnown ==
    \A m \in Message :
        LET j == fate[m].job
        IN  fate[m].st = "sent" /\ j.scored /\ failures = 0
               /\ (j.armed \/ Trapped(mail[m])) => j.trapped

(* No message is dropped from mynetwork or from a listed sender, not even  *)
(* one that came from a zombie, unless the lists could not be read.        *)
ListedIsNotDropped ==
    \A m \in Message :
        fate[m].st = "dropped" /\ ~Training(mail[m]) =>
            ~mail[m].mynetwork /\ (mail[m].listed = "no" \/ "lists" \in fate[m].job.blind)

(* What the documentation says.                                            *)

(* message_from_a_zombie, "1: mark it as spam, and skip the antispam       *)
(* check" (example.conf): its header says so, as that of any other spam.   *)
ZombieIsMarked ==
    \A m \in Message :
        fate[m].st = "sent" /\ fate[m].verdict = "spam" /\ fate[m].job.headers # {}
          => "spam" \in fate[m].job.headers

(* The history tells spam from ham: spam=0 is what the search index leaves *)
(* out (sphinx.conf.in), and S_SPAM is 1.                                  *)
HistoryTellsVerdict ==
    \A m \in Message :
        fate[m].st = "sent" /\ history[m] # None => history[m] = Status(fate[m].verdict)
=============================================================================
