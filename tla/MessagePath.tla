---------------------------- MODULE MessagePath ----------------------------
(***************************************************************************)
(* The way of one message through the service, end to end: a session of    *)
(* smtpd queues files, a worker takes one, reads it (parse_message, post_  *)
(* parse), trains with it or judges it, and send hands it to the next hop. *)
(* Smtpd, Parser, Classifier and Relay are composed over one state; what   *)
(* happens to files, directories and processes is MailFlow, the other      *)
(* checks of check_spam are Verdict.                                       *)
(*                                                                         *)
(* The files not taken are forgotten, as is what a stage leaves behind     *)
(* (free, clearhash): nothing later looks at it.                           *)
(***************************************************************************)
EXTENDS Parser, Smtpd, Relay, Classifier

CONSTANTS
    LineRoom,     \* recipients that fix_message_file has room for in a line
    Cut, Field,   \* what becomes of the others, see Handed
    OldFile,      \* queue files of earlier sessions
    Tree,         \* messages they may hold (MimeTree)
    PlainTree,    \* bound: messages the files of the session may hold
    TextOf(_)     \* the lines a message is sent as

ASSUME PathAssumption ==
    /\ Daemon \in Sender
    /\ LineRoom \in Nat \ {0}
    /\ Cut \notin Rcpt /\ Field \notin Rcpt
    /\ \A f \in OldFile : Written(f)
    /\ \A t \in Tree \cup PlainTree : TextOf(t) \in Seq(ToSet(TextOf(t)))

VARIABLES
    stage,    \* "smtp", "read", "parse", "judge", "relay", "trained"
    file,     \* the file taken from the queue
    tree      \* what it holds

vars == <<stage, file, tree, smtpdVars, parserVars, filterVars, relayVars>>

NoFile == [from |-> NullSender, rcpts |-> <<>>, host |-> NoHost,
           counted |-> FALSE, told |-> Nothing, earlier |-> {}]

Init ==
    /\ stage = "smtp" /\ file = NoFile /\ tree = None
    /\ SmtpdInit /\ ParserInit /\ FilterInit /\ RelayInit

Session ==
    /\ stage = "smtp"
    /\ SmtpdStep
    /\ UNCHANGED <<stage, file, tree, parserVars, filterVars, relayVars>>

(* A worker reads the file it has taken (parse_message, read_file), which  *)
(* begins with the envelope lines smtpd wrote.                             *)
EnvelopeLines(from, rcpts) == <<<<"from", from>>, <<"rcpts", rcpts>>>>

Take(f, t) ==
    /\ stage' = "read"
    /\ file' = f /\ tree' = t
    /\ ReadFile(EnvelopeLines(f.from, f.rcpts) \o TextOf(t))
    /\ Forget
    /\ UNCHANGED <<filterVars, relayVars>>

TakeQueued == stage = "smtp" /\ \E f \in queued, t \in PlainTree : Take(f, t)
TakeOld    == stage = "smtp" /\ conn = "none" /\
              \E f \in OldFile, t \in Tree : Take(f, t)

Parse ==
    /\ \/ stage = "read" /\ ParseBuffer /\ stage' = "parse"
       \/ stage = "parse" /\ ParserStep /\ UNCHANGED stage
    /\ UNCHANGED <<file, tree, smtpdVars, filterVars, relayVars>>

(* post_parse: the recipients the parser was left with decide about        *)
(* training, wherever in their list a tagged one stands.                   *)
TrainingRequest == ToSet(m.rcpts) \cap Tagged # {}

(* generate_tokens_from_string: without a body, without tokens (the        *)
(* tokens of From: and the subject aside).                                 *)
Tokens == IF m.body = <<>> THEN {} ELSE (Pair \ Suspect) \cup Word

(* add_penalties, under penalize_octet_stream and penalize_images; "other" *)
(* is a missing subject, a trapped client or a zombie.                     *)
Flags(other) ==
    {p \in {"octet", "image", "other"} :
        \/ p = "octet" /\ m.octet
        \/ p = "image" /\ m.image
        \/ p = "other" /\ other}

(* The recipients parseEmailFile reads of the header that fix_message_file *)
(* has written.  It copies each line through a buffer of 512 bytes; of a   *)
(* longer one the rest is lost, the CR at its end as well, so that the     *)
(* line below is read as a part of it: a recipient cut through, with that  *)
(* line's name and first field after a newline, and its other fields.      *)
Handed(rcpts) ==
    IF Len(rcpts) <= LineRoom THEN rcpts
    ELSE SubSeq(rcpts, 1, LineRoom) \o <<Cut, Field, Field, Field>>

(* check_spam, as far as it depends on what the parser found.              *)
CheckSpam ==
    /\ stage = "parse" /\ levels = <<>>
    /\ IF TrainingRequest
       THEN stage' = "trained" /\ UNCHANGED <<filterVars, relayVars>>
       ELSE IF m.signo
       THEN /\ stage' = "relay"
            /\ OpenFile(file.from, Handed(file.rcpts), NullSender)
            /\ UNCHANGED filterVars
       ELSE /\ stage' = "judge"
            /\ \E other \in BOOLEAN, marks \in SUBSET Suspect :
                  StartFilter(Tokens \cup marks, Flags(other))
            /\ UNCHANGED relayVars
    /\ ReadFile(<<>>) /\ tree' = None
    /\ UNCHANGED <<file, smtpdVars>>

Judge ==
    /\ stage = "judge"
    /\ FilterStep
    /\ UNCHANGED <<stage, file, tree, smtpdVars, parserVars, relayVars>>

(* Spam is relayed too, with a header field that says so.                  *)
Release ==
    /\ stage = "judge" /\ Judged
    /\ stage' = "relay"
    /\ OpenFile(file.from, Handed(file.rcpts), NullSender)
    /\ ClearHash
    /\ UNCHANGED <<file, tree, smtpdVars, parserVars>>

Send ==
    /\ stage = "relay"
    /\ RelayStep(file.from)
    /\ UNCHANGED <<stage, file, tree, smtpdVars, parserVars, filterVars>>

Next == \/ Session \/ TakeQueued \/ TakeOld \/ Parse \/ CheckSpam
        \/ Judge \/ Release \/ Send

Spec == Init /\ [][Next]_vars

-----------------------------------------------------------------------------
(* Properties                                                              *)

(* What qry_spaminess may return, in 1/10000.                              *)
Odds == (1 .. 9999) \cup {NotANumber}

(* Types of the stages' variables (fields of files and nodes by sampling   *)
(* their ranges).                                                          *)
TypeOK ==
    /\ stage \in {"smtp", "read", "parse", "judge", "relay", "trained"}
    /\ conn \in {"none", "open", "refused", "left"}
    /\ session.mailFrom \in Sender \cup {NullSender}
    /\ ToSet(session.rcptTo) \subseteq Rcpt
    /\ \A f \in queued \cup {file} : ToSet(f.rcpts) \subseteq Rcpt
    /\ m.used <= BodyRoom /\ m.attached <= MaxAttachments
    /\ Len(m.body) <= m.used
    /\ \A i \in DOMAIN levels : levels[i].at < levels[i].hi
    /\ \A t \in DOMAIN node : node[t].p \in Odds
    /\ Len(slips) <= MaxSlips

(* Where the parser is in the text: the calls of extract_mime_parts see    *)
(* nothing before this line any more.                                      *)
Position ==
    IF levels = <<>> THEN Len(text) + 1
    ELSE IF Top.at # 0 THEN Top.at ELSE Top.hi

(* A nested call ends exactly where the call around it goes on, and the    *)
(* outermost one at the end of the text: no line is read at two levels,    *)
(* and none is passed over between them ("*next_part = NUL").              *)
PartsNest ==
    \A i \in DOMAIN levels :
        levels[i].hi = IF i = 1 THEN Len(text) + 1
                       ELSE IF levels[i - 1].at # 0 THEN levels[i - 1].at
                       ELSE levels[i - 1].hi

Parsing == stage = "parse" /\ stage' = "parse"

(* The parser ends for every text: each turn of extract_mime_parts reads   *)
(* on, or returns where it is to the call around it; and no turn leaves    *)
(* everything as it was, to be taken over and over.                        *)
ReadsOn ==
    /\ [](InPart => GoTo(NextPart) # levels)
    /\ [][Parsing => \/ Position' > Position
                     \/ Position' = Position /\ Len(levels') < Len(levels)]_vars

(* As positions only grow, this keeps the body in the order of the text,   *)
(* and each piece in it once: a turn adds at most one, a text from among   *)
(* the lines it leaves behind or the name of the attachment it counts      *)
(* (extract_mime_parts, APPENDTOBODY).                                     *)
BodyInOrder ==
    [][Parsing /\ m'.body # m.body =>
          /\ Position' > Position
          /\ \/ \E i \in Position .. Position' - 1 :
                   text[i][1] = "text" /\ m'.body = Append(m.body, text[i][3])
             \/ /\ m'.attached = m.attached + 1
                /\ m'.body = Append(m.body, Last(m'.body))]_vars

(* "Don't run spam check if we found our signo in the bounced message":    *)
(* what one header has shown is kept, whatever the headers and parts after *)
(* it say, to the end, and then the filter does not see the message        *)
(* (parse_eml_buffer, check_spam).                                         *)
SignoDecides ==
    [][stage = "parse" /\ m.signo =>
          \/ stage' \in {"relay", "trained"}
          \/ stage' = "parse" /\ m'.signo]_vars

(* What sendEmail has before it, in order.                                 *)
Ahead ==
    CASE talk = "dial"     -> 9
      [] talk = "ehlo"     -> IF secure = "yes" THEN 5 ELSE 8
      [] talk = "answers"  -> IF secure = "yes" THEN 4 ELSE 7
      [] talk = "starttls" -> 6
      [] talk = "mail"     -> 3
      [] talk = "rcpt"     -> 2
      [] talk = "text"     -> 1
      [] OTHER             -> 0

(* The dialogue ends, whatever the next hop answers, in however many lines *)
(* and however late: its loops are over the lines of an answer and over    *)
(* the recipients, and TLS is asked for once (MailFlow takes it for one    *)
(* step, sendEmail).                                                       *)
DialogueAdvances ==
    [][stage = "relay" =>
          \/ Ahead' < Ahead
          \/ /\ Ahead' = Ahead
             /\ \/ talk = "answers" /\ Len(wire') < Len(wire)
                \/ talk = "rcpt" /\ Len(left') < Len(left)]_vars

(* From the session to the next hop: when every answer is read to its end, *)
(* a message that is removed has been offered from its sender to every     *)
(* recipient the client named for it, and to nobody but those of its       *)
(* session's earlier transactions (smtpd Reset, send sendEmail) - unless   *)
(* there were more of them than a rewritten header line holds: then what   *)
(* is offered may be short of some, with debris of the header in place     *)
(* (fix_message_file).                                                     *)
DeliveredAsAsked ==
    talk = "removed" /\ slips = <<>> =>
        LET asked   == ToSet(file.told.rcpts)
            offered == hop.rcpts \cup hop.refused
            whole   == Len(file.rcpts) <= LineRoom
        IN  /\ hop.from = file.told.from
            /\ whole => asked \subseteq offered
            /\ offered \subseteq asked \cup file.earlier
                                 \cup (IF whole THEN {} ELSE {Cut, Field})

(* A message within the message that has envelope lines of its own.        *)
Enclosed == \E i \in DOMAIN text : i > 2 /\ text[i][1] = "rcpts"

(* smtpd and the worker agree on which messages are for training (it reads *)
(* the recipients in the session, the worker in the file): what is learnt  *)
(* has not been counted, what goes on to the next hop has - unless a       *)
(* message within the message names recipients, which the worker takes for *)
(* its own, or the list is too long for the worker.                        *)
CountedAsTrained ==
    [][stage = "parse" /\ stage' # "parse" /\ ~Enclosed =>
          \/ stage' = "trained" /\ ~file.counted
          \/ stage' # "trained" /\ file.counted
          \/ /\ stage' # "trained"
             /\ \E i \in DOMAIN file.rcpts :
                    i > HeaderRoom /\ file.rcpts[i] \in Tagged]_vars

(* The evidence of a token: how often messages of each kind had it, for    *)
(* the messages of that kind (qry_spaminess).                              *)
InSpam(t) == stored[t].nspam * totals.nham
InHam(t)  == stored[t].nham * totals.nspam

(* A message is marked as spam only for a penalty, for a token seen more   *)
(* often in spam, or for a mark of its own of which nothing is known       *)
(* (evaluate_tokens).                                                      *)
SpamNeedsEvidence ==
    filter = "spam" =>
        \/ penalties # {}
        \/ \E t \in DOMAIN stored : InSpam(t) > InHam(t)
        \/ \E t \in Suspect \cap DOMAIN node : node[t].nham + node[t].nspam = 0

(* Two tokens that four messages had, spam all of them, mark the message   *)
(* when no other token was seen more often in ham, whether they are pairs  *)
(* or words - unless a query fails or the filter was trained with messages *)
(* of one kind only (evaluate_tokens).                                     *)
Damning == {t \in DOMAIN stored : stored[t].nspam >= 4 /\ stored[t].nham = 0}

EvidenceIsUsed ==
    (/\ Judged /\ ~failed
     /\ totals.nham > 0 /\ totals.nspam > 0
     /\ Cardinality(Damning) > 1
     /\ \A t \in DOMAIN stored : InHam(t) <= InSpam(t))
    => filter = "spam"

(* Session, parser, filter and relay together handle a message as MailFlow *)
(* assumes of its steps Take, Judge and SendEmail.                         *)
HandlingState ==
    CASE stage = "smtp" -> "queue"
      [] stage = "trained" -> "trained"
      [] stage \in {"read", "parse", "judge"} -> "taken"
      [] stage = "relay" -> CASE talk = "removed" -> "true"
                              [] talk = "kept" -> "false"
                              [] OTHER -> "sending"

Handled == INSTANCE Handling WITH state <- HandlingState,
                                  accepted <- hop.accepted,
                                  misses <- Len(slips)
HandlesMessage == Handled!Spec
=============================================================================
