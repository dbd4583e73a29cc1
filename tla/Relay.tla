------------------------------- MODULE Relay -------------------------------
(***************************************************************************)
(* The dialogue of send with the next hop (src/go-app/cmd/send/main.go     *)
(* parseEmailFile, sendEmail), which MailFlow takes as one step.           *)
(*                                                                         *)
(* After each command one line is read, with a deadline of 15 seconds, and *)
(* the error is ignored: a line that comes late, or that follows the first *)
(* one of its answer, is not lost, it is taken for the answer to a later   *)
(* command.  "wire" holds the lines the next hop has sent, or will send,   *)
(* that have not been read.  Only a positive answer to EHLO is read to its *)
(* last line, and only that of STARTTLS and the last one decide anything.  *)
(* The next hop is external: it answers every command, in order, in as     *)
(* many lines as it likes, and accepts or refuses as it likes.             *)
(***************************************************************************)
EXTENDS Naturals, Sequences

CONSTANTS MaxSlips   \* bound: lines that are not read with their command

ASSUME RelayAssumption == MaxSlips \in Nat

VARIABLES
    talk,      \* where sendEmail is; "removed" and "kept" are its two ends
    left,      \* recipients not yet named
    wire,      \* lines to be read
    secure,    \* STARTTLS: "no", "offered", "yes"
    hop,       \* the next hop: [from, rcpts, refused, data, accepted]
    slips      \* where a line was left unread, in order: its deadline had
               \* passed, or its answer has a line before it

relayVars == <<talk, left, wire, secure, hop, slips>>

Silent == [from |-> "none", rcpts |-> {}, refused |-> {}, data |-> FALSE,
         accepted |-> FALSE]

RelayInit ==
    /\ talk = "none"
    /\ left = <<>> /\ wire = <<>> /\ secure = "no"
    /\ hop = Silent
    /\ slips = <<>>

(* Answers to EHLO, one code per line; "250-" announces another line.      *)
EhloAnswers == {<<"250">>, <<"250-", "250">>, <<"250-STARTTLS", "250">>, <<"502">>}

(* Any other answer; what follows the code tells send nothing.             *)
Answer(code, more) == [i \in 1 .. 1 + more |-> code]
MoreNever(line) == FALSE                                           \* mutant
More(line)     == line \in {"250-", "250-STARTTLS"}
Positive(line) == line = "250" \/ More(line)

Codes == {"220", "354", "454", "500", "502", "503", "550", "554", "250", "250-",
          "250-STARTTLS"}

(* n more lines are left for later commands to read.                       *)
Slip(n) ==
    /\ Len(slips) + n <= MaxSlips
    /\ slips' = slips \o [i \in 1 .. n |-> talk]

(* ReadString: line is the first of the lines w on their way, or nothing   *)
(* when the deadline passes; "more" lines follow in the same answer.       *)
ReadLine(w, more, line) ==
    \/ w # <<>> /\ line = Head(w) /\ wire' = Tail(w) /\ Slip(more)
    \/ line = "" /\ wire' = w /\ Slip(more + 1)

AskPipelined(code, next) ==                                        \* mutant
    /\ wire' = Append(wire, code) /\ UNCHANGED slips
    /\ talk' = next

(* A command whose answer is not looked at.                                *)
Ask(code, next) ==
    /\ \E more \in 0 .. MaxSlips, line \in Codes \cup {""} :
          ReadLine(wire \o Answer(code, more), more, line)
    /\ talk' = next

(* parseEmailFile: "Missing Kospam-Envelope-From: header line" is also the *)
(* verdict on an empty one.                                                *)
OpenFile(sender, rcpts, nobody) ==
    /\ talk' = IF sender = nobody THEN "kept" ELSE "dial"
    /\ left' = rcpts /\ wire' = <<>> /\ secure' = "no"
    /\ hop' = Silent /\ slips' = <<>>

Dial ==
    /\ talk = "dial"
    /\ Ask("220", "ehlo")
    /\ UNCHANGED <<left, secure, hop>>

(* A failure to connect, or at any time before the text, leaves the file.  *)
Disconnect ==
    /\ talk \notin {"none", "removed", "kept"}
    /\ talk' = "kept"
    /\ UNCHANGED <<left, wire, secure, hop, slips>>

(* The loop below stops at the first line of a refusal, if it has several. *)
Ehlo ==
    /\ talk = "ehlo"
    /\ talk' = "answers"
    /\ \/ \E answer \in EhloAnswers : wire' = wire \o answer /\ UNCHANGED slips
       \/ /\ wire' = wire \o Answer("502", 1)
          /\ Len(slips) < MaxSlips /\ slips' = Append(slips, talk')
    /\ UNCHANGED <<left, secure, hop>>

(* The loop after EHLO; the second one, over TLS, looks for nothing.       *)
AfterEhlo(line) ==
    LET offer == secure = "no" /\ line = "250-STARTTLS"
    IN  /\ secure' = IF offer THEN "offered" ELSE secure
        /\ talk' = IF More(line) THEN "answers"
                   ELSE IF secure = "offered" THEN "starttls" ELSE "mail"

ReadEhlo ==
    /\ talk = "answers"
    /\ \E line \in Codes \cup {""} : ReadLine(wire, 0, line) /\ AfterEhlo(line)
    /\ UNCHANGED <<left, hop>>

(* The handshake fails unless the next hop has agreed, and unless the      *)
(* lines unread were in the buffer that is given up with the connection.   *)
StartTls ==
    /\ talk = "starttls"
    /\ \E code \in {"220", "454"} :
       \E line \in {Head(Append(wire, code)), ""} :
          /\ talk' = IF line = "220" /\ code = "220" THEN "ehlo" ELSE "kept"
          /\ Slip(IF line = "" THEN 1 ELSE 0)
    /\ wire' = <<>>
    /\ secure' = "yes"
    /\ UNCHANGED <<left, hop>>

MailFrom(sender) ==
    /\ talk = "mail"
    /\ \E ok \in BOOLEAN :
          /\ hop' = IF ok THEN [hop EXCEPT !.from = sender] ELSE hop
          /\ Ask(IF ok THEN "250" ELSE "550", "rcpt")
    /\ UNCHANGED <<left, secure>>

RcptTo ==
    /\ talk = "rcpt" /\ left # <<>>
    /\ \E ok \in {FALSE, hop.from # "none"} :
          /\ hop' = IF ok THEN [hop EXCEPT !.rcpts = @ \cup {Head(left)}]
                    ELSE [hop EXCEPT !.refused = @ \cup {Head(left)}]
          /\ Ask(IF ok THEN "250" ELSE "550", "rcpt")
    /\ left' = Tail(left)
    /\ UNCHANGED secure

DataCommand ==
    /\ talk = "rcpt" /\ left = <<>>
    /\ \E ok \in {FALSE, hop.rcpts # {}} :
          /\ hop' = [hop EXCEPT !.data = ok]
          /\ Ask(IF ok THEN "354" ELSE "503", "text")
    /\ UNCHANGED <<left, secure>>

(* The text is sent whatever the answer was; a hop that does not expect it *)
(* takes its lines for commands.  After the first line of the answer only  *)
(* that of QUIT is read, for nothing.                                      *)
LastAnswer(ok) == IF ok THEN "250" ELSE IF hop.data THEN "554" ELSE "500"

SendText ==
    /\ talk = "text"
    /\ \E ok \in {FALSE, hop.data}, line \in Codes \cup {""} :
          /\ hop' = [hop EXCEPT !.accepted = ok]
          /\ ReadLine(Append(wire, LastAnswer(ok)), 0, line)
          /\ talk' = IF Positive(line) THEN "removed" ELSE "kept"
    /\ UNCHANGED <<left, secure>>

RelayStep(sender) ==
    \/ Dial \/ Disconnect \/ Ehlo \/ ReadEhlo \/ StartTls \/ MailFrom(sender)
    \/ RcptTo \/ DataCommand \/ SendText

(* A file is removed when the next hop has accepted the message, and kept  *)
(* (moved to send-error) when it has not, as long as every answer is read  *)
(* to its end.  One line left unread may only do harm when the answer to   *)
(* EHLO has several and it was a line of that or of the greeting; else it  *)
(* takes two, late ones or of an answer with several lines.                *)
RemovedWasAccepted ==
    /\ (talk = "removed" /\ ~hop.accepted) =>
          (Len(slips) > 1 \/ (slips # <<>> /\ slips[1] \in {"dial", "answers"}))
    /\ (talk = "kept" /\ hop.accepted) => slips # <<>>
=============================================================================
