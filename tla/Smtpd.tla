------------------------------- MODULE Smtpd -------------------------------
(***************************************************************************)
(* A session of smtpd (src/go-app/cmd/smtpd/main.go NewSession, Xforward,  *)
(* Mail, Rcpt, Data, Reset; src/go-app/pkg/acl LoadACL) and the queue file *)
(* it writes.  The SMTP library calls one handler per command, in the      *)
(* order the protocol prescribes, and resets its own transaction after     *)
(* RSET and DATA; sessions share nothing but the directory.                *)
(*                                                                         *)
(* "told" is what the client has said in the transaction at hand; it is    *)
(* what the library checks commands against, and the ghost the session is  *)
(* compared with.                                                          *)
(***************************************************************************)
EXTENDS Naturals, Sequences, SequencesExt

CONSTANTS
    Client,     \* addresses clients connect from
    Rules,      \* the access list: a sequence of [net, permit]
    Sender, NullSender,   \* envelope senders; "MAIL FROM:<>"
    Rcpt,       \* recipients
    Tagged,     \* those whose address contains spam@ or ham@
    Host,       \* ADDR values of XFORWARD
    NoHost,     \* no ADDR given
    MaxMails, MaxRcpts    \* bounds: transactions, recipients of one

ASSUME SmtpdAssumption ==
    /\ \A i \in DOMAIN Rules : /\ Rules[i].net \subseteq Client
                               /\ Rules[i].permit \in BOOLEAN
    /\ Tagged \subseteq Rcpt
    /\ NullSender \notin Sender /\ NoHost \notin Host
    /\ MaxMails \in Nat /\ MaxRcpts \in Nat

VARIABLES
    conn,      \* "none", "open", "refused", "left"
    session,   \* the Session: [mailFrom, rcptTo, xforward]
    told,      \* [open, from, rcpts, host]
    earlier,   \* recipients of earlier transactions
    mails,     \* transactions begun
    queued     \* queue files

smtpdVars == <<conn, session, told, earlier, mails, queued>>

Nothing == [open |-> FALSE, from |-> NullSender, rcpts |-> <<>>, host |-> NoHost]

NoSession == [mailFrom |-> NullSender, rcptTo |-> <<>>, xforward |-> NoHost]

SmtpdInit ==
    /\ conn = "none" /\ session = NoSession /\ told = Nothing
    /\ earlier = {} /\ mails = 0 /\ queued = {}

(* NewSession: one rejecting rule is enough, wherever it stands; without   *)
(* any rule everybody is served.  (After the implicit deny a session is    *)
(* returned, for a connection that is closed.)                             *)
Rejected(c)  == \E i \in DOMAIN Rules : c \in Rules[i].net /\ ~Rules[i].permit
Permitted(c) == \E i \in DOMAIN Rules : c \in Rules[i].net /\ Rules[i].permit

NewSession(c) ==
    /\ conn = "none"
    /\ conn' = IF Rejected(c) \/ (Rules # <<>> /\ ~Permitted(c))
               THEN "refused" ELSE "open"
    /\ UNCHANGED <<session, told, earlier, mails, queued>>

(* An attribute that is not given keeps its value.                         *)
Xforward(h) ==
    /\ conn = "open" /\ ~told.open
    /\ session' = IF h = NoHost THEN session ELSE [session EXCEPT !.xforward = h]
    /\ told' = [told EXCEPT !.host = h]
    /\ UNCHANGED <<conn, earlier, mails, queued>>

Mail(f) ==
    /\ conn = "open" /\ ~told.open /\ mails < MaxMails
    /\ mails' = mails + 1
    /\ session' = [session EXCEPT !.mailFrom = f]
    /\ told' = [told EXCEPT !.open = TRUE, !.from = f]
    /\ UNCHANGED <<conn, earlier, queued>>

RecipientAlone(r) ==                                               \* mutant
    /\ conn = "open" /\ told.open /\ Len(told.rcpts) < MaxRcpts
    /\ session' = [session EXCEPT !.rcptTo = <<r>>]
    /\ told' = [told EXCEPT !.rcpts = Append(@, r)]
    /\ UNCHANGED <<conn, earlier, mails, queued>>

Recipient(r) ==
    /\ conn = "open" /\ told.open /\ Len(told.rcpts) < MaxRcpts
    /\ session' = [session EXCEPT !.rcptTo = Append(@, r)]
    /\ told' = [told EXCEPT !.rcpts = Append(@, r)]
    /\ UNCHANGED <<conn, earlier, mails, queued>>

(* What the library does after RSET and DATA; the session's Reset is empty. *)
Reset ==
    /\ told' = Nothing
    /\ earlier' = earlier \cup ToSet(told.rcpts)
    /\ UNCHANGED session

Rset ==
    /\ conn = "open" /\ told.open
    /\ Reset
    /\ UNCHANGED <<conn, mails, queued>>

QueueFileOfTransaction ==                                          \* mutant
    [from |-> session.mailFrom, rcpts |-> session.rcptTo,
     host |-> session.xforward,
     counted |-> ToSet(told.rcpts) \cap Tagged = {},
     told |-> told, earlier |-> earlier]

(* The file: three lines and the message; the counter goes up unless some  *)
(* recipient is for training.                                              *)
QueueFile ==
    [from |-> session.mailFrom, rcpts |-> session.rcptTo,
     host |-> session.xforward,
     counted |-> ToSet(session.rcptTo) \cap Tagged = {},
     told |-> told, earlier |-> earlier]

(* What a queue file says of its transaction: smtpd counts what it says,   *)
(* and the recipients in it are those of the whole session.                *)
Written(f) ==
    /\ f.rcpts \in Seq(Rcpt)
    /\ f.from = f.told.from
    /\ ToSet(f.told.rcpts) \subseteq ToSet(f.rcpts)
    /\ ToSet(f.rcpts) \subseteq ToSet(f.told.rcpts) \cup f.earlier
    /\ f.counted = (ToSet(f.rcpts) \cap Tagged = {})

Data ==
    /\ conn = "open" /\ told.rcpts # <<>>
    /\ queued' = queued \cup {QueueFile}
    /\ Reset
    /\ UNCHANGED <<conn, mails>>

(* The file cannot be opened: the client gets an error.                    *)
DataRefused ==
    /\ conn = "open" /\ told.rcpts # <<>>
    /\ Reset
    /\ UNCHANGED <<conn, mails, queued>>

Logout ==
    /\ conn = "open"
    /\ conn' = "left"
    /\ UNCHANGED <<session, told, earlier, mails, queued>>

(* The session is over, and its files are somebody else's.                 *)
Forget ==
    /\ conn' = "none" /\ session' = NoSession /\ told' = Nothing
    /\ earlier' = {} /\ mails' = 0 /\ queued' = {}

SmtpdStep ==
    \/ \E c \in Client : NewSession(c)
    \/ \E h \in Host \cup {NoHost} : Xforward(h)
    \/ \E f \in Sender \cup {NullSender} : Mail(f)
    \/ \E r \in Rcpt : Recipient(r)
    \/ Rset \/ Data \/ DataRefused \/ Logout
=============================================================================
