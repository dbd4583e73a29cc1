------------------------------ MODULE Training ------------------------------
(***************************************************************************)
(* Training requests: do_training and train_message (src/train.c), with    *)
(* get_tokens (src/qqq.c), over the tables token and misc.                 *)
(*                                                                         *)
(* Every SQL statement is its own transaction, so that the workers of the  *)
(* pool interleave between any two of them; a statement, or the connection *)
(* it needs, may fail, and a worker may crash between two.  The index on   *)
(* token is not unique (util/db-mysql.sql): a token may have several rows. *)
(*                                                                         *)
(* Abstracted: the text of a message (its set of tokens), the probability  *)
(* (how sure the filter is after a round is a choice, except that without  *)
(* any trained message it says 0.5), the dates of the rows.                *)
(***************************************************************************)
EXTENDS Integers, FiniteSets, Sequences

CONSTANTS
    Worker,
    Token,
    Rounds,          \* MAX_ITERATIVE_TRAIN_LOOPS
    MaxRequests,     \* bound: training requests
    MaxFailures,     \* bound: statements or connections that fail
    MaxCrashes       \* bound: workers that crash

ASSUME ConstantsAssumption ==
    /\ IsFiniteSet(Worker)
    /\ Rounds \in Nat \ {0}
    /\ {MaxRequests, MaxFailures, MaxCrashes} \subseteq Nat

VARIABLES
    job,         \* job[w]: the request the worker w is at
    token,       \* token[t]: the rows of t, oldest first
    misc,        \* the only row of misc: messages trained as ham and as spam
    unpaid,      \* token updates whose misc update was lost, by column
    requests, failures, crashes

boundVars == <<requests, failures, crashes>>
vars == <<job, token, misc, unpaid, boundVars>>

Column == {"nham", "nspam"}
Row    == [Column -> Nat]
Zero   == [c \in Column |-> 0]
Plus(r, c) == [r EXCEPT ![c] = @ + 1]

(* pc: "idle", "lookup" (the signature), "read" and "insert" (introduce_   *)
(* tokens), "judge", "tokens" and "misc" (one round); seen are the tokens  *)
(* get_tokens found to have been trained; failed: its INSERT failed.       *)
Job == [pc : {"idle", "lookup", "read", "insert", "judge", "tokens", "misc"},
        column : Column, tokens : SUBSET Token, seen : SUBSET Token,
        round : 0 .. Rounds - 1, failed : BOOLEAN]
NoJob == [pc |-> "idle", column |-> "nham", tokens |-> {}, seen |-> {},
          round |-> 0, failed |-> FALSE]

Init ==
    /\ job = [w \in Worker |-> NoJob]
    /\ token = [t \in Token |-> <<>>]
    /\ misc = Zero
    /\ unpaid = Zero
    /\ requests = 0 /\ failures = 0 /\ crashes = 0

-----------------------------------------------------------------------------
At(w, pc) == job[w].pc = pc
Goto(w, pc) == job' = [job EXCEPT ![w].pc = pc]

EndRoundUntilSure(w) ==                                            \* mutant
    job' = [job EXCEPT ![w].pc = "judge"]

(* The for loop of do_training goes on to its next round, or ends.         *)
EndRound(w) ==
    job' = IF job[w].round + 1 = Rounds
             THEN [job EXCEPT ![w] = NoJob]
             ELSE [job EXCEPT ![w].pc = "judge", ![w].round = @ + 1]

(* A statement fails.                                                      *)
Fails ==
    /\ failures < MaxFailures
    /\ failures' = failures + 1
    /\ UNCHANGED <<requests, crashes>>

(* check_spam hands a message to spam@ or ham@ to do_training.             *)
Request(w) ==
    /\ At(w, "idle")
    /\ requests < MaxRequests
    /\ requests' = requests + 1
    /\ \E c \in Column, T \in SUBSET Token :
          job' = [job EXCEPT ![w] = [NoJob EXCEPT !.pc = "lookup",
                                                  !.column = c, !.tokens = T]]
    /\ UNCHANGED <<token, misc, unpaid, failures, crashes>>

(* Without a signature that history knows, nothing is trained; a message   *)
(* without tokens skips introduce_tokens.                                  *)
Lookup(w) ==
    /\ At(w, "lookup")
    /\ \/ Goto(w, IF job[w].tokens = {} THEN "judge" ELSE "read")
       \/ job' = [job EXCEPT ![w] = NoJob]
    /\ UNCHANGED <<token, misc, unpaid, boundVars>>

(* introduce_tokens: get_tokens leaves every count at zero if it fails.    *)
Trained(t) == \E k \in DOMAIN token[t] : token[t][k] # Zero

ReadTokens(w) ==
    /\ At(w, "read")
    /\ \/ /\ job' = [job EXCEPT ![w].pc = "insert",
                                ![w].seen = {t \in job[w].tokens : Trained(t)}]
          /\ UNCHANGED boundVars
       \/ Goto(w, "insert") /\ Fails
    /\ UNCHANGED <<token, misc, unpaid>>

InsertTrained(w) ==                                                \* mutant
    /\ At(w, "insert")
    /\ \/ /\ token' = [t \in Token |->
                         IF t \in job[w].seen THEN Append(token[t], Zero)
                                              ELSE token[t]]
          /\ Goto(w, "judge")
          /\ UNCHANGED boundVars
       \/ /\ Fails
          /\ job' = [job EXCEPT ![w].pc = "judge", ![w].failed = TRUE]
          /\ UNCHANGED token
    /\ UNCHANGED <<misc, unpaid>>

(* ... and inserts the others; without others the statement is no SQL, and *)
(* fails without consequence.                                              *)
InsertTokens(w) ==
    /\ At(w, "insert")
    /\ \/ /\ token' = [t \in Token |->
                         IF t \in job[w].tokens \ job[w].seen
                           THEN Append(token[t], Zero) ELSE token[t]]
          /\ Goto(w, "judge")
          /\ UNCHANGED boundVars
       \/ /\ Fails
          /\ job' = [job EXCEPT ![w].pc = "judge", ![w].failed = TRUE]
          /\ UNCHANGED token
    /\ UNCHANGED <<misc, unpaid>>

(* run_statistical_check: the training stops when the filter is sure.      *)
Judge(w) ==
    /\ At(w, "judge")
    /\ \/ misc # Zero /\ job' = [job EXCEPT ![w] = NoJob]
       \/ Goto(w, "tokens")
    /\ UNCHANGED <<token, misc, unpaid, boundVars>>

(* train_message: all rows of the tokens are updated, duplicates too.      *)
TokensUpdated(w) ==
    [t \in Token |->
        IF t \in job[w].tokens
          THEN [k \in DOMAIN token[t] |-> Plus(token[t][k], job[w].column)]
          ELSE token[t]]

TrainTokens(w) ==
    /\ At(w, "tokens") /\ job[w].tokens # {}
    /\ \/ /\ token' = TokensUpdated(w)
          /\ Goto(w, "misc")
          /\ UNCHANGED <<unpaid, boundVars>>
       \/ /\ Fails /\ EndRound(w)
          /\ UNCHANGED <<token, unpaid>>
       \/ /\ Fails /\ EndRound(w)             \* the answer is lost
          /\ token' = TokensUpdated(w)
          /\ unpaid' = Plus(unpaid, job[w].column)
    /\ UNCHANGED misc

(* A message without tokens is judged again and again, and trains nothing. *)
TrainNothing(w) ==
    /\ At(w, "tokens") /\ job[w].tokens = {}
    /\ EndRound(w)
    /\ UNCHANGED <<token, misc, unpaid, boundVars>>

TrainMiscOnce(w) ==                                                \* mutant
    /\ At(w, "misc")
    /\ \/ /\ misc' = IF job[w].round = 0 THEN Plus(misc, job[w].column) ELSE misc
          /\ UNCHANGED <<unpaid, boundVars>>
       \/ Fails /\ unpaid' = Plus(unpaid, job[w].column) /\ UNCHANGED misc
    /\ EndRound(w)
    /\ UNCHANGED token

(* Second update; p_query only logs an error.                              *)
TrainMisc(w) ==
    /\ At(w, "misc")
    /\ \/ misc' = Plus(misc, job[w].column) /\ UNCHANGED <<unpaid, boundVars>>
       \/ Fails /\ unpaid' = Plus(unpaid, job[w].column) /\ UNCHANGED misc
    /\ EndRound(w)
    /\ UNCHANGED token

(* A worker dies; the message it trained with is not looked at again.      *)
Crash(w) ==
    /\ ~At(w, "idle")
    /\ crashes < MaxCrashes
    /\ crashes' = crashes + 1
    /\ unpaid' = IF At(w, "misc") THEN Plus(unpaid, job[w].column) ELSE unpaid
    /\ job' = [job EXCEPT ![w] = NoJob]
    /\ UNCHANGED <<token, misc, requests, failures>>

Step(w) ==
    \/ Lookup(w) \/ ReadTokens(w) \/ InsertTokens(w)
    \/ Judge(w) \/ TrainTokens(w) \/ TrainNothing(w) \/ TrainMisc(w)

Next == \E w \in Worker : Request(w) \/ Step(w) \/ Crash(w)

Spec == Init /\ [][Next]_vars

(* A worker that runs goes on with its request.                            *)
FairSpec == Spec /\ \A w \in Worker : WF_vars(Step(w))

-----------------------------------------------------------------------------
(* Properties                                                              *)

(* Types of the tables and of the requests in hand.                        *)
TypeOK ==
    /\ job \in [Worker -> Job]
    /\ token \in [Token -> Seq(Row)]
    /\ misc \in Row /\ unpaid \in Row
    /\ requests \in 0..MaxRequests
    /\ failures \in 0..MaxFailures
    /\ crashes \in 0..MaxCrashes

(* Updates of token whose update of misc is still to come, or was lost.    *)
Owed(c) ==
    unpaid[c] + Cardinality({w \in Worker : At(w, "misc") /\ job[w].column = c})

(* The two tables agree: however trainers interleave, no row of a token    *)
(* counts more messages than misc, but for the updates under way or lost   *)
(* (train_message: the update of misc is a statement of its own).          *)
RowsAreBacked ==
    \A t \in Token : \A k \in DOMAIN token[t] : \A c \in Column :
        token[t][k][c] <= misc[c] + Owed(c)

(* A round that counts in misc has counted every token of the message,     *)
(* unless introducing them failed: "Add new tokens first" (do_training).   *)
RoundCoversMessage ==
    \A w \in Worker :
        At(w, "misc") /\ ~job[w].failed =>
            \A t \in job[w].tokens : \E k \in DOMAIN token[t] :
                token[t][k][job[w].column] > 0

(* How many more statements a request may take.                            *)
Left(j) ==
    CASE j.pc = "idle"   -> 0
      [] j.pc = "misc"   -> 3 * (Rounds - j.round) - 2
      [] j.pc = "tokens" -> 3 * (Rounds - j.round) - 1
      [] j.pc = "judge"  -> 3 * (Rounds - j.round)
      [] j.pc = "insert" -> 3 * Rounds + 1
      [] j.pc = "read"   -> 3 * Rounds + 2
      [] j.pc = "lookup" -> 3 * Rounds + 3

(* No statement, failed or not, and nothing other trainers do sends a      *)
(* request back: it ends within three statements a round and three before  *)
(* the first (MAX_ITERATIVE_TRAIN_LOOPS).                                  *)
RequestsAdvance ==
    [][\A w \in Worker :
          ~At(w, "idle") /\ job'[w] # job[w] => Left(job'[w]) < Left(job[w])]_vars

(* Every request ends, also when the filter never becomes sure.            *)
RequestsEnd == \A w \in Worker : ~At(w, "idle") ~> At(w, "idle")
=============================================================================
