----------------------------- MODULE Classifier -----------------------------
(***************************************************************************)
(* The statistical filter for one message (src/spam.c run_statistical_     *)
(* check, evaluate_tokens, qry_spaminess; src/qqq.c get_tokens; src/hash.c *)
(* the token hash; src/antispam.c add_penalties; src/chi.c).               *)
(*                                                                         *)
(* Token pairs and other marked tokens (type 1) are looked up and judged   *)
(* first, single words (type 0) only when that leaves the filter unsure.   *)
(* Each query may fail: the counts stay zero and the filter goes on.       *)
(* Probabilities are integers, in 1/10000; of the combined one, I, only    *)
(* its place against max_ham_spamicity and spam_overall_limit is kept.     *)
(*                                                                         *)
(* The whitelist of senders never applies: state->from, whose token it     *)
(* looks up, is not set by anything.  Dates of tokens are abstracted.      *)
(***************************************************************************)
EXTENDS Naturals, FiniteSets

CONSTANTS
    Pair, Word,       \* tokens of a message, by type
    Suspect,          \* marks of Pair's type: NO_MESSAGE_ID and the like
    Counts,           \* what the token table holds: [nham, nspam]
    Totals            \* what misc holds: [nham, nspam]

ASSUME ClassifierAssumption ==
    /\ IsFiniteSet(Pair) /\ IsFiniteSet(Word) /\ Pair \cap Word = {}
    /\ Suspect \subseteq Pair
    /\ Counts \cup Totals \subseteq [nham : Nat, nspam : Nat]

(* Defaults of the configuration.                                          *)
RobX   == 5200                 \* rob_s is 1
Radius == 3750                 \* exclusion_radius
Limit  == 9200                 \* spam_overall_limit

VARIABLES
    filter,     \* "off", "totals", "pairs", "words"; its verdicts "ham",
                \* "unsure" and "spam"
    stored,     \* the token table
    totals,     \* sdata->nham and nspam
    node,       \* the token hash: [nham, nspam, p]
    penalties,  \* penalty tokens, of probability 0.9999
    failed      \* some query failed

filterVars == <<filter, stored, totals, node, penalties, failed>>

Zero  == [nham |-> 0, nspam |-> 0]
Fresh == [nham |-> 0, nspam |-> 0, p |-> 5000]      \* makenewnode

FilterInit ==
    /\ filter = "off"
    /\ stored = <<>> /\ totals = Zero /\ node = <<>>
    /\ penalties = {} /\ failed = FALSE

ClearHash ==
    /\ filter' = "off"
    /\ stored' = <<>> /\ totals' = Zero /\ node' = <<>>
    /\ penalties' = {} /\ failed' = FALSE

(* addnode: a mark (NO_MESSAGE_ID, UNKNOWN_CLIENT, EMBED) is a sign of     *)
(* spam until it is looked up and found.                                   *)
Added(t) == IF t \in Suspect THEN [Fresh EXCEPT !.p = 9999] ELSE Fresh

(* The tokens of a message are in the hash, nothing has been looked up.    *)
StartFilter(tokens, flags) ==
    /\ filter' = "totals"
    /\ node' = [t \in tokens |-> Added(t)]
    /\ penalties' = flags
    /\ UNCHANGED <<stored, totals, failed>>

(* get_ham_spam_counters: a failed query reads as an empty database, for   *)
(* which run_statistical_check returns 0.5.  A token may count more        *)
(* messages than misc, whose updates may be lost.                          *)
QueryTotals ==
    /\ filter = "totals"
    /\ \/ totals' \in Totals /\ UNCHANGED failed
       \/ totals' = Zero /\ failed' = TRUE
    /\ stored' \in [DOMAIN node -> Counts]
    /\ filter' = IF totals' = Zero THEN "unsure" ELSE "pairs"
    /\ UNCHANGED <<node, penalties>>

FetchedSwapped(n, c) ==                                            \* mutant
    [n EXCEPT !.nham = @ + c.nspam, !.nspam = @ + c.nham]

(* get_tokens and updatenode, which adds to what the node has.             *)
Fetched(n, c) == [n EXCEPT !.nham = @ + c.nham, !.nspam = @ + c.nspam]

(* qry_spaminess.  The quotient is 0/0 when misc counts no message of the  *)
(* only kind the token was seen in, or none of the other kind; p is then   *)
(* not a number, which neither limit stops and no comparison admits.       *)
NotANumber == 20000
Clamped(p) == IF p < 1 THEN 1 ELSE IF p > 9999 THEN 9999 ELSE p

Spaminess(c) ==
    LET spam == c.nspam * totals.nham
        ham  == c.nham * totals.nspam
        n    == c.nham + c.nspam
    IN  IF spam + ham = 0 THEN NotANumber
        ELSE Clamped((RobX + n * ((10000 * spam) \div (spam + ham))) \div (1 + n))

Rated(n) == IF n.nham + n.nspam > 0 THEN [n EXCEPT !.p = Spaminess(n)] ELSE n

Query(tokens) ==
    \/ /\ node' = [t \in DOMAIN node |->
                     Rated(IF t \in tokens THEN Fetched(node[t], stored[t])
                                           ELSE node[t])]
       /\ UNCHANGED failed
    \/ /\ node' = [t \in DOMAIN node |-> Rated(node[t])]
       /\ failed' = TRUE

(* get_spam_probability over tokens that deviate from 0.5 by the radius:   *)
(* without any I is 0.5, of one it is its p, of two that agree it is past  *)
(* the limit on their side; tokens that disagree may lead anywhere.        *)
Spammy(p) == p # NotANumber /\ p >= 5000 + Radius
Hammy(p)  == p <= 5000 - Radius

Verdicts(nodes) ==
    LET spammy == {t \in DOMAIN nodes : Spammy(nodes[t].p)}
        hammy  == {t \in DOMAIN nodes : Hammy(nodes[t].p)}
        one    == Cardinality(spammy) = 1 /\ \A t \in spammy : nodes[t].p < Limit
    IN  IF penalties = {} /\ spammy = {}
        THEN IF hammy = {} THEN {"unsure"} ELSE {"ham"}
        ELSE IF hammy # {} THEN {"ham", "unsure", "spam"}
        ELSE IF penalties = {} /\ one THEN {"unsure"} ELSE {"spam"}

JudgePairsOnly ==                                                  \* mutant
    /\ filter = "pairs"
    /\ Query(Pair \cap DOMAIN node)
    /\ filter' \in Verdicts(node')
    /\ UNCHANGED <<stored, totals, penalties>>

(* The first round; an unsure one goes on with the words.                  *)
JudgePairs ==
    /\ filter = "pairs"
    /\ Query(Pair \cap DOMAIN node)
    /\ \E v \in Verdicts(node') : filter' = IF v = "unsure" THEN "words" ELSE v
    /\ UNCHANGED <<stored, totals, penalties>>

JudgeWords ==
    /\ filter = "words"
    /\ Query(Word \cap DOMAIN node)
    /\ filter' \in Verdicts(node')
    /\ UNCHANGED <<stored, totals, penalties>>

FilterStep == QueryTotals \/ JudgePairs \/ JudgeWords

Judged == filter \in {"ham", "unsure", "spam"}
=============================================================================
