--------------------------- MODULE TrainingProofs ---------------------------
(***************************************************************************)
(* Proofs about Training, for every finite set of trainers, every set of   *)
(* tokens and every bound on rounds, requests and faults.                  *)
(*                                                                         *)
(* The inductive invariant:                                                *)
(*   TypeOK          the types;                                            *)
(*   RowsAreBacked   inductive as it stands: a step that adds to the rows  *)
(*                   of a token adds to misc or to what is owed;           *)
(*   Introduced      a token a trainer goes on with has a row, unless the  *)
(*                   INSERT failed;                                        *)
(*   RoundCoversMessage.                                                   *)
(***************************************************************************)
EXTENDS Training, CountingLemmas

(* The trainers whose update of misc is due.                               *)
Due(c) == {w \in Worker : At(w, "misc") /\ job[w].column = c}

HasRow(t) == DOMAIN token[t] # {}

Introduced ==
    \A w \in Worker :
        /\ \A t \in job[w].seen : HasRow(t)
        /\ job[w].pc \in {"judge", "tokens", "misc"} /\ ~job[w].failed
             => \A t \in job[w].tokens : HasRow(t)

IInv == TypeOK /\ RowsAreBacked /\ Introduced /\ RoundCoversMessage

-----------------------------------------------------------------------------
(* The bounds are naturals.                                               *)
LEMMA Bounds == /\ Rounds \in Nat /\ Rounds > 0
                /\ MaxRequests \in Nat /\ MaxFailures \in Nat /\ MaxCrashes \in Nat
BY ConstantsAssumption

(* An idle worker's request is of its type.                                *)
LEMMA NoJobType == NoJob \in Job
BY Bounds DEF NoJob, Job, Column

(* The types hold initially and after every statement of a trainer.        *)
LEMMA TypeInit == Init => TypeOK
BY Bounds, NoJobType DEF Init, TypeOK, Row, Zero, Column

(* EndRound keeps the types of a request, and its round below Rounds.      *)
LEMMA EndRoundType ==
    ASSUME TypeOK, NEW w \in Worker, EndRound(w)
    PROVE  job' \in [Worker -> Job]
<1>1. job \in [Worker -> Job]
    BY DEF TypeOK
<1>2. CASE job[w].round + 1 = Rounds
    BY <1>1, <1>2, NoJobType DEF EndRound
<1>3. CASE job[w].round + 1 # Rounds
    <2>1. job[w].round + 1 \in 0 .. Rounds - 1
        BY <1>1, <1>3, Bounds DEF Job
    <2>2. [job[w] EXCEPT !.pc = "judge", !.round = @ + 1] \in Job
        BY <1>1, <2>1, ZenonT(60) DEF Job
    <2>. QED
        BY <1>1, <1>3, <2>2 DEF EndRound
<1>. QED
    BY <1>2, <1>3

(* A row that counts one more is a row.                                    *)
LEMMA PlusType ==
    ASSUME NEW r \in Row, NEW c \in Column
    PROVE  /\ Plus(r, c) \in Row
           /\ Plus(r, c)[c] = r[c] + 1
           /\ \A d \in Column : r[d] <= Plus(r, c)[d]
           /\ \A d \in Column \ {c} : Plus(r, c)[d] = r[d]
BY DEF Row, Column, Plus

(* train_message keeps the number of rows of every token, and adds one to  *)
(* its column of the rows of the message's tokens.                         *)
LEMMA UpdatedRows ==
    ASSUME TypeOK, NEW w \in Worker
    PROVE  /\ TokensUpdated(w) \in [Token -> Seq(Row)]
           /\ \A t \in Token : DOMAIN TokensUpdated(w)[t] = DOMAIN token[t]
           /\ \A t \in Token : \A k \in DOMAIN token[t] :
                 TokensUpdated(w)[t][k] = IF t \in job[w].tokens
                                          THEN Plus(token[t][k], job[w].column)
                                          ELSE token[t][k]
<1>1. job[w].column \in Column
    BY DEF TypeOK, Job
<1>2. ASSUME NEW t \in Token
      PROVE  /\ token[t] \in Seq(Row)
             /\ \A k \in DOMAIN token[t] :
                   token[t][k] \in Row /\ Plus(token[t][k], job[w].column) \in Row
    BY <1>1, PlusType DEF TypeOK
<1>3. ASSUME NEW t \in Token
      PROVE  [k \in DOMAIN token[t] |-> Plus(token[t][k], job[w].column)] \in Seq(Row)
    BY <1>2
<1>. QED
    BY <1>2, <1>3 DEF TypeOK, TokensUpdated

(* introduce_tokens only appends rows, each of zero counts.                *)
LEMMA AppendedRows ==
    ASSUME TypeOK, NEW N,
           token' = [t \in Token |-> IF t \in N THEN Append(token[t], Zero)
                                                ELSE token[t]]
    PROVE  /\ token' \in [Token -> Seq(Row)]
           /\ \A t \in Token : DOMAIN token[t] \subseteq DOMAIN token'[t]
           /\ \A t \in Token : \A k \in DOMAIN token[t] :
                 token'[t][k] = token[t][k]
           /\ \A t \in Token \cap N : DOMAIN token'[t] # {}
           /\ \A t \in Token : \A k \in DOMAIN token'[t] :
                 \/ k \in DOMAIN token[t] /\ token'[t][k] = token[t][k]
                 \/ token'[t][k] = Zero
<1>1. Zero \in Row
    BY DEF Zero, Row, Column
<1>2. ASSUME NEW s \in Seq(Row)
      PROVE  /\ Append(s, Zero) \in Seq(Row)
             /\ DOMAIN s \subseteq DOMAIN Append(s, Zero)
             /\ \A k \in DOMAIN s : Append(s, Zero)[k] = s[k]
             /\ DOMAIN Append(s, Zero) # {}
             /\ \A k \in DOMAIN Append(s, Zero) :
                   \/ k \in DOMAIN s /\ Append(s, Zero)[k] = s[k]
                   \/ Append(s, Zero)[k] = Zero
    <2>1. /\ Len(s) \in Nat /\ DOMAIN s = 1 .. Len(s)
          /\ Append(s, Zero) \in Seq(Row)
          /\ Len(Append(s, Zero)) = Len(s) + 1
          /\ DOMAIN Append(s, Zero) = 1 .. Len(s) + 1
        BY <1>1
    <2>2. /\ \A k \in 1 .. Len(s) : Append(s, Zero)[k] = s[k]
          /\ Append(s, Zero)[Len(s) + 1] = Zero
        BY <1>1
    <2>3. ASSUME NEW k \in DOMAIN Append(s, Zero)
          PROVE  \/ k \in DOMAIN s /\ Append(s, Zero)[k] = s[k]
                 \/ Append(s, Zero)[k] = Zero
        <3>1. k \in 1 .. Len(s) \/ k = Len(s) + 1
            BY <2>1
        <3>. QED
            BY <2>1, <2>2, <3>1
    <2>4. Len(s) + 1 \in DOMAIN Append(s, Zero)
        BY <2>1
    <2>5. DOMAIN s \subseteq DOMAIN Append(s, Zero)
        BY <2>1
    <2>. QED
        BY <2>1, <2>2, <2>3, <2>4, <2>5
<1>3. token \in [Token -> Seq(Row)]
    BY DEF TypeOK
<1>. QED
    BY <1>2, <1>3

(* Each statement keeps the types.                                         *)
LEMMA TypeStep == TypeOK /\ [Next]_vars => TypeOK'
<1> SUFFICES ASSUME TypeOK, [Next]_vars PROVE TypeOK'
    OBVIOUS
<1> USE DEF Fails, boundVars
<1>0. job \in [Worker -> Job]
    BY DEF TypeOK
<1>1. ASSUME NEW w \in Worker, Request(w) PROVE TypeOK'
    <2>1. ASSUME NEW c \in Column, NEW T \in SUBSET Token
          PROVE  [NoJob EXCEPT !.pc = "lookup", !.column = c, !.tokens = T] \in Job
        BY NoJobType DEF Job
    <2>2. job' \in [Worker -> Job]
        BY <1>0, <1>1, <2>1, ZenonT(60) DEF Request
    <2>. QED
        BY <1>1, <2>2, Bounds DEF Request, TypeOK
<1>2. ASSUME NEW w \in Worker, Lookup(w) PROVE TypeOK'
    <2>1. job' \in [Worker -> Job]
        BY <1>0, <1>2, NoJobType DEF Lookup, Goto, Job
    <2>. QED
        BY <1>2, <2>1 DEF Lookup, TypeOK
<1>3. ASSUME NEW w \in Worker, ReadTokens(w) PROVE TypeOK'
    <2>1. job' \in [Worker -> Job]
        BY <1>0, <1>3 DEF ReadTokens, Goto, Job
    <2>. QED
        BY <1>3, <2>1, Bounds, SMTT(30) DEF ReadTokens, TypeOK
<1>4. ASSUME NEW w \in Worker, InsertTokens(w) PROVE TypeOK'
    <2>1. token' \in [Token -> Seq(Row)]
        BY <1>4, AppendedRows DEF InsertTokens, TypeOK
    <2>2. job' \in [Worker -> Job]
        <3>1. /\ [job[w] EXCEPT !.pc = "judge"] \in Job
              /\ [job[w] EXCEPT !.pc = "judge", !.failed = TRUE] \in Job
            BY <1>0, ZenonT(60) DEF Job
        <3>. QED
            BY <1>0, <1>4, <3>1 DEF InsertTokens, Goto
    <2>. QED
        BY <1>4, <2>1, <2>2, Bounds, SMTT(30) DEF InsertTokens, TypeOK
<1>5. ASSUME NEW w \in Worker, Judge(w) PROVE TypeOK'
    <2>1. job' \in [Worker -> Job]
        BY <1>0, <1>5, NoJobType DEF Judge, Goto, Job
    <2>. QED
        BY <1>5, <2>1 DEF Judge, TypeOK
<1>6. ASSUME NEW w \in Worker, TrainTokens(w) PROVE TypeOK'
    <2>1. job' \in [Worker -> Job]
        <3>1. CASE Goto(w, "misc")
            BY <1>0, <3>1, SMTT(30) DEF Goto, Job
        <3>. QED
            BY <1>6, <3>1, EndRoundType DEF TrainTokens
    <2>2. token' \in [Token -> Seq(Row)]
        BY <1>6, UpdatedRows DEF TrainTokens, TypeOK
    <2>3. job[w].column \in Column
        BY <1>0 DEF Job
    <2>4. unpaid' \in Row
        BY <1>6, <2>3, PlusType DEF TrainTokens, TypeOK
    <2>. QED
        BY <1>6, <2>1, <2>2, <2>4, Bounds DEF TrainTokens, TypeOK
<1>7. ASSUME NEW w \in Worker, TrainNothing(w) PROVE TypeOK'
    BY <1>7, EndRoundType DEF TrainNothing, TypeOK
<1>8. ASSUME NEW w \in Worker, TrainMisc(w) PROVE TypeOK'
    <2>1. job[w].column \in Column
        BY <1>0 DEF Job
    <2>2. misc' \in Row /\ unpaid' \in Row
        BY <1>8, <2>1, PlusType DEF TrainMisc, TypeOK
    <2>. QED
        BY <1>8, <2>2, EndRoundType, Bounds DEF TrainMisc, TypeOK
<1>9. ASSUME NEW w \in Worker, Crash(w) PROVE TypeOK'
    <2>1. job[w].column \in Column
        BY <1>0 DEF Job
    <2>2. unpaid' \in Row
        BY <1>9, <2>1, PlusType DEF Crash, TypeOK
    <2>3. job' \in [Worker -> Job]
        BY <1>0, <1>9, NoJobType DEF Crash
    <2>. QED
        BY <1>9, <2>2, <2>3, Bounds DEF Crash, TypeOK
<1>10. CASE UNCHANGED vars
    BY <1>10 DEF vars, TypeOK
<1>. QED
    BY <1>1, <1>2, <1>3, <1>4, <1>5, <1>6, <1>7, <1>8, <1>9, <1>10
       DEF Next, Step

-----------------------------------------------------------------------------
(* What misc counts of column c, or will.                                  *)
Backed(c) == misc[c] + Owed(c)

(* The trainers that are due are finitely many.                            *)
LEMMA DueFinite ==
    ASSUME NEW D, D \subseteq Worker
    PROVE  IsFiniteSet(D) /\ Cardinality(D) \in Nat
BY ConstantsAssumption, GainsNone

(* Who is due changes only with the trainer that makes the step.           *)
LEMMA DueStep ==
    ASSUME TypeOK, NEW w \in Worker, NEW c \in Column,
           \A v \in Worker \ {w} : job'[v] = job[v]
    PROVE  /\ ~At(w, "misc") /\ ~At(w, "misc")' => Due(c)' = Due(c)
           /\ job[w].column # c /\ job'[w].column # c => Due(c)' = Due(c)
           /\ job[w].column # c /\ ~At(w, "misc")' => Due(c)' = Due(c)
           /\ At(w, "misc") /\ job[w].column = c /\ ~At(w, "misc")'
                => w \in Due(c) /\ Due(c)' = Due(c) \ {w}
           /\ ~At(w, "misc") /\ At(w, "misc")' /\ job'[w].column = c
                => w \notin Due(c) /\ Due(c)' = Due(c) \cup {w}
BY SMTT(30) DEF Due, At

(* A trainer's step leaves the other trainers alone.                       *)
LEMMA OthersStay ==
    ASSUME TypeOK, NEW w \in Worker, Request(w) \/ Step(w) \/ Crash(w)
    PROVE  \A v \in Worker \ {w} : job'[v] = job[v]
BY DEF TypeOK, Request, Step, Crash, Lookup, ReadTokens, InsertTokens, Judge,
       TrainTokens, TrainNothing, TrainMisc, Goto, EndRound

(* EndRound never leaves a trainer with an update of misc to make.         *)
LEMMA EndRoundNotDue ==
    ASSUME TypeOK, NEW w \in Worker, EndRound(w)
    PROVE  ~At(w, "misc")'
BY DEF TypeOK, EndRound, At, NoJob

(* No step but TrainTokens adds to a row, and none lowers what backs it.   *)
LEMMA BackedStep ==
    ASSUME TypeOK, NEW w \in Worker, Request(w) \/ Step(w) \/ Crash(w),
           NEW c \in Column
    PROVE  /\ Backed(c) \in Nat /\ Backed(c)' \in Nat
           /\ Backed(c)' >= Backed(c)
           /\ TrainTokens(w) /\ job[w].column = c =>
                 UNCHANGED token \/ Backed(c)' = Backed(c) + 1
<1>. TypeOK'
    BY TypeStep DEF Next
<1> DEFINE n == Cardinality(Due(c))
<1>1. /\ IsFiniteSet(Due(c)) /\ n \in Nat /\ n' \in Nat
      /\ Backed(c) = misc[c] + unpaid[c] + n
      /\ Backed(c)' = misc'[c] + unpaid'[c] + n'
      /\ misc[c] \in Nat /\ unpaid[c] \in Nat
      /\ misc'[c] \in Nat /\ unpaid'[c] \in Nat
    <2>1. Due(c) \subseteq Worker /\ Due(c)' \subseteq Worker
        BY DEF Due
    <2>2. IsFiniteSet(Due(c)) /\ n \in Nat /\ n' \in Nat
        BY <2>1, DueFinite
    <2>3. /\ Backed(c) = misc[c] + (unpaid[c] + n)
          /\ Backed(c)' = misc'[c] + (unpaid'[c] + n')
        BY DEF Backed, Owed, Due
    <2>4. /\ misc[c] \in Nat /\ unpaid[c] \in Nat
          /\ misc'[c] \in Nat /\ unpaid'[c] \in Nat
        BY DEF TypeOK, Row
    <2>. QED
        BY <2>2, <2>3, <2>4
<1> DEFINE Goal == /\ Backed(c)' >= Backed(c)
                   /\ TrainTokens(w) /\ job[w].column = c =>
                        UNCHANGED token \/ Backed(c)' = Backed(c) + 1
<1>2. \A v \in Worker \ {w} : job'[v] = job[v]
    BY OthersStay
<1>3. /\ job[w] \in Job /\ job[w].column \in Column
      /\ misc \in Row /\ unpaid \in Row /\ job \in [Worker -> Job]
    BY SMTT(30) DEF TypeOK, Job
<1>4. ASSUME \/ Request(w) \/ Lookup(w) \/ ReadTokens(w) \/ InsertTokens(w)
             \/ Judge(w) \/ TrainNothing(w)
      PROVE  Goal
    <2>2. ~At(w, "misc") /\ ~At(w, "misc")'
        <3>1. CASE Request(w)
            BY <1>3, <3>1, ZenonT(60) DEF Request, At, NoJob
        <3>2. CASE Lookup(w)
            BY <1>3, <3>2 DEF Lookup, At, Goto, NoJob, Job
        <3>3. CASE ReadTokens(w)
            BY <1>3, <3>3 DEF ReadTokens, At, Goto, Job
        <3>4. CASE InsertTokens(w)
            BY <1>3, <3>4 DEF InsertTokens, At, Goto, Job
        <3>5. CASE Judge(w)
            BY <1>3, <3>5 DEF Judge, At, Goto, NoJob, Job
        <3>6. CASE TrainNothing(w)
            BY <3>6, EndRoundNotDue, SMTT(30) DEF TrainNothing, At
        <3>. QED
            BY <1>4, <3>1, <3>2, <3>3, <3>4, <3>5, <3>6
    <2>3. UNCHANGED <<misc, unpaid>>
        BY <1>4 DEF Request, Lookup, ReadTokens, InsertTokens, Judge, TrainNothing
    <2>4. n' = n
        BY <1>2, <2>2, DueStep, SMTT(30)
    <2>5. ~TrainTokens(w) \/ UNCHANGED token
        BY <1>4 DEF Request, Lookup, ReadTokens, InsertTokens, Judge,
                    TrainNothing, TrainTokens, At
    <2>. QED
        BY <1>1, <2>3, <2>4, <2>5
<1>5. ASSUME TrainTokens(w) PROVE Goal
    <2>1. ~At(w, "misc") /\ UNCHANGED misc
        BY <1>5 DEF TrainTokens, At
    <2>2. CASE Goto(w, "misc") /\ UNCHANGED unpaid
        <3>1. At(w, "misc")' /\ job'[w].column = job[w].column
            BY <1>3, <2>2 DEF Goto, At
        <3>2. CASE c = job[w].column
            <4>1. n' = n + 1
                BY <1>1, <1>2, <2>1, <3>1, <3>2, DueStep, GainsExactly
            <4>. QED
                BY <1>1, <2>1, <2>2, <4>1
        <3>3. CASE c # job[w].column
            BY <1>1, <1>2, <2>1, <2>2, <3>1, <3>3, DueStep
        <3>. QED
            BY <3>2, <3>3
    <2>3. CASE EndRound(w) /\ UNCHANGED <<token, unpaid>>
        <3>1. n' = n
            BY <1>2, <2>1, <2>3, EndRoundNotDue, DueStep
        <3>. QED
            BY <1>1, <2>1, <2>3, <3>1
    <2>4. CASE EndRound(w) /\ unpaid' = Plus(unpaid, job[w].column)
        <3>1. n' = n
            BY <1>2, <2>1, <2>4, EndRoundNotDue, DueStep
        <3>2. /\ unpaid'[c] >= unpaid[c]
              /\ c = job[w].column => unpaid'[c] = unpaid[c] + 1
            BY <1>3, <2>4, PlusType
        <3>. QED
            BY <1>1, <2>1, <3>1, <3>2
    <2>. QED
        BY <1>5, <2>2, <2>3, <2>4 DEF TrainTokens
<1>6. ASSUME At(w, "misc"), ~At(w, "misc")', ~TrainTokens(w),
             \/ misc' = Plus(misc, job[w].column) /\ UNCHANGED unpaid
             \/ unpaid' = Plus(unpaid, job[w].column) /\ UNCHANGED misc
      PROVE  Backed(c)' >= Backed(c)
    <2>1. CASE c = job[w].column
        <3>1. n' = n - 1
            BY <1>1, <1>2, <1>6, <2>1, DueStep, LosesExactly
        <3>2. misc'[c] + unpaid'[c] = misc[c] + unpaid[c] + 1
            BY <1>1, <1>3, <1>6, <2>1, PlusType, SMTT(30)
        <3>. QED
            BY <1>1, <3>1, <3>2
    <2>2. CASE c # job[w].column
        <3>1. n' = n
            BY <1>2, <1>6, <2>2, DueStep
        <3>2. misc'[c] + unpaid'[c] = misc[c] + unpaid[c]
            BY <1>1, <1>3, <1>6, <2>2, PlusType, SMTT(30)
        <3>. QED
            BY <1>1, <3>1, <3>2
    <2>. QED
        BY <2>1, <2>2
<1>7. ASSUME TrainMisc(w) PROVE Goal
    BY <1>6, <1>7, EndRoundNotDue DEF TrainMisc, TrainTokens, At
<1>8. ASSUME Crash(w) PROVE Goal
    <2>1. ~At(w, "misc")'
        BY <1>3, <1>8 DEF Crash, At, NoJob
    <2>2. CASE At(w, "misc")
        BY <1>6, <1>8, <2>1, <2>2 DEF Crash, TrainTokens, At
    <2>3. CASE ~At(w, "misc")
        <3>1. n' = n
            BY <1>2, <2>1, <2>3, DueStep
        <3>2. UNCHANGED <<misc, unpaid, token>>
            BY <1>8, <2>3 DEF Crash
        <3>. QED
            BY <1>1, <3>1, <3>2
    <2>. QED
        BY <2>2, <2>3
<1>9. Backed(c) \in Nat /\ Backed(c)' \in Nat
    BY <1>1
<1>10. Goal
    BY <1>4, <1>5, <1>7, <1>8 DEF Step
<1>. QED
    BY <1>9, <1>10

(* However trainers interleave, no row counts more than misc does, or is   *)
(* owed.                                                                   *)
LEMMA RowsStep == TypeOK /\ RowsAreBacked /\ [Next]_vars => RowsAreBacked'
<1> SUFFICES ASSUME TypeOK, RowsAreBacked, [Next]_vars PROVE RowsAreBacked'
    OBVIOUS
<1>1. ASSUME NEW t \in Token, NEW k \in DOMAIN token[t], NEW c \in Column
      PROVE  token[t][k][c] <= Backed(c) /\ token[t][k] \in Row
    BY DEF RowsAreBacked, Backed, TypeOK
<1>2. SUFFICES ASSUME NEW t \in Token, NEW k \in DOMAIN token'[t], NEW c \in Column
               PROVE  token'[t][k][c] <= Backed(c)'
    BY DEF RowsAreBacked, Backed
<1>3. CASE UNCHANGED vars
    BY <1>1, <1>3 DEF vars, Backed, Owed, At
<1>4. ASSUME NEW w \in Worker, Request(w) \/ Step(w) \/ Crash(w)
      PROVE  token'[t][k][c] <= Backed(c)'
    <2>1. /\ Backed(c) \in Nat /\ Backed(c)' \in Nat /\ Backed(c)' >= Backed(c)
          /\ TrainTokens(w) /\ job[w].column = c =>
                 UNCHANGED token \/ Backed(c)' = Backed(c) + 1
        BY <1>4, BackedStep
    <2>2. CASE UNCHANGED token
        BY <1>1, <2>1, <2>2 DEF Row
    <2>3. CASE InsertTokens(w) /\ ~UNCHANGED token
        <3>1. CASE token'[t][k] = Zero
            BY <2>1, <3>1 DEF Zero
        <3>2. CASE k \in DOMAIN token[t] /\ token'[t][k] = token[t][k]
            BY <1>1, <2>1, <3>2 DEF Row
        <3>. QED
            BY <2>3, <3>1, <3>2, AppendedRows DEF InsertTokens
    <2>4. CASE TrainTokens(w) /\ ~UNCHANGED token
        <3>1. token' = TokensUpdated(w) /\ job[w].column \in Column
            BY <2>4 DEF TrainTokens, TypeOK, Job
        <3>2. /\ k \in DOMAIN token[t]
              /\ token'[t][k] \in {token[t][k], Plus(token[t][k], job[w].column)}
            BY <3>1, UpdatedRows
        <3>3. token[t][k] \in Row /\ token[t][k][c] <= Backed(c)
            BY <1>1, <3>2
        <3>4. CASE token'[t][k] = token[t][k]
            BY <2>1, <3>3, <3>4 DEF Row
        <3>5. CASE token'[t][k] = Plus(token[t][k], job[w].column)
            <4>1. CASE c = job[w].column
                BY <2>1, <2>4, <3>1, <3>3, <3>5, <4>1, PlusType DEF Row
            <4>2. CASE c # job[w].column
                BY <2>1, <3>1, <3>3, <3>5, <4>2, PlusType, SMTT(30) DEF Row
            <4>. QED
                BY <4>1, <4>2
        <3>. QED
            BY <3>2, <3>4, <3>5
    <2>5. UNCHANGED token \/ InsertTokens(w) \/ TrainTokens(w)
        BY <1>4 DEF Step, Request, Lookup, ReadTokens, Judge, TrainNothing,
                    TrainMisc, Crash
    <2>. QED
        BY <2>2, <2>3, <2>4, <2>5
<1>. QED
    BY <1>3, <1>4 DEF Next

-----------------------------------------------------------------------------
(* No statement removes a row of a token, or lowers a count.               *)
LEMMA RowsGrow ==
    ASSUME TypeOK, [Next]_vars, NEW t \in Token
    PROVE  /\ DOMAIN token[t] \subseteq DOMAIN token'[t]
           /\ \A k \in DOMAIN token[t] : \A c \in Column :
                 token[t][k][c] > 0 => token'[t][k][c] > 0
<1>1. ASSUME NEW k \in DOMAIN token[t]
      PROVE  token[t][k] \in Row
    BY DEF TypeOK
<1>2. CASE UNCHANGED token
    BY <1>1, <1>2
<1>3. ASSUME NEW w \in Worker, InsertTokens(w), ~UNCHANGED token
      PROVE  /\ DOMAIN token[t] \subseteq DOMAIN token'[t]
             /\ \A k \in DOMAIN token[t] : token'[t][k] = token[t][k]
    BY <1>3, AppendedRows DEF InsertTokens
<1>4. ASSUME NEW w \in Worker, TrainTokens(w), ~UNCHANGED token,
             NEW k \in DOMAIN token[t], NEW c \in Column, token[t][k][c] > 0
      PROVE  DOMAIN token[t] = DOMAIN token'[t] /\ token'[t][k][c] > 0
    <2>1. token' = TokensUpdated(w) /\ job[w].column \in Column
        BY <1>4 DEF TrainTokens, TypeOK, Job
    <2>2. /\ DOMAIN token'[t] = DOMAIN token[t]
          /\ token'[t][k] \in {token[t][k], Plus(token[t][k], job[w].column)}
        BY <2>1, UpdatedRows
    <2>3. Plus(token[t][k], job[w].column)[c] >= token[t][k][c]
        BY <1>1, <2>1, PlusType DEF Row
    <2>4. /\ token[t][k][c] \in Nat
          /\ Plus(token[t][k], job[w].column)[c] \in Nat
        BY <1>1, <2>1, PlusType DEF Row
    <2>. QED
        BY <1>4, <2>2, <2>3, <2>4
<1>5. ASSUME NEW w \in Worker, TrainTokens(w), ~UNCHANGED token
      PROVE  DOMAIN token[t] = DOMAIN token'[t]
    BY <1>5, UpdatedRows DEF TrainTokens
<1>6. \/ UNCHANGED token
      \/ \E w \in Worker : InsertTokens(w) \/ TrainTokens(w)
    BY DEF Next, Step, Request, Lookup, ReadTokens, Judge, TrainNothing,
           TrainMisc, Crash, vars
<1>. QED
    BY <1>1, <1>2, <1>3, <1>4, <1>5, <1>6

(* What EndRound leaves of a request.                                      *)
LEMMA EndRoundKeeps ==
    ASSUME TypeOK, NEW w \in Worker, EndRound(w)
    PROVE  \/ job'[w] = NoJob
           \/ /\ job'[w].tokens = job[w].tokens
              /\ job'[w].seen = job[w].seen
              /\ job'[w].failed = job[w].failed
              /\ job'[w].pc = "judge"
BY DEF TypeOK, EndRound, Job

(* introduce_tokens gives every token of a message a row, unless its       *)
(* INSERT fails; get_tokens found the others in the table.                 *)
LEMMA IntroducedStep == TypeOK /\ Introduced /\ [Next]_vars => Introduced'
<1> SUFFICES ASSUME TypeOK, Introduced, [Next]_vars PROVE Introduced'
    OBVIOUS
<1>1. job \in [Worker -> Job]
    BY DEF TypeOK
<1>2. ASSUME NEW t \in Token, HasRow(t) PROVE HasRow(t)'
    BY <1>2, RowsGrow DEF HasRow
<1> DEFINE Kept(j) ==
        /\ \A t \in j.seen : HasRow(t)'
        /\ j.pc \in {"judge", "tokens", "misc"} /\ ~j.failed
             => \A t \in j.tokens : HasRow(t)'
<1>3. ASSUME NEW w \in Worker PROVE Kept(job[w])
    BY <1>1, <1>2 DEF Introduced, Job
<1>4. Kept(NoJob)
    BY DEF NoJob
<1>5. SUFFICES ASSUME NEW w \in Worker PROVE Kept(job'[w])
    BY DEF Introduced
<1>6. CASE job'[w] = job[w] \/ job'[w] = NoJob
    BY <1>3, <1>4, <1>6
<1>7. CASE Request(w)
    BY <1>1, <1>7 DEF Request, NoJob
<1>8. CASE Lookup(w) /\ job'[w] # NoJob
    <2>1. /\ job'[w].seen = job[w].seen
          /\ job'[w].tokens = job[w].tokens
          /\ job'[w].pc = "read" \/ job'[w].tokens = {}
        BY <1>1, <1>8 DEF Lookup, Goto, Job
    <2>. QED
        BY <1>3, <2>1
<1>9. CASE ReadTokens(w)
    <2>1. job'[w].pc = "insert"
        BY <1>1, <1>9 DEF ReadTokens, Goto, Job
    <2>2. \A t \in job'[w].seen : t \in job[w].seen \/ (t \in Token /\ Trained(t))
        BY <1>1, <1>9 DEF ReadTokens, Goto, Job
    <2>3. ASSUME NEW t \in Token, Trained(t) PROVE HasRow(t)
        BY <2>3 DEF Trained, HasRow
    <2>. QED
        BY <1>2, <1>3, <2>1, <2>2, <2>3
<1>10. CASE InsertTokens(w)
    <2>1. job'[w].seen = job[w].seen /\ job'[w].tokens = job[w].tokens
        BY <1>1, <1>10 DEF InsertTokens, Goto, Job
    <2>2. CASE job'[w].failed
        BY <1>3, <2>1, <2>2
    <2>3. CASE ~job'[w].failed
        <3>1. token' = [t \in Token |->
                          IF t \in job[w].tokens \ job[w].seen
                            THEN Append(token[t], Zero) ELSE token[t]]
            BY <1>1, <1>10, <2>3 DEF InsertTokens, Job
        <3>2. \A t \in job[w].tokens \ job[w].seen : HasRow(t)'
            BY <1>1, <3>1, AppendedRows DEF HasRow, Job
        <3>. QED
            BY <1>3, <2>1, <3>2
    <2>. QED
        BY <2>2, <2>3
<1>11. CASE Judge(w) /\ job'[w] # NoJob
    BY <1>1, <1>3, <1>11 DEF Judge, At, Goto, Job
<1>12. ASSUME EndRound(w), At(w, "tokens") \/ At(w, "misc")
       PROVE  Kept(job'[w])
    BY <1>3, <1>4, <1>12, EndRoundKeeps DEF At
<1>13. CASE TrainTokens(w)
    <2>1. CASE Goto(w, "misc")
        BY <1>1, <1>3, <1>13, <2>1 DEF TrainTokens, At, Goto, Job
    <2>. QED
        BY <1>12, <1>13, <2>1 DEF TrainTokens
<1>14. CASE TrainNothing(w) \/ TrainMisc(w)
    BY <1>12, <1>14 DEF TrainNothing, TrainMisc
<1>15. CASE Crash(w)
    BY <1>1, <1>4, <1>15 DEF Crash
<1>16. ASSUME NEW v \in Worker, v # w, Request(v) \/ Step(v) \/ Crash(v)
       PROVE  job'[w] = job[w]
    BY <1>16, OthersStay
<1>. QED
    BY <1>6, <1>7, <1>8, <1>9, <1>10, <1>11, <1>13, <1>14, <1>15, <1>16
       DEF Next, Step, vars

(* The update of token that precedes that of misc reaches every token of   *)
(* the message: introduced tokens have rows, and every row is updated.     *)
LEMMA CoverStep ==
    TypeOK /\ Introduced /\ RoundCoversMessage /\ [Next]_vars => RoundCoversMessage'
<1> SUFFICES ASSUME TypeOK, Introduced, RoundCoversMessage, [Next]_vars
             PROVE  RoundCoversMessage'
    OBVIOUS
<1>1. job \in [Worker -> Job]
    BY DEF TypeOK
<1>2. SUFFICES ASSUME NEW w \in Worker, At(w, "misc")', ~job'[w].failed,
                      NEW t \in job'[w].tokens
               PROVE  \E k \in DOMAIN token'[t] : token'[t][k][job'[w].column] > 0
    BY DEF RoundCoversMessage
<1>3. CASE job'[w] = job[w]
    <2>1. t \in Token /\ job[w].column \in Column /\ At(w, "misc")
        BY <1>1, <1>2, <1>3 DEF Job, At
    <2>2. PICK k \in DOMAIN token[t] : token[t][k][job[w].column] > 0
        BY <1>2, <1>3, <2>1 DEF RoundCoversMessage
    <2>3. k \in DOMAIN token'[t] /\ token'[t][k][job[w].column] > 0
        BY <2>1, <2>2, RowsGrow
    <2>. QED
        BY <1>3, <2>3
<1>4. CASE TrainTokens(w)
    <2>1. ~EndRound(w)
        BY <1>2, EndRoundNotDue
    <2>2. token' = TokensUpdated(w) /\ Goto(w, "misc") /\ At(w, "tokens")
        BY <1>4, <2>1 DEF TrainTokens
    <2>3. /\ t \in job[w].tokens /\ ~job[w].failed
          /\ job'[w].column = job[w].column
          /\ job[w].tokens \subseteq Token /\ job[w].column \in Column
        BY <1>1, <1>2, <2>2 DEF Goto, Job
    <2>4. HasRow(t)
        BY <2>2, <2>3 DEF Introduced, At
    <2>5. PICK k \in DOMAIN token[t] : TRUE
        BY <2>4 DEF HasRow
    <2>6. token[t][k] \in Row
        BY <2>3, <2>5 DEF TypeOK
    <2>7. /\ k \in DOMAIN token'[t]
          /\ token'[t][k] = Plus(token[t][k], job[w].column)
        BY <2>2, <2>3, <2>5, UpdatedRows
    <2>8. token'[t][k][job[w].column] > 0
        BY <2>3, <2>6, <2>7, PlusType DEF Row
    <2>. QED
        BY <2>3, <2>7, <2>8
<1>5. ASSUME Request(w) \/ Step(w) \/ Crash(w), ~TrainTokens(w)
      PROVE  FALSE
    <2>1. ~TrainNothing(w) /\ ~TrainMisc(w)
        BY <1>2, EndRoundNotDue DEF TrainNothing, TrainMisc
    <2>2. ~Request(w)
        BY <1>1, <1>2 DEF Request, At, NoJob
    <2>3. ~Crash(w)
        BY <1>1, <1>2 DEF Crash, At, NoJob
    <2>4. ~Lookup(w)
        BY <1>1, <1>2 DEF Lookup, Goto, At, NoJob, Job
    <2>5. ~ReadTokens(w)
        BY <1>1, <1>2 DEF ReadTokens, Goto, At, Job
    <2>6. ~InsertTokens(w)
        BY <1>1, <1>2 DEF InsertTokens, Goto, At, Job
    <2>7. ~Judge(w)
        BY <1>1, <1>2 DEF Judge, Goto, At, NoJob, Job
    <2>. QED
        BY <1>5, <2>1, <2>2, <2>3, <2>4, <2>5, <2>6, <2>7 DEF Step
<1>6. ASSUME NEW v \in Worker, v # w, Request(v) \/ Step(v) \/ Crash(v)
      PROVE  job'[w] = job[w]
    BY <1>6, OthersStay
<1>. QED
    BY <1>3, <1>4, <1>5, <1>6 DEF Next, vars

-----------------------------------------------------------------------------
(* The empty tables and idle trainers satisfy the invariant, and every     *)
(* statement, failure and crash keeps it.                                  *)
THEOREM Inductive == (Init => IInv) /\ (IInv /\ [Next]_vars => IInv')
<1>1. Init => IInv
    BY TypeInit DEF Init, IInv, RowsAreBacked, Introduced, RoundCoversMessage,
                    NoJob, At
<1>2. IInv /\ [Next]_vars => IInv'
    BY TypeStep, RowsStep, IntroducedStep, CoverStep DEF IInv
<1>. QED
    BY <1>1, <1>2

(* Types of the tables and of the requests in hand: no request goes past   *)
(* MAX_ITERATIVE_TRAIN_LOOPS rounds.                                       *)
THEOREM TypeCorrect == Spec => []TypeOK
<1>1. IInv => TypeOK
    BY DEF IInv
<1>. QED
    BY <1>1, Inductive, PTL DEF Spec

(* However the two updates of train_message interleave, fail or are cut    *)
(* off by a crash, no row of token counts more messages than misc, but for *)
(* the updates under way or lost.                                          *)
THEOREM TablesAgree == Spec => []RowsAreBacked
<1>1. IInv => RowsAreBacked
    BY DEF IInv
<1>. QED
    BY <1>1, Inductive, PTL DEF Spec

(* A round that counts in misc has counted every token of the message,     *)
(* unless introducing them failed.                                         *)
THEOREM RoundsCover == Spec => []RoundCoversMessage
<1>1. IInv => RoundCoversMessage
    BY DEF IInv
<1>. QED
    BY <1>1, Inductive, PTL DEF Spec

-----------------------------------------------------------------------------
(* Requests end                                                            *)

(* What is left of a request is a number, zero for none.                   *)
LEMMA LeftIs ==
    ASSUME NEW j \in Job
    PROVE  /\ Left(j) \in Nat
           /\ j.pc # "idle" => Left(j) > 0
           /\ Left(j) <= 3 * Rounds + 3
<1>1. PICK r \in Nat, n \in Nat : r = j.round /\ n = Rounds /\ r < n
    BY Bounds DEF Job
<1>2. n - r \in Nat \ {0} /\ n - r <= n
    BY <1>1
<1>3. PICK d \in Nat : d = n - r /\ d > 0 /\ d <= n
    BY <1>2
<1>4. j.pc \in {"idle", "lookup", "read", "insert", "judge", "tokens", "misc"}
    BY DEF Job
<1>5. /\ j.pc = "idle"   => Left(j) = 0
      /\ j.pc = "misc"   => Left(j) = 3 * d - 2
      /\ j.pc = "tokens" => Left(j) = 3 * d - 1
      /\ j.pc = "judge"  => Left(j) = 3 * d
      /\ j.pc = "insert" => Left(j) = 3 * n + 1
      /\ j.pc = "read"   => Left(j) = 3 * n + 2
      /\ j.pc = "lookup" => Left(j) = 3 * n + 3
    BY <1>1, <1>3 DEF Left
<1>. QED
    BY <1>1, <1>3, <1>4, <1>5

(* Left, place by place.                                                   *)
LEMMA LeftAt ==
    ASSUME NEW j
    PROVE  /\ j.pc = "idle"   => Left(j) = 0
           /\ j.pc = "misc"   => Left(j) = 3 * (Rounds - j.round) - 2
           /\ j.pc = "tokens" => Left(j) = 3 * (Rounds - j.round) - 1
           /\ j.pc = "judge"  => Left(j) = 3 * (Rounds - j.round)
           /\ j.pc = "insert" => Left(j) = 3 * Rounds + 1
           /\ j.pc = "read"   => Left(j) = 3 * Rounds + 2
           /\ j.pc = "lookup" => Left(j) = 3 * Rounds + 3
    BY DEF Left

(* What a step makes of a busy worker's request.                           *)
LEMMA JobStep ==
    ASSUME TypeOK, NEW w \in Worker, ~At(w, "idle"), Next, job'[w] # job[w]
    PROVE  \/ job'[w] = NoJob
           \/ /\ job'[w].round = job[w].round
              /\ \/ job[w].pc = "lookup" /\ job'[w].pc \in {"judge", "read"}
                 \/ job[w].pc = "read" /\ job'[w].pc = "insert"
                 \/ job[w].pc = "insert" /\ job'[w].pc = "judge"
                 \/ job[w].pc = "judge" /\ job'[w].pc = "tokens"
                 \/ job[w].pc = "tokens" /\ job'[w].pc = "misc"
           \/ /\ job[w].pc \in {"tokens", "misc"}
              /\ job'[w].pc = "judge"
              /\ job'[w].round = job[w].round + 1
<1>1. job \in [Worker -> Job]
    BY DEF TypeOK
<1>2. PICK v \in Worker : Request(v) \/ Step(v) \/ Crash(v)
    BY DEF Next
<1>3. v = w
    BY <1>2, OthersStay
<1>4. ~Request(w)
    BY DEF Request
<1>5. ASSUME EndRound(w), job[w].pc \in {"tokens", "misc"}
      PROVE  \/ job'[w] = NoJob
             \/ /\ job'[w].pc = "judge"
                /\ job'[w].round = job[w].round + 1
    BY <1>1, <1>5 DEF EndRound, Job
<1>6. CASE Crash(w)
    BY <1>1, <1>6 DEF Crash
<1>7. CASE Lookup(w)
    BY <1>1, <1>7 DEF Lookup, At, Goto, Job
<1>8. CASE ReadTokens(w)
    BY <1>1, <1>8 DEF ReadTokens, At, Goto, Job
<1>9. CASE InsertTokens(w)
    BY <1>1, <1>9 DEF InsertTokens, At, Goto, Job
<1>10. CASE Judge(w)
    BY <1>1, <1>10 DEF Judge, At, Goto, Job
<1>11. CASE TrainTokens(w)
    <2>1. job[w].pc = "tokens"
        BY <1>11 DEF TrainTokens, At
    <2>2. CASE Goto(w, "misc")
        BY <1>1, <2>1, <2>2 DEF Goto, Job
    <2>3. CASE EndRound(w)
        BY <1>5, <2>1, <2>3
    <2>. QED
        BY <1>11, <2>2, <2>3 DEF TrainTokens
<1>12. CASE TrainNothing(w)
    BY <1>12, <1>5 DEF TrainNothing, At
<1>13. CASE TrainMisc(w)
    BY <1>13, <1>5 DEF TrainMisc, At
<1>. QED
    BY <1>2, <1>3, <1>4, <1>6, <1>7, <1>8, <1>9, <1>10, <1>11, <1>12, <1>13 DEF Step

(* Such a step leaves less to do.                                          *)
LEMMA LessLeft ==
    ASSUME TypeOK, NEW w \in Worker, ~At(w, "idle"), Next, job'[w] # job[w]
    PROVE  Left(job'[w]) < Left(job[w])
<1>1. PICK j \in Job : j = job[w] /\ j.pc # "idle"
    BY DEF TypeOK, At
<1>2. PICK k : k = job'[w]
    OBVIOUS
<1>3. PICK n \in Nat, r \in Nat : n = Rounds /\ r = j.round
    BY Bounds DEF Job
<1>4. CASE k = NoJob
    <2>1. Left(k) = 0
        BY <1>4, LeftAt DEF NoJob
    <2>. QED
        BY <1>1, <1>2, <2>1, LeftIs
<1>5. CASE /\ k.round = r
           /\ \/ j.pc = "lookup" /\ k.pc \in {"judge", "read"}
              \/ j.pc = "read" /\ k.pc = "insert"
              \/ j.pc = "insert" /\ k.pc = "judge"
              \/ j.pc = "judge" /\ k.pc = "tokens"
              \/ j.pc = "tokens" /\ k.pc = "misc"
    <2>1. /\ k.pc = "misc"   => Left(k) = 3 * (n - r) - 2
          /\ k.pc = "tokens" => Left(k) = 3 * (n - r) - 1
          /\ k.pc = "judge"  => Left(k) = 3 * (n - r)
          /\ k.pc = "insert" => Left(k) = 3 * n + 1
          /\ k.pc = "read"   => Left(k) = 3 * n + 2
        BY <1>3, <1>5, LeftAt
    <2>2. /\ j.pc = "tokens" => Left(j) = 3 * (n - r) - 1
          /\ j.pc = "judge"  => Left(j) = 3 * (n - r)
          /\ j.pc = "insert" => Left(j) = 3 * n + 1
          /\ j.pc = "read"   => Left(j) = 3 * n + 2
          /\ j.pc = "lookup" => Left(j) = 3 * n + 3
        BY <1>3, LeftAt
    <2>. QED
        BY <1>1, <1>2, <1>3, <1>5, <2>1, <2>2
<1>6. CASE j.pc \in {"tokens", "misc"} /\ k.pc = "judge" /\ k.round = r + 1
    <2>1. Left(k) = 3 * (n - (r + 1))
        BY <1>3, <1>6, LeftAt
    <2>2. Left(j) \in {3 * (n - r) - 1, 3 * (n - r) - 2}
        BY <1>3, <1>6, LeftAt
    <2>. QED
        BY <1>1, <1>2, <1>3, <2>1, <2>2
<1>. QED
    BY <1>1, <1>2, <1>3, <1>4, <1>5, <1>6, JobStep

(* RequestsAdvance: whatever fails and however trainers interleave, each   *)
(* statement of a request leaves it fewer to do, at most 3 * Rounds + 3.   *)
THEOREM RequestsAreBounded ==
    Spec => /\ RequestsAdvance
            /\ [](\A w \in Worker : Left(job[w]) \in 0 .. 3 * Rounds + 3)
<1>1. TypeOK /\ [Next]_vars
      => [\A w \in Worker : ~At(w, "idle") /\ job'[w] # job[w]
             => Left(job'[w]) < Left(job[w])]_vars
    BY LessLeft
<1>2. TypeOK => \A w \in Worker : Left(job[w]) \in 0 .. 3 * Rounds + 3
    <2>1. SUFFICES ASSUME TypeOK, NEW w \in Worker
                   PROVE  Left(job[w]) \in 0 .. 3 * Rounds + 3
        OBVIOUS
    <2>2. PICK l \in Nat : l = Left(job[w]) /\ l <= 3 * Rounds + 3
        BY <2>1, LeftIs DEF TypeOK
    <2>3. 3 * Rounds + 3 \in Nat
        BY Bounds
    <2>. QED
        BY <2>2, <2>3
<1>. QED
    BY <1>1, <1>2, TypeCorrect, PTL DEF Spec, RequestsAdvance
=============================================================================
