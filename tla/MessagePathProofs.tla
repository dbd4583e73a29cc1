------------------------- MODULE MessagePathProofs --------------------------
(***************************************************************************)
(* Proofs about MessagePath, for every access list, every set of senders,  *)
(* recipients and tokens, every message and every number of lines unread.  *)
(*                                                                         *)
(* Each component has an invariant of its own variables, kept by its own   *)
(* steps; the composition adds what a stage hands to the next.  What the   *)
(* parser reads in a tree (MimeTree) is defined by recursion and is left   *)
(* to model checking.                                                      *)
(***************************************************************************)
EXTENDS MessagePath, FiniteSetTheorems, SequenceTheorems, WellFoundedInduction,
        TLAPS

-----------------------------------------------------------------------------
(* Short sequences                                                         *)

(* A sequence of one element, such as the one line unread.                 *)
LEMMA OneElement ==
    ASSUME NEW S, NEW s \in Seq(S), Len(s) = 1
    PROVE  s[1] \in S /\ s = <<s[1]>>
<1>1. s[1] \in S  OBVIOUS
<1>2. <<s[1]>> \in Seq(S) /\ Len(<<s[1]>>) = 1  BY <1>1
<1>3. \A i \in 1 .. Len(s) : s[i] = <<s[1]>>[i]  OBVIOUS
<1>4. QED  BY <1>1, <1>2, <1>3, SeqEqual

(* One line unread and one that comes: when the first is read the second   *)
(* is left.                                                                *)
LEMMA OneBehind ==
    ASSUME NEW S, NEW s \in Seq(S), NEW y \in S, Len(s) = 1
    PROVE  Head(Append(s, y)) = s[1] /\ Tail(Append(s, y)) = <<y>>
<1> DEFINE a == Append(s, y)
<1>1. a \in Seq(S)  BY AppendProperties
<1>2. Len(a) = 2
  <2>1. Len(a) = Len(s) + 1  BY AppendProperties, ZenonT(60)
  <2>2. QED  BY <2>1
<1>3. a[1] = s[1]
  <2>1. \A i \in 1 .. Len(s) : a[i] = s[i]  BY AppendProperties, SMTT(60)
  <2>2. 1 \in 1 .. Len(s)  OBVIOUS
  <2>3. QED  BY <2>1, <2>2, Zenon
<1>4. a[2] = y
  <2>1. a[Len(s) + 1] = y  BY AppendProperties
  <2>2. Len(s) + 1 = 2  OBVIOUS
  <2>3. QED  BY <2>1, <2>2, Zenon
<1>5. a # <<>>  BY AppendProperties
<1> HIDE DEF a
<1> DEFINE t == Tail(a)
<1>6. t \in Seq(S) /\ Len(t) = 1 /\ t[1] = y
  <2>1. t \in Seq(S) /\ Len(t) = Len(a) - 1  BY <1>1, <1>5, HeadTailProperties
  <2>2. \A i \in 1 .. Len(t) : t[i] = a[i + 1]
    BY <1>1, <1>5, HeadTailProperties
  <2> HIDE DEF t
  <2>3. Len(t) = 1  BY <2>1, <1>2
  <2>4. t[1] = a[1 + 1]  BY <2>2, <2>3
  <2>5. QED  BY <2>1, <2>3, <2>4, <1>4, SMTT(30)
<1> HIDE DEF t
<1>7. t = <<y>>  BY <1>6, OneElement
<1>8. Head(a) = s[1]  BY <1>1, <1>3, <1>5
<1>9. QED  BY <1>7, <1>8 DEF a, t

(* One line unread.                                                        *)
LEMMA Single ==
    ASSUME NEW x
    PROVE  /\ <<x>> # <<>> /\ Head(<<x>>) = x /\ Tail(<<x>>) = <<>>
           /\ Append(<<>>, x) = <<x>>
<1>1. <<x>> # <<>>  OBVIOUS
<1>2. Head(<<x>>) = x  OBVIOUS
<1>3. Tail(<<x>>) = <<>>  OBVIOUS
<1>4. Append(<<>>, x) = <<x>>  OBVIOUS
<1>5. QED  BY <1>1, <1>2, <1>3, <1>4

(* A line left behind is the only one, or there are more.                   *)
LEMMA OneOrMore == \A n \in Nat \ {0} : n = 1 \/ n > 1
  OBVIOUS

(* Two lines are a line and another after it.                              *)
LEMMA TwoElements ==
    ASSUME NEW S, NEW x \in S, NEW y \in S
    PROVE  /\ <<x>> \in Seq(S) /\ <<x, y>> \in Seq(S)
           /\ Head(<<x, y>>) = x /\ Tail(<<x, y>>) = <<y>>
<1> DEFINE a == Append(<<x>>, y)
           b == <<x, y>>
<1>1. <<x>> \in Seq(S) /\ Len(<<x>>) = 1 /\ <<x>>[1] = x  OBVIOUS
<1>2. b \in Seq(S) /\ Len(b) = 2 /\ b[1] = x /\ b[2] = y  OBVIOUS
<1>3. a \in Seq(S) /\ Head(a) = x /\ Tail(a) = <<y>>
  BY <1>1, OneBehind, AppendProperties, ZenonT(60)
<1>4. Len(a) = 2 /\ a[1] = x /\ a[2] = y
  <2>1. Len(a) = Len(<<x>>) + 1  BY <1>1, AppendProperties
  <2>2. \A i \in 1 .. Len(<<x>>) : a[i] = <<x>>[i]  BY <1>1, AppendProperties
  <2>3. a[Len(<<x>>) + 1] = y  BY <1>1, AppendProperties
  <2> HIDE DEF a
  <2>4. QED  BY <2>1, <2>2, <2>3, <1>1
<1> HIDE DEF a, b
<1>5. \A i \in 1 .. Len(a) : a[i] = b[i]  BY <1>2, <1>4
<1>6. a = b  BY <1>2, <1>3, <1>4, <1>5, SeqEqual
<1>7. b \in Seq(S) /\ Head(b) = x /\ Tail(b) = <<y>>  BY <1>2, <1>3, <1>6
<1>8. QED  BY <1>1, <1>7 DEF b

(* The elements of a sequence are the first and those after it.            *)
LEMMA SetOfTail ==
    ASSUME NEW S, NEW s \in Seq(S), s # <<>>
    PROVE  ToSet(s) = {Head(s)} \cup ToSet(Tail(s))
<1> DEFINE t == Tail(s)
<1>1. /\ t \in Seq(S) /\ Len(t) = Len(s) - 1
      /\ \A i \in 1 .. Len(t) : t[i] = s[i + 1]
  BY HeadTailProperties
<1> HIDE DEF t
<1>2. Len(s) \in Nat \ {0} /\ DOMAIN s = 1 .. Len(s) /\ Head(s) = s[1]
  BY EmptySeq, LenProperties
<1>3. DOMAIN t = 1 .. Len(t)  BY <1>1, LenProperties
<1>4. ToSet(t) \subseteq ToSet(s)
  <2>1. SUFFICES ASSUME NEW i \in 1 .. Len(t) PROVE t[i] \in ToSet(s)
    BY <1>3 DEF ToSet
  <2>2. i + 1 \in 1 .. Len(s)  BY <1>1, <1>2
  <2>3. QED  BY <2>2, <1>1, <1>2 DEF ToSet
<1>5. Head(s) \in ToSet(s)  BY <1>2 DEF ToSet
<1>6. ASSUME NEW i \in 1 .. Len(s) PROVE s[i] \in {Head(s)} \cup ToSet(t)
  <2>1. CASE i = 1  BY <2>1, <1>2
  <2>2. CASE i # 1
    <3>1. i - 1 \in 1 .. Len(t)  BY <2>2, <1>1, <1>2
    <3>2. t[i - 1] = s[(i - 1) + 1]  BY <3>1, <1>1
    <3>3. (i - 1) + 1 = i  OBVIOUS
    <3>4. t[i - 1] = s[i]  BY <3>2, <3>3
    <3>5. QED  BY <3>1, <3>4, <1>3 DEF ToSet
  <2>3. QED  BY <2>1, <2>2
<1>7. ToSet(s) \subseteq {Head(s)} \cup ToSet(t)
  BY <1>6, <1>2 DEF ToSet
<1>8. QED  BY <1>4, <1>5, <1>7 DEF t

-----------------------------------------------------------------------------
(* Relay                                                                   *)

(* Where a line is waited for, and all the places on the way.              *)
Phase    == {"dial", "answers", "starttls", "mail", "rcpt", "text"}
Awaiting == Phase \cup {"ehlo"}

(* What send may name as a recipient, see Handed.                          *)
Named == Rcpt \cup {Cut, Field}

Hop(sender) == [from : {"none", sender}, rcpts : SUBSET Named,
                refused : SUBSET Named, data : BOOLEAN, accepted : BOOLEAN]

RelayTypes(sender) ==
    /\ talk \in Awaiting \cup {"none", "removed", "kept"}
    /\ left \in Seq(Named)
    /\ wire \in Seq(Codes)
    /\ secure \in {"no", "offered", "yes"}
    /\ hop \in Hop(sender)
    /\ slips \in Seq(Phase) /\ Len(slips) <= MaxSlips

(* With no line left behind every answer is read where it belongs.         *)
InTime ==
    slips = <<>> /\ talk \in Awaiting =>
        IF talk = "answers" THEN wire \in EhloAnswers ELSE wire = <<>>

(* One line left behind after EHLO puts the dialogue one line behind for   *)
(* good: in place of the answer to the text that to DATA is read, which is *)
(* never a positive one.                                                   *)
Behind ==
    Len(slips) = 1 /\ slips[1] \notin {"dial", "answers"} =>
        /\ talk \in {"rcpt", "text", "kept"}
        /\ talk # "kept" => slips[1] \in {"mail", "rcpt"} /\ Len(wire) = 1
        /\ talk = "text" => wire \in {<<"354">>, <<"503">>}

(* The next hop's side: it accepts only a text it asked for, and asks only *)
(* when it has taken a recipient, and the sender before.                   *)
HopInv(sender) ==
    /\ talk \in Awaiting \cup {"none"} => ~hop.accepted
    /\ hop.accepted => hop.data
    /\ hop.data => hop.rcpts # {}
    /\ hop.rcpts # {} => hop.from = sender

(* Recipients are named to the next hop once each, and no others.          *)
NamedInv(rcpts) ==
    /\ talk \in Awaiting \cup {"removed"} =>
          /\ ToSet(rcpts) = hop.rcpts \cup hop.refused \cup ToSet(left)
          /\ talk \in {"text", "removed"} => left = <<>>

RelayInv(sender, rcpts) ==
    /\ RelayTypes(sender) /\ InTime /\ Behind /\ HopInv(sender)
    /\ NamedInv(rcpts) /\ RemovedWasAccepted

(* An answer of one line, of two, of any number.                           *)
LEMMA AnswerIs ==
    ASSUME NEW c \in Codes
    PROVE  /\ Answer(c, 0) = <<c>> /\ Answer(c, 1) = <<c, c>>
           /\ \A more \in Nat : Answer(c, more) \in Seq(Codes)
<1>1. ASSUME NEW more \in Nat
      PROVE  /\ Answer(c, more) \in Seq(Codes)
             /\ Len(Answer(c, more)) = 1 + more
             /\ \A i \in 1 .. 1 + more : Answer(c, more)[i] = c
  BY <1>1 DEF Answer
<1> HIDE DEF Answer
<1>2. Answer(c, 0) = <<c>>
  <2>1. <<c>> \in Seq(Codes) /\ Len(<<c>>) = 1 /\ <<c>>[1] = c  OBVIOUS
  <2>2. 0 \in Nat /\ 1 + 0 = 1 /\ 1 \in 1 .. 1  OBVIOUS
  <2>3. /\ Answer(c, 0) \in Seq(Codes) /\ Len(Answer(c, 0)) = 1 + 0
        /\ \A i \in 1 .. 1 + 0 : Answer(c, 0)[i] = c
    BY <1>1, <2>2, Zenon
  <2>4. Len(Answer(c, 0)) = 1 /\ Answer(c, 0)[1] = c
    BY <2>2, <2>3, Zenon
  <2>5. QED  BY <2>1, <2>3, <2>4, OneElement
<1>3. Answer(c, 1) = <<c, c>>
  <2>1. <<c, c>> \in Seq(Codes) /\ Len(<<c, c>>) = 2
        /\ \A i \in 1 .. 2 : <<c, c>>[i] = c
    OBVIOUS
  <2>2. 1 \in Nat /\ 1 + 1 = 2  OBVIOUS
  <2>3. /\ Answer(c, 1) \in Seq(Codes) /\ Len(Answer(c, 1)) = 1 + 1
        /\ \A i \in 1 .. 1 + 1 : Answer(c, 1)[i] = c
    BY <1>1, <2>2, Zenon
  <2>4. /\ Len(Answer(c, 1)) = 2
        /\ \A i \in 1 .. 2 : Answer(c, 1)[i] = c
    BY <2>2, <2>3, Zenon
  <2>5. QED  BY <2>1, <2>3, <2>4, SeqEqual
<1>4. QED  BY <1>1, <1>2, <1>3

(* Lines left behind are recorded where they were.                         *)
LEMMA SlipIs ==
    ASSUME NEW n \in Nat, Slip(n),
           talk \in Phase, slips \in Seq(Phase)
    PROVE  /\ slips' \in Seq(Phase) /\ Len(slips') <= MaxSlips
           /\ Len(slips') = Len(slips) + n
           /\ n = 0 => slips' = slips
           /\ slips = <<>> /\ n # 0 => slips'[1] = talk
<1> DEFINE t == [i \in 1 .. n |-> talk]
<1>1. t \in Seq(Phase) /\ Len(t) = n /\ \A i \in 1 .. n : t[i] = talk
  OBVIOUS
<1>2. slips' = slips \o t /\ Len(slips) + n <= MaxSlips  BY DEF Slip
<1> HIDE DEF t
<1>3. slips' \in Seq(Phase) /\ Len(slips') = Len(slips) + n
  BY <1>1, <1>2, ConcatProperties
<1>4. ASSUME n = 0 PROVE slips' = slips
  <2>1. t = <<>>  BY <1>1, <1>4, EmptySeq
  <2>2. QED  BY <2>1, <1>2, ConcatEmptySeq
<1>5. ASSUME slips = <<>>, n # 0 PROVE slips'[1] = talk
  <2>1. slips' = t  BY <1>1, <1>2, <1>5, ConcatEmptySeq
  <2>2. QED  BY <2>1, <1>1, <1>5
<1>6. QED  BY <1>2, <1>3, <1>4, <1>5

(* One line is read, or the deadline passes and the lines stay.            *)
LEMMA ReadIs ==
    ASSUME NEW w \in Seq(Codes), NEW more \in Nat, NEW line,
           ReadLine(w, more, line), talk \in Phase, slips \in Seq(Phase)
    PROVE  /\ wire' \in Seq(Codes) /\ slips' \in Seq(Phase)
           /\ Len(slips') <= MaxSlips
           /\ slips = <<>> /\ slips' # <<>> => slips'[1] = talk
           /\ \/ /\ w # <<>> /\ line = Head(w) /\ wire' = Tail(w)
                 /\ Len(w) = Len(wire') + 1
                 /\ Len(slips') = Len(slips) + more
                 /\ more = 0 => slips' = slips
              \/ /\ line = "" /\ wire' = w /\ slips' # <<>>
                 /\ Len(slips') = Len(slips) + more + 1
<1>0. Len(slips) \in Nat /\ Len(w) \in Nat  OBVIOUS
<1>1. CASE w # <<>> /\ line = Head(w) /\ wire' = Tail(w) /\ Slip(more)
  <2>1. Tail(w) \in Seq(Codes) /\ Len(Tail(w)) = Len(w) - 1
    BY <1>1, HeadTailProperties
  <2>2. Len(w) = Len(Tail(w)) + 1  BY <2>1, <1>0
  <2>3. /\ slips' \in Seq(Phase) /\ Len(slips') <= MaxSlips
        /\ Len(slips') = Len(slips) + more
        /\ more = 0 => slips' = slips
        /\ slips = <<>> /\ more # 0 => slips'[1] = talk
    BY <1>1, SlipIs
  <2>4. QED  BY <1>1, <2>1, <2>2, <2>3
<1>2. CASE line = "" /\ wire' = w /\ Slip(more + 1)
  <2>1. more + 1 \in Nat /\ more + 1 # 0  OBVIOUS
  <2>2. /\ slips' \in Seq(Phase) /\ Len(slips') <= MaxSlips
        /\ Len(slips') = Len(slips) + (more + 1)
        /\ slips = <<>> => slips'[1] = talk
    BY <1>2, <2>1, SlipIs
  <2>3. Len(slips') # 0  BY <1>0, <2>2
  <2>4. slips' # <<>>  BY <2>3
  <2>5. Len(slips') = Len(slips) + more + 1  BY <1>0, <2>2
  <2>6. QED  BY <1>2, <2>2, <2>4, <2>5
<1>3. QED  BY <1>1, <1>2 DEF ReadLine

(* send takes up a file (parseEmailFile).                                  *)
LEMMA OpenHolds ==
    ASSUME NEW sender, NEW rcpts \in Seq(Named), NEW nobody,
           OpenFile(sender, rcpts, nobody)
    PROVE  RelayInv(sender, rcpts)'
<1>m. MaxSlips \in Nat  BY RelayAssumption DEF RelayAssumption
<1>1. /\ talk' \in {"kept", "dial"} /\ left' = rcpts /\ wire' = <<>>
      /\ secure' = "no" /\ hop' = Silent /\ slips' = <<>>
  BY DEF OpenFile
<1>2. /\ Silent \in Hop(sender) /\ Silent.accepted = FALSE
      /\ Silent.data = FALSE /\ Silent.rcpts = {} /\ Silent.refused = {}
  BY DEF Silent, Hop
<1>3. RelayTypes(sender)'
  BY <1>1, <1>2, <1>m DEF RelayTypes, Awaiting, Phase
<1>4. InTime' /\ Behind'  BY <1>1 DEF InTime, Behind
<1>5. HopInv(sender)'  BY <1>1, <1>2 DEF HopInv
<1>6. NamedInv(rcpts)'  BY <1>1, <1>2 DEF NamedInv
<1>7. RemovedWasAccepted'  BY <1>1, <1>2 DEF RemovedWasAccepted
<1>8. QED  BY <1>3, <1>4, <1>5, <1>6, <1>7 DEF RelayInv

(* A command and its answer: the lines unread stay as many, or there is    *)
(* one more of them, left behind, or several.                              *)
LEMMA AskIs ==
    ASSUME NEW sender, RelayTypes(sender), talk \in Phase,
           NEW answer \in Codes, NEW next, Ask(answer, next)
    PROVE  /\ talk' = next
           /\ wire' \in Seq(Codes) /\ slips' \in Seq(Phase)
           /\ Len(slips') <= MaxSlips
           /\ slips = <<>> /\ slips' # <<>> => slips'[1] = talk
           /\ \/ /\ slips' = slips
                 /\ wire = <<>> => wire' = <<>>
                 /\ Len(wire) = 1 => wire' = <<answer>>
              \/ /\ Len(slips') = Len(slips) + 1
                 /\ wire = <<>> => wire' = <<answer>>
              \/ Len(slips') > Len(slips) + 1
<1>t. wire \in Seq(Codes) /\ slips \in Seq(Phase)
  BY DEF RelayTypes
<1>n. Len(slips) \in Nat  BY <1>t
<1>m. MaxSlips \in Nat  BY RelayAssumption DEF RelayAssumption
<1>0. talk' = next  BY DEF Ask
<1>1. PICK more, line :
         /\ more \in 0 .. MaxSlips
         /\ ReadLine(wire \o Answer(answer, more), more, line)
  BY DEF Ask
<1>2. more \in Nat  BY <1>1, <1>m
<1> DEFINE w == wire \o Answer(answer, more)
<1>3. /\ w \in Seq(Codes)
      /\ wire = <<>> => w = Answer(answer, more)
      /\ more = 0 => w = Append(wire, answer)
  <2>1. Answer(answer, more) \in Seq(Codes)  BY <1>2, AnswerIs
  <2>2. w \in Seq(Codes)  BY <1>t, <2>1, ConcatProperties
  <2>3. ASSUME wire = <<>> PROVE w = Answer(answer, more)
    BY <2>1, <2>3, ConcatEmptySeq
  <2>4. ASSUME more = 0 PROVE w = Append(wire, answer)
    BY <1>t, <2>4, AnswerIs, AppendIsConcat
  <2>5. QED  BY <2>2, <2>3, <2>4
<1> HIDE DEF w
<1>4. /\ wire' \in Seq(Codes) /\ slips' \in Seq(Phase)
      /\ Len(slips') <= MaxSlips
      /\ slips = <<>> /\ slips' # <<>> => slips'[1] = talk
      /\ \/ /\ wire' = Tail(w)
            /\ Len(slips') = Len(slips) + more
            /\ more = 0 => slips' = slips
         \/ /\ wire' = w
            /\ Len(slips') = Len(slips) + more + 1
  <2>1. ReadLine(w, more, line)  BY <1>1 DEF w
  <2>2. QED  BY <2>1, <1>2, <1>3, <1>t, ReadIs
<1> DEFINE Result ==
           \/ /\ slips' = slips
              /\ wire = <<>> => wire' = <<>>
              /\ Len(wire) = 1 => wire' = <<answer>>
           \/ /\ Len(slips') = Len(slips) + 1
              /\ wire = <<>> => wire' = <<answer>>
           \/ Len(slips') > Len(slips) + 1
(* The answer has one line.                                                *)
<1>5. ASSUME more = 0 PROVE Result
  <2>1. wire = <<>> => w = <<answer>> /\ Tail(w) = <<>>
    BY <1>3, <1>5, Single
  <2>2. Len(wire) = 1 => Tail(w) = <<answer>>
    BY <1>3, <1>5, <1>t, OneBehind
  <2>3. \/ wire' = Tail(w) /\ slips' = slips
        \/ wire' = w /\ Len(slips') = Len(slips) + 1
    BY <1>4, <1>5, <1>n
  <2>4. QED  BY <2>1, <2>2, <2>3
(* It has two: the second is left behind, both if they are late.           *)
<1>6. ASSUME more = 1 PROVE Result
  <2>1. wire = <<>> => Tail(w) = <<answer>>
    BY <1>3, <1>6, AnswerIs, TwoElements
  <2>2. \/ wire' = Tail(w) /\ Len(slips') = Len(slips) + 1
        \/ Len(slips') = Len(slips) + 1 + 1
    BY <1>4, <1>6
  <2>3. Len(slips) + 1 + 1 > Len(slips) + 1  BY <1>n
  <2>4. QED  BY <2>1, <2>2, <2>3
<1>7. ASSUME more > 1 PROVE Result
  <2>1. Len(slips') >= Len(slips) + more  BY <1>2, <1>4, <1>n
  <2>2. Len(slips') > Len(slips) + 1  BY <1>2, <1>7, <1>n, <2>1
  <2>3. QED  BY <2>2
<1>8. Result  BY <1>2, <1>5, <1>6, <1>7
<1>9. QED  BY <1>0, <1>4, <1>8

(* Answers that nobody looks at leave the dialogue in time, or behind by   *)
(* as many lines as were left.                                             *)
LEMMA AskOrder ==
    ASSUME NEW sender, RelayTypes(sender), InTime, Behind,
           NEW answer \in Codes, NEW next, Ask(answer, next),
           \/ talk = "dial" /\ next = "ehlo"
           \/ talk = "mail" /\ next = "rcpt"
           \/ talk = "rcpt" /\ next = "rcpt"
           \/ talk = "rcpt" /\ next = "text" /\ answer \in {"354", "503"}
    PROVE  InTime' /\ Behind'
<1>t. /\ wire \in Seq(Codes) /\ slips \in Seq(Phase)
      /\ talk \in Phase /\ talk \in Awaiting /\ talk # "answers"
  BY DEF RelayTypes, Phase, Awaiting
<1>l. Len(slips) \in Nat  BY <1>t
<1>n. next \in {"ehlo", "rcpt", "text"}  OBVIOUS
<1>1. /\ talk' = next
      /\ slips' \in Seq(Phase)
      /\ slips = <<>> /\ slips' # <<>> => slips'[1] = talk
      /\ \/ /\ slips' = slips
            /\ wire = <<>> => wire' = <<>>
            /\ Len(wire) = 1 => wire' = <<answer>>
         \/ /\ Len(slips') = Len(slips) + 1
            /\ wire = <<>> => wire' = <<answer>>
         \/ Len(slips') > Len(slips) + 1
  BY <1>t, AskIs
<1>2. slips = <<>> => wire = <<>>  BY <1>t DEF InTime
<1>3. InTime'
  <2>1. SUFFICES ASSUME slips' = <<>> PROVE wire' = <<>>
    BY <1>1, <1>n DEF InTime
  <2>2. Len(slips') = 0  BY <2>1
  <2>3. slips' = slips /\ (wire = <<>> => wire' = <<>>)  BY <1>1, <1>l, <2>2
  <2>4. QED  BY <1>2, <2>1, <2>3
<1>4. Behind'
  <2>1. SUFFICES ASSUME Len(slips') = 1, slips'[1] \notin {"dial", "answers"}
                 PROVE  /\ talk' \in {"rcpt", "text"}
                        /\ slips'[1] \in {"mail", "rcpt"}
                        /\ wire' = <<answer>>
    <3>1. ASSUME talk' \in {"rcpt", "text"}, slips'[1] \in {"mail", "rcpt"},
                 wire' = <<answer>>
          PROVE  /\ talk' \in {"rcpt", "text", "kept"}
                 /\ talk' # "kept" =>
                       slips'[1] \in {"mail", "rcpt"} /\ Len(wire') = 1
                 /\ talk' = "text" => wire' \in {<<"354">>, <<"503">>}
      <4>1. Len(<<answer>>) = 1  OBVIOUS
      <4>2. talk' = "text" => answer \in {"354", "503"}  BY <1>1
      <4>3. QED  BY <3>1, <4>1, <4>2
    <3>2. QED  BY <3>1 DEF Behind
  <2>2. CASE /\ slips' = slips
             /\ Len(wire) = 1 => wire' = <<answer>>
    <3>1. /\ talk \in {"rcpt", "text", "kept"}
          /\ talk # "kept" => slips[1] \in {"mail", "rcpt"} /\ Len(wire) = 1
      BY <2>1, <2>2 DEF Behind
    <3>2. talk # "kept"  BY <1>t DEF Phase
    <3>3. slips[1] \in {"mail", "rcpt"} /\ Len(wire) = 1  BY <3>1, <3>2
    <3>4. talk = "rcpt"  BY <3>1, <3>2, <1>t
    <3>5. QED  BY <2>2, <3>3, <3>4, <1>1
  <2>3. CASE /\ Len(slips') = Len(slips) + 1
             /\ wire = <<>> => wire' = <<answer>>
    <3>1. Len(slips) = 0
      <4>1. PICK n \in Nat : n = Len(slips)  BY <1>l
      <4>2. 1 = n + 1  BY <2>1, <2>3, <4>1
      <4>3. QED  BY <4>1, <4>2, SMTT(30)
    <3>2. slips = <<>>  BY <3>1, <1>t, EmptySeq
    <3>3. slips' # <<>>  BY <2>1
    <3>4. slips'[1] = talk /\ wire' = <<answer>>
      BY <3>2, <3>3, <2>3, <1>1, <1>2
    <3>5. talk \in {"mail", "rcpt"}  BY <2>1, <3>4
    <3>6. QED  BY <3>4, <3>5, <1>1
  <2>4. CASE Len(slips') > Len(slips) + 1  BY <2>1, <2>4, <1>l
  <2>5. QED  BY <1>1, <2>2, <2>3, <2>4
<1>5. QED  BY <1>3, <1>4

(* The greeting.                                                           *)
LEMMA DialHolds ==
    ASSUME NEW sender, NEW rcpts, RelayInv(sender, rcpts), Dial
    PROVE  RelayInv(sender, rcpts)'
<1>t. RelayTypes(sender) /\ InTime /\ Behind  BY DEF RelayInv
<1>1. /\ talk = "dial" /\ talk \in Phase /\ "220" \in Codes
      /\ Ask("220", "ehlo") /\ UNCHANGED <<left, secure, hop>>
  BY DEF Dial, Phase, Codes
<1>2. /\ talk' = "ehlo" /\ wire' \in Seq(Codes) /\ slips' \in Seq(Phase)
      /\ Len(slips') <= MaxSlips
  BY <1>t, <1>1, AskIs
<1>3. RelayTypes(sender)'
  BY <1>1, <1>2, <1>t DEF RelayTypes, Awaiting
<1>4. InTime' /\ Behind'  BY <1>t, <1>1, AskOrder
<1>5. HopInv(sender)'
  BY <1>1, <1>2 DEF RelayInv, HopInv, Awaiting, Phase
<1>6. NamedInv(rcpts)'
  BY <1>1, <1>2 DEF RelayInv, NamedInv, Awaiting, Phase
<1>7. RemovedWasAccepted'  BY <1>2 DEF RemovedWasAccepted
<1>8. QED  BY <1>3, <1>4, <1>5, <1>6, <1>7 DEF RelayInv

(* The connection breaks: before the text nothing has been accepted.       *)
LEMMA DisconnectHolds ==
    ASSUME NEW sender, NEW rcpts, RelayInv(sender, rcpts), Disconnect
    PROVE  RelayInv(sender, rcpts)'
<1>t. RelayTypes(sender) /\ Behind /\ HopInv(sender)  BY DEF RelayInv
<1>1. /\ talk' = "kept" /\ UNCHANGED <<left, wire, secure, hop, slips>>
      /\ talk \in Awaiting
  BY <1>t DEF Disconnect, RelayTypes
<1>2. RelayTypes(sender)'  BY <1>1, <1>t DEF RelayTypes
<1>3. InTime' /\ NamedInv(rcpts)'
  BY <1>1 DEF InTime, NamedInv, Awaiting, Phase
<1>4. Behind'  BY <1>1, <1>t DEF Behind
<1>5. HopInv(sender)'  BY <1>1, <1>t DEF HopInv, Awaiting, Phase
<1>6. RemovedWasAccepted'  BY <1>1, <1>t DEF RemovedWasAccepted, HopInv
<1>7. QED  BY <1>2, <1>3, <1>4, <1>5, <1>6 DEF RelayInv

(* The lines of an answer to EHLO are answers.                             *)
LEMMA EhloAnswerType == EhloAnswers \subseteq Seq(Codes)
<1>1. {"250", "250-", "250-STARTTLS", "502"} \subseteq Codes  BY DEF Codes
<1>2. /\ <<"250-", "250">> \in Seq(Codes) /\ <<"250">> \in Seq(Codes)
      /\ <<"250-STARTTLS", "250">> \in Seq(Codes)
      /\ <<"502">> \in Seq(Codes)
  BY <1>1, TwoElements
<1>3. QED  BY <1>2 DEF EhloAnswers

(* EHLO, whose answer is to be read to its end, if it is not a refusal.    *)
LEMMA EhloHolds ==
    ASSUME NEW sender, NEW rcpts, RelayInv(sender, rcpts), Ehlo
    PROVE  RelayInv(sender, rcpts)'
<1>t. RelayTypes(sender) /\ InTime /\ Behind  BY DEF RelayInv
<1>0. /\ wire \in Seq(Codes) /\ slips \in Seq(Phase) /\ Len(slips) <= MaxSlips
      /\ Len(slips) \in Nat
  BY <1>t DEF RelayTypes
<1>m. MaxSlips \in Nat  BY RelayAssumption DEF RelayAssumption
<1>1. talk = "ehlo" /\ talk' = "answers" /\ UNCHANGED <<left, secure, hop>>
  BY DEF Ehlo
<1> DEFINE Fine == /\ wire' \in Seq(Codes)
                   /\ slips' \in Seq(Phase) /\ Len(slips') <= MaxSlips
                   /\ InTime' /\ Behind'
<1>2. Fine
  <2>1. ASSUME NEW answer \in EhloAnswers, wire' = wire \o answer,
               UNCHANGED slips
        PROVE  Fine
    <3>1. answer \in Seq(Codes)  BY EhloAnswerType
    <3>2. wire' \in Seq(Codes)  BY <1>0, <2>1, <3>1, ConcatProperties
    <3>3. InTime'
      <4>1. SUFFICES ASSUME slips' = <<>> PROVE wire' \in EhloAnswers
        BY <1>1 DEF InTime
      <4>2. wire = <<>>  BY <4>1, <2>1, <1>1, <1>t DEF InTime, Awaiting
      <4>3. wire' = answer  BY <4>2, <2>1, <3>1, ConcatEmptySeq
      <4>4. QED  BY <4>3
    <3>4. Behind'  BY <1>1, <2>1, <1>t DEF Behind
    <3>5. QED  BY <1>0, <2>1, <3>2, <3>3, <3>4
  <2>2. ASSUME wire' = wire \o Answer("502", 1), Len(slips) < MaxSlips,
               slips' = Append(slips, "answers")
        PROVE  Fine
    <3>1. "502" \in Codes /\ "answers" \in Phase  BY DEF Codes, Phase
    <3>2. wire' \in Seq(Codes)  BY <1>0, <2>2, <3>1, AnswerIs, ConcatProperties
    <3>3. /\ slips' \in Seq(Phase) /\ Len(slips') = Len(slips) + 1
          /\ slips'[Len(slips) + 1] = "answers"
          /\ \A i \in 1 .. Len(slips) : slips'[i] = slips[i]
      BY <1>0, <2>2, <3>1, AppendProperties
    <3>4. slips' # <<>>  BY <1>0, <3>3
    <3>5. ASSUME Len(slips') = 1 PROVE slips'[1] = "answers"
      <4>1. Len(slips) + 1 = 1  BY <3>3, <3>5
      <4>2. QED  BY <3>3, <4>1
    <3>6. Len(slips') <= MaxSlips  BY <1>0, <1>m, <2>2, <3>3
    <3>7. InTime' /\ Behind'  BY <3>4, <3>5 DEF InTime, Behind
    <3>8. QED  BY <3>2, <3>3, <3>6, <3>7
  <2>3. QED  BY <2>1, <2>2 DEF Ehlo
<1>3. RelayTypes(sender)'
  BY <1>1, <1>2, <1>t DEF RelayTypes, Awaiting, Phase
<1>4. HopInv(sender)' /\ NamedInv(rcpts)'
  BY <1>1 DEF RelayInv, HopInv, NamedInv, Awaiting, Phase
<1>5. RemovedWasAccepted'  BY <1>1 DEF RemovedWasAccepted
<1>6. QED  BY <1>2, <1>3, <1>4, <1>5 DEF RelayInv

(* What is left of an answer to EHLO after one of its lines: more of it if *)
(* the line says so, nothing if not.                                       *)
LEMMA EhloLine ==
    ASSUME NEW answer \in EhloAnswers
    PROVE  /\ More(Head(answer)) => Tail(answer) \in EhloAnswers
           /\ ~More(Head(answer)) => Tail(answer) = <<>>
<1>c. "250" \in Codes /\ "250-" \in Codes /\ "250-STARTTLS" \in Codes
  BY DEF Codes
<1>1. ASSUME NEW x \in Codes
      PROVE  Head(<<x, "250">>) = x /\ Tail(<<x, "250">>) = <<"250">>
  BY <1>1, <1>c, TwoElements
<1>2. CASE answer = <<"250-", "250">>
  BY <1>2, <1>1, <1>c DEF More, EhloAnswers
<1>3. CASE answer = <<"250-STARTTLS", "250">>
  BY <1>3, <1>1, <1>c DEF More, EhloAnswers
<1>4. CASE answer = <<"250">>
  <2>1. Head(answer) = "250" /\ Tail(answer) = <<>>  BY <1>4
  <2>2. QED  BY <2>1 DEF More
<1>5. CASE answer = <<"502">>
  <2>1. Head(answer) = "502" /\ Tail(answer) = <<>>  BY <1>5
  <2>2. QED  BY <2>1 DEF More
<1>6. QED  BY <1>2, <1>3, <1>4, <1>5 DEF EhloAnswers

(* Reading that answer; a deadline ends the reading too.                   *)
LEMMA ReadEhloHolds ==
    ASSUME NEW sender, NEW rcpts, RelayInv(sender, rcpts), ReadEhlo
    PROVE  RelayInv(sender, rcpts)'
<1>t. RelayTypes(sender) /\ InTime /\ Behind  BY DEF RelayInv
<1>1. /\ talk = "answers" /\ talk \in Phase /\ UNCHANGED <<left, hop>>
  BY DEF ReadEhlo, Phase
<1>2. PICK line : ReadLine(wire, 0, line) /\ AfterEhlo(line)  BY DEF ReadEhlo
<1>3. /\ wire' \in Seq(Codes) /\ slips' \in Seq(Phase)
      /\ Len(slips') <= MaxSlips
      /\ \/ wire # <<>> /\ line = Head(wire) /\ wire' = Tail(wire) /\ slips' = slips
         \/ /\ slips' # <<>> /\ Len(slips') = Len(slips) + 1
            /\ slips = <<>> => slips'[1] = "answers"
  <2>1. wire \in Seq(Codes) /\ slips \in Seq(Phase) /\ Len(slips) \in Nat
    BY <1>t DEF RelayTypes
  <2>2. /\ wire' \in Seq(Codes) /\ slips' \in Seq(Phase)
        /\ Len(slips') <= MaxSlips
        /\ slips = <<>> /\ slips' # <<>> => slips'[1] = talk
        /\ \/ /\ wire # <<>> /\ line = Head(wire) /\ wire' = Tail(wire)
              /\ slips' = slips
           \/ slips' # <<>> /\ Len(slips') = Len(slips) + 0 + 1
    BY <2>1, <1>1, <1>2, ReadIs
  <2>3. QED  BY <2>1, <2>2, <1>1
<1>4. /\ talk' = IF More(line) THEN "answers"
                 ELSE IF secure = "offered" THEN "starttls" ELSE "mail"
      /\ secure' \in {secure, "offered"}
  BY <1>2 DEF AfterEhlo
<1>5. talk' \in {"answers", "starttls", "mail"}  BY <1>4
<1>6. RelayTypes(sender)'
  BY <1>1, <1>3, <1>4, <1>5, <1>t DEF RelayTypes, Awaiting, Phase
<1>7. InTime'
  <2>1. SUFFICES ASSUME slips' = <<>>
                 PROVE  IF talk' = "answers" THEN wire' \in EhloAnswers
                                             ELSE wire' = <<>>
    BY DEF InTime
  <2>2. line = Head(wire) /\ wire' = Tail(wire) /\ slips' = slips
    BY <2>1, <1>3
  <2>3. wire \in EhloAnswers
    BY <2>1, <2>2, <1>1, <1>t DEF InTime, Awaiting
  <2>4. CASE More(line)
    BY <2>2, <2>3, <2>4, <1>4, EhloLine
  <2>5. CASE ~More(line)
    <3>1. talk' # "answers"  BY <2>5, <1>4
    <3>2. wire' = <<>>  BY <2>2, <2>3, <2>5, EhloLine
    <3>3. QED  BY <3>1, <3>2
  <2>6. QED  BY <2>4, <2>5
<1>8. Behind'
  <2>1. SUFFICES ASSUME Len(slips') = 1, slips'[1] \notin {"dial", "answers"}
                 PROVE  FALSE
    BY DEF Behind
  <2>2. CASE slips' = slips  BY <2>1, <2>2, <1>1, <1>t DEF Behind
  <2>3. CASE /\ Len(slips') = Len(slips) + 1
             /\ slips = <<>> => slips'[1] = "answers"
    <3>1. Len(slips) \in Nat /\ slips \in Seq(Phase)  BY <1>t DEF RelayTypes
    <3>2. Len(slips) = 0  BY <2>1, <2>3, <3>1, SMTT(30)
    <3>3. slips = <<>>  BY <3>1, <3>2, EmptySeq
    <3>4. QED  BY <2>1, <2>3, <3>3
  <2>4. QED  BY <1>3, <2>2, <2>3
<1>9. HopInv(sender)' /\ NamedInv(rcpts)'
  BY <1>1, <1>5 DEF RelayInv, HopInv, NamedInv, Awaiting, Phase
<1>10. RemovedWasAccepted'  BY <1>5 DEF RemovedWasAccepted
<1>11. QED  BY <1>6, <1>7, <1>8, <1>9, <1>10 DEF RelayInv

(* STARTTLS: the dialogue goes on, from EHLO, only with an answer to it -  *)
(* or what is taken for one - and with nothing left to read.               *)
LEMMA StartTlsHolds ==
    ASSUME NEW sender, NEW rcpts, RelayInv(sender, rcpts), StartTls
    PROVE  RelayInv(sender, rcpts)'
<1>t. RelayTypes(sender) /\ InTime /\ Behind  BY DEF RelayInv
<1>0. slips \in Seq(Phase) /\ Len(slips) <= MaxSlips
  BY <1>t DEF RelayTypes
<1>1. /\ talk = "starttls" /\ talk \in Phase /\ UNCHANGED <<left, hop>>
      /\ secure' = "yes" /\ wire' = <<>>
  BY DEF StartTls, Phase
<1>2. PICK code, line :
         /\ talk' = IF line = "220" /\ code = "220" THEN "ehlo" ELSE "kept"
         /\ Slip(IF line = "" THEN 1 ELSE 0)
  BY DEF StartTls
<1>3. /\ talk' \in {"ehlo", "kept"}
      /\ slips' \in Seq(Phase) /\ Len(slips') <= MaxSlips
      /\ talk' = "ehlo" => slips' = slips
  <2>1. CASE line = ""
    <3>1. Slip(1) /\ talk' = "kept"  BY <1>2, <2>1
    <3>2. slips' \in Seq(Phase) /\ Len(slips') <= MaxSlips
      BY <1>0, <1>1, <3>1, SlipIs
    <3>3. QED  BY <3>1, <3>2
  <2>2. CASE line # ""
    <3>1. Slip(0) /\ talk' \in {"ehlo", "kept"}  BY <1>2, <2>2
    <3>2. slips' = slips  BY <1>0, <1>1, <3>1, SlipIs
    <3>3. QED  BY <1>0, <3>1, <3>2
  <2>3. QED  BY <2>1, <2>2
<1>4. RelayTypes(sender)'
  BY <1>1, <1>3, <1>t DEF RelayTypes, Awaiting, Phase
<1>5. InTime'  BY <1>1, <1>3 DEF InTime
<1>6. Behind'
  <2>1. CASE talk' = "kept"  BY <2>1 DEF Behind
  <2>2. CASE talk' = "ehlo"
    <3>1. slips' = slips  BY <2>2, <1>3
    <3>2. QED  BY <3>1, <1>1, <1>t DEF Behind
  <2>3. QED  BY <2>1, <2>2, <1>3
<1>7. HopInv(sender)' /\ NamedInv(rcpts)'
  BY <1>1, <1>3 DEF RelayInv, HopInv, NamedInv, Awaiting, Phase
<1>8. RemovedWasAccepted'
  BY <1>1, <1>3 DEF RemovedWasAccepted, RelayInv, HopInv, Awaiting, Phase
<1>9. QED  BY <1>4, <1>5, <1>6, <1>7, <1>8 DEF RelayInv

(* MAIL FROM, which the next hop may refuse without send noticing.         *)
LEMMA MailFromHolds ==
    ASSUME NEW sender, NEW rcpts, RelayInv(sender, rcpts), MailFrom(sender)
    PROVE  RelayInv(sender, rcpts)'
<1>t. RelayTypes(sender) /\ InTime /\ Behind /\ HopInv(sender)
  BY DEF RelayInv
<1>1. talk = "mail" /\ talk \in Phase /\ UNCHANGED <<left, secure>>
  BY DEF MailFrom, Phase
<1>2. PICK ok \in BOOLEAN :
         /\ hop' = IF ok THEN [hop EXCEPT !.from = sender] ELSE hop
         /\ Ask(IF ok THEN "250" ELSE "550", "rcpt")
  BY DEF MailFrom
<1>3. (IF ok THEN "250" ELSE "550") \in Codes  BY DEF Codes
<1>4. /\ talk' = "rcpt" /\ wire' \in Seq(Codes) /\ slips' \in Seq(Phase)
      /\ Len(slips') <= MaxSlips
  BY <1>t, <1>1, <1>2, <1>3, AskIs
<1>5. /\ hop' \in Hop(sender)
      /\ hop'.rcpts = hop.rcpts /\ hop'.refused = hop.refused
      /\ hop'.data = hop.data /\ hop'.accepted = hop.accepted
      /\ hop'.from \in {hop.from, sender}
  <2>1. hop \in Hop(sender)  BY <1>t DEF RelayTypes
  <2>2. QED  BY <2>1, <1>2 DEF Hop
<1>6. RelayTypes(sender)'
  BY <1>1, <1>4, <1>5, <1>t DEF RelayTypes, Awaiting, Phase
<1>7. InTime' /\ Behind'  BY <1>t, <1>1, <1>2, <1>3, AskOrder
<1>8. HopInv(sender)'
  BY <1>1, <1>4, <1>5, <1>t DEF HopInv, Awaiting, Phase
<1>9. NamedInv(rcpts)'
  BY <1>1, <1>4, <1>5 DEF RelayInv, NamedInv, Awaiting, Phase
<1>10. RemovedWasAccepted'  BY <1>4 DEF RemovedWasAccepted
<1>11. QED  BY <1>6, <1>7, <1>8, <1>9, <1>10 DEF RelayInv

(* RCPT TO, once for each recipient of the file.                           *)
LEMMA RcptToHolds ==
    ASSUME NEW sender, NEW rcpts, RelayInv(sender, rcpts), RcptTo
    PROVE  RelayInv(sender, rcpts)'
<1>t. RelayTypes(sender) /\ InTime /\ Behind /\ HopInv(sender)
  BY DEF RelayInv
<1>0. left \in Seq(Named) /\ hop \in Hop(sender)  BY <1>t DEF RelayTypes
<1>1. /\ talk = "rcpt" /\ talk \in Phase /\ UNCHANGED secure
      /\ left # <<>> /\ left' = Tail(left)
  BY DEF RcptTo, Phase
<1>2. PICK ok \in {FALSE, hop.from # "none"} :
         /\ hop' = IF ok THEN [hop EXCEPT !.rcpts = @ \cup {Head(left)}]
                   ELSE [hop EXCEPT !.refused = @ \cup {Head(left)}]
         /\ Ask(IF ok THEN "250" ELSE "550", "rcpt")
  BY DEF RcptTo
<1>3. (IF ok THEN "250" ELSE "550") \in Codes  BY DEF Codes
<1>4. /\ talk' = "rcpt" /\ wire' \in Seq(Codes) /\ slips' \in Seq(Phase)
      /\ Len(slips') <= MaxSlips
  BY <1>t, <1>1, <1>2, <1>3, AskIs
<1>5. /\ Head(left) \in Named /\ left' \in Seq(Named)
      /\ ToSet(left) = {Head(left)} \cup ToSet(left')
  <2>1. Head(left) \in Named /\ Tail(left) \in Seq(Named)
    BY <1>0, <1>1, HeadTailProperties
  <2>2. ToSet(left) = {Head(left)} \cup ToSet(Tail(left))
    BY <1>0, <1>1, SetOfTail
  <2>3. QED  BY <2>1, <2>2, <1>1
<1>6. /\ hop' \in Hop(sender)
      /\ hop'.data = hop.data /\ hop'.accepted = hop.accepted
      /\ hop'.from = hop.from
      /\ hop'.rcpts \cup hop'.refused = hop.rcpts \cup hop.refused \cup {Head(left)}
      /\ hop'.rcpts = hop.rcpts \/ hop.from # "none"
      /\ hop.rcpts \subseteq hop'.rcpts
  BY <1>0, <1>2, <1>5 DEF Hop
<1>7. RelayTypes(sender)'
  BY <1>1, <1>4, <1>5, <1>6, <1>t DEF RelayTypes, Awaiting, Phase
<1>8. InTime' /\ Behind'  BY <1>t, <1>1, <1>2, <1>3, AskOrder
<1>9. HopInv(sender)'
  <2>1. hop.from \in {"none", sender}  BY <1>0 DEF Hop
  <2>2. QED  BY <2>1, <1>1, <1>4, <1>6, <1>t DEF HopInv, Awaiting, Phase
<1>10. NamedInv(rcpts)'
  BY <1>1, <1>4, <1>5, <1>6 DEF RelayInv, NamedInv, Awaiting, Phase
<1>11. RemovedWasAccepted'  BY <1>4 DEF RemovedWasAccepted
<1>12. QED  BY <1>7, <1>8, <1>9, <1>10, <1>11 DEF RelayInv

(* DATA, without looking whether any recipient was accepted.               *)
LEMMA DataCommandHolds ==
    ASSUME NEW sender, NEW rcpts, RelayInv(sender, rcpts), DataCommand
    PROVE  RelayInv(sender, rcpts)'
<1>t. RelayTypes(sender) /\ InTime /\ Behind /\ HopInv(sender)
  BY DEF RelayInv
<1>1. /\ talk = "rcpt" /\ talk \in Phase /\ left = <<>>
      /\ UNCHANGED <<left, secure>>
  BY DEF DataCommand, Phase
<1>2. PICK ok \in {FALSE, hop.rcpts # {}} :
         /\ hop' = [hop EXCEPT !.data = ok]
         /\ Ask(IF ok THEN "354" ELSE "503", "text")
  BY DEF DataCommand
<1>3. /\ (IF ok THEN "354" ELSE "503") \in Codes
      /\ (IF ok THEN "354" ELSE "503") \in {"354", "503"}
  BY DEF Codes
<1>4. /\ talk' = "text" /\ wire' \in Seq(Codes) /\ slips' \in Seq(Phase)
      /\ Len(slips') <= MaxSlips
  BY <1>t, <1>1, <1>2, <1>3, AskIs
<1>5. /\ hop' \in Hop(sender) /\ hop'.data = ok
      /\ hop'.rcpts = hop.rcpts /\ hop'.refused = hop.refused
      /\ hop'.from = hop.from /\ hop'.accepted = hop.accepted
  <2>1. hop \in Hop(sender)  BY <1>t DEF RelayTypes
  <2>2. ok \in BOOLEAN  OBVIOUS
  <2>3. QED  BY <2>1, <2>2, <1>2 DEF Hop
<1>6. RelayTypes(sender)'
  BY <1>1, <1>4, <1>5, <1>t DEF RelayTypes, Awaiting, Phase
<1>7. InTime' /\ Behind'
  <2>1. PICK answer \in {"354", "503"} : Ask(answer, "text") /\ answer \in Codes
    BY <1>2, <1>3
  <2>2. QED  BY <2>1, <1>t, <1>1, AskOrder
<1>8. HopInv(sender)'
  <2>1. ok => hop.rcpts # {}  BY <1>2
  <2>2. ~hop.accepted  BY <1>1, <1>t DEF HopInv, Awaiting
  <2>3. QED  BY <2>1, <2>2, <1>4, <1>5, <1>t DEF HopInv
<1>9. NamedInv(rcpts)'
  BY <1>1, <1>4, <1>5 DEF RelayInv, NamedInv, Awaiting, Phase
<1>10. RemovedWasAccepted'  BY <1>4 DEF RemovedWasAccepted
<1>11. QED  BY <1>6, <1>7, <1>8, <1>9, <1>10 DEF RelayInv

(* The text and the answer that decides.                                   *)
LEMMA SendTextHolds ==
    ASSUME NEW sender, NEW rcpts, RelayInv(sender, rcpts), SendText
    PROVE  RelayInv(sender, rcpts)'
<1>t. RelayTypes(sender) /\ InTime /\ Behind /\ HopInv(sender)
  BY DEF RelayInv
<1>0. /\ wire \in Seq(Codes) /\ slips \in Seq(Phase) /\ Len(slips) <= MaxSlips
      /\ hop \in Hop(sender)
  BY <1>t DEF RelayTypes
<1>1. talk = "text" /\ talk \in Phase /\ UNCHANGED <<left, secure>>
  BY DEF SendText, Phase
<1>2. PICK ok \in {FALSE, hop.data}, line \in Codes \cup {""} :
         /\ hop' = [hop EXCEPT !.accepted = ok]
         /\ ReadLine(Append(wire, LastAnswer(ok)), 0, line)
         /\ talk' = IF Positive(line) THEN "removed" ELSE "kept"
  BY DEF SendText
<1>3. /\ hop' \in Hop(sender) /\ hop'.accepted = ok /\ ok \in BOOLEAN
      /\ hop'.rcpts = hop.rcpts /\ hop'.refused = hop.refused
      /\ hop'.from = hop.from /\ hop'.data = hop.data
  <2>1. ok \in BOOLEAN  BY <1>0 DEF Hop
  <2>2. QED  BY <2>1, <1>0, <1>2 DEF Hop
<1>a. /\ LastAnswer(ok) \in Codes
      /\ ok => LastAnswer(ok) = "250"
      /\ ~ok => LastAnswer(ok) \in {"554", "500"}
  BY DEF LastAnswer, Codes
<1> DEFINE w == Append(wire, LastAnswer(ok))
<1>4. w \in Seq(Codes)  BY <1>0, <1>a, AppendProperties
<1>5. /\ wire = <<>> => Head(w) = LastAnswer(ok)
      /\ wire # <<>> => Head(w) = Head(wire)
  BY <1>0, HeadTailAppend
<1> HIDE DEF w
<1>6. ReadLine(w, 0, line)  BY <1>2 DEF w
<1>7. /\ wire' \in Seq(Codes) /\ slips' \in Seq(Phase)
      /\ Len(slips') <= MaxSlips
      /\ \/ line = Head(w) /\ slips' = slips
         \/ line = "" /\ slips' # <<>>
  BY <1>0, <1>1, <1>4, <1>6, ReadIs
<1>8. /\ Positive("250") /\ ~Positive("") /\ ~Positive("554")
      /\ ~Positive("500") /\ ~Positive("354") /\ ~Positive("503")
  BY DEF Positive, More
<1>9. talk' \in {"removed", "kept"} /\ (talk' = "removed" <=> Positive(line))
  BY <1>2
<1>10. RelayTypes(sender)'
  BY <1>1, <1>3, <1>7, <1>9, <1>t DEF RelayTypes, Awaiting
<1>11. InTime'  BY <1>9 DEF InTime, Awaiting, Phase
(* One line behind, the answer to DATA is taken for the last one.          *)
<1>12. ASSUME Len(slips') = 1, slips'[1] \notin {"dial", "answers"}
       PROVE  talk' = "kept"
  <2>1. CASE line = ""  BY <2>1, <1>8, <1>9
  <2>2. CASE line = Head(w) /\ slips' = slips
    <3>1. wire \in {<<"354">>, <<"503">>}
      BY <2>2, <1>12, <1>1, <1>t DEF Behind
    <3>2. wire # <<>> /\ Head(wire) \in {"354", "503"}  BY <3>1, Single
    <3>3. line \in {"354", "503"}  BY <2>2, <3>2, <1>5
    <3>4. QED  BY <3>3, <1>8, <1>9
  <2>3. QED  BY <2>1, <2>2, <1>7
<1>13. Behind'  BY <1>12 DEF Behind
<1>14. HopInv(sender)'
  BY <1>1, <1>2, <1>3, <1>9, <1>t DEF HopInv, Awaiting, Phase
<1>15. NamedInv(rcpts)'
  BY <1>1, <1>3 DEF RelayInv, NamedInv, Awaiting, Phase
<1>16. ASSUME slips' = <<>> PROVE talk' = "removed" <=> ok
  <2>1. line = Head(w) /\ slips = <<>>  BY <1>16, <1>7
  <2>2. wire = <<>>  BY <2>1, <1>1, <1>t DEF InTime, Awaiting
  <2>3. line = LastAnswer(ok)  BY <2>1, <2>2, <1>5
  <2>4. QED  BY <2>3, <1>a, <1>8, <1>9
<1>17. RemovedWasAccepted'
  <2>1. ASSUME talk' = "removed", ~hop'.accepted
        PROVE  Len(slips') > 1 \/ (slips' # <<>> /\ slips'[1] \in {"dial", "answers"})
    <3>1. slips' # <<>>  BY <2>1, <1>3, <1>16
    <3>2. Len(slips') \in Nat \ {0}  BY <3>1, <1>7, EmptySeq
    <3>3. ~(Len(slips') = 1 /\ slips'[1] \notin {"dial", "answers"})
      BY <2>1, <1>12
    <3>4. Len(slips') = 1 \/ Len(slips') > 1  BY <3>2, OneOrMore
    <3>5. QED  BY <3>1, <3>3, <3>4, Zenon
  <2>2. ASSUME talk' = "kept", hop'.accepted PROVE slips' # <<>>
    BY <2>2, <1>3, <1>16
  <2>3. QED  BY <2>1, <2>2 DEF RemovedWasAccepted
<1>18. QED  BY <1>10, <1>11, <1>13, <1>14, <1>15, <1>17 DEF RelayInv

(* Every step of sendEmail.                                                *)
LEMMA RelayHolds ==
    ASSUME NEW sender, NEW rcpts, RelayInv(sender, rcpts), RelayStep(sender)
    PROVE  RelayInv(sender, rcpts)'
  BY DialHolds, DisconnectHolds, EhloHolds, ReadEhloHolds, StartTlsHolds,
     MailFromHolds, RcptToHolds, DataCommandHolds, SendTextHolds DEF RelayStep

-----------------------------------------------------------------------------
(* Smtpd                                                                   *)

SessionType == [mailFrom : Sender \cup {NullSender}, rcptTo : Seq(Rcpt),
             xforward : Host \cup {NoHost}]

ToldType == [open : BOOLEAN, from : Sender \cup {NullSender}, rcpts : Seq(Rcpt),
         host : Host \cup {NoHost}]

(* The session has the sender of the transaction and the recipients of all *)
(* of them; its files say so.                                              *)
SmtpdInv ==
    /\ conn \in {"none", "open", "refused", "left"}
    /\ session \in SessionType
    /\ told \in ToldType
    /\ told.open => session.mailFrom = told.from
    /\ ~told.open => told.rcpts = <<>>
    /\ ToSet(session.rcptTo) = earlier \cup ToSet(told.rcpts)
    /\ \A f \in queued : Written(f)

(* A recipient more.                                                       *)
LEMMA SetOfAppend ==
    ASSUME NEW S, NEW s \in Seq(S), NEW x \in S
    PROVE  ToSet(Append(s, x)) = ToSet(s) \cup {x}
<1> DEFINE a == Append(s, x)
<1>1. /\ a \in Seq(S) /\ Len(a) = Len(s) + 1
      /\ \A i \in 1 .. Len(s) : a[i] = s[i]
      /\ a[Len(s) + 1] = x
  <2>1. a \in Seq(S) /\ Len(a) = Len(s) + 1  BY AppendProperties
  <2>2. \A i \in 1 .. Len(s) : a[i] = s[i]  BY AppendProperties
  <2>3. a[Len(s) + 1] = x  BY AppendProperties
  <2>4. QED  BY <2>1, <2>2, <2>3
<1> HIDE DEF a
<1>2. /\ Len(s) \in Nat /\ DOMAIN s = 1 .. Len(s)
      /\ DOMAIN a = 1 .. (Len(s) + 1)
  BY <1>1, LenProperties
<1>3. ToSet(s) \cup {x} \subseteq ToSet(a)  BY <1>1, <1>2 DEF ToSet
<1>4. ToSet(a) \subseteq ToSet(s) \cup {x}
  <2>1. SUFFICES ASSUME NEW i \in 1 .. (Len(s) + 1)
                 PROVE  a[i] \in ToSet(s) \cup {x}
    BY <1>2 DEF ToSet
  <2>2. CASE i = Len(s) + 1  BY <2>2, <1>1
  <2>3. CASE i # Len(s) + 1
    <3>1. i \in 1 .. Len(s)  BY <2>3, <1>2
    <3>2. QED  BY <3>1, <1>1, <1>2 DEF ToSet
  <2>4. QED  BY <2>2, <2>3
<1>5. QED  BY <1>3, <1>4 DEF a

(* Before the connection, and once its files are somebody else's.          *)
LEMMA NoSessionFits ==
    /\ NoSession \in SessionType /\ Nothing \in ToldType
    /\ ~Nothing.open /\ Nothing.rcpts = <<>>
    /\ ToSet(Nothing.rcpts) = {} /\ ToSet(NoSession.rcptTo) = {}
  BY DEF NoSession, Nothing, SessionType, ToldType, ToSet

(* A session begins with nothing said.                                     *)
LEMMA SmtpdInitHolds == SmtpdInit => SmtpdInv
<1> SUFFICES ASSUME SmtpdInit PROVE SmtpdInv  OBVIOUS
<1>1. /\ conn = "none" /\ session = NoSession /\ told = Nothing
      /\ earlier = {} /\ queued = {}
  BY DEF SmtpdInit
<1>2. ToSet(session.rcptTo) = earlier \cup ToSet(told.rcpts)
  BY <1>1, NoSessionFits
<1>3. QED  BY <1>1, <1>2, NoSessionFits DEF SmtpdInv

(* The same when a worker has taken a file.                                *)
LEMMA ForgetHolds == Forget => SmtpdInv'
<1> SUFFICES ASSUME Forget PROVE SmtpdInv'  OBVIOUS
<1>1. /\ conn' = "none" /\ session' = NoSession /\ told' = Nothing
      /\ earlier' = {} /\ queued' = {}
  BY DEF Forget
<1>2. ToSet(session'.rcptTo) = earlier' \cup ToSet(told'.rcpts)
  BY <1>1, NoSessionFits
<1>3. QED  BY <1>1, <1>2, NoSessionFits DEF SmtpdInv

(* The file a transaction leaves is Written, for it has the whole session. *)
LEMMA QueueFileWritten ==
    ASSUME SmtpdInv, told.rcpts # <<>>
    PROVE  Written(QueueFile)
<1>1. told.open /\ session.mailFrom = told.from  BY DEF SmtpdInv
<1>2. /\ session.rcptTo \in Seq(Rcpt)
      /\ ToSet(session.rcptTo) = earlier \cup ToSet(told.rcpts)
  BY DEF SmtpdInv, SessionType
<1>3. QED  BY <1>1, <1>2 DEF Written, QueueFile

(* What follows RSET and DATA.                                             *)
LEMMA ResetHolds ==
    ASSUME SmtpdInv, Reset, conn' = conn, \A f \in queued' : Written(f)
    PROVE  SmtpdInv'
<1>1. /\ told' = Nothing /\ session' = session
      /\ earlier' = earlier \cup ToSet(told.rcpts)
  BY DEF Reset
<1>2. ToSet(told'.rcpts) = {}  BY <1>1, NoSessionFits DEF ToSet
<1>3. ToSet(session'.rcptTo) = earlier' \cup ToSet(told'.rcpts)
  BY <1>1, <1>2 DEF SmtpdInv
<1>4. QED  BY <1>1, <1>3, NoSessionFits DEF SmtpdInv

(* Every handler of a session.                                             *)
LEMMA SmtpdHolds ==
    ASSUME SmtpdInv, SmtpdStep
    PROVE  SmtpdInv'
<1>t. session \in SessionType /\ told \in ToldType  BY DEF SmtpdInv
<1>1. ASSUME NEW c \in Client, NewSession(c) PROVE SmtpdInv'
  BY <1>1 DEF NewSession, SmtpdInv
<1>2. ASSUME NEW h \in Host \cup {NoHost}, Xforward(h) PROVE SmtpdInv'
  <2>1. /\ session' \in SessionType /\ session'.mailFrom = session.mailFrom
        /\ session'.rcptTo = session.rcptTo
    BY <1>2, <1>t DEF Xforward, SessionType
  <2>2. /\ told' \in ToldType /\ told'.open = told.open /\ told'.from = told.from
        /\ told'.rcpts = told.rcpts
    BY <1>2, <1>t DEF Xforward, ToldType
  <2>3. UNCHANGED <<conn, earlier, queued>>  BY <1>2 DEF Xforward
  <2>4. QED  BY <2>1, <2>2, <2>3 DEF SmtpdInv
<1>3. ASSUME NEW f \in Sender \cup {NullSender}, Mail(f) PROVE SmtpdInv'
  <2>1. /\ session' \in SessionType /\ session'.mailFrom = f
        /\ session'.rcptTo = session.rcptTo
    BY <1>3, <1>t DEF Mail, SessionType
  <2>2. /\ told' \in ToldType /\ told'.open /\ told'.from = f
        /\ told'.rcpts = told.rcpts
    BY <1>3, <1>t DEF Mail, ToldType
  <2>3. UNCHANGED <<conn, earlier, queued>>  BY <1>3 DEF Mail
  <2>4. QED  BY <2>1, <2>2, <2>3 DEF SmtpdInv
<1>4. ASSUME NEW r \in Rcpt, Recipient(r) PROVE SmtpdInv'
  <2>1. /\ session' = [session EXCEPT !.rcptTo = Append(@, r)]
        /\ told' = [told EXCEPT !.rcpts = Append(@, r)]
        /\ told.open /\ UNCHANGED <<conn, earlier, queued>>
    BY <1>4 DEF Recipient
  <2>2. session.rcptTo \in Seq(Rcpt) /\ told.rcpts \in Seq(Rcpt)
    BY <1>t DEF SessionType, ToldType
  <2>3. /\ Append(session.rcptTo, r) \in Seq(Rcpt)
        /\ Append(told.rcpts, r) \in Seq(Rcpt)
    BY <2>2, AppendProperties
  <2>4. /\ session' \in SessionType /\ session'.mailFrom = session.mailFrom
        /\ session'.rcptTo = Append(session.rcptTo, r)
    BY <2>1, <2>3, <1>t DEF SessionType
  <2>5. /\ told' \in ToldType /\ told'.open /\ told'.from = told.from
        /\ told'.rcpts = Append(told.rcpts, r)
    BY <2>1, <2>3, <1>t DEF ToldType
  <2>6. /\ ToSet(session'.rcptTo) = ToSet(session.rcptTo) \cup {r}
        /\ ToSet(told'.rcpts) = ToSet(told.rcpts) \cup {r}
    BY <2>2, <2>4, <2>5, SetOfAppend
  <2>7. ToSet(session'.rcptTo) = earlier' \cup ToSet(told'.rcpts)
    BY <2>1, <2>6 DEF SmtpdInv
  <2>8. QED  BY <2>1, <2>4, <2>5, <2>7 DEF SmtpdInv
<1>5. CASE Rset  BY <1>5, ResetHolds DEF Rset, SmtpdInv
<1>6. CASE Data
  <2>1. \A f \in queued' : Written(f)
    BY <1>6, QueueFileWritten DEF Data, SmtpdInv
  <2>2. QED  BY <2>1, <1>6, ResetHolds DEF Data
<1>7. CASE DataRefused  BY <1>7, ResetHolds DEF DataRefused, SmtpdInv
<1>8. CASE Logout  BY <1>8 DEF Logout, SmtpdInv
<1>9. QED  BY <1>1, <1>2, <1>3, <1>4, <1>5, <1>6, <1>7, <1>8 DEF SmtpdStep

-----------------------------------------------------------------------------
(* Classifier                                                              *)

Count == [nham : Nat, nspam : Nat]

(* The node of a token that was looked up.                                 *)
Known(t) == Rated(Fetched(Added(t), stored[t]))

(* Every node is as addnode left it or as its row of the table says:   *)
(* none is looked up twice, and none rated by anything else.               *)
NodesInv ==
    /\ \A t \in DOMAIN node : node[t] = Added(t) \/ node[t] = Known(t)
    /\ filter \in {"off", "totals", "pairs"} =>
          \A t \in DOMAIN node : node[t] = Added(t)
    /\ filter = "words" =>
          /\ \A t \in Word \cap DOMAIN node : node[t] = Added(t)
          /\ ~failed => \A t \in Pair \cap DOMAIN node : node[t] = Known(t)

FilterInv ==
    /\ filter \in {"off", "totals", "pairs", "words", "ham", "unsure", "spam"}
    /\ totals \in Count
    /\ DOMAIN node \subseteq Pair \cup Word
    /\ filter \notin {"off", "totals"} => stored \in [DOMAIN node -> Count]
    /\ NodesInv
    /\ SpamNeedsEvidence
    /\ EvidenceIsUsed

(* The quotients of qry_spaminess.  s and h are the evidence for spam and  *)
(* ham, n the messages a token was seen in.                                *)
LEMMA Quotient ==
    ASSUME NEW a \in Nat, NEW b \in Nat \ {0}
    PROVE  \E q \in Nat, r \in Nat :
              /\ q = a \div b /\ r < b /\ a = b * q + r
<1>1. /\ a \div b \in Int /\ a % b \in 0 .. b - 1
      /\ a = b * (a \div b) + (a % b)
  OBVIOUS
<1>2. a \div b \in Nat
  <2>1. SUFFICES ASSUME a \div b <= -1 PROVE FALSE  BY <1>1
  <2>2. b * (a \div b) <= b * (-1)  BY <2>1, <1>1
  <2>3. QED  BY <2>2, <1>1
<1>3. QED  BY <1>1, <1>2

(* Above the radius there is more evidence for spam than for ham.          *)
LEMMA SpamQuotient ==
    ASSUME NEW s \in Nat, NEW h \in Nat, s + h # 0, NEW n \in Nat \ {0},
           (5200 + n * ((10000 * s) \div (s + h))) \div (1 + n) >= 8750
    PROVE  s > h
<1>1. PICK q \in Nat, r \in Nat :
         /\ q = (10000 * s) \div (s + h) /\ r < s + h
         /\ 10000 * s = (s + h) * q + r
  <2>1. 10000 * s \in Nat /\ s + h \in Nat \ {0}  OBVIOUS
  <2>2. QED  BY <2>1, Quotient
<1>2. PICK p \in Nat, x \in Nat :
         /\ p = (5200 + n * q) \div (1 + n) /\ x < 1 + n
         /\ 5200 + n * q = (1 + n) * p + x
  <2>1. 5200 + n * q \in Nat /\ 1 + n \in Nat \ {0}  OBVIOUS
  <2>2. QED  BY <2>1, Quotient
<1>3. p >= 8750  BY <1>1, <1>2
<1>4. (1 + n) * 8750 <= (1 + n) * p  BY <1>3
<1>5. 8750 * n + 3550 <= n * q  BY <1>2, <1>4
<1>6. q >= 8751
  <2>1. SUFFICES ASSUME q <= 8750 PROVE FALSE  OBVIOUS
  <2>2. n * q <= n * 8750  BY <2>1
  <2>3. QED  BY <2>2, <1>5
<1>7. (s + h) * 8751 <= (s + h) * q  BY <1>6
<1>8. (s + h) * 8751 <= 10000 * s  BY <1>1, <1>7
<1>9. QED  BY <1>8

(* With no less evidence for spam than for ham it is not below the radius. *)
LEMMA HamQuotient ==
    ASSUME NEW s \in Nat, NEW h \in Nat, s + h # 0, NEW n \in Nat \ {0}, h <= s
    PROVE  (5200 + n * ((10000 * s) \div (s + h))) \div (1 + n) >= 5000
<1>1. PICK q \in Nat, r \in Nat :
         /\ q = (10000 * s) \div (s + h) /\ r < s + h
         /\ 10000 * s = (s + h) * q + r
  <2>1. 10000 * s \in Nat /\ s + h \in Nat \ {0}  OBVIOUS
  <2>2. QED  BY <2>1, Quotient, SMTT(30)
<1>2. PICK p \in Nat, x \in Nat :
         /\ p = (5200 + n * q) \div (1 + n) /\ x < 1 + n
         /\ 5200 + n * q = (1 + n) * p + x
  <2>1. 5200 + n * q \in Nat /\ 1 + n \in Nat \ {0}  OBVIOUS
  <2>2. QED  BY <2>1, Quotient
<1>3. q >= 5000
  <2>1. SUFFICES ASSUME q + 1 <= 5000 PROVE FALSE  OBVIOUS
  <2>2. (s + h) * (q + 1) <= (s + h) * 5000  BY <2>1
  <2>3. (s + h) * (q + 1) = (s + h) * q + (s + h)  OBVIOUS
  <2>4. QED  BY <2>2, <2>3, <1>1
<1>4. n * 5000 <= n * q  BY <1>3
<1>5. p >= 5000
  <2>1. SUFFICES ASSUME p + 1 <= 5000 PROVE FALSE  OBVIOUS
  <2>2. (1 + n) * (p + 1) <= (1 + n) * 5000  BY <2>1
  <2>3. (1 + n) * (p + 1) = (1 + n) * p + (1 + n)  OBVIOUS
  <2>4. QED  BY <2>2, <2>3, <1>2, <1>4
<1>6. QED  BY <1>1, <1>2, <1>5

(* Four messages, all of them spam, are enough to be above it.             *)
LEMMA DamningQuotient ==
    ASSUME NEW s \in Nat \ {0}, NEW n \in Nat, n >= 4
    PROVE  (5200 + n * ((10000 * s) \div (s + 0))) \div (1 + n) >= 8750
<1>1. PICK q \in Nat, r \in Nat :
         /\ q = (10000 * s) \div (s + 0) /\ r < s
         /\ 10000 * s = s * q + r
  BY Quotient
<1>2. PICK p \in Nat, x \in Nat :
         /\ p = (5200 + n * q) \div (1 + n) /\ x < 1 + n
         /\ 5200 + n * q = (1 + n) * p + x
  <2>1. 5200 + n * q \in Nat /\ 1 + n \in Nat \ {0}  OBVIOUS
  <2>2. QED  BY <2>1, Quotient
<1>3. q >= 10000
  <2>1. SUFFICES ASSUME q + 1 <= 10000 PROVE FALSE  OBVIOUS
  <2>2. s * (q + 1) <= s * 10000  BY <2>1
  <2>3. s * (q + 1) = s * q + s  OBVIOUS
  <2>4. QED  BY <2>2, <2>3, <1>1
<1>4. n * 10000 <= n * q  BY <1>3
<1>5. p >= 8750
  <2>1. SUFFICES ASSUME p + 1 <= 8750 PROVE FALSE  OBVIOUS
  <2>2. (1 + n) * (p + 1) <= (1 + n) * 8750  BY <2>1
  <2>3. (1 + n) * (p + 1) = (1 + n) * p + (1 + n)  OBVIOUS
  <2>3z. PICK z \in Int : z = (1 + n) * p  BY <1>2
  <2>3y. PICK y \in Int : y = n * q  BY <1>1
  <2>5. z + (1 + n) <= 8750 * n + 8750  BY <2>2, <2>3, <2>3z
  <2>6. 5200 + y = z + x /\ 10000 * n <= y /\ x <= n
    BY <2>3z, <2>3y, <1>2, <1>4
  <2>7. 5200 + 10000 * n < 8750 * n + 8750  BY <2>5, <2>6
  <2>8. QED  BY <2>7
<1>6. QED  BY <1>1, <1>2, <1>5

NodeType == [nham : Nat, nspam : Nat, p : Nat]

(* A token that was not looked up says nothing, unless it is a mark.       *)
LEMMA AddedIs ==
    ASSUME NEW t
    PROVE  /\ Added(t) \in NodeType
           /\ Added(t).nham = 0 /\ Added(t).nspam = 0
           /\ Added(t).p \in {5000, 9999}
           /\ Rated(Added(t)) = Added(t)
           /\ ~Hammy(Added(t).p)
           /\ Spammy(Added(t).p) => t \in Suspect
<1> DEFINE mark == [Fresh EXCEPT !.p = 9999]
<1>1. /\ Fresh \in NodeType /\ Fresh.nham = 0 /\ Fresh.nspam = 0
      /\ Fresh.p = 5000
  BY SMTT(30) DEF Fresh, NodeType
<1>2. /\ mark \in NodeType /\ mark.nham = 0 /\ mark.nspam = 0
      /\ mark.p = 9999
  BY SMTT(30) DEF Fresh, NodeType
<1>3. (Added(t) = mark /\ t \in Suspect) \/ Added(t) = Fresh
  BY SMTT(30) DEF Added
<1> HIDE DEF mark
<1>4. /\ ~Spammy(5000) /\ ~Hammy(5000) /\ ~Hammy(9999)
  BY SMTT(30) DEF Spammy, Hammy, Radius
<1>5. ASSUME NEW n, n.nham = 0, n.nspam = 0 PROVE Rated(n) = n
  BY <1>5, SMTT(30) DEF Rated
<1>6. CASE Added(t) = Fresh
  BY <1>1, <1>4, <1>5, <1>6, SMTT(30)
<1>7. CASE Added(t) = mark /\ t \in Suspect
  BY <1>2, <1>4, <1>5, <1>7, SMTT(30)
<1>8. QED  BY <1>3, <1>6, <1>7

(* updatenode, the first and only time.                                    *)
LEMMA FetchedIs ==
    ASSUME NEW t, NEW c \in Count
    PROVE  Fetched(Added(t), c) =
              [nham |-> c.nham, nspam |-> c.nspam, p |-> Added(t).p]
<1>1. c.nham \in Nat /\ c.nspam \in Nat  BY DEF Count
<1>0. /\ Added(t) \in NodeType
      /\ Added(t).nham = 0 /\ Added(t).nspam = 0
  BY AddedIs, SMTT(30)
<1>2. PICK n \in NodeType : n = Added(t)  BY <1>0, Zenon
<1>n. n.nham = 0 /\ n.nspam = 0  BY <1>0, <1>2, SMTT(30)
<1>3. n.nham + c.nham \in Nat /\ n.nspam + c.nspam \in Nat
  BY <1>1, <1>n, SMTT(30)
<1>4. \A x \in Nat, y \in Nat :
         [n EXCEPT !.nham = x, !.nspam = y] \in NodeType
  BY DEF NodeType
<1>5. Fetched(n, c) \in NodeType  BY <1>3, <1>4 DEF Fetched
<1>6. /\ Fetched(n, c).nham = n.nham + c.nham
      /\ Fetched(n, c).nspam = n.nspam + c.nspam
      /\ Fetched(n, c).p = n.p
  <2>1. Fetched(n, c).nham = n.nham + c.nham  BY <1>1 DEF NodeType, Fetched
  <2>2. Fetched(n, c).nspam = n.nspam + c.nspam  BY <1>1 DEF NodeType, Fetched
  <2>3. Fetched(n, c).p = n.p  BY <1>1 DEF NodeType, Fetched
  <2>4. QED  BY <2>1, <2>2, <2>3
<1>7. Fetched(n, c).nham = c.nham /\ Fetched(n, c).nspam = c.nspam
  BY <1>1, <1>n, <1>6, SMTT(30)
<1>8. ASSUME NEW k \in NodeType
      PROVE  k = [nham |-> k.nham, nspam |-> k.nspam, p |-> k.p]
  BY DEF NodeType
<1> DEFINE k == Fetched(n, c)
<1>9. k = [nham |-> k.nham, nspam |-> k.nspam, p |-> k.p]  BY <1>5, <1>8
<1>10. k.nham = c.nham /\ k.nspam = c.nspam /\ k.p = n.p
  BY <1>6, <1>7
<1> HIDE DEF k
<1>11. k = [nham |-> c.nham, nspam |-> c.nspam, p |-> n.p]  BY <1>9, <1>10, SMTT(30)
<1>12. QED  BY <1>2, <1>11, SMTT(30) DEF k

(* Numbers within the limits of qry_spaminess are odds, and so is none.    *)
LEMMA OddsAre ==
    /\ \A x \in Int : 1 <= x /\ x <= 9999 => x \in Odds
    /\ NotANumber \in Odds
  BY SMTT(30) DEF Odds

(* What a row of the table makes of a node, and what it says of the token. *)
LEMMA KnownIs ==
    ASSUME NEW t, stored[t] \in Count, totals \in Count
    PROVE  /\ Rated(Known(t)) = Known(t)
           /\ Known(t).p \in Odds
           /\ Spammy(Known(t).p) =>
                 \/ InSpam(t) > InHam(t)
                 \/ t \in Suspect /\ Known(t).nham + Known(t).nspam = 0
           /\ InHam(t) <= InSpam(t) => ~Hammy(Known(t).p)
           /\ (/\ stored[t].nspam >= 4 /\ stored[t].nham = 0
               /\ totals.nham > 0) => Spammy(Known(t).p)
<1> DEFINE c == stored[t]
           s == c.nspam * totals.nham
           h == c.nham * totals.nspam
           n == c.nham + c.nspam
           f == Fetched(Added(t), c)
           p == (RobX + n * ((10000 * s) \div (s + h))) \div (1 + n)
           goal == /\ Rated(Known(t)) = Known(t)
                   /\ Known(t).p \in Odds
                   /\ Spammy(Known(t).p) =>
                         \/ InSpam(t) > InHam(t)
                         \/ /\ t \in Suspect
                            /\ Known(t).nham + Known(t).nspam = 0
                   /\ InHam(t) <= InSpam(t) => ~Hammy(Known(t).p)
                   /\ (/\ stored[t].nspam >= 4 /\ stored[t].nham = 0
                       /\ totals.nham > 0) => Spammy(Known(t).p)
<1>1. /\ c.nham \in Nat /\ c.nspam \in Nat
      /\ totals.nham \in Nat /\ totals.nspam \in Nat
  BY SMTT(30) DEF Count
<1>2. s \in Nat /\ h \in Nat /\ n \in Nat  BY <1>1, SMTT(30)
<1>3. f = [nham |-> c.nham, nspam |-> c.nspam, p |-> Added(t).p]
  BY FetchedIs, SMTT(30)
<1>4. /\ InSpam(t) = s /\ InHam(t) = h  BY SMTT(30) DEF InSpam, InHam
<1>5. Spaminess(f) = IF s + h = 0 THEN NotANumber ELSE Clamped(p)
  BY <1>3, SMTT(30) DEF Spaminess
<1>6. Known(t) = IF n > 0 THEN [f EXCEPT !.p = Spaminess(f)] ELSE f
  BY <1>3, SMTT(30) DEF Known, Rated
<1> HIDE DEF s, h, n, f, p, c, goal
<1>7. ASSUME n = 0 PROVE goal
  <2>1. Known(t) = f /\ Known(t).p = Added(t).p  BY <1>3, <1>6, <1>7, SMTT(30)
  <2>2. f.nham + f.nspam = n  BY <1>3, SMTT(30) DEF n
  <2>3. Rated(f) = f  BY <2>2, <1>7, SMTT(30) DEF Rated
  <2>4. c.nspam = 0  BY <1>1, <1>7, SMTT(30) DEF n
  <2>5. ~(stored[t].nspam >= 4)  BY <2>4, SMTT(30) DEF c
  <2>6. Spammy(Added(t).p) => t \in Suspect  BY AddedIs, SMTT(30)
  <2>7. ~Hammy(Added(t).p)  BY AddedIs, SMTT(30)
  <2>8. Known(t).p \in Odds
    <3>1. Added(t).p \in {5000, 9999}  BY AddedIs, SMTT(30)
    <3>2. 5000 \in Odds /\ 9999 \in Odds  BY OddsAre, SMTT(30)
    <3>3. QED  BY <2>1, <3>1, <3>2, SMTT(30)
  <2>9. Known(t).nham + Known(t).nspam = 0  BY <2>1, <2>2, <1>7, SMTT(30)
  <2>10. QED  BY <2>1, <2>3, <2>5, <2>6, <2>7, <2>8, <2>9, SMTT(30) DEF goal
<1>8. ASSUME n # 0 PROVE goal
  <2>1. Known(t) = [f EXCEPT !.p = Spaminess(f)]
    BY <1>2, <1>6, <1>8, SMTT(30)
  <2>2. /\ Known(t) = [nham |-> c.nham, nspam |-> c.nspam, p |-> Spaminess(f)]
        /\ Known(t).p = Spaminess(f)
    BY <2>1, <1>3, SMTT(30)
  <2>3. Rated(Known(t)) = Known(t)
    <3>1. Known(t).nham = c.nham /\ Known(t).nspam = c.nspam
      BY <2>2, SMTT(30)
    <3>2. Known(t).nham + Known(t).nspam > 0
      BY <3>1, <1>1, <1>2, <1>8, SMTT(30) DEF n
    <3>3. Spaminess(Known(t)) = Spaminess(f)
      BY <3>1, <1>3, SMTT(30) DEF Spaminess
    <3>4. [Known(t) EXCEPT !.p = Spaminess(f)] = Known(t)  BY <2>2, SMTT(30)
    <3>5. QED  BY <3>2, <3>3, <3>4, SMTT(30) DEF Rated
  <2>4. ASSUME s + h = 0 PROVE goal
    <3>1. Known(t).p = NotANumber  BY <2>2, <2>4, <1>5, SMTT(30)
    <3>2. ~Spammy(NotANumber) /\ ~Hammy(NotANumber)
      BY SMTT(30) DEF Spammy, Hammy, NotANumber, Radius
    <3>3. ~(c.nspam >= 4 /\ totals.nham > 0)
      <4>1. SUFFICES ASSUME c.nspam >= 4, totals.nham > 0 PROVE FALSE  OBVIOUS
      <4>2. c.nspam * totals.nham > 0  BY <4>1, <1>1, SMTT(30)
      <4>3. QED  BY <4>2, <2>4, <1>2, SMTT(30) DEF s
    <3>4. Known(t).p \in Odds  BY <3>1, OddsAre, SMTT(30)
    <3>5. QED  BY <3>1, <3>2, <3>3, <3>4, <2>3, SMTT(30) DEF c, goal
  <2>5. ASSUME s + h # 0 PROVE goal
    <3>1. Known(t).p = Clamped(p)  BY <2>2, <2>5, <1>5, SMTT(30)
    <3>2. p \in Int
      <4>1. (10000 * s) \div (s + h) \in Int  BY <2>5, <1>2, SMTT(30)
      <4>2. 5200 + n * ((10000 * s) \div (s + h)) \in Int /\ 1 + n \in Nat \ {0}
        BY <4>1, <1>2, SMTT(30)
      <4>3. QED  BY <4>2, SMTT(30) DEF p, RobX
    <3>3. /\ Clamped(p) \in Int /\ 1 <= Clamped(p) /\ Clamped(p) <= 9999
          /\ Clamped(p) >= 8750 <=> p >= 8750
          /\ Clamped(p) <= 1250 <=> p <= 1250
      BY <3>2, SMTT(30) DEF Clamped
    <3>4. /\ Spammy(Clamped(p)) <=> p >= 8750
          /\ Hammy(Clamped(p)) <=> p <= 1250
      <4>1. PICK k \in Int : k = Clamped(p) /\ k <= 9999  BY <3>3, SMTT(30)
      <4>2. Spammy(k) <=> k >= 8750  BY <4>1, SMTT(30) DEF Spammy, Radius, NotANumber
      <4>3. Hammy(k) <=> k <= 1250  BY SMTT(30) DEF Hammy, Radius
      <4>4. QED  BY <3>3, <4>1, <4>2, <4>3, SMTT(30)
    <3>5. p >= 8750 => s > h
      BY <1>2, <1>8, <2>5, SpamQuotient, SMTT(30) DEF p, RobX
    <3>6. h <= s => p >= 5000
      BY <1>2, <1>8, <2>5, HamQuotient, SMTT(30) DEF p, RobX
    <3>7. (c.nspam >= 4 /\ c.nham = 0 /\ totals.nham > 0) => p >= 8750
      <4>1. SUFFICES ASSUME c.nspam >= 4, c.nham = 0, totals.nham > 0
                     PROVE  p >= 8750
        OBVIOUS
      <4>2. h = 0 /\ n = c.nspam  BY <4>1, <1>1, SMTT(30) DEF h, n
      <4>3. s \in Nat \ {0} /\ n >= 4  BY <4>1, <4>2, <1>2, <2>5, SMTT(30)
      <4>4. QED  BY <4>2, <4>3, <1>2, DamningQuotient, SMTT(30) DEF p, RobX
    <3>8. h <= s => ~(p <= 1250)  BY <3>2, <3>6, SMTT(30)
    <3>9. Known(t).p \in Odds  BY <3>1, <3>3, OddsAre, SMTT(30)
    <3>10. Spammy(Known(t).p) => InSpam(t) > InHam(t)
      BY <3>1, <3>4, <3>5, <1>4, SMTT(30)
    <3>11. InHam(t) <= InSpam(t) => ~Hammy(Known(t).p)
      BY <3>1, <3>4, <3>8, <1>4, SMTT(30)
    <3>12. (c.nspam >= 4 /\ c.nham = 0 /\ totals.nham > 0)
              => Spammy(Known(t).p)
      BY <3>1, <3>4, <3>7, SMTT(30)
    <3>13. QED  BY <3>9, <3>10, <3>11, <3>12, <2>3, SMTT(30) DEF c, goal
  <2>6. QED  BY <2>4, <2>5, SMTT(30)
<1>9. goal  BY <1>7, <1>8, SMTT(30)
<1>10. QED  BY <1>9, SMTT(30) DEF goal

(* The verdict over nodes that the table, or nothing, has rated.           *)
Sound(f) ==
    /\ DOMAIN f \subseteq Pair \cup Word
    /\ stored \in [DOMAIN f -> Count]
    /\ \A t \in DOMAIN f : f[t] \in {Added(t), Known(t)}

(* What SpamNeedsEvidence asks for.                                        *)
Evident(f) ==
    \/ penalties # {}
    \/ \E t \in DOMAIN stored : InSpam(t) > InHam(t)
    \/ \E t \in Suspect \cap DOMAIN f : f[t].nham + f[t].nspam = 0

(* "spam" takes a penalty, a token with more evidence for it, or a mark    *)
(* that nothing is known of.                                               *)
LEMMA SpamVerdict ==
    ASSUME NEW f, Sound(f), totals \in Count, "spam" \in Verdicts(f)
    PROVE  Evident(f)
<1> SUFFICES ASSUME penalties = {} PROVE Evident(f)
  BY DEF Evident
<1>1. PICK t \in DOMAIN f : Spammy(f[t].p)
  <2>1. SUFFICES ASSUME {t \in DOMAIN f : Spammy(f[t].p)} = {} PROVE FALSE
    OBVIOUS
  <2>2. Verdicts(f) \subseteq {"unsure", "ham"}  BY <2>1 DEF Verdicts
  <2>3. QED  BY <2>2
<1>2. t \in DOMAIN stored /\ stored[t] \in Count  BY SMTT(30) DEF Sound
<1>3. \/ InSpam(t) > InHam(t)
      \/ t \in Suspect /\ f[t].nham + f[t].nspam = 0
  <2>1. CASE f[t] = Added(t)
    <3>1. t \in Suspect /\ f[t].nham = 0 /\ f[t].nspam = 0
      BY <2>1, <1>1, AddedIs
    <3>2. 0 + 0 = 0  OBVIOUS
    <3>3. QED  BY <3>1, <3>2
  <2>2. CASE f[t] = Known(t)  BY <2>2, <1>1, <1>2, KnownIs, SMTT(30)
  <2>3. QED  BY <2>1, <2>2 DEF Sound
<1>4. QED  BY <1>2, <1>3 DEF Evident

(* Where no token has more evidence for ham the verdict is "spam" or, when *)
(* too few tokens point there, "unsure".                                   *)
LEMMA NoHamVerdict ==
    ASSUME NEW f, Sound(f), totals \in Count,
           \A t \in DOMAIN stored : InHam(t) <= InSpam(t)
    PROVE  /\ Verdicts(f) \subseteq {"unsure", "spam"}
           /\ (/\ Cardinality(Damning) > 1 /\ totals.nham > 0
               /\ \A t \in Damning : f[t] = Known(t)) => Verdicts(f) = {"spam"}
<1> DEFINE spammy == {t \in DOMAIN f : Spammy(f[t].p)}
           hammy  == {t \in DOMAIN f : Hammy(f[t].p)}
<1>1. DOMAIN stored = DOMAIN f /\ \A t \in DOMAIN f : stored[t] \in Count
  BY DEF Sound
<1>2. hammy = {}
  <2>1. SUFFICES ASSUME NEW t \in DOMAIN f PROVE ~Hammy(f[t].p)  OBVIOUS
  <2>2. CASE f[t] = Added(t)  BY <2>2, AddedIs, SMTT(30)
  <2>3. CASE f[t] = Known(t)  BY <2>3, <1>1, KnownIs, SMTT(30)
  <2>4. QED  BY <2>2, <2>3 DEF Sound
<1>3. Verdicts(f) \subseteq {"unsure", "spam"}
  BY <1>2 DEF Verdicts
<1>4. ASSUME Cardinality(Damning) > 1, totals.nham > 0,
             \A t \in Damning : f[t] = Known(t)
      PROVE  Verdicts(f) = {"spam"}
  <2>1. Damning \subseteq spammy
    <3>1. SUFFICES ASSUME NEW t \in Damning PROVE t \in spammy  OBVIOUS
    <3>2. t \in DOMAIN f /\ stored[t].nspam >= 4 /\ stored[t].nham = 0
      BY <1>1, SMTT(30) DEF Damning
    <3>3. Spammy(Known(t).p)  BY <3>2, <1>1, <1>4, KnownIs, SMTT(30)
    <3>4. QED  BY <3>2, <3>3, <1>4
  <2>2. IsFiniteSet(spammy)
    <3>1. IsFiniteSet(Pair \cup Word)
      BY ClassifierAssumption, FS_Union DEF ClassifierAssumption
    <3>2. spammy \subseteq Pair \cup Word  BY DEF Sound
    <3>3. QED  BY <3>1, <3>2, FS_Subset
  <2>3. /\ Cardinality(Damning) <= Cardinality(spammy)
        /\ Cardinality(Damning) \in Nat /\ Cardinality(spammy) \in Nat
    BY <2>1, <2>2, FS_Subset, FS_CardinalityType
  <2>4. Cardinality(spammy) > 1  BY <2>3, <1>4
  <2>5. Cardinality(spammy) # 1  BY <2>4
  <2>6. spammy # {}  BY <2>4, FS_EmptySet
  <2>7. QED  BY <2>5, <2>6, <1>2 DEF Verdicts
<1>5. QED  BY <1>3, <1>4

(* The counters, and what the tables hold.                                 *)
LEMMA QueryTotalsHolds ==
    ASSUME FilterInv, QueryTotals
    PROVE  FilterInv'
<1>1. totals' \in Count
  BY ClassifierAssumption
  DEF QueryTotals, ClassifierAssumption, Count, Zero
<1>2. stored' \in [DOMAIN node -> Count]
  BY ClassifierAssumption DEF QueryTotals, ClassifierAssumption, Count
<1>3. /\ node' = node /\ filter' \in {"unsure", "pairs"}
      /\ filter' = "unsure" => totals' = Zero
      /\ \A t \in DOMAIN node : node[t] = Added(t)
  BY DEF QueryTotals, FilterInv, NodesInv
<1>4. NodesInv'  BY <1>3 DEF NodesInv
<1>5. SpamNeedsEvidence'  BY <1>3 DEF SpamNeedsEvidence
<1>6. EvidenceIsUsed'
  <2>1. SUFFICES ASSUME Judged', totals'.nham > 0 PROVE FALSE
    BY DEF EvidenceIsUsed
  <2>2. filter' = "unsure"  BY <2>1, <1>3 DEF Judged
  <2>3. totals'.nham = 0  BY <2>2, <1>3 DEF Zero
  <2>4. QED  BY <2>1, <2>3
<1>7. DOMAIN node' \subseteq Pair \cup Word  BY <1>3 DEF FilterInv
<1>8. filter' \in {"off", "totals", "pairs", "words", "ham", "unsure", "spam"}
  BY <1>3
<1>9. stored' \in [DOMAIN node' -> Count]  BY <1>2, <1>3
<1>10. QED  BY <1>1, <1>4, <1>5, <1>6, <1>7, <1>8, <1>9 DEF FilterInv

(* The rows and counters do not change while they are judged.              *)
LEMMA SameEvidence ==
    ASSUME UNCHANGED <<stored, totals>>
    PROVE  /\ \A t : Known(t)' = Known(t)
           /\ \A t : InHam(t)' = InHam(t) /\ InSpam(t)' = InSpam(t)
           /\ Damning' = Damning
  BY DEF Known, Rated, Spaminess, InHam, InSpam, Damning

(* The first round: pairs become known, words stay as they are.            *)
LEMMA JudgePairsHolds ==
    ASSUME FilterInv, JudgePairs
    PROVE  FilterInv'
<1>t. /\ filter = "pairs" /\ totals \in Count
      /\ DOMAIN node \subseteq Pair \cup Word
      /\ stored \in [DOMAIN node -> Count]
      /\ \A t \in DOMAIN node : node[t] = Added(t)
  BY DEF JudgePairs, FilterInv, NodesInv
<1>u. UNCHANGED <<stored, totals, penalties>>  BY DEF JudgePairs
<1>f. PICK f : f = node'  OBVIOUS
<1>1. /\ DOMAIN f = DOMAIN node
      /\ \A t \in DOMAIN node : f[t] \in {Added(t), Known(t)}
      /\ \A t \in Word \cap DOMAIN node : f[t] = Added(t)
      /\ ~failed' => \A t \in Pair \cap DOMAIN node : f[t] = Known(t)
  <2>1. CASE node' = [t \in DOMAIN node |->
                         Rated(IF t \in Pair \cap DOMAIN node
                               THEN Fetched(node[t], stored[t]) ELSE node[t])]
    <3>1. DOMAIN f = DOMAIN node  BY <2>1, <1>f
    <3>2. ASSUME NEW t \in DOMAIN node, t \in Pair PROVE f[t] = Known(t)
      BY <2>1, <3>2, <1>f, <1>t DEF Known
    <3>3. ASSUME NEW t \in DOMAIN node, t \notin Pair PROVE f[t] = Added(t)
      BY <2>1, <3>3, <1>f, <1>t, AddedIs
    <3>4. Pair \cap Word = {}
      BY ClassifierAssumption DEF ClassifierAssumption
    <3>5. QED  BY <3>1, <3>2, <3>3, <3>4
  <2>2. CASE node' = [t \in DOMAIN node |-> Rated(node[t])] /\ failed' = TRUE
    BY <2>2, <1>f, <1>t, AddedIs
  <2>3. QED  BY <2>1, <2>2 DEF JudgePairs, Query
<1>2. PICK v \in Verdicts(f) : filter' = IF v = "unsure" THEN "words" ELSE v
  BY <1>f DEF JudgePairs
<1>3. Sound(f)  BY <1>1, <1>t DEF Sound
<1>4. v \in {"ham", "unsure", "spam"}  BY DEF Verdicts
<1>5. filter' \in {"words", "ham", "spam"}  BY <1>2, <1>4
<1>6. NodesInv'
  BY <1>1, <1>5, <1>f, <1>u, SameEvidence DEF NodesInv
<1>7. SpamNeedsEvidence'
  <2>1. SUFFICES ASSUME filter' = "spam"
                 PROVE  Evident(f)
    BY <1>u, <1>f, SameEvidence DEF SpamNeedsEvidence, Evident
  <2>2. v = "spam"  BY <2>1, <1>2
  <2>3. QED  BY <2>2, <1>3, <1>t, SpamVerdict
<1>8. EvidenceIsUsed'
  <2>1. SUFFICES ASSUME filter' \in {"ham", "spam"},
                        \A t \in DOMAIN stored : InHam(t) <= InSpam(t)
                 PROVE  filter' = "spam"
    BY <1>5, <1>u, SameEvidence DEF EvidenceIsUsed, Judged
  <2>2. Verdicts(f) \subseteq {"unsure", "spam"}
    BY <2>1, <1>3, <1>t, NoHamVerdict
  <2>3. QED  BY <2>1, <2>2, <1>2
<1>9. DOMAIN node' \subseteq Pair \cup Word /\ stored' \in [DOMAIN node' -> Count]
  BY <1>1, <1>f, <1>t, <1>u
<1>10. totals' \in Count  BY <1>t, <1>u
<1>11. QED  BY <1>5, <1>6, <1>7, <1>8, <1>9, <1>10 DEF FilterInv

(* The second round: words become known, pairs are rated again, as before. *)
LEMMA JudgeWordsHolds ==
    ASSUME FilterInv, JudgeWords
    PROVE  FilterInv'
<1>t. /\ filter = "words" /\ totals \in Count
      /\ DOMAIN node \subseteq Pair \cup Word
      /\ stored \in [DOMAIN node -> Count]
      /\ \A t \in DOMAIN node : node[t] = Added(t) \/ node[t] = Known(t)
      /\ \A t \in Word \cap DOMAIN node : node[t] = Added(t)
      /\ ~failed => \A t \in Pair \cap DOMAIN node : node[t] = Known(t)
  BY DEF JudgeWords, FilterInv, NodesInv
<1>u. UNCHANGED <<stored, totals, penalties>>  BY DEF JudgeWords
<1>r. \A t \in DOMAIN node : Rated(node[t]) = node[t]
  <2>1. SUFFICES ASSUME NEW t \in DOMAIN node PROVE Rated(node[t]) = node[t]
    OBVIOUS
  <2>2. stored[t] \in Count  BY <1>t, SMTT(30)
  <2>3. Rated(Known(t)) = Known(t)  BY <2>2, <1>t, KnownIs, SMTT(30)
  <2>4. QED  BY <2>3, <1>t, AddedIs
<1>f. PICK f : f = node'  OBVIOUS
<1>1. /\ DOMAIN f = DOMAIN node
      /\ \A t \in DOMAIN node : f[t] \in {Added(t), Known(t)}
      /\ ~failed' => \A t \in DOMAIN node : f[t] = Known(t)
  <2>1. CASE /\ node' = [t \in DOMAIN node |->
                            Rated(IF t \in Word \cap DOMAIN node
                                  THEN Fetched(node[t], stored[t]) ELSE node[t])]
             /\ failed' = failed
    <3>1. DOMAIN f = DOMAIN node  BY <2>1, <1>f
    <3>2. ASSUME NEW t \in DOMAIN node, t \in Word PROVE f[t] = Known(t)
      BY <2>1, <3>2, <1>f, <1>t DEF Known
    <3>3. ASSUME NEW t \in DOMAIN node, t \notin Word PROVE f[t] = node[t]
      BY <2>1, <3>3, <1>f, <1>r
    <3>4. ASSUME ~failed', NEW t \in DOMAIN node PROVE f[t] = Known(t)
      <4>1. CASE t \in Word  BY <4>1, <3>2
      <4>2. CASE t \notin Word
        <5>1. t \in Pair \cap DOMAIN node  BY <4>2, <1>t
        <5>2. ~failed  BY <3>4, <2>1
        <5>3. QED  BY <4>2, <5>1, <5>2, <3>3, <1>t
      <4>3. QED  BY <4>1, <4>2
    <3>5. \A t \in DOMAIN node : f[t] \in {Added(t), Known(t)}
      BY <3>2, <3>3, <1>t
    <3>6. QED  BY <3>1, <3>4, <3>5
  <2>2. CASE node' = [t \in DOMAIN node |-> Rated(node[t])] /\ failed' = TRUE
    BY <2>2, <1>f, <1>t, <1>r
  <2>3. QED  BY <2>1, <2>2 DEF JudgeWords, Query
<1>2. filter' \in Verdicts(f)  BY <1>f DEF JudgeWords
<1>3. Sound(f)  BY <1>1, <1>t DEF Sound
<1>4. filter' \in {"ham", "unsure", "spam"}  BY <1>2 DEF Verdicts
<1>5. NodesInv'  BY <1>1, <1>4, <1>f, <1>u, SameEvidence DEF NodesInv
<1>6. SpamNeedsEvidence'
  <2>1. SUFFICES ASSUME filter' = "spam"
                 PROVE  Evident(f)
    BY <1>u, <1>f, SameEvidence DEF SpamNeedsEvidence, Evident
  <2>2. QED  BY <2>1, <1>2, <1>3, <1>t, SpamVerdict
<1>7. EvidenceIsUsed'
  <2>1. SUFFICES ASSUME ~failed', totals.nham > 0, Cardinality(Damning) > 1,
                        \A t \in DOMAIN stored : InHam(t) <= InSpam(t)
                 PROVE  filter' = "spam"
    BY <1>u, SameEvidence DEF EvidenceIsUsed
  <2>2. \A t \in Damning : f[t] = Known(t)
    BY <2>1, <1>1, <1>t DEF Damning
  <2>3. Verdicts(f) = {"spam"}
    BY <2>1, <2>2, <1>3, <1>t, NoHamVerdict
  <2>4. QED  BY <2>3, <1>2
<1>8. DOMAIN node' \subseteq Pair \cup Word /\ stored' \in [DOMAIN node' -> Count]
  BY <1>1, <1>f, <1>t, <1>u
<1>9. totals' \in Count  BY <1>t, <1>u
<1>10. QED  BY <1>4, <1>5, <1>6, <1>7, <1>8, <1>9 DEF FilterInv

(* A message's tokens are hashed; a hash is cleared.                       *)
LEMMA StartFilterHolds ==
    ASSUME FilterInv, NEW tokens, tokens \subseteq Pair \cup Word, NEW flags,
           StartFilter(tokens, flags)
    PROVE  FilterInv'
<1>1. /\ filter' = "totals" /\ totals' = totals
      /\ DOMAIN node' = tokens /\ \A t \in tokens : node'[t] = Added(t)
  BY DEF StartFilter
<1>2. NodesInv'  BY <1>1 DEF NodesInv
<1>3. SpamNeedsEvidence' /\ EvidenceIsUsed'
  BY <1>1 DEF SpamNeedsEvidence, EvidenceIsUsed, Judged
<1>4. QED  BY <1>1, <1>2, <1>3 DEF FilterInv

(* Without a hash there is nothing to judge.                               *)
LEMMA NoFilter ==
    ASSUME filter = "off", totals = Zero, node = <<>>
    PROVE  FilterInv
<1>1. DOMAIN node = {}  OBVIOUS
<1>2. NodesInv  BY <1>1 DEF NodesInv
<1>3. Zero \in Count  BY DEF Zero, Count
<1>4. SpamNeedsEvidence /\ EvidenceIsUsed
  BY DEF SpamNeedsEvidence, EvidenceIsUsed, Judged
<1>5. QED  BY <1>1, <1>2, <1>3, <1>4 DEF FilterInv

(* clearhash: the next message finds an empty one.                         *)
LEMMA ClearHashHolds == ClearHash => FilterInv'
<1> SUFFICES ASSUME ClearHash PROVE FilterInv'  OBVIOUS
<1>0. filter' = "off" /\ totals' = Zero /\ node' = <<>>  BY DEF ClearHash
<1>1. DOMAIN node' = {}  BY <1>0
<1>2. NodesInv'  BY <1>1, <1>0 DEF NodesInv
<1>3. Zero \in Count  BY DEF Zero, Count
<1>4. SpamNeedsEvidence' /\ EvidenceIsUsed'
  BY <1>0 DEF SpamNeedsEvidence, EvidenceIsUsed, Judged
<1>5. QED  BY <1>0, <1>1, <1>2, <1>3, <1>4 DEF FilterInv

(* Every step of the filter.                                               *)
LEMMA FilterHolds ==
    ASSUME FilterInv, FilterStep
    PROVE  FilterInv'
  BY QueryTotalsHolds, JudgePairsHolds, JudgeWordsHolds DEF FilterStep

-----------------------------------------------------------------------------
(* Parser                                                                  *)

(* What is in a line does not matter here: body and levels are sequences   *)
(* of anything.                                                            *)
IsSequence(s) == s \in Seq(ToSet(s))

MsgShape(msg) ==
    /\ DOMAIN msg = DOMAIN EmptyMessage
    /\ msg = [k \in DOMAIN msg |-> msg[k]]
    /\ IsSequence(msg.body)
    /\ msg.used \in Nat /\ msg.attached \in Nat
    /\ Len(msg.body) <= msg.used /\ msg.used <= BodyRoom
    /\ msg.attached <= MaxAttachments

(* A call of extract_mime_parts stands before the end of its part.         *)
LevelShape(l) ==
    /\ l = [b |-> l.b, at |-> l.at, hi |-> l.hi]
    /\ l.at \in Nat /\ l.hi \in Nat /\ l.at < l.hi

LevelsShape(s) == IsSequence(s) /\ \A i \in DOMAIN s : LevelShape(s[i])

ParserInv ==
    /\ Len(text) \in Nat
    /\ MsgShape(m)
    /\ LevelsShape(levels)

(* A sequence over any set is one over its own elements.                   *)
LEMMA OwnElements ==
    ASSUME NEW S, NEW s \in Seq(S)
    PROVE  IsSequence(s)
<1>1. DOMAIN s = 1 .. Len(s) /\ Len(s) \in Nat  BY LenProperties
<1>2. \A i \in 1 .. Len(s) : s[i] \in ToSet(s)  BY <1>1 DEF ToSet
<1>3. s = [i \in 1 .. Len(s) |-> s[i]]  BY LenProperties
<1>4. s \in [1 .. Len(s) -> ToSet(s)]  BY <1>2, <1>3
<1>5. QED  BY <1>1, <1>4, SeqDef DEF IsSequence

(* An element more behind a sequence of anything.                          *)
LEMMA AppendIs ==
    ASSUME NEW s, IsSequence(s), NEW x
    PROVE  /\ IsSequence(Append(s, x))
           /\ Len(s) \in Nat /\ Len(Append(s, x)) = Len(s) + 1
<1> DEFINE S == ToSet(s) \cup {x}
           a == Append(s, x)
<1>1. s \in Seq(S) /\ x \in S
  <2>1. s \in Seq(ToSet(s)) /\ ToSet(s) \subseteq S  BY DEF IsSequence
  <2>2. QED  BY <2>1, SeqMonotonic
<1> HIDE DEF S
<1>2. a \in Seq(S) /\ Len(a) = Len(s) + 1  BY <1>1, AppendProperties
<1>3. Len(s) \in Nat  BY <1>1, LenProperties
<1> HIDE DEF a
<1>4. IsSequence(a)  BY <1>2, OwnElements
<1>5. QED  BY <1>2, <1>3, <1>4 DEF a

(* What comes in is appended when it fits (APPENDTOBODY), and then the     *)
(* body holds no more than is used of it.                                  *)
LEMMA AppendedHolds ==
    ASSUME NEW msg, MsgShape(msg), NEW v, NEW size \in 1 .. BodyRoom
    PROVE  MsgShape(Appended(v, size, msg))
<1>b. BodyRoom \in Nat  BY ParserAssumption DEF ParserAssumption
<1>1. CASE msg.used + size <= BodyRoom
  <2> DEFINE a == Append(msg.body, v)
             n == [msg EXCEPT !.body = Append(@, v), !.used = @ + size]
  <2>1. /\ IsSequence(a) /\ Len(msg.body) \in Nat
        /\ Len(a) = Len(msg.body) + 1
    BY AppendIs DEF MsgShape
  <2>2. /\ DOMAIN msg = {"body", "used", "attached", "octet", "image",
                         "watermark", "signo", "from", "rcpts"}
    BY DEF MsgShape, EmptyMessage
  <2>3. /\ DOMAIN n = DOMAIN msg /\ n = [k \in DOMAIN n |-> n[k]]
        /\ n.body = a /\ n.used = msg.used + size /\ n.attached = msg.attached
    BY <2>2
  <2> HIDE DEF a, n
  <2>4. PICK u \in Nat, l \in Nat : u = msg.used /\ l = Len(msg.body)
    BY <2>1 DEF MsgShape
  <2>5. l <= u /\ u + size <= BodyRoom  BY <2>4, <1>1 DEF MsgShape
  <2>6. u + size \in Nat /\ l + 1 <= u + size  BY <2>5, <1>b
  <2>7. MsgShape(n)
    BY <2>1, <2>3, <2>4, <2>5, <2>6 DEF MsgShape
  <2>8. QED  BY <2>7, <1>1 DEF Appended, n
<1>2. CASE ~(msg.used + size <= BodyRoom)
  BY <1>2 DEF Appended
<1>3. QED  BY <1>1, <1>2

(* The text up to the end of a part.                                       *)
LEMMA AppendedTextHolds ==
    ASSUME NEW msg, MsgShape(msg), NEW lo, NEW hi
    PROVE  MsgShape(AppendedText(lo, hi, msg))
<1> DEFINE i == Find("text", lo, hi)
<1>1. TextSize(text[i][2]) \in 1 .. BodyRoom
  BY ParserAssumption DEF ParserAssumption, TextSize
<1>2. MsgShape(Appended(text[i][3], TextSize(text[i][2]), msg))
  BY <1>1, AppendedHolds
<1> HIDE DEF i
<1>3. AppendedText(lo, hi, msg) =
          IF i = 0 THEN msg ELSE Appended(text[i][3], TextSize(text[i][2]), msg)
  BY DEF AppendedText, i
<1>4. QED  BY <1>2, <1>3

(* The fields of a message do not touch the body.                          *)
LEMMA FieldsHolds ==
    ASSUME NEW msg, MsgShape(msg), NEW lo, NEW hi
    PROVE  MsgShape(Fields(lo, hi, msg))
<1> DEFINE n == Fields(lo, hi, msg)
<1>1. DOMAIN msg = {"body", "used", "attached", "octet", "image",
                    "watermark", "signo", "from", "rcpts"}
  BY DEF MsgShape, EmptyMessage
<1>2. /\ DOMAIN n = DOMAIN msg /\ n = [k \in DOMAIN n |-> n[k]]
      /\ n.body = msg.body /\ n.used = msg.used /\ n.attached = msg.attached
  BY <1>1 DEF Fields
<1> HIDE DEF n
<1>3. MsgShape(n)  BY <1>2 DEF MsgShape
<1>4. QED  BY <1>3 DEF n

(* parse_eml_buffer, of the message or of one within it.                   *)
LEMMA MessageAfterHolds ==
    ASSUME NEW msg, MsgShape(msg), NEW lo, NEW hi
    PROVE  MsgShape(MessageAfter(lo, hi, msg))
<1> DEFINE e == HeadersEnd(lo, hi)
           f == Fields(lo, IF e = 0 THEN hi ELSE e, msg)
           t == AppendedText(e + 1, hi, f)
<1>1. MsgShape(f)  BY FieldsHolds
<1>2. MsgShape(t)
  <2> HIDE DEF f
  <2>1. QED  BY <1>1, AppendedTextHolds
<1>3. MessageAfter(lo, hi, msg) \in {t, f}  BY DEF MessageAfter
<1> HIDE DEF e, f, t
<1>4. QED  BY <1>1, <1>2, <1>3

(* A set of numbers has a least one.                                       *)
LEMMA LeastIs ==
    ASSUME NEW T, T \subseteq Nat, T # {}
    PROVE  \E x \in T : \A y \in T : x <= y
<1> DEFINE R == OpToRel(<, Nat)
<1>1. IsWellFoundedOn(R, Nat)  BY NatLessThanWellFounded
<1>2. \A y \in Nat, x \in Nat : y < x => <<y, x>> \in R  BY DEF OpToRel
<1>3. \A y \in Nat, x \in Nat : ~(y < x) => x <= y  OBVIOUS
<1> HIDE DEF R
<1>4. \E x \in T : \A y \in T : ~ (<<y, x>> \in R)  BY <1>1, WFMin
<1>5. QED  BY <1>2, <1>3, <1>4

(* A set of line numbers has a first one.                                  *)
LEMMA FirstIs ==
    ASSUME NEW T, T \subseteq Nat
    PROVE  /\ First(T) \in {0} \cup T
           /\ \A y \in T : First(T) \in T /\ First(T) <= y
<1>1. CASE T = {}  BY <1>1 DEF First
<1>2. CASE T # {}
  <2>1. \E x \in T : \A y \in T : x <= y  BY <1>2, LeastIs
  <2>2. Min(T) \in T /\ \A y \in T : Min(T) <= y  BY <2>1 DEF Min
  <2>3. QED  BY <1>2, <2>2 DEF First
<1>3. QED  BY <1>1, <1>2

(* A field or blank line that is found, or a marker, is within the lines   *)
(* searched: strstr does not pass the NUL at the end of a part.            *)
LEMMA FindIs ==
    ASSUME NEW lo \in Nat, NEW hi \in Nat, NEW tag, NEW b
    PROVE  /\ Find(tag, lo, hi) \in {0} \cup lo .. hi - 1
           /\ FindMark(b, lo, hi) \in {0} \cup lo .. hi - 1
<1> DEFINE T == {i \in lo .. hi - 1 : text[i][1] = tag}
           U == {i \in lo .. hi - 1 :
                    text[i][1] = "mark" /\ IsPrefix(b, text[i][2])}
<1>1. lo .. hi - 1 \subseteq Nat  OBVIOUS
<1>2. T \subseteq lo .. hi - 1 /\ U \subseteq lo .. hi - 1  OBVIOUS
<1>3. Find(tag, lo, hi) = First(T) /\ FindMark(b, lo, hi) = First(U)
  BY DEF Find, FindMark
<1> HIDE DEF T, U
<1>4. First(T) \in {0} \cup T /\ First(U) \in {0} \cup U
  BY <1>1, <1>2, FirstIs
<1>5. QED  BY <1>2, <1>3, <1>4

(* A call for a multipart that is not empty.                               *)
LEMMA LevelFits ==
    ASSUME NEW lo \in Nat, NEW hi \in Nat \ {0}, NEW b
    PROVE  LevelShape(Level(b, lo, hi))
<1>1. FindMark(b, lo, hi) \in {0} \cup lo .. hi - 1  BY FindIs
<1>2. FindMark(b, lo, hi) \in Nat /\ FindMark(b, lo, hi) < hi  BY <1>1
<1>3. QED  BY <1>2 DEF Level, LevelShape

(* One call more, or one less.                                             *)
LEMMA LevelsAppend ==
    ASSUME NEW s, LevelsShape(s), NEW l, LevelShape(l)
    PROVE  LevelsShape(Append(s, l))
<1> DEFINE S == ToSet(s) \cup {l}
           a == Append(s, l)
<1>1. s \in Seq(S) /\ l \in S
  <2>1. s \in Seq(ToSet(s)) /\ ToSet(s) \subseteq S
    BY DEF LevelsShape, IsSequence
  <2>2. QED  BY <2>1, SeqMonotonic
<1> HIDE DEF S
<1>2. /\ a \in Seq(S) /\ Len(a) = Len(s) + 1
      /\ \A i \in 1 .. Len(s) : a[i] = s[i]
      /\ a[Len(s) + 1] = l
  BY <1>1, AppendProperties
<1>3. Len(s) \in Nat /\ DOMAIN s = 1 .. Len(s)  BY <1>1, LenProperties
<1> HIDE DEF a
<1>4. DOMAIN a = 1 .. Len(a)  BY <1>2, LenProperties
<1>5. ASSUME NEW i \in DOMAIN a PROVE LevelShape(a[i])
  <2>1. i \in 1 .. Len(s) \/ i = Len(s) + 1  BY <1>2, <1>3, <1>4
  <2>2. QED  BY <2>1, <1>2, <1>3 DEF LevelsShape
<1>6. QED  BY <1>2, <1>5, OwnElements DEF LevelsShape, a

(* The innermost call returns.                                             *)
LEMMA LevelsFront ==
    ASSUME NEW s, LevelsShape(s), s # <<>>
    PROVE  LevelsShape(Front(s))
<1> DEFINE S == ToSet(s)
           f == Front(s)
<1>1. s \in Seq(S)  BY DEF LevelsShape, IsSequence
<1>2. Len(s) \in Nat \ {0} /\ DOMAIN s = 1 .. Len(s)
  BY <1>1, EmptySeq, LenProperties
<1>3. f = [i \in 1 .. Len(s) - 1 |-> s[i]]  BY DEF Front
<1> HIDE DEF S, f
<1>4. \A i \in 1 .. Len(s) - 1 : s[i] \in S
  BY <1>1, <1>2, ElementOfSeq
<1>5. f \in Seq(S)  BY <1>2, <1>3, <1>4, IsASeq
<1>6. \A i \in DOMAIN f : LevelShape(f[i])
  BY <1>2, <1>3 DEF LevelsShape
<1>7. QED  BY <1>5, <1>6, OwnElements DEF LevelsShape, f

(* The innermost call goes on to another part, or to none.                 *)
LEMMA LevelsGoTo ==
    ASSUME LevelsShape(levels), levels # <<>>, NEW i \in Nat, i < Top.hi
    PROVE  LevelsShape(GoTo(i)) /\ Len(GoTo(i)) = Len(levels)
<1> DEFINE n == Len(levels)
           l == [levels[n] EXCEPT !.at = i]
           S == ToSet(levels) \cup {l}
           g == GoTo(i)
<1>1. levels \in Seq(ToSet(levels))  BY DEF LevelsShape, IsSequence
<1>2. n \in Nat \ {0} /\ DOMAIN levels = 1 .. n
  BY <1>1, EmptySeq, LenProperties
<1>3. levels \in Seq(S)
  <2>1. ToSet(levels) \subseteq S  OBVIOUS
  <2>2. QED  BY <2>1, <1>1, SeqMonotonic
<1>4. Top = levels[n]  BY DEF Top, Last
<1>5. LevelShape(l)
  <2>1. LevelShape(levels[n])  BY <1>2 DEF LevelsShape
  <2>2. PICK r : r = levels[n]  OBVIOUS
  <2>3. r = [b |-> r.b, at |-> r.at, hi |-> r.hi] /\ r.hi \in Nat
    BY <2>1, <2>2 DEF LevelShape
  <2>4. l = [b |-> r.b, at |-> i, hi |-> r.hi]  BY <2>2, <2>3
  <2>5. i < r.hi  BY <2>2, <1>4
  <2>6. QED  BY <2>3, <2>4, <2>5 DEF LevelShape
<1>6. l \in S  OBVIOUS
<1>7. g = [levels EXCEPT ![n] = l]  BY DEF GoTo
<1> HIDE DEF n, l, S, g
<1>8. g \in Seq(S) /\ Len(g) = Len(levels)
      /\ \A j \in 1 .. n : g[j] = IF j = n THEN l ELSE levels[j]
  <2>1. n \in 1 .. Len(levels)  BY <1>2 DEF n
  <2>2. QED  BY <1>3, <1>6, <1>7, <1>2, <2>1, ExceptSeq
<1>9. DOMAIN g = 1 .. n  BY <1>8, LenProperties DEF n
<1>10. \A j \in DOMAIN g : LevelShape(g[j])
  BY <1>2, <1>5, <1>8, <1>9 DEF LevelsShape
<1>11. QED  BY <1>8, <1>10, OwnElements DEF LevelsShape, g

(* A message is read into an empty struct Message.                         *)
LEMMA EmptyFits == MsgShape(EmptyMessage) /\ LevelsShape(<<>>)
<1> DEFINE e == EmptyMessage
<1>1. /\ e.body = <<>> /\ e.used = 0 /\ e.attached = 0
      /\ e = [k \in DOMAIN e |-> e[k]]
  BY DEF EmptyMessage
<1>2. <<>> \in Seq({}) /\ Len(<<>>) = 0  BY EmptySeq
<1>3. IsSequence(<<>>)  BY <1>2, OwnElements
<1>4. BodyRoom \in Nat /\ MaxAttachments \in Nat
  BY ParserAssumption DEF ParserAssumption
<1>5. DOMAIN <<>> = {}  OBVIOUS
<1>6. LevelsShape(<<>>)  BY <1>3, <1>5 DEF LevelsShape
<1> HIDE DEF e
<1>7. MsgShape(e)  BY <1>1, <1>2, <1>3, <1>4 DEF MsgShape, e
<1>8. QED  BY <1>6, <1>7 DEF e

(* Before the first message.                                               *)
LEMMA ParserInitHolds == ParserInit => ParserInv
  BY EmptyFits, EmptySeq DEF ParserInit, ParserInv

(* read_file: a new buffer and an empty struct Message.                    *)
LEMMA ReadFileHolds ==
    ASSUME NEW t, Len(t) \in Nat, ReadFile(t)
    PROVE  ParserInv'
  BY EmptyFits DEF ReadFile, ParserInv

(* The call a message makes when it is a multipart.                        *)
LEMMA LevelsAfterIs ==
    ASSUME NEW lo \in Nat, NEW hi \in Nat \ {0}
    PROVE  \/ LevelsAfter(lo, hi) = <<>>
           \/ \E l : LevelShape(l) /\ LevelsAfter(lo, hi) = <<l>>
<1> DEFINE e == HeadersEnd(lo, hi)
           l == Level(BoundaryOf(Find("ct", lo, e)), e + 1, hi)
<1>1. e \in {0} \cup lo .. hi - 1  BY FindIs DEF HeadersEnd
<1>2. e + 1 \in Nat  BY <1>1
<1>3. LevelShape(l)  BY <1>2, LevelFits
<1>4. LevelsAfter(lo, hi) = <<>> \/ LevelsAfter(lo, hi) = <<l>>
  BY DEF LevelsAfter
<1> HIDE DEF l
<1>5. QED  BY <1>3, <1>4

(* That call is made while those around it are in progress.                *)
LEMMA LevelsAfterHolds ==
    ASSUME NEW lo \in Nat, NEW hi \in Nat \ {0}, NEW s, LevelsShape(s)
    PROVE  LevelsShape(s \o LevelsAfter(lo, hi))
<1>1. s \in Seq(ToSet(s))  BY DEF LevelsShape, IsSequence
<1>2. CASE LevelsAfter(lo, hi) = <<>>
  <2>1. s \o <<>> = s  BY <1>1, ConcatEmptySeq
  <2>2. QED  BY <2>1, <1>2
<1>3. ASSUME NEW l, LevelShape(l), LevelsAfter(lo, hi) = <<l>>
      PROVE  LevelsShape(s \o LevelsAfter(lo, hi))
  <2> DEFINE S == ToSet(s) \cup {l}
  <2>1. ToSet(s) \subseteq S /\ l \in S  OBVIOUS
  <2>2. s \in Seq(S)  BY <2>1, <1>1, SeqMonotonic
  <2> HIDE DEF S
  <2>3. s \o <<l>> = Append(s, l)  BY <2>1, <2>2, AppendIsConcat
  <2>4. QED  BY <2>3, <1>3, LevelsAppend
<1>4. QED  BY <1>2, <1>3, LevelsAfterIs

(* parse_message, on the whole buffer.                                     *)
LEMMA ParseBufferHolds ==
    ASSUME ParserInv, ParseBuffer
    PROVE  ParserInv'
<1>1. MsgShape(MessageAfter(1, Len(text) + 1, m))
  BY MessageAfterHolds DEF ParserInv
<1>2. Len(text) + 1 \in Nat \ {0}  BY DEF ParserInv
<1>3. LevelsShape(LevelsAfter(1, Len(text) + 1))
  <2>1. LevelsShape(<<>>)  BY EmptyFits
  <2>2. LevelsShape(<<>> \o LevelsAfter(1, Len(text) + 1))
    BY <1>2, <2>1, LevelsAfterHolds
  <2>3. CASE LevelsAfter(1, Len(text) + 1) = <<>>  BY <2>1, <2>3
  <2>4. ASSUME NEW l, LevelsAfter(1, Len(text) + 1) = <<l>>
        PROVE  LevelsShape(LevelsAfter(1, Len(text) + 1))
    <3>1. <<l>> \in Seq({l})  OBVIOUS
    <3>2. <<>> \o <<l>> = <<l>>  BY <3>1, ConcatEmptySeq
    <3>3. QED  BY <3>2, <2>2, <2>4
  <2>5. QED  BY <1>2, <2>3, <2>4, LevelsAfterIs
<1>4. QED  BY <1>1, <1>3 DEF ParseBuffer, ParserInv

(* The part at hand ends after it begins, and after every line in it.      *)
LEMMA PartIs ==
    ASSUME ParserInv, InPart
    PROVE  /\ Top.hi \in Nat \ {0} /\ NextPart \in Nat /\ NextPart < Top.hi
           /\ PartHi \in Nat \ {0} /\ BodyLo \in Nat
<1>1. levels # <<>> /\ IsSequence(levels)
  BY DEF InPart, ParserInv, LevelsShape
<1>2. Len(levels) \in DOMAIN levels
  <2>1. levels \in Seq(ToSet(levels))  BY <1>1 DEF IsSequence
  <2>2. QED  BY <2>1, <1>1, EmptySeq, LenProperties
<1>3. LevelShape(Top)  BY <1>2 DEF ParserInv, LevelsShape, Top, Last
<1>4. PICK a \in Nat, h \in Nat : a = Top.at /\ h = Top.hi /\ a < h
  BY <1>3 DEF LevelShape
<1>5. h \in Nat \ {0}  BY <1>4
<1>6. NextPart \in {0} \cup a + 1 .. h - 1
  <2>1. a + 1 \in Nat  OBVIOUS
  <2>2. FindMark(Top.b, a + 1, h) \in {0} \cup a + 1 .. h - 1
    BY <2>1, FindIs
  <2>3. QED  BY <2>2, <1>4 DEF NextPart
<1>7. NextPart \in Nat /\ NextPart < h  BY <1>5, <1>6
<1>8. PartHi \in Nat \ {0}  BY <1>4, <1>5, <1>7 DEF PartHi
<1>9. BodyLo \in Nat
  <2>1. PartLo \in Nat  BY <1>4 DEF PartLo
  <2>2. Find("blank", PartLo, PartHi) \in {0} \cup PartLo .. PartHi - 1
    BY <2>1, <1>8, FindIs
  <2>3. Find("blank", PartLo, PartHi) \in Nat  BY <2>1, <1>8, <2>2
  <2>4. QED  BY <2>3 DEF BodyLo
<1>10. QED  BY <1>4, <1>5, <1>7, <1>8, <1>9

(* A step that leaves the text and the message alone.                      *)
LEMMA SameMessage ==
    ASSUME ParserInv, UNCHANGED <<text, m>>, LevelsShape(levels')
    PROVE  ParserInv'
  BY DEF ParserInv

(* The loop goes on with the next part of its level.                       *)
LEMMA GoToNext ==
    ASSUME ParserInv, InPart, NEW i \in {0, NextPart}
    PROVE  LevelsShape(GoTo(i))
<1>1. levels # <<>> /\ LevelsShape(levels)  BY DEF InPart, ParserInv
<1>2. i \in Nat /\ i < Top.hi
  <2>1. PICK h \in Nat \ {0}, n \in Nat : h = Top.hi /\ n = NextPart /\ n < h
    BY PartIs
  <2>2. 0 < h  BY <2>1
  <2>3. QED  BY <2>1, <2>2
<1>3. QED  BY <1>1, <1>2, LevelsGoTo

(* A call returns.                                                         *)
LEMMA EndLevelHolds == ASSUME ParserInv, EndLevel PROVE ParserInv'
<1>1. LevelsShape(levels')
  BY LevelsFront DEF EndLevel, ParserInv
<1>2. QED  BY <1>1, SameMessage DEF EndLevel

(* A multipart without a boundary ends the call.                           *)
LEMMA LeaveLevelHolds == ASSUME ParserInv, LeaveLevel PROVE ParserInv'
<1>1. LevelsShape(levels')
  BY LevelsFront DEF LeaveLevel, Ended, InPart, ParserInv
<1>2. QED  BY <1>1, SameMessage DEF LeaveLevel

(* A part of no type is passed.                                            *)
LEMMA SkipUntypedHolds == ASSUME ParserInv, SkipUntyped PROVE ParserInv'
<1>1. LevelsShape(GoTo(NextPart))  BY GoToNext DEF SkipUntyped
<1>2. QED  BY <1>1, SameMessage DEF SkipUntyped

(* A part without a blank line leads on or out of the loop.                *)
LEMMA SkipUnendedHolds == ASSUME ParserInv, SkipUnended PROVE ParserInv'
<1>1. LevelsShape(GoTo(NextPart)) /\ LevelsShape(GoTo(0))
  BY GoToNext DEF SkipUnended
<1>2. LevelsShape(levels')  BY <1>1 DEF SkipUnended
<1>3. QED  BY <1>2, SameMessage DEF SkipUnended

(* A multipart: a call within the call.                                    *)
LEMMA EnterMultipartHolds == ASSUME ParserInv, EnterMultipart PROVE ParserInv'
<1>1. InPart  BY DEF EnterMultipart, Ended
<1>2. LevelsShape(GoTo(NextPart))  BY <1>1, GoToNext
<1>3. LevelShape(Level(BoundaryOf(Typed), BodyLo, PartHi))
  <2>1. BodyLo \in Nat /\ PartHi \in Nat \ {0}  BY <1>1, PartIs
  <2>2. QED  BY <2>1, LevelFits
<1>4. LevelsShape(levels')
  BY <1>2, <1>3, LevelsAppend DEF EnterMultipart
<1>5. QED  BY <1>4, SameMessage DEF EnterMultipart

(* Text goes to the body.                                                  *)
LEMMA TakeTextHolds == ASSUME ParserInv, TakeText PROVE ParserInv'
<1>1. InPart  BY DEF TakeText, Ended
<1>2. LevelsShape(levels')  BY <1>1, GoToNext DEF TakeText
<1>3. MsgShape(m')
  BY AppendedTextHolds DEF TakeText, ParserInv
<1>4. QED  BY <1>2, <1>3 DEF ParserInv, TakeText

(* A message within the message: only its watermark is dropped before.     *)
LEMMA TakeMessageHolds ==
    ASSUME ParserInv, TakeMessage
    PROVE  ParserInv'
<1>1. InPart  BY DEF TakeMessage, Ended
<1>2. BodyLo \in Nat /\ PartHi \in Nat \ {0}  BY <1>1, PartIs
<1>3. LevelsShape(levels')
  <2>1. LevelsShape(GoTo(NextPart))  BY <1>1, GoToNext
  <2>2. QED  BY <1>2, <2>1, LevelsAfterHolds DEF TakeMessage
<1> DEFINE n == [m EXCEPT !.watermark = None]
<1>4. MsgShape(n)
  <2>1. MsgShape(m)  BY DEF ParserInv
  <2>2. DOMAIN m = {"body", "used", "attached", "octet", "image",
                    "watermark", "signo", "from", "rcpts"}
    BY <2>1 DEF MsgShape, EmptyMessage
  <2>3. /\ DOMAIN n = DOMAIN m /\ n = [k \in DOMAIN n |-> n[k]]
        /\ n.body = m.body /\ n.used = m.used /\ n.attached = m.attached
    BY <2>2
  <2> HIDE DEF n
  <2>4. QED  BY <2>1, <2>3 DEF MsgShape
<1>5. m' = MessageAfter(BodyLo, PartHi, n)  BY DEF TakeMessage
<1> HIDE DEF n
<1>6. MsgShape(m')  BY <1>4, <1>5, MessageAfterHolds
<1>7. QED  BY <1>3, <1>6 DEF ParserInv, TakeMessage

(* An attachment: attachments[] is never written past its end.             *)
LEMMA TakeAttachmentHolds == ASSUME ParserInv, TakeAttachment PROVE ParserInv'
<1>1. InPart  BY DEF TakeAttachment, Ended
<1>2. LevelsShape(levels')  BY <1>1, GoToNext DEF TakeAttachment
<1>a. MaxAttachments \in Nat /\ 1 \in 1 .. BodyRoom
  BY ParserAssumption DEF ParserAssumption
<1> DEFINE n == [m EXCEPT !.octet = @ \/ Type = "octet",
                          !.image = @ \/ Type = "image"]
           o == [n EXCEPT !.attached = @ + 1]
<1>3. MsgShape(m)  BY DEF ParserInv
<1>4. DOMAIN m = {"body", "used", "attached", "octet", "image",
                  "watermark", "signo", "from", "rcpts"}
  BY <1>3 DEF MsgShape, EmptyMessage
<1>5. /\ DOMAIN n = DOMAIN m /\ n = [k \in DOMAIN n |-> n[k]]
      /\ n.body = m.body /\ n.used = m.used /\ n.attached = m.attached
  BY <1>4
<1>6. m' = IF m.attached < MaxAttachments
           THEN Appended(NameOf(BodyLo, PartHi), 1, o) ELSE n
  BY DEF TakeAttachment
<1> HIDE DEF n
<1>7. MsgShape(n)  BY <1>3, <1>5 DEF MsgShape
<1>8. /\ DOMAIN o = DOMAIN n /\ o = [k \in DOMAIN o |-> o[k]]
      /\ o.body = n.body /\ o.used = n.used /\ o.attached = n.attached + 1
  BY <1>4, <1>5
<1> HIDE DEF o
<1>9. ASSUME m.attached < MaxAttachments PROVE MsgShape(o)
  <2>1. n.attached \in Nat /\ n.attached < MaxAttachments
    BY <1>5, <1>7, <1>9 DEF MsgShape
  <2>2. o.attached \in Nat /\ o.attached <= MaxAttachments
    BY <2>1, <1>8, <1>a
  <2>3. QED  BY <2>2, <1>7, <1>8 DEF MsgShape
<1>10. MsgShape(m')
  BY <1>6, <1>7, <1>9, <1>a, AppendedHolds
<1>11. QED  BY <1>2, <1>10 DEF ParserInv, TakeAttachment

(* Every step of the parser.                                               *)
LEMMA ParserHolds ==
    ASSUME ParserInv, ParserStep
    PROVE  ParserInv'
  BY EndLevelHolds, SkipUntypedHolds, SkipUnendedHolds, EnterMultipartHolds,
     LeaveLevelHolds, TakeTextHolds, TakeMessageHolds, TakeAttachmentHolds
  DEF ParserStep

-----------------------------------------------------------------------------
(* The whole path                                                          *)

(* A stage keeps what the next one relies on: after smtpd the file says    *)
(* what its transaction was, and send works on that file alone; nothing    *)
(* but the file leads from the session to the next hop.                    *)
IInv ==
    /\ stage \in {"smtp", "read", "parse", "judge", "relay", "trained"}
    /\ SmtpdInv /\ ParserInv /\ FilterInv
    /\ ToSet(file.rcpts) \subseteq Rcpt
    /\ stage # "smtp" => Written(file)
    /\ stage = "relay" => RelayInv(file.from, Handed(file.rcpts))
    /\ stage # "relay" => talk = "none" /\ slips = <<>>

(* Variables of the other stages stay as they are.                         *)
LEMMA SameSmtpd ==
    ASSUME SmtpdInv, UNCHANGED smtpdVars PROVE SmtpdInv'
  BY DEF SmtpdInv, smtpdVars

LEMMA SameParser ==
    ASSUME ParserInv, UNCHANGED parserVars PROVE ParserInv'
  BY DEF ParserInv, parserVars

LEMMA SameFilter ==
    ASSUME FilterInv, UNCHANGED filterVars PROVE FilterInv'
<1>1. UNCHANGED <<filter, stored, totals, node, penalties, failed>>
  BY DEF filterVars
<1>2. NodesInv'
  BY <1>1, SameEvidence DEF FilterInv, NodesInv
<1>3. SpamNeedsEvidence' /\ EvidenceIsUsed'
  BY <1>1, SameEvidence
  DEF FilterInv, SpamNeedsEvidence, EvidenceIsUsed, Judged
<1>4. QED  BY <1>1, <1>2, <1>3 DEF FilterInv

LEMMA SameRelay ==
    ASSUME NEW sender, NEW rcpts, RelayInv(sender, rcpts), UNCHANGED relayVars
    PROVE  RelayInv(sender, rcpts)'
  BY DEF relayVars, RelayInv, RelayTypes, InTime, Behind, HopInv, NamedInv,
         RemovedWasAccepted

(* Neither the stage nor the file changes.                                 *)
LEMMA SameFile ==
    ASSUME IInv, UNCHANGED <<stage, file>>,
           SmtpdInv', ParserInv', FilterInv', UNCHANGED relayVars
    PROVE  IInv'
<1>1. PICK s, r : s = file.from /\ r = Handed(file.rcpts)  OBVIOUS
<1>2. stage' = "relay" => RelayInv(file.from, Handed(file.rcpts))'
  <2>1. SUFFICES ASSUME stage' = "relay"
                 PROVE  RelayInv(file.from, Handed(file.rcpts))'
    OBVIOUS
  <2>2. RelayInv(s, r)  BY <2>1, <1>1 DEF IInv
  <2>3. RelayInv(s, r)'  BY <2>2, SameRelay
  <2>4. file'.from = s /\ Handed(file.rcpts)' = r  BY <1>1 DEF Handed
  <2>5. QED  BY <2>3, <2>4
<1>3. talk' = talk /\ slips' = slips  BY DEF relayVars
<1>4. QED  BY <1>2, <1>3 DEF IInv

(* Before anything.                                                        *)
LEMMA InitHolds == Init => IInv
<1> SUFFICES ASSUME Init PROVE IInv  OBVIOUS
<1>1. stage = "smtp" /\ file = NoFile  BY DEF Init
<1>2. SmtpdInv  BY SmtpdInitHolds DEF Init
<1>3. ParserInv  BY ParserInitHolds DEF Init
<1>4. FilterInv  BY NoFilter DEF Init, FilterInit
<1>5. ToSet(file.rcpts) \subseteq Rcpt
  <2>1. file.rcpts = <<>>  BY <1>1 DEF NoFile
  <2>2. ToSet(<<>>) = {}  BY DEF ToSet
  <2>3. QED  BY <2>1, <2>2
<1>6. talk = "none" /\ slips = <<>>  BY DEF Init, RelayInit
<1>7. QED  BY <1>1, <1>2, <1>3, <1>4, <1>5, <1>6 DEF IInv

(* What a queue file says is about recipients.                             *)
LEMMA WrittenIs ==
    ASSUME NEW f, Written(f)
    PROVE  f.rcpts \in Seq(Rcpt) /\ ToSet(f.rcpts) \subseteq Rcpt
<1>1. f.rcpts \in Seq(Rcpt)  BY DEF Written
<1>2. PICK s \in Seq(Rcpt) : s = f.rcpts  BY <1>1
<1>3. ToSet(s) \subseteq Rcpt
  <2>1. DOMAIN s = 1 .. Len(s)  BY LenProperties
  <2>2. QED  BY <2>1, ElementOfSeq DEF ToSet
<1>4. QED  BY <1>2, <1>3

(* What send makes of the rewritten header: the recipients of the file,    *)
(* or as many as the line holds and debris.                                *)
LEMMA HandedIs ==
    ASSUME NEW r \in Seq(Rcpt)
    PROVE  /\ Handed(r) \in Seq(Named)
           /\ Len(r) <= LineRoom => Handed(r) = r
           /\ ToSet(Handed(r)) \subseteq ToSet(r) \cup {Cut, Field}
<1>0. Rcpt \subseteq Named /\ Cut \in Named /\ Field \in Named  BY DEF Named
<1>r. /\ r \in Seq(Named) /\ DOMAIN r = 1 .. Len(r) /\ Len(r) \in Nat
  BY <1>0, SeqMonotonic, LenProperties
<1>l. LineRoom \in Nat \ {0}  BY PathAssumption DEF PathAssumption
<1>1. CASE Len(r) <= LineRoom  BY <1>1, <1>r DEF Handed
<1>2. CASE ~(Len(r) <= LineRoom)
  <2> DEFINE a == SubSeq(r, 1, LineRoom)
             b == <<Cut, Field, Field, Field>>
             c == a \o b
  <2>1. /\ a \in Seq(Named) /\ Len(a) = LineRoom
        /\ \A i \in 1 .. LineRoom : a[i] = r[i]
    <3>1. /\ 1 \in Int /\ LineRoom \in Int /\ 1 <= LineRoom
          /\ LineRoom - 1 + 1 = LineRoom
      BY <1>l
    <3>2. \A i \in 1 .. LineRoom : r[i] \in Named
      <4>1. SUFFICES ASSUME NEW i \in 1 .. LineRoom PROVE r[i] \in Named
        OBVIOUS
      <4>2. i \in 1 .. Len(r)  BY <1>2, <1>l, <1>r
      <4>3. QED  BY <4>2, <1>r, ElementOfSeq
    <3>3. /\ a \in Seq(Named)
          /\ Len(a) = IF 1 <= LineRoom THEN LineRoom - 1 + 1 ELSE 0
          /\ \A i \in 1 .. LineRoom - 1 + 1 : a[i] = r[1 + i - 1]
      BY <3>1, <3>2, SubSeqProperties
    <3>4. \A i \in 1 .. LineRoom : 1 + i - 1 = i  BY <1>l
    <3>5. Len(a) = LineRoom  BY <3>1, <3>3
    <3>6. \A i \in 1 .. LineRoom : a[i] = r[i]
      <4>1. SUFFICES ASSUME NEW i \in 1 .. LineRoom PROVE a[i] = r[i]
        OBVIOUS
      <4>2. i \in 1 .. LineRoom - 1 + 1  BY <3>1
      <4>3. a[i] = r[1 + i - 1]  BY <3>3, <4>2
      <4>4. 1 + i - 1 = i  BY <3>4
      <4>5. QED  BY <4>3, <4>4, Zenon
    <3>7. QED  BY <3>3, <3>5, <3>6
  <2>2. /\ b \in Seq(Named) /\ Len(b) = 4
        /\ \A i \in 1 .. 4 : b[i] \in {Cut, Field}
    BY <1>0
  <2> HIDE DEF a, b
  <2>3. /\ c \in Seq(Named) /\ Len(c) = LineRoom + 4
        /\ \A i \in 1 .. LineRoom + 4 :
              c[i] = IF i <= LineRoom THEN a[i] ELSE b[i - LineRoom]
    <3>1. /\ c \in Seq(Named) /\ Len(c) = Len(a) + Len(b)
          /\ \A i \in 1 .. Len(a) + Len(b) :
                c[i] = IF i <= Len(a) THEN a[i] ELSE b[i - Len(a)]
      BY <2>1, <2>2, ConcatProperties
    <3>2. Len(a) = LineRoom /\ Len(b) = 4  BY <2>1, <2>2
    <3> HIDE DEF c
    <3>3. QED  BY <3>1, <3>2, Zenon
  <2> HIDE DEF c
  <2>4. ASSUME NEW i \in 1 .. LineRoom + 4
        PROVE  c[i] \in ToSet(r) \cup {Cut, Field}
    <3>1. CASE i <= LineRoom
      <4>1. i \in 1 .. LineRoom /\ i \in DOMAIN r
        BY <3>1, <1>2, <1>l, <1>r
      <4>2. c[i] = r[i]  BY <4>1, <3>1, <2>1, <2>3
      <4>3. QED  BY <4>1, <4>2 DEF ToSet
    <3>2. CASE ~(i <= LineRoom)
      <4>1. i - LineRoom \in 1 .. 4  BY <3>2, <1>l
      <4>2. c[i] = b[i - LineRoom]  BY <3>2, <2>3
      <4>3. QED  BY <4>1, <4>2, <2>2
    <3>3. QED  BY <3>1, <3>2
  <2>5. DOMAIN c = 1 .. LineRoom + 4  BY <2>3, LenProperties
  <2>6. ToSet(c) \subseteq ToSet(r) \cup {Cut, Field}
    BY <2>4, <2>5 DEF ToSet
  <2>7. Handed(r) = c  BY <1>2 DEF Handed, a, b, c
  <2>8. QED  BY <1>2, <2>3, <2>6, <2>7
<1>3. QED  BY <1>1, <1>2

(* A queue file begins with the envelope lines.                            *)
LEMMA EnvelopeIs ==
    ASSUME NEW t, TextOf(t) \in Seq(ToSet(TextOf(t))), NEW f, NEW r,
           NEW x, x = EnvelopeLines(f, r) \o TextOf(t)
    PROVE  /\ Len(x) \in Nat /\ Len(x) >= 2 /\ DOMAIN x = 1 .. Len(x)
           /\ x[1] = <<"from", f>> /\ x[2] = <<"rcpts", r>>
<1> DEFINE a == <<"from", f>>
           b == <<"rcpts", r>>
           e == <<a, b>>
           S == {a, b} \cup ToSet(TextOf(t))
<1>1. EnvelopeLines(f, r) = e  BY DEF EnvelopeLines
<1>2. a \in S /\ b \in S  OBVIOUS
<1>3. TextOf(t) \in Seq(S)
  <2>1. ToSet(TextOf(t)) \subseteq S  OBVIOUS
  <2>2. QED  BY <2>1, SeqMonotonic
<1> HIDE DEF a, b, S
<1>4. e \in Seq(S) /\ Len(e) = 2 /\ e[1] = a /\ e[2] = b  BY <1>2
<1> HIDE DEF e
<1>5. Len(TextOf(t)) \in Nat  BY <1>3, LenProperties
<1>6. /\ x \in Seq(S) /\ Len(x) = 2 + Len(TextOf(t))
      /\ \A i \in 1 .. 2 + Len(TextOf(t)) :
            x[i] = IF i <= 2 THEN e[i] ELSE TextOf(t)[i - 2]
  <2>1. PICK u \in Seq(S) : u = TextOf(t)  BY <1>3
  <2>2. x = e \o u  BY <1>1, <2>1
  <2>3. /\ e \o u \in Seq(S) /\ Len(e \o u) = Len(e) + Len(u)
        /\ \A i \in 1 .. Len(e) + Len(u) :
              (e \o u)[i] = IF i <= Len(e) THEN e[i] ELSE u[i - Len(e)]
    BY <1>4, ConcatProperties
  <2>4. QED  BY <1>4, <2>1, <2>2, <2>3, Zenon
<1>7. DOMAIN x = 1 .. Len(x)  BY <1>6, LenProperties
<1>8. x[1] = a /\ x[2] = b  BY <1>4, <1>5, <1>6
<1>9. QED  BY <1>5, <1>6, <1>7, <1>8 DEF a, b

(* A worker takes a file that smtpd wrote, of this session or before.      *)
LEMMA TakeHolds ==
    ASSUME IInv, NEW f, Written(f), NEW t, TextOf(t) \in Seq(ToSet(TextOf(t))),
           stage = "smtp", Take(f, t)
    PROVE  IInv'
<1>1. stage' = "read" /\ file' = f  BY DEF Take
<1>2. SmtpdInv'  BY ForgetHolds DEF Take
<1>3. ParserInv'
  <2>1. PICK x : x = EnvelopeLines(f.from, f.rcpts) \o TextOf(t)  OBVIOUS
  <2>2. ReadFile(x)  BY <2>1 DEF Take
  <2>3. Len(x) \in Nat  BY <2>1, EnvelopeIs
  <2>4. QED  BY <2>2, <2>3, ReadFileHolds
<1>4. FilterInv'  BY SameFilter DEF Take, IInv
<1>5. ToSet(file'.rcpts) \subseteq Rcpt  BY <1>1, WrittenIs
<1>6. Written(file')  BY <1>1
<1>7. talk' = "none" /\ slips' = <<>>  BY DEF Take, IInv, relayVars
<1>8. Written(file)'  BY <1>6 DEF Written
<1>9. QED
  BY <1>1, <1>2, <1>3, <1>4, <1>5, <1>7, <1>8 DEF IInv

(* The file is with send.                                                  *)
LEMMA RelayedHolds ==
    ASSUME IInv, Written(file), file' = file, stage' = "relay",
           OpenFile(file.from, Handed(file.rcpts), NullSender),
           SmtpdInv', ParserInv', FilterInv'
    PROVE  IInv'
<1>1. PICK s, r : s = file.from /\ r = Handed(file.rcpts)  OBVIOUS
<1>2. r \in Seq(Named)  BY <1>1, WrittenIs, HandedIs
<1>3. OpenFile(s, r, NullSender)  BY <1>1
<1>4. RelayInv(s, r)'  BY <1>2, <1>3, OpenHolds
<1>5. file'.from = s /\ Handed(file.rcpts)' = r  BY <1>1 DEF Handed
<1>6. RelayInv(file.from, Handed(file.rcpts))'  BY <1>4, <1>5
<1>7. ToSet(file'.rcpts) \subseteq Rcpt /\ Written(file)'
  BY DEF IInv, Written
<1>8. QED  BY <1>6, <1>7 DEF IInv

(* post_parse and check_spam: trained with, let through as our own bounce, *)
(* or judged.                                                              *)
LEMMA CheckSpamHolds == ASSUME IInv, CheckSpam PROVE IInv'
<1>1. /\ stage = "parse" /\ Written(file) /\ file' = file
      /\ FilterInv /\ talk = "none" /\ slips = <<>>
  BY DEF CheckSpam, IInv
<1>2. SmtpdInv'  BY SameSmtpd DEF CheckSpam, IInv
<1>3. ParserInv'
  <2>1. Len(<<>>) \in Nat  BY EmptySeq
  <2>2. ReadFile(<<>>)  BY DEF CheckSpam
  <2>3. QED  BY <2>1, <2>2, ReadFileHolds
<1>4. ToSet(file'.rcpts) \subseteq Rcpt /\ Written(file)'
  BY <1>1 DEF IInv, Written
<1>5. CASE /\ stage' = "trained"
           /\ UNCHANGED filterVars /\ UNCHANGED relayVars
  <2>1. FilterInv'  BY <1>5, <1>1, SameFilter
  <2>2. talk' = "none" /\ slips' = <<>>  BY <1>5, <1>1 DEF relayVars
  <2>3. QED  BY <1>2, <1>3, <1>4, <1>5, <2>1, <2>2 DEF IInv
<1>6. CASE /\ stage' = "relay"
           /\ OpenFile(file.from, Handed(file.rcpts), NullSender)
           /\ UNCHANGED filterVars
  <2>1. FilterInv'  BY <1>6, <1>1, SameFilter
  <2>2. QED  BY <1>1, <1>2, <1>3, <1>6, <2>1, RelayedHolds
<1>7. CASE /\ stage' = "judge"
           /\ \E other \in BOOLEAN, marks \in SUBSET Suspect :
                 StartFilter(Tokens \cup marks, Flags(other))
           /\ UNCHANGED relayVars
  <2>1. PICK other \in BOOLEAN, marks \in SUBSET Suspect :
           StartFilter(Tokens \cup marks, Flags(other))
    BY <1>7
  <2>2. Tokens \cup marks \subseteq Pair \cup Word
    BY ClassifierAssumption DEF Tokens, ClassifierAssumption
  <2>3. FilterInv'  BY <1>1, <2>1, <2>2, StartFilterHolds
  <2>4. talk' = "none" /\ slips' = <<>>  BY <1>7, <1>1 DEF relayVars
  <2>5. QED  BY <1>2, <1>3, <1>4, <1>7, <2>3, <2>4 DEF IInv
<1>8. QED  BY <1>5, <1>6, <1>7 DEF CheckSpam

(* Every step of the service.                                              *)
LEMMA NextHolds == ASSUME IInv, Next PROVE IInv'
<1>1. CASE Session
  <2>1. SmtpdInv'  BY <1>1, SmtpdHolds DEF Session, IInv
  <2>2. ParserInv' /\ FilterInv'
    BY <1>1, SameParser, SameFilter DEF Session, IInv
  <2>3. UNCHANGED <<stage, file>> /\ UNCHANGED relayVars
    BY <1>1 DEF Session
  <2>4. QED  BY <2>1, <2>2, <2>3, SameFile
<1>2. CASE TakeQueued
  <2>1. PICK f \in queued, t \in PlainTree : stage = "smtp" /\ Take(f, t)
    BY <1>2 DEF TakeQueued
  <2>2. Written(f)  BY DEF IInv, SmtpdInv
  <2>3. TextOf(t) \in Seq(ToSet(TextOf(t)))
    BY PathAssumption DEF PathAssumption
  <2>4. QED  BY <2>1, <2>2, <2>3, TakeHolds
<1>3. CASE TakeOld
  <2>1. PICK f \in OldFile, t \in Tree : stage = "smtp" /\ Take(f, t)
    BY <1>3 DEF TakeOld
  <2>2. Written(f) /\ TextOf(t) \in Seq(ToSet(TextOf(t)))
    BY PathAssumption DEF PathAssumption
  <2>3. QED  BY <2>1, <2>2, TakeHolds
<1>4. CASE Parse
  <2>1. SmtpdInv' /\ FilterInv' /\ UNCHANGED relayVars /\ file' = file
    BY <1>4, SameSmtpd, SameFilter DEF Parse, IInv
  <2>2. CASE stage = "read" /\ ParseBuffer /\ stage' = "parse"
    <3>1. ParserInv'  BY <2>2, ParseBufferHolds DEF IInv
    <3>2. talk' = "none" /\ slips' = <<>>
      BY <2>1, <2>2 DEF IInv, relayVars
    <3>3. ToSet(file'.rcpts) \subseteq Rcpt /\ Written(file)'
      BY <2>1, <2>2 DEF IInv, Written
    <3>4. QED  BY <2>1, <2>2, <3>1, <3>2, <3>3 DEF IInv
  <2>3. CASE stage = "parse" /\ ParserStep /\ UNCHANGED stage
    <3>1. ParserInv'  BY <2>3, ParserHolds DEF IInv
    <3>2. QED  BY <2>1, <2>3, <3>1, SameFile
  <2>4. QED  BY <1>4, <2>2, <2>3 DEF Parse
<1>5. CASE CheckSpam  BY <1>5, CheckSpamHolds
<1>6. CASE Judge
  <2>1. FilterInv'  BY <1>6, FilterHolds DEF Judge, IInv
  <2>2. SmtpdInv' /\ ParserInv'
    BY <1>6, SameSmtpd, SameParser DEF Judge, IInv
  <2>3. UNCHANGED <<stage, file>> /\ UNCHANGED relayVars
    BY <1>6 DEF Judge
  <2>4. QED  BY <2>1, <2>2, <2>3, SameFile
<1>7. CASE Release
  <2>1. /\ stage = "judge" /\ stage' = "relay" /\ file' = file
        /\ OpenFile(file.from, Handed(file.rcpts), NullSender)
    BY <1>7 DEF Release
  <2>2. FilterInv'  BY <1>7, ClearHashHolds DEF Release
  <2>3. SmtpdInv' /\ ParserInv'
    BY <1>7, SameSmtpd, SameParser DEF Release, IInv
  <2>4. Written(file)  BY <2>1 DEF IInv
  <2>5. QED  BY <2>1, <2>2, <2>3, <2>4, RelayedHolds
<1>8. CASE Send
  <2>1. PICK s, r : s = file.from /\ r = Handed(file.rcpts)  OBVIOUS
  <2>2. /\ stage = "relay" /\ stage' = "relay" /\ file' = file
        /\ RelayInv(s, r) /\ RelayStep(s)
    BY <1>8, <2>1 DEF Send, IInv
  <2>3. RelayInv(s, r)'  BY <2>2, RelayHolds
  <2>4. file'.from = s /\ Handed(file.rcpts)' = r  BY <2>1, <2>2 DEF Handed
  <2>5. RelayInv(file.from, Handed(file.rcpts))'  BY <2>3, <2>4
  <2>6. SmtpdInv' /\ ParserInv' /\ FilterInv'
    BY <1>8, SameSmtpd, SameParser, SameFilter DEF Send, IInv
  <2>7. ToSet(file'.rcpts) \subseteq Rcpt /\ Written(file)'
    BY <2>2 DEF IInv, Written
  <2>8. QED  BY <2>2, <2>5, <2>6, <2>7 DEF IInv
<1>9. QED
  BY <1>1, <1>2, <1>3, <1>4, <1>5, <1>6, <1>7, <1>8 DEF Next

(* A step that changes nothing.                                            *)
LEMMA StutterHolds == ASSUME IInv, UNCHANGED vars PROVE IInv'
<1>1. UNCHANGED <<stage, file>> /\ UNCHANGED relayVars  BY DEF vars
<1>2. SmtpdInv' /\ ParserInv' /\ FilterInv'
  BY SameSmtpd, SameParser, SameFilter DEF vars, IInv
<1>3. QED  BY <1>1, <1>2, SameFile

(* The invariant holds in every state of the service.                      *)
THEOREM Inductive == Spec => []IInv
<1>1. IInv /\ [Next]_vars => IInv'  BY NextHolds, StutterHolds
<1>2. QED  BY <1>1, InitHolds, PTL DEF Spec

(* From the session to the next hop: when every answer was read to its     *)
(* end, a file that send removes was offered from its sender to what the   *)
(* rewritten header lists: all recipients the client named, and nobody but *)
(* those of earlier transactions of the session, when they fit into a line *)
(* of it.  (The dialogue's half is in RelayInv, the session's in what      *)
(* Written says of the file; the file is all that leads from one to the    *)
(* other.)                                                                 *)
LEMMA InvGivesDelivery == IInv => DeliveredAsAsked
<1> DEFINE asked   == ToSet(file.told.rcpts)
           offered == hop.rcpts \cup hop.refused
           whole   == Len(file.rcpts) <= LineRoom
<1> SUFFICES ASSUME IInv, talk = "removed", slips = <<>>
             PROVE  /\ hop.from = file.told.from
                    /\ whole => asked \subseteq offered
                    /\ offered \subseteq asked \cup file.earlier
                                  \cup (IF whole THEN {} ELSE {Cut, Field})
  BY DEF DeliveredAsAsked
<1>1. stage = "relay"  BY DEF IInv
<1>2. Written(file) /\ RelayInv(file.from, Handed(file.rcpts))
  BY <1>1 DEF IInv
<1>3. hop.accepted
  <2>1. ~(Len(slips) > 1)  BY EmptySeq
  <2>2. RemovedWasAccepted  BY <1>2 DEF RelayInv
  <2>3. QED  BY <2>1, <2>2 DEF RemovedWasAccepted
<1>4. hop.from = file.from
  BY <1>2, <1>3 DEF RelayInv, HopInv
<1>5. ToSet(Handed(file.rcpts)) = offered
  <2>1. NamedInv(Handed(file.rcpts))  BY <1>2 DEF RelayInv
  <2>2. ToSet(Handed(file.rcpts)) = offered \cup ToSet(left) /\ left = <<>>
    BY <2>1 DEF NamedInv
  <2>3. ToSet(<<>>) = {}  BY DEF ToSet
  <2>4. QED  BY <2>2, <2>3
<1>6. /\ asked \subseteq ToSet(file.rcpts)
      /\ ToSet(file.rcpts) \subseteq asked \cup file.earlier
      /\ file.from = file.told.from
  BY <1>2 DEF Written
<1>7. /\ whole => Handed(file.rcpts) = file.rcpts
      /\ ToSet(Handed(file.rcpts)) \subseteq ToSet(file.rcpts) \cup {Cut, Field}
  BY <1>2, WrittenIs, HandedIs
<1>8. QED  BY <1>4, <1>5, <1>6, <1>7

(* DeliveredAsAsked: no transaction of a session is delivered from another *)
(* sender, to fewer recipients than its client named, or to recipients of  *)
(* another session, but for what is beyond the line of a rewritten header. *)
THEOREM Delivery == Spec => []DeliveredAsAsked
  BY Inductive, InvGivesDelivery, PTL

(* The probability of a node as it was added, or rated from its row.       *)
LEMMA NodeOdds ==
    ASSUME NEW t, NEW x,
           x # Added(t) => x = Known(t) /\ stored[t] \in Count /\ totals \in Count
    PROVE  x.p \in Odds
<1>1. Added(t).p \in Odds
  <2>1. 5000 \in Odds /\ 9999 \in Odds  BY OddsAre, SMTT(30)
  <2>2. Added(t).p \in {5000, 9999}  BY AddedIs, SMTT(30)
  <2>3. QED  BY <2>1, <2>2, SMTT(30)
<1>2. ASSUME stored[t] \in Count, totals \in Count  PROVE Known(t).p \in Odds
  BY <1>2, KnownIs
<1>3. QED  BY <1>1, <1>2

(* TypeOK: in particular the body never outgrows its buffer, attachments[] *)
(* is never written past its end, every call of extract_mime_parts stands  *)
(* within its part, and every probability is one or not a number.          *)
THEOREM TypeCorrect == Spec => []TypeOK
<1>1. IInv => TypeOK
  <2> SUFFICES ASSUME IInv PROVE TypeOK  OBVIOUS
  <2>1. /\ conn \in {"none", "open", "refused", "left"}
        /\ session.mailFrom \in Sender \cup {NullSender}
        /\ session.rcptTo \in Seq(Rcpt)
    BY DEF IInv, SmtpdInv, SessionType
  <2>2. ToSet(session.rcptTo) \subseteq Rcpt
    <3>1. PICK s \in Seq(Rcpt) : s = session.rcptTo  BY <2>1
    <3>2. DOMAIN s = 1 .. Len(s)  BY LenProperties
    <3>3. ToSet(s) \subseteq Rcpt  BY <3>2, ElementOfSeq DEF ToSet
    <3>4. QED  BY <3>1, <3>3
  <2>3. \A f \in queued \cup {file} : ToSet(f.rcpts) \subseteq Rcpt
    BY WrittenIs DEF IInv, SmtpdInv
  <2>4. /\ m.used <= BodyRoom /\ m.attached <= MaxAttachments
        /\ Len(m.body) <= m.used
    BY DEF IInv, ParserInv, MsgShape
  <2>5. \A i \in DOMAIN levels : levels[i].at < levels[i].hi
    BY SMTT(30) DEF IInv, ParserInv, LevelsShape, LevelShape
  <2>6. ASSUME NEW t \in DOMAIN node
        PROVE  node[t].p \in Odds
    <3>1. FilterInv /\ NodesInv  BY DEF IInv, FilterInv
    <3>2. node[t] # Added(t) => node[t] = Known(t)
                             /\ stored[t] \in Count /\ totals \in Count
      <4>1. node[t] # Added(t) => node[t] = Known(t)
                               /\ filter \notin {"off", "totals", "pairs"}
        BY <3>1 DEF NodesInv
      <4>2. QED  BY <3>1, <4>1 DEF FilterInv
    <3>3. QED  BY <3>2, NodeOdds
  <2>7. Len(slips) <= MaxSlips
    <3>1. CASE stage = "relay"  BY <3>1 DEF IInv, RelayInv, RelayTypes
    <3>2. CASE stage # "relay"
      <4>1. Len(slips) = 0  BY <3>2, EmptySeq DEF IInv
      <4>2. QED  BY <4>1, RelayAssumption DEF RelayAssumption
    <3>3. QED  BY <3>1, <3>2
  <2>8. stage \in {"smtp", "read", "parse", "judge", "relay", "trained"}
    BY DEF IInv
  <2>9. QED
    BY <2>1, <2>2, <2>3, <2>4, <2>5, <2>6, <2>7, <2>8, SMTT(30) DEF TypeOK
<1>2. QED  BY <1>1, Inductive, PTL

(* RemovedWasAccepted: send removes only what the next hop has accepted,   *)
(* and keeps only what it has not, unless lines of its answers are left    *)
(* unread, late or more than one to an answer; a single one after EHLO     *)
(* leads at most to a second delivery, never to a loss.                    *)
THEOREM Acceptance == Spec => []RemovedWasAccepted
<1>1. IInv => RemovedWasAccepted
  BY DEF IInv, RelayInv, RemovedWasAccepted
<1>2. QED  BY <1>1, Inductive, PTL

(* SpamNeedsEvidence: no message is marked as spam unless it has a penalty *)
(* or a token that was seen more often in spam, or a mark of which nothing *)
(* is known, whichever query failed.                                       *)
THEOREM Evidence == Spec => []SpamNeedsEvidence
<1>1. IInv => SpamNeedsEvidence  BY DEF IInv, FilterInv
<1>2. QED  BY <1>1, Inductive, PTL

(* EvidenceIsUsed: two damning tokens mark a message that nothing speaks   *)
(* for, be they pairs or words, when the queries succeed.                  *)
THEOREM EvidenceUsed == Spec => []EvidenceIsUsed
<1>1. IInv => EvidenceIsUsed  BY DEF IInv, FilterInv
<1>2. QED  BY <1>1, Inductive, PTL

-----------------------------------------------------------------------------
(* The order of the parser                                                 *)

(* Where a call of extract_mime_parts goes on, or returns to; where the    *)
(* innermost of the calls s does, the text ending before line n.           *)
EndOf(l)    == IF l.at # 0 THEN l.at ELSE l.hi
Place(s, n) == IF s = <<>> THEN n ELSE EndOf(Last(s))

(* Every call ends where the call around it goes on.                       *)
Nest(s, n) ==
    \A i \in DOMAIN s : s[i].hi = IF i = 1 THEN n ELSE EndOf(s[i - 1])

(* The calls in progress are nested after the step, too, and the parser    *)
(* has read on.                                                            *)
Forward(n) == Nest(levels', n) /\ Place(levels', n) > Place(levels, n)

(* Calls in progress have an innermost one.                                *)
LEMMA LevelsAre ==
    ASSUME NEW s, LevelsShape(s)
    PROVE  /\ s \in Seq(ToSet(s)) /\ DOMAIN s = 1 .. Len(s) /\ Len(s) \in Nat
           /\ s # <<>> => /\ Len(s) \in Nat \ {0} /\ Last(s) = s[Len(s)]
                          /\ LevelShape(Last(s))
<1>1. s \in Seq(ToSet(s))  BY DEF LevelsShape, IsSequence
<1>2. DOMAIN s = 1 .. Len(s) /\ Len(s) \in Nat  BY <1>1, LenProperties
<1>3. s # <<>> => Len(s) \in Nat \ {0}  BY <1>1, EmptySeq
<1>4. Last(s) = s[Len(s)]  BY DEF Last
<1>5. s # <<>> => LevelShape(s[Len(s)])  BY <1>2, <1>3 DEF LevelsShape
<1>6. QED  BY <1>1, <1>2, <1>3, <1>4, <1>5

(* When the innermost call returns, the one around it goes on there.       *)
LEMMA NestFront ==
    ASSUME NEW s, LevelsShape(s), s # <<>>, NEW n, Nest(s, n)
    PROVE  /\ Nest(Front(s), n) /\ Place(Front(s), n) = Last(s).hi
           /\ Len(Front(s)) < Len(s)
<1> DEFINE f == Front(s)
<1>1. /\ s \in Seq(ToSet(s)) /\ DOMAIN s = 1 .. Len(s)
      /\ Len(s) \in Nat \ {0} /\ Last(s) = s[Len(s)]
  BY LevelsAre
<1>2. f = [i \in 1 .. Len(s) - 1 |-> s[i]]  BY DEF Front
<1>3. f \in Seq(ToSet(s)) /\ Len(f) = Len(s) - 1
  <2>1. \A i \in 1 .. Len(s) - 1 : s[i] \in ToSet(s)
    BY <1>1, ElementOfSeq
  <2> HIDE DEF f
  <2>2. QED  BY <2>1, <1>1, <1>2, IsASeq
<1> HIDE DEF f
<1>4. DOMAIN f = 1 .. Len(s) - 1  BY <1>2
<1>5. \A i \in 1 .. Len(s) - 1 : f[i] = s[i]  BY <1>2
<1>6. Nest(f, n)
  <2>1. SUFFICES ASSUME NEW i \in 1 .. Len(s) - 1
                 PROVE  f[i].hi = IF i = 1 THEN n ELSE EndOf(f[i - 1])
    BY <1>4 DEF Nest
  <2>2. i \in DOMAIN s /\ f[i] = s[i]  BY <1>1, <1>5
  <2>3. i # 1 => f[i - 1] = s[i - 1]
    <3>1. i # 1 => i - 1 \in 1 .. Len(s) - 1  BY <1>1
    <3>2. QED  BY <3>1, <1>5
  <2>4. s[i].hi = IF i = 1 THEN n ELSE EndOf(s[i - 1])  BY <2>2 DEF Nest
  <2>5. QED  BY <2>2, <2>3, <2>4
<1>7. Place(f, n) = Last(s).hi
  <2>1. s[Len(s)].hi = IF Len(s) = 1 THEN n ELSE EndOf(s[Len(s) - 1])
    <3>1. Len(s) \in DOMAIN s  BY <1>1
    <3>2. QED  BY <3>1 DEF Nest
  <2>2. CASE Len(s) = 1
    <3>1. f = <<>>  BY <2>2, <1>3, EmptySeq
    <3>2. QED  BY <3>1, <2>1, <2>2, <1>1 DEF Place
  <2>3. CASE Len(s) # 1
    <3>1. Len(f) \in 1 .. Len(s) - 1 /\ Len(f) = Len(s) - 1  BY <2>3, <1>1, <1>3
    <3>2. f # <<>>  BY <3>1, <1>3, EmptySeq
    <3>3. Last(f) = s[Len(s) - 1]  BY <3>1, <1>5 DEF Last
    <3>4. QED  BY <3>2, <3>3, <2>1, <2>3, <1>1 DEF Place
  <2>4. QED  BY <2>2, <2>3
<1>8. Len(f) < Len(s)  BY <1>1, <1>3
<1>9. QED  BY <1>6, <1>7, <1>8 DEF f

(* The innermost call goes on with another part, or with none.             *)
LEMMA NestGoTo ==
    ASSUME LevelsShape(levels), levels # <<>>, NEW n, Nest(levels, n), NEW j
    PROVE  /\ Nest(GoTo(j), n)
           /\ Place(GoTo(j), n) = IF j # 0 THEN j ELSE Top.hi
<1> DEFINE k == Len(levels)
           g == GoTo(j)
<1>1. /\ levels \in Seq(ToSet(levels)) /\ DOMAIN levels = 1 .. k
      /\ k \in Nat \ {0} /\ Top = levels[k] /\ LevelShape(levels[k])
  BY LevelsAre DEF Top
<1>2. PICK r : r = levels[k] /\ r = [b |-> r.b, at |-> r.at, hi |-> r.hi]
  BY <1>1 DEF LevelShape
<1>3. PICK l : l = [levels[k] EXCEPT !.at = j]  OBVIOUS
<1>4. l.at = j /\ l.hi = Top.hi
  <2>1. l = [r EXCEPT !.at = j]  BY <1>2, <1>3
  <2>2. QED  BY <2>1, <1>1, <1>2
<1>5. g = [levels EXCEPT ![k] = l]  BY <1>3 DEF GoTo
<1> HIDE DEF g, k
<1>6. /\ g \in Seq(ToSet(levels) \cup {l}) /\ Len(g) = k
      /\ \A i \in 1 .. k : g[i] = IF i = k THEN l ELSE levels[i]
  <2> DEFINE S == ToSet(levels) \cup {l}
  <2>1. ToSet(levels) \subseteq S /\ l \in S  OBVIOUS
  <2> HIDE DEF S
  <2>2. levels \in Seq(S)  BY <2>1, <1>1, SeqMonotonic
  <2>3. k \in 1 .. Len(levels)  BY <1>1 DEF k
  <2>4. g \in Seq(S) /\ Len(g) = Len(levels)
        /\ \A i \in 1 .. Len(levels) : g[i] = IF i = k THEN l ELSE levels[i]
    BY <2>1, <2>2, <2>3, <1>5, ExceptSeq
  <2>5. QED  BY <2>4 DEF S, k
<1>7. DOMAIN g = 1 .. k  BY <1>6, LenProperties
<1>8. ASSUME NEW i \in 1 .. k
      PROVE  g[i].hi = IF i = 1 THEN n ELSE EndOf(g[i - 1])
  <2>1. g[i].hi = levels[i].hi
    <3>1. CASE i = k  BY <3>1, <1>1, <1>4, <1>6
    <3>2. CASE i # k  BY <3>2, <1>6
    <3>3. QED  BY <3>1, <3>2
  <2>2. i # 1 => g[i - 1] = levels[i - 1]
    <3>1. i # 1 => i - 1 \in 1 .. k /\ i - 1 # k  BY <1>1
    <3>2. QED  BY <3>1, <1>6
  <2>3. levels[i].hi = IF i = 1 THEN n ELSE EndOf(levels[i - 1])
    BY <1>1 DEF Nest
  <2>4. QED  BY <2>1, <2>2, <2>3
<1>9. Nest(g, n)  BY <1>7, <1>8 DEF Nest
<1>10. g # <<>> /\ Last(g) = l
  <2>1. g # <<>>  BY <1>1, <1>6, EmptySeq
  <2>2. k \in 1 .. k  BY <1>1
  <2>3. Last(g) = l  BY <2>2, <1>6 DEF Last
  <2>4. QED  BY <2>1, <2>3
<1>11. Place(g, n) = IF j # 0 THEN j ELSE Top.hi
  BY <1>4, <1>10 DEF Place, EndOf
<1>12. QED  BY <1>9, <1>11 DEF g

(* A call for what lies before the place of the one around it.             *)
LEMMA NestAppend ==
    ASSUME NEW s, LevelsShape(s), NEW n, Nest(s, n),
           NEW l, l.hi = Place(s, n)
    PROVE  Nest(Append(s, l), n) /\ Place(Append(s, l), n) = EndOf(l)
<1> DEFINE S == ToSet(s) \cup {l}
           a == Append(s, l)
           k == Len(s)
<1>1. /\ s \in Seq(ToSet(s)) /\ DOMAIN s = 1 .. k /\ k \in Nat
      /\ s # <<>> => k # 0 /\ Last(s) = s[k]
  BY LevelsAre
<1>2. s \in Seq(S) /\ l \in S
  <2>1. ToSet(s) \subseteq S  OBVIOUS
  <2>2. QED  BY <2>1, <1>1, SeqMonotonic
<1> HIDE DEF S
<1>3. /\ a \in Seq(S) /\ Len(a) = k + 1
      /\ \A i \in 1 .. k : a[i] = s[i]
      /\ a[k + 1] = l
  BY <1>2, AppendProperties
<1> HIDE DEF a
<1>4. DOMAIN a = 1 .. k + 1  BY <1>3, LenProperties
<1>5. s = <<>> => k = 0  BY <1>1, EmptySeq
<1> HIDE DEF k
<1>6. ASSUME NEW i \in 1 .. k + 1
      PROVE  a[i].hi = IF i = 1 THEN n ELSE EndOf(a[i - 1])
  <2>1. CASE i \in 1 .. k
    <3>1. s[i].hi = IF i = 1 THEN n ELSE EndOf(s[i - 1])
      BY <2>1, <1>1 DEF Nest
    <3>2. i # 1 => i - 1 \in 1 .. k  BY <2>1, <1>1
    <3>3. i # 1 => a[i - 1] = s[i - 1]  BY <3>2, <1>3
    <3>4. a[i] = s[i]  BY <2>1, <1>3
    <3>5. QED  BY <3>1, <3>3, <3>4
  <2>2. CASE i = k + 1
    <3>1. a[i].hi = Place(s, n)  BY <2>2, <1>3
    <3>2. CASE s = <<>>
      <4>1. i = 1  BY <3>2, <2>2, <1>5
      <4>2. QED  BY <4>1, <3>1, <3>2 DEF Place
    <3>3. CASE s # <<>>
      <4>1. k \in 1 .. k /\ i # 1 /\ i - 1 = k  BY <3>3, <2>2, <1>1
      <4>2. a[i - 1] = Last(s)  BY <4>1, <3>3, <1>1, <1>3
      <4>3. QED  BY <4>1, <4>2, <3>1, <3>3 DEF Place
    <3>4. QED  BY <3>2, <3>3
  <2>3. QED  BY <2>1, <2>2, <1>1
<1>7. Nest(a, n)  BY <1>4, <1>6 DEF Nest
<1>8. a # <<>> /\ Last(a) = l
  <2>1. a # <<>>  BY <1>1, <1>3, EmptySeq
  <2>2. QED  BY <2>1, <1>3 DEF Last
<1>9. QED  BY <1>7, <1>8 DEF Place, a

(* A new call begins between its first line and its end.                   *)
LEMMA LevelBegins ==
    ASSUME NEW lo \in Nat, NEW hi \in Nat, lo <= hi, NEW b
    PROVE  /\ Level(b, lo, hi).hi = hi
           /\ EndOf(Level(b, lo, hi)) \in lo .. hi
<1>1. FindMark(b, lo, hi) \in {0} \cup lo .. hi - 1  BY FindIs
<1>2. PICK a : a = FindMark(b, lo, hi)  OBVIOUS
<1>3. Level(b, lo, hi) = [b |-> b, at |-> a, hi |-> hi]  BY <1>2 DEF Level
<1>4. a # 0 => a \in lo .. hi  BY <1>1, <1>2
<1>5. QED  BY <1>3, <1>4 DEF EndOf

(* A field, blank line or text that is found is one.                       *)
LEMMA FoundIs ==
    ASSUME NEW lo \in Nat, NEW hi \in Nat, NEW tag, Find(tag, lo, hi) # 0
    PROVE  /\ Find(tag, lo, hi) \in lo .. hi - 1
           /\ text[Find(tag, lo, hi)][1] = tag
<1> DEFINE T == {i \in lo .. hi - 1 : text[i][1] = tag}
<1>1. T \subseteq Nat  OBVIOUS
<1>2. Find(tag, lo, hi) = First(T)  BY DEF Find
<1>3. \A i \in T : i \in lo .. hi - 1 /\ text[i][1] = tag  OBVIOUS
<1> HIDE DEF T
<1>4. Find(tag, lo, hi) \in T  BY <1>1, <1>2, FirstIs
<1>5. QED  BY <1>3, <1>4

(* A part lies behind its marker and within its level, the body of a part  *)
(* that is taken behind the marker and within the part.                    *)
LEMMA PartWithin ==
    ASSUME ParserInv, InPart
    PROVE  /\ Top.at \in Nat /\ PartHi \in Nat /\ Top.hi \in Nat
           /\ Top.at < PartHi /\ PartHi <= Top.hi /\ Top.at < Top.hi
           /\ Ended => /\ BodyLo \in Nat
                       /\ Top.at < BodyLo /\ BodyLo <= PartHi
<1>1. LevelShape(Top)
  BY LevelsAre DEF InPart, ParserInv, Top
<1>2. PICK a \in Nat, h \in Nat : a = Top.at /\ h = Top.hi /\ a < h
  BY <1>1 DEF LevelShape
<1>3. NextPart \in {0} \cup a + 1 .. h - 1
  <2>1. a + 1 \in Nat  OBVIOUS
  <2>2. FindMark(Top.b, a + 1, h) \in {0} \cup a + 1 .. h - 1
    BY <2>1, FindIs
  <2>3. QED  BY <2>2, <1>2 DEF NextPart
<1>4. PartHi \in Nat /\ a < PartHi /\ PartHi <= h
  BY <1>2, <1>3 DEF PartHi
<1>5. PICK p \in Nat : p = PartHi /\ a < p  BY <1>4
<1>6. ASSUME Ended
      PROVE  BodyLo \in Nat /\ a < BodyLo /\ BodyLo <= p
  <2>1. PartLo = a + 1 /\ a + 1 \in Nat  BY <1>2 DEF PartLo
  <2>2. PICK f : f = Find("blank", PartLo, PartHi)  OBVIOUS
  <2>3. f \in {0} \cup a + 1 .. p - 1  BY <2>1, <2>2, <1>5, FindIs
  <2>4. BodyLo = f + 1  BY <2>2 DEF BodyLo
  <2>5. f # 0  BY <2>3, <2>4, <1>6 DEF Ended
  <2>6. QED  BY <2>3, <2>4, <2>5
<1>7. QED  BY <1>2, <1>4, <1>5, <1>6

(* The loop goes on behind the part it stood at.                           *)
LEMMA NextForward ==
    ASSUME ParserInv, InPart, NEW n, Nest(levels, n)
    PROVE  /\ Place(levels, n) = Top.at
           /\ Nest(GoTo(NextPart), n) /\ Place(GoTo(NextPart), n) = PartHi
           /\ Nest(GoTo(0), n) /\ Place(GoTo(0), n) = Top.hi
<1>1. levels # <<>> /\ LevelsShape(levels) /\ Top.at # 0
  BY DEF InPart, ParserInv
<1>2. Place(levels, n) = Top.at  BY <1>1 DEF Place, EndOf, Top
<1>3. Nest(GoTo(NextPart), n) /\ Place(GoTo(NextPart), n) = PartHi
  BY <1>1, NestGoTo DEF PartHi
<1>4. Nest(GoTo(0), n) /\ Place(GoTo(0), n) = Top.hi
  BY <1>1, NestGoTo
<1>5. QED  BY <1>2, <1>3, <1>4

(* No part: the call returns to where the one around it stands.            *)
LEMMA EndLevelForward ==
    ASSUME ParserInv, NEW n, Nest(levels, n), EndLevel
    PROVE  /\ Nest(levels', n) /\ Place(levels', n) = Place(levels, n)
           /\ Len(levels') < Len(levels)
<1>1. levels # <<>> /\ LevelsShape(levels) /\ Top.at = 0
      /\ levels' = Front(levels)
  BY DEF EndLevel, ParserInv
<1>2. /\ Nest(Front(levels), n) /\ Place(Front(levels), n) = Top.hi
      /\ Len(Front(levels)) < Len(levels)
  BY <1>1, NestFront DEF Top
<1>3. Place(levels, n) = Top.hi  BY <1>1 DEF Place, EndOf, Top
<1>4. QED  BY <1>1, <1>2, <1>3

(* A multipart without a boundary: the call returns past its parts.        *)
LEMMA LeaveLevelForward ==
    ASSUME ParserInv, NEW n, Nest(levels, n), LeaveLevel
    PROVE  Forward(n)
<1>1. InPart /\ levels # <<>> /\ LevelsShape(levels)
      /\ levels' = Front(levels)
  BY DEF LeaveLevel, Ended, InPart, ParserInv
<1>2. Nest(Front(levels), n) /\ Place(Front(levels), n) = Top.hi
  BY <1>1, NestFront DEF Top
<1>3. Place(levels, n) = Top.at  BY <1>1, NextForward
<1>4. Top.hi > Top.at  BY <1>1, PartWithin
<1>5. QED  BY <1>1, <1>2, <1>3, <1>4 DEF Forward

(* A part is passed, whatever was done with it.                            *)
LEMMA GoForward ==
    ASSUME ParserInv, NEW n, Nest(levels, n), InPart,
           levels' \in {GoTo(NextPart), GoTo(0)}
    PROVE  Forward(n)
<1>1. Top.hi > Top.at /\ PartHi > Top.at  BY PartWithin
<1>2. CASE levels' = GoTo(NextPart)
  BY <1>1, <1>2, NextForward DEF Forward
<1>3. CASE levels' = GoTo(0)
  BY <1>1, <1>3, NextForward DEF Forward
<1>4. QED  BY <1>2, <1>3

(* A nested call begins in the part and ends with it.                      *)
LEMMA CallForward ==
    ASSUME ParserInv, NEW n, Nest(levels, n), Ended,
           NEW lo \in Nat, BodyLo <= lo, lo <= PartHi, NEW b,
           levels' = Append(GoTo(NextPart), Level(b, lo, PartHi))
    PROVE  Forward(n)
<1>1. InPart  BY DEF Ended
<1>2. LevelsShape(GoTo(NextPart))  BY <1>1, GoToNext
<1>3. PICK a \in Nat, p \in Nat, c \in Nat :
          a = Top.at /\ p = PartHi /\ c = BodyLo /\ a < c
  BY <1>1, PartWithin
<1>4. PICK l : l = Level(b, lo, PartHi)  OBVIOUS
<1>5. l.hi = PartHi /\ EndOf(l) \in lo .. p
  BY <1>3, <1>4, LevelBegins
<1>6. /\ Nest(GoTo(NextPart), n) /\ Place(GoTo(NextPart), n) = PartHi
      /\ Place(levels, n) = a
  BY <1>1, <1>3, NextForward
<1>7. /\ Nest(Append(GoTo(NextPart), l), n)
      /\ Place(Append(GoTo(NextPart), l), n) = EndOf(l)
  BY <1>2, <1>5, <1>6, NestAppend
<1>8. EndOf(l) > a  BY <1>3, <1>5
<1>9. QED  BY <1>4, <1>6, <1>7, <1>8 DEF Forward

(* A message within the message calls, when it is a multipart.             *)
LEMMA MessageForward ==
    ASSUME ParserInv, NEW n, Nest(levels, n), Ended,
           levels' = GoTo(NextPart) \o LevelsAfter(BodyLo, PartHi)
    PROVE  Forward(n)
<1>1. InPart  BY DEF Ended
<1>2. LevelsShape(GoTo(NextPart))  BY <1>1, GoToNext
<1>3. PICK s : s = GoTo(NextPart)  OBVIOUS
<1>4. s \in Seq(ToSet(s))  BY <1>2, <1>3, LevelsAre, SMTT(30)
<1>5. PICK e, b : /\ e = HeadersEnd(BodyLo, PartHi)
                  /\ \/ LevelsAfter(BodyLo, PartHi) = <<>>
                     \/ /\ e # 0
                        /\ LevelsAfter(BodyLo, PartHi) =
                              <<Level(b, e + 1, PartHi)>>
  BY DEF LevelsAfter
<1>6. CASE LevelsAfter(BodyLo, PartHi) = <<>>
  <2>1. levels' = s  BY <1>3, <1>4, <1>6, ConcatEmptySeq
  <2>2. QED  BY <2>1, <1>1, <1>3, GoForward
<1>7. CASE e # 0 /\ LevelsAfter(BodyLo, PartHi) = <<Level(b, e + 1, PartHi)>>
  <2>1. PICK p \in Nat, c \in Nat : p = PartHi /\ c = BodyLo
    BY <1>1, PartWithin
  <2>2. e \in c .. p - 1  BY <2>1, <1>5, <1>7, FindIs, SMTT(30) DEF HeadersEnd
  <2>3. e + 1 \in Nat /\ c <= e + 1 /\ e + 1 <= p  BY <2>1, <2>2
  <2>4. PICK l : l = Level(b, e + 1, PartHi)  OBVIOUS
  <2>5. s \o <<l>> = Append(s, l)
    <3> DEFINE S == ToSet(s) \cup {l}
    <3>1. ToSet(s) \subseteq S /\ l \in S  OBVIOUS
    <3> HIDE DEF S
    <3>2. s \in Seq(S)  BY <3>1, <1>4, SeqMonotonic
    <3>3. QED  BY <3>1, <3>2, AppendIsConcat
  <2>6. levels' = Append(GoTo(NextPart), Level(b, e + 1, PartHi))
    BY <2>4, <2>5, <1>3, <1>7
  <2>7. QED  BY <2>1, <2>3, <2>6, CallForward
<1>8. QED  BY <1>5, <1>6, <1>7

(* A turn of the parser reads on, unless it returns where it is.           *)
LEMMA ParserForward ==
    ASSUME ParserInv, NEW n, Nest(levels, n), ParserStep
    PROVE  /\ Nest(levels', n)
           /\ \/ Place(levels', n) > Place(levels, n)
              \/ /\ Place(levels', n) = Place(levels, n)
                 /\ Len(levels') < Len(levels)
<1>1. CASE EndLevel  BY <1>1, EndLevelForward
<1>2. CASE LeaveLevel  BY <1>2, LeaveLevelForward DEF Forward
<1>3. CASE SkipUntyped \/ SkipUnended
  <2>1. InPart /\ levels' \in {GoTo(NextPart), GoTo(0)}
    BY <1>3 DEF SkipUntyped, SkipUnended
  <2>2. QED  BY <2>1, GoForward DEF Forward
<1>4. CASE TakeText \/ TakeAttachment
  <2>1. InPart /\ levels' \in {GoTo(NextPart), GoTo(0)}
    BY <1>4 DEF TakeText, TakeAttachment, Ended
  <2>2. QED  BY <2>1, GoForward DEF Forward
<1>5. CASE EnterMultipart
  <2>1. /\ Ended
        /\ levels' = Append(GoTo(NextPart),
                            Level(BoundaryOf(Typed), BodyLo, PartHi))
    BY <1>5 DEF EnterMultipart
  <2>2. BodyLo \in Nat /\ BodyLo <= BodyLo /\ BodyLo <= PartHi
    BY <2>1, PartWithin DEF Ended
  <2>3. QED  BY <2>1, <2>2, CallForward DEF Forward
<1>6. CASE TakeMessage
  BY <1>6, MessageForward DEF TakeMessage, Forward
<1>7. QED  BY <1>1, <1>2, <1>3, <1>4, <1>5, <1>6 DEF ParserStep

(* The text [lo, hi) of the buffer has gone to the body, behind what was   *)
(* there.                                                                  *)
TextTaken(lo, hi, body, new) ==
    \E i \in lo .. hi - 1 : text[i][1] = "text" /\ new = Append(body, text[i][3])

(* What is appended comes last.                                            *)
LEMMA LastOfAppend ==
    ASSUME NEW s, IsSequence(s), NEW x
    PROVE  Last(Append(s, x)) = x
<1> DEFINE S == ToSet(s) \cup {x}
           a == Append(s, x)
<1>1. s \in Seq(S) /\ x \in S
  <2>1. s \in Seq(ToSet(s)) /\ ToSet(s) \subseteq S  BY DEF IsSequence
  <2>2. QED  BY <2>1, SeqMonotonic
<1> HIDE DEF S
<1>2. Len(a) = Len(s) + 1 /\ a[Len(s) + 1] = x  BY <1>1, AppendProperties
<1> HIDE DEF a
<1>3. Last(a) = x  BY <1>2 DEF Last
<1>4. QED  BY <1>3 DEF a

(* APPENDTOBODY appends, or leaves the body as it was.                     *)
LEMMA AppendedIs ==
    ASSUME NEW msg, MsgShape(msg), NEW v, NEW size
    PROVE  /\ Appended(v, size, msg).body \in {msg.body, Append(msg.body, v)}
           /\ Appended(v, size, msg).attached = msg.attached
<1>1. DOMAIN msg = {"body", "used", "attached", "octet", "image",
                    "watermark", "signo", "from", "rcpts"}
  BY DEF MsgShape, EmptyMessage
<1>2. PICK a, u : a = Append(msg.body, v) /\ u = msg.used + size  OBVIOUS
<1>3. PICK n : n = [msg EXCEPT !.body = a, !.used = u]  OBVIOUS
<1>4. n.body = a /\ n.attached = msg.attached  BY <1>1, <1>3
<1>5. Appended(v, size, msg) \in {n, msg}  BY <1>2, <1>3 DEF Appended
<1>6. QED  BY <1>2, <1>4, <1>5

(* A text goes to the body from the lines searched for it.                 *)
LEMMA AppendedTextIs ==
    ASSUME NEW msg, MsgShape(msg), NEW lo \in Nat, NEW hi \in Nat,
           AppendedText(lo, hi, msg).body # msg.body
    PROVE  TextTaken(lo, hi, msg.body, AppendedText(lo, hi, msg).body)
<1>1. PICK i : i = Find("text", lo, hi)  OBVIOUS
<1>2. i # 0 /\ AppendedText(lo, hi, msg)
                  = Appended(text[i][3], TextSize(text[i][2]), msg)
  BY <1>1 DEF AppendedText
<1>3. AppendedText(lo, hi, msg).body = Append(msg.body, text[i][3])
  BY <1>2, AppendedIs, SMTT(30)
<1>4. i \in lo .. hi - 1 /\ text[i][1] = "text"  BY <1>1, <1>2, FoundIs
<1>5. QED  BY <1>3, <1>4, SMTT(30) DEF TextTaken

(* So does the text of a message, which then is no multipart.              *)
LEMMA MessageTextIs ==
    ASSUME NEW msg, MsgShape(msg), NEW lo \in Nat, NEW hi \in Nat,
           MessageAfter(lo, hi, msg).body # msg.body
    PROVE  /\ TextTaken(lo, hi, msg.body, MessageAfter(lo, hi, msg).body)
           /\ LevelsAfter(lo, hi) = <<>>
<1>1. PICK e : e = HeadersEnd(lo, hi)  OBVIOUS
<1>2. PICK c : c = Find("ct", lo, e)  OBVIOUS
<1>3. PICK f : f = Fields(lo, IF e = 0 THEN hi ELSE e, msg)  OBVIOUS
<1>4. MsgShape(f) /\ f.body = msg.body
  <2>1. DOMAIN msg = {"body", "used", "attached", "octet", "image",
                      "watermark", "signo", "from", "rcpts"}
    BY DEF MsgShape, EmptyMessage
  <2>2. f.body = msg.body  BY <1>3, <2>1 DEF Fields
  <2>3. QED  BY <1>3, <2>2, FieldsHolds
<1>5. MessageAfter(lo, hi, msg) =
         IF e # 0 /\ (c # 0 => text[c][2] \in Textual \ {"calendar"})
         THEN AppendedText(e + 1, hi, f) ELSE f
  BY <1>1, <1>2, <1>3 DEF MessageAfter
<1>6. e # 0 /\ (c # 0 => text[c][2] \in Textual \ {"calendar"})
  BY <1>4, <1>5
<1>7. e \in lo .. hi - 1  BY <1>1, <1>6, FindIs DEF HeadersEnd
<1>8. TextTaken(e + 1, hi, msg.body, MessageAfter(lo, hi, msg).body)
  <2>1. e + 1 \in Nat  BY <1>7
  <2>2. MessageAfter(lo, hi, msg) = AppendedText(e + 1, hi, f)
    BY <1>5, <1>6
  <2>3. QED  BY <2>1, <2>2, <1>4, AppendedTextIs
<1>9. TextTaken(lo, hi, msg.body, MessageAfter(lo, hi, msg).body)
  <2>1. e + 1 .. hi - 1 \subseteq lo .. hi - 1  BY <1>7
  <2>2. QED  BY <2>1, <1>8, SMTT(30) DEF TextTaken
<1>10. LevelsAfter(lo, hi) = <<>>
  <2>1. "multi" \notin Textual  BY DEF Textual
  <2>2. QED  BY <2>1, <1>1, <1>2, <1>6 DEF LevelsAfter
<1>11. QED  BY <1>9, <1>10

(* What a turn adds to the body.                                           *)
Adds(n) ==
    /\ Place(levels', n) > Place(levels, n)
    /\ \/ TextTaken(Place(levels, n), Place(levels', n), m.body, m'.body)
       \/ /\ m'.attached = m.attached + 1
          /\ m'.body = Append(m.body, Last(m'.body))

(* A text is one of the part that is passed.                               *)
LEMMA PartTaken ==
    ASSUME ParserInv, NEW n, Nest(levels, n), Ended,
           levels' = GoTo(NextPart),
           TextTaken(BodyLo, PartHi, m.body, m'.body)
    PROVE  Adds(n)
<1>1. InPart  BY DEF Ended
<1>2. Place(levels, n) = Top.at /\ Place(levels', n) = PartHi
  BY <1>1, NextForward
<1>3. PICK a \in Nat, p \in Nat, c \in Nat :
          a = Top.at /\ p = PartHi /\ c = BodyLo /\ a < c /\ a < p
  BY <1>1, PartWithin
<1>4. c .. p - 1 \subseteq a .. p - 1  BY <1>3
<1>5. TextTaken(a, p, m.body, m'.body)  BY <1>3, <1>4, SMTT(30) DEF TextTaken
<1>6. QED  BY <1>2, <1>3, <1>5 DEF Adds

(* The text of a part (TakeText).                                          *)
LEMMA TakeTextAdds ==
    ASSUME ParserInv, NEW n, Nest(levels, n), TakeText, m'.body # m.body
    PROVE  Adds(n)
<1>1. Ended /\ levels' = GoTo(NextPart)  BY DEF TakeText
<1>2. m' = AppendedText(BodyLo, PartHi, m)  BY DEF TakeText
<1>3. MsgShape(m)  BY DEF ParserInv
<1>4. BodyLo \in Nat /\ PartHi \in Nat  BY <1>1, PartWithin DEF Ended
<1>5. TextTaken(BodyLo, PartHi, m.body, m'.body)
  BY <1>2, <1>3, <1>4, AppendedTextIs
<1>6. QED  BY <1>1, <1>5, PartTaken

(* The text of a message within the message.                               *)
LEMMA TakeMessageAdds ==
    ASSUME ParserInv, NEW n, Nest(levels, n), TakeMessage,
           m'.body # m.body
    PROVE  Adds(n)
<1>1. /\ Ended
      /\ levels' = GoTo(NextPart) \o LevelsAfter(BodyLo, PartHi)
  BY DEF TakeMessage
<1>2. InPart  BY <1>1 DEF Ended
<1>3. PICK k : k = [m EXCEPT !.watermark = None]  OBVIOUS
<1>4. MsgShape(k) /\ k.body = m.body
  <2>1. MsgShape(m)  BY DEF ParserInv
  <2>2. DOMAIN m = {"body", "used", "attached", "octet", "image",
                    "watermark", "signo", "from", "rcpts"}
    BY <2>1 DEF MsgShape, EmptyMessage
  <2>3. /\ DOMAIN k = DOMAIN m /\ k = [x \in DOMAIN k |-> k[x]]
        /\ k.body = m.body /\ k.used = m.used /\ k.attached = m.attached
    BY <2>2, <1>3
  <2>4. QED  BY <2>1, <2>3 DEF MsgShape
<1>5. m' = MessageAfter(BodyLo, PartHi, k)
  BY <1>3 DEF TakeMessage
<1>6. BodyLo \in Nat /\ PartHi \in Nat  BY <1>1, <1>2, PartWithin
<1>7. TextTaken(BodyLo, PartHi, m.body, m'.body)
      /\ LevelsAfter(BodyLo, PartHi) = <<>>
  BY <1>4, <1>5, <1>6, MessageTextIs
<1>8. levels' = GoTo(NextPart)
  <2>1. LevelsShape(GoTo(NextPart))  BY <1>2, GoToNext
  <2>2. PICK s : s = GoTo(NextPart)  OBVIOUS
  <2>3. s \in Seq(ToSet(s))  BY <2>1, <2>2, LevelsAre
  <2>4. s \o <<>> = s  BY <2>3, ConcatEmptySeq
  <2>5. QED  BY <2>2, <2>4, <1>1, <1>7
<1>9. QED  BY <1>1, <1>7, <1>8, PartTaken

(* The name of an attachment, when it is counted.                          *)
LEMMA TakeAttachmentAdds ==
    ASSUME ParserInv, NEW n, Nest(levels, n), TakeAttachment,
           m'.body # m.body
    PROVE  Adds(n)
<1>1. InPart /\ levels' = GoTo(NextPart)  BY DEF TakeAttachment, Ended
<1>2. Place(levels', n) > Place(levels, n)
  BY <1>1, GoForward DEF Forward
<1>3. PICK k : k = [m EXCEPT !.octet = @ \/ Type = "octet",
                             !.image = @ \/ Type = "image"]
  OBVIOUS
<1>4. PICK o : o = [k EXCEPT !.attached = @ + 1]  OBVIOUS
<1>5. m' = IF m.attached < MaxAttachments
           THEN Appended(NameOf(BodyLo, PartHi), 1, o) ELSE k
  BY <1>3, <1>4 DEF TakeAttachment
<1>6. MsgShape(m)  BY DEF ParserInv
<1>7. DOMAIN m = {"body", "used", "attached", "octet", "image",
                  "watermark", "signo", "from", "rcpts"}
  BY <1>6 DEF MsgShape, EmptyMessage
<1>8. /\ DOMAIN k = DOMAIN m /\ k = [x \in DOMAIN k |-> k[x]]
      /\ k.body = m.body /\ k.used = m.used /\ k.attached = m.attached
  BY <1>3, <1>7
<1>9. /\ DOMAIN o = DOMAIN k /\ o = [x \in DOMAIN o |-> o[x]]
      /\ o.body = k.body /\ o.used = k.used /\ o.attached = k.attached + 1
  BY <1>4, <1>7, <1>8
<1>10. m.attached < MaxAttachments  BY <1>5, <1>8
<1>11. MsgShape(o)
  <2>1. m.attached \in Nat  BY <1>6 DEF MsgShape
  <2>2. MaxAttachments \in Nat  BY ParserAssumption DEF ParserAssumption
  <2>3. m.attached + 1 \in Nat /\ m.attached + 1 <= MaxAttachments
    BY <2>1, <2>2, <1>10
  <2>4. o.attached = m.attached + 1  BY <1>8, <1>9
  <2>5. QED  BY <2>3, <2>4, <1>6, <1>8, <1>9 DEF MsgShape
<1>12. PICK v : v = NameOf(BodyLo, PartHi)  OBVIOUS
<1>13. m' = Appended(v, 1, o)  BY <1>5, <1>10, <1>12
<1>14. m'.body = Append(m.body, v) /\ m'.attached = m.attached + 1
  BY <1>8, <1>9, <1>11, <1>13, AppendedIs, SMTT(30)
<1>15. Last(Append(m.body, v)) = v  BY <1>6, LastOfAppend DEF MsgShape
<1>16. QED  BY <1>2, <1>14, <1>15 DEF Adds

(* Nothing else adds to the body.                                          *)
LEMMA ParserAdds ==
    ASSUME ParserInv, NEW n, Nest(levels, n), ParserStep,
           m'.body # m.body
    PROVE  Adds(n)
<1>1. CASE TakeText  BY <1>1, TakeTextAdds
<1>2. CASE TakeMessage  BY <1>2, TakeMessageAdds
<1>3. CASE TakeAttachment  BY <1>3, TakeAttachmentAdds
<1>4. CASE EndLevel \/ SkipUntyped \/ SkipUnended \/ EnterMultipart \/ LeaveLevel
  BY <1>4 DEF EndLevel, SkipUntyped, SkipUnended, EnterMultipart, LeaveLevel
<1>5. QED  BY <1>1, <1>2, <1>3, <1>4 DEF ParserStep

(* parse_message makes the outermost call, for the whole text.             *)
LEMMA FirstCall ==
    ASSUME NEW hi \in Nat \ {0}
    PROVE  Nest(LevelsAfter(1, hi), hi)
<1>1. CASE LevelsAfter(1, hi) = <<>>  BY <1>1 DEF Nest
<1>2. CASE LevelsAfter(1, hi) # <<>>
  <2>1. PICK l, b, lo : LevelsAfter(1, hi) = <<l>> /\ l = Level(b, lo, hi)
    BY <1>2 DEF LevelsAfter
  <2>2. l.hi = hi  BY <2>1 DEF Level
  <2>3. PICK s : s = LevelsAfter(1, hi)  OBVIOUS
  <2>4. DOMAIN s = {1} /\ s[1] = l  BY <2>1, <2>3
  <2>5. Nest(s, hi)  BY <2>2, <2>4 DEF Nest
  <2>6. QED  BY <2>3, <2>5
<1>3. QED  BY <1>1, <1>2

(* PartsNest and Position, in these terms.                                 *)
LEMMA NestIs ==
    /\ PartsNest <=> Nest(levels, Len(text) + 1)
    /\ Position = Place(levels, Len(text) + 1)
  BY DEF PartsNest, Position, Nest, Place, EndOf, Top

(* Only the parser's own steps leave the service parsing.                  *)
LEMMA ParsingIs ==
    ASSUME [Next]_vars, Parsing
    PROVE  UNCHANGED vars \/ (ParserStep /\ UNCHANGED text)
<1>1. CASE UNCHANGED vars  BY <1>1
<1>2. CASE Parse
  <2>1. ParserStep  BY <1>2 DEF Parse, Parsing
  <2>2. UNCHANGED text
    BY <2>1 DEF ParserStep, EndLevel, SkipUntyped, SkipUnended, EnterMultipart,
                LeaveLevel, TakeText, TakeMessage, TakeAttachment
  <2>3. QED  BY <2>1, <2>2
<1>3. CASE Session \/ TakeQueued \/ TakeOld
  BY <1>3 DEF Session, TakeQueued, TakeOld, Parsing
<1>4. CASE CheckSpam  BY <1>4 DEF CheckSpam, Parsing
<1>5. CASE Judge \/ Release \/ Send  BY <1>5 DEF Judge, Release, Send, Parsing
<1>6. QED  BY <1>1, <1>2, <1>3, <1>4, <1>5 DEF Next

(* Every step leaves the calls nested.                                     *)
LEMMA NestHolds ==
    ASSUME IInv, PartsNest, [Next]_vars
    PROVE  PartsNest'
<1> DEFINE n == Len(text) + 1
<1>1. Nest(levels, n) /\ n \in Nat \ {0}
  BY NestIs DEF IInv, ParserInv
<1> HIDE DEF n
<1>2. ASSUME UNCHANGED parserVars PROVE PartsNest'
  BY <1>2 DEF parserVars, PartsNest, Top
<1>3. ASSUME ParserStep PROVE PartsNest'
  <2>1. PICK g : g = levels'  OBVIOUS
  <2>2. Nest(g, n)  BY <2>1, <1>1, <1>3, ParserForward DEF IInv
  <2>3. text' = text
    BY <1>3 DEF ParserStep, EndLevel, SkipUntyped, SkipUnended, EnterMultipart,
                LeaveLevel, TakeText, TakeMessage, TakeAttachment
  <2>4. QED  BY <2>1, <2>2, <2>3 DEF PartsNest, Nest, EndOf, Top, n
<1>4. ASSUME NEW t, ReadFile(t) PROVE PartsNest'
  <2>1. levels' = <<>>  BY <1>4 DEF ReadFile
  <2>2. QED  BY <2>1 DEF PartsNest
<1>5. ASSUME ParseBuffer PROVE PartsNest'
  <2>1. PICK g : g = levels'  OBVIOUS
  <2>2. g = LevelsAfter(1, n) /\ text' = text
    BY <2>1, <1>5 DEF ParseBuffer, n
  <2>3. Nest(g, n)  BY <2>2, <1>1, FirstCall
  <2>4. QED  BY <2>1, <2>2, <2>3 DEF PartsNest, Nest, EndOf, Top, n
<1>6. CASE UNCHANGED vars  BY <1>6, <1>2 DEF vars
<1>7. CASE Session \/ Judge \/ Release \/ Send
  BY <1>7, <1>2 DEF Session, Judge, Release, Send
<1>8. CASE TakeQueued \/ TakeOld
  BY <1>8, <1>4 DEF TakeQueued, TakeOld, Take
<1>9. CASE CheckSpam  BY <1>9, <1>4 DEF CheckSpam
<1>10. CASE Parse  BY <1>10, <1>3, <1>5 DEF Parse
<1>11. QED  BY <1>6, <1>7, <1>8, <1>9, <1>10 DEF Next

(* PartsNest, with IInv: the calls of extract_mime_parts in progress share *)
(* no line, and leave none between them, in any message.                   *)
THEOREM Nesting == Spec => []PartsNest
<1>1. Init => PartsNest  BY DEF Init, ParserInit, PartsNest
<1>2. IInv /\ PartsNest /\ [Next]_vars => PartsNest'  BY NestHolds
<1>3. QED  BY <1>1, <1>2, Inductive, PTL DEF Spec

(* A step that leaves the service parsing reads on or returns, and what it *)
(* adds to the body comes from between the places before and after.        *)
LEMMA ParsingForward ==
    ASSUME IInv, PartsNest, Next, Parsing, vars' # vars
    PROVE  /\ \/ Position' > Position
              \/ Position' = Position /\ Len(levels') < Len(levels)
           /\ m'.body # m.body =>
                 /\ Position' > Position
                 /\ \/ \E i \in Position .. Position' - 1 :
                          /\ text[i][1] = "text"
                          /\ m'.body = Append(m.body, text[i][3])
                    \/ /\ m'.attached = m.attached + 1
                       /\ m'.body = Append(m.body, Last(m'.body))
<1>1. ParserStep /\ UNCHANGED text
  <2>1. ~UNCHANGED vars  OBVIOUS
  <2>2. QED  BY <2>1, ParsingIs
<1>2. PICK n : n = Len(text) + 1  OBVIOUS
<1>3. Nest(levels, n) /\ ParserInv  BY <1>2, NestIs DEF IInv
<1>4. Position = Place(levels, n)  BY <1>2, NestIs
<1>5. Position' = Place(levels', n)
  BY <1>1, <1>2 DEF Position, Place, EndOf, Top
<1>6. \/ Place(levels', n) > Place(levels, n)
      \/ /\ Place(levels', n) = Place(levels, n)
         /\ Len(levels') < Len(levels)
  BY <1>1, <1>3, ParserForward
<1>7. m'.body # m.body => Adds(n)  BY <1>1, <1>3, ParserAdds
<1>8. QED  BY <1>4, <1>5, <1>6, <1>7 DEF Adds, TextTaken

(* The loop does not go on with the part it stands at.                     *)
LEMMA NextIsAnother == ASSUME ParserInv, InPart PROVE GoTo(NextPart) # levels
<1>1. PICK n : n = Len(levels)  OBVIOUS
<1>2. /\ n \in DOMAIN levels /\ Top = levels[n] /\ LevelShape(levels[n])
  BY <1>1, LevelsAre DEF InPart, ParserInv, Top
<1>3. PICK l : l = levels[n] /\ l = [b |-> l.b, at |-> l.at, hi |-> l.hi]
  BY <1>2 DEF LevelShape
<1>4. PICK j : j = NextPart  OBVIOUS
<1>5. j # l.at
  <2>1. PICK a \in Nat, h \in Nat : a = Top.at /\ h = Top.hi /\ a # 0
    BY <1>2 DEF LevelShape, InPart
  <2>2. a + 1 \in Nat  OBVIOUS
  <2>3. FindMark(Top.b, a + 1, h) \in {0} \cup a + 1 .. h - 1
    BY <2>2, FindIs
  <2>4. j \in {0} \cup a + 1 .. h - 1  BY <2>1, <2>3, <1>4 DEF NextPart
  <2>5. j # a  BY <2>1, <2>4
  <2>6. QED  BY <2>1, <2>5, <1>2, <1>3
<1>6. PICK g : g = GoTo(NextPart)  OBVIOUS
<1>7. g[n] = [l EXCEPT !.at = j]
  BY <1>1, <1>2, <1>3, <1>4, <1>6 DEF GoTo
<1>8. g[n].at = j  BY <1>3, <1>7
<1>9. QED  BY <1>3, <1>5, <1>6, <1>8

(* ReadsOn: what the parser has left to read gets less, or the calls in    *)
(* progress do, so that it ends with every message.                        *)
THEOREM ReadingEnds == Spec => ReadsOn
<1>1. IInv => (InPart => GoTo(NextPart) # levels)
  BY NextIsAnother DEF IInv
<1>2. IInv /\ PartsNest /\ [Next]_vars
      => [Parsing => \/ Position' > Position
                     \/ Position' = Position /\ Len(levels') < Len(levels)]_vars
  BY ParsingForward
<1>3. QED  BY <1>1, <1>2, Inductive, Nesting, PTL DEF Spec, ReadsOn

(* BodyInOrder: what the tokens are made of is what the parts say, in the  *)
(* order of the message and each part once.                                *)
THEOREM BodyOrdered == Spec => BodyInOrder
<1>1. IInv /\ PartsNest /\ [Next]_vars
      => [Parsing /\ m'.body # m.body =>
             /\ Position' > Position
             /\ \/ \E i \in Position .. Position' - 1 :
                      text[i][1] = "text" /\ m'.body = Append(m.body, text[i][3])
                \/ /\ m'.attached = m.attached + 1
                   /\ m'.body = Append(m.body, Last(m'.body))]_vars
  BY ParsingForward
<1>2. QED  BY <1>1, Inductive, Nesting, PTL DEF Spec, BodyInOrder

-----------------------------------------------------------------------------
(* The recipients the worker goes by                                       *)

(* While the file is parsed, its envelope lines are where smtpd wrote      *)
(* them, and with no others in the message they are what the worker has.   *)
EnvelopeInv ==
    /\ stage \in {"read", "parse"} =>
          /\ Len(text) >= 2 /\ DOMAIN text = 1 .. Len(text)
          /\ text[1] = <<"from", file.from>>
          /\ text[2] = <<"rcpts", file.rcpts>>
    /\ stage = "parse" /\ ~Enclosed => m.rcpts = Fitting(file.rcpts)

(* No call of extract_mime_parts goes beyond the text: the outermost one   *)
(* that did would not end where the call around it goes on.                *)
LEMMA WithinText ==
    ASSUME NEW s, LevelsShape(s), NEW n \in Nat, Nest(s, n)
    PROVE  \A i \in DOMAIN s : s[i].hi <= n
<1> DEFINE T == {i \in DOMAIN s : s[i].hi > n}
<1>1. DOMAIN s = 1 .. Len(s) /\ Len(s) \in Nat  BY LevelsAre
<1>2. \A i \in DOMAIN s : s[i].hi \in Nat /\ s[i].at < s[i].hi
                          /\ s[i].at \in Nat
  BY DEF LevelsShape, LevelShape
<1>3. ASSUME T # {} PROVE FALSE
  <2>1. T \subseteq Nat  BY <1>1
  <2>2. PICK i \in T : \A j \in T : i <= j  BY <2>1, <1>3, LeastIs
  <2>3. i \in 1 .. Len(s) /\ s[i].hi > n  BY <2>2, <1>1
  <2>4. s[i].hi = IF i = 1 THEN n ELSE EndOf(s[i - 1])
    BY <2>3, <1>1 DEF Nest
  <2>5. i # 1
    <3>1. ~(n > n)  OBVIOUS
    <3>2. QED  BY <3>1, <2>3, <2>4
  <2>6. i - 1 \in 1 .. Len(s) /\ ~(i <= i - 1)  BY <2>3, <2>5
  <2>7. i - 1 \notin T  BY <2>2, <2>6
  <2>8. ~(s[i - 1].hi > n)  BY <2>6, <2>7, <1>1
  <2>9. PICK a \in Nat, h \in Nat :
           a = s[i - 1].at /\ h = s[i - 1].hi /\ a < h
    BY <2>6, <1>1, <1>2
  <2>10. ~(EndOf(s[i - 1]) > n)  BY <2>8, <2>9 DEF EndOf
  <2>11. QED  BY <2>3, <2>4, <2>5, <2>10
<1>4. \A i \in DOMAIN s : ~(s[i].hi > n)  BY <1>3
<1>5. QED  BY <1>2, <1>4

(* What does not fit is left out, once.                                    *)
LEMMA FittingIs ==
    ASSUME NEW r \in Seq(Rcpt)
    PROVE  /\ Fitting(Fitting(r)) = Fitting(r)
           /\ ToSet(Fitting(r)) \subseteq ToSet(r)
           /\ \A i \in DOMAIN r :
                 i <= HeaderRoom => r[i] \in ToSet(Fitting(r))
<1>0. DOMAIN r = 1 .. Len(r) /\ Len(r) \in Nat  BY LenProperties
<1>h. HeaderRoom \in Nat \ {0}  BY ParserAssumption DEF ParserAssumption
<1>1. CASE Len(r) <= HeaderRoom  BY <1>1 DEF Fitting, ToSet
<1>2. CASE ~(Len(r) <= HeaderRoom)
  <2> DEFINE a == SubSeq(r, 1, HeaderRoom)
  <2>1. \A i \in 1 .. HeaderRoom : r[i] \in Rcpt
    <3>1. SUFFICES ASSUME NEW i \in 1 .. HeaderRoom PROVE r[i] \in Rcpt
      OBVIOUS
    <3>2. i \in 1 .. Len(r)  BY <1>0, <1>2, <1>h
    <3>3. QED  BY <3>2, ElementOfSeq
  <2>2. /\ 1 \in Int /\ HeaderRoom \in Int /\ 1 <= HeaderRoom
        /\ HeaderRoom - 1 + 1 = HeaderRoom
        /\ \A i \in 1 .. HeaderRoom : 1 + i - 1 = i
    BY <1>h
  <2>3. /\ a \in Seq(Rcpt)
        /\ Len(a) = IF 1 <= HeaderRoom THEN HeaderRoom - 1 + 1 ELSE 0
        /\ \A i \in 1 .. HeaderRoom - 1 + 1 : a[i] = r[1 + i - 1]
    BY <2>1, <2>2, SubSeqProperties
  <2>4. Len(a) = HeaderRoom  BY <2>2, <2>3
  <2>5. \A i \in 1 .. HeaderRoom : a[i] = r[i]
    <3>1. SUFFICES ASSUME NEW i \in 1 .. HeaderRoom PROVE a[i] = r[i]
      OBVIOUS
    <3>2. i \in 1 .. HeaderRoom - 1 + 1  BY <2>2
    <3>3. a[i] = r[1 + i - 1]  BY <2>3, <3>2
    <3>4. 1 + i - 1 = i  BY <2>2
    <3>5. QED  BY <3>3, <3>4, Zenon
  <2>6. Fitting(r) = a  BY <1>2 DEF Fitting
  <2>7. DOMAIN a = 1 .. HeaderRoom  BY <2>3, <2>4, LenProperties
  <2> HIDE DEF a
  <2>8. Fitting(a) = a  BY <2>4, <1>h DEF Fitting
  <2>9. ToSet(a) \subseteq ToSet(r)
    <3>1. SUFFICES ASSUME NEW i \in 1 .. HeaderRoom PROVE a[i] \in ToSet(r)
      BY <2>7 DEF ToSet
    <3>2. i \in DOMAIN r  BY <1>0, <1>2, <1>h
    <3>3. QED  BY <3>2, <2>5 DEF ToSet
  <2>10. ASSUME NEW i \in DOMAIN r, i <= HeaderRoom PROVE r[i] \in ToSet(a)
    <3>1. i \in 1 .. HeaderRoom  BY <2>10, <1>0, <1>h
    <3>2. QED  BY <3>1, <2>5, <2>7 DEF ToSet
  <2>11. QED  BY <2>6, <2>8, <2>9, <2>10
<1>3. QED  BY <1>1, <1>2

(* The recipients of a header are the ones it names, or those of before.   *)
LEMMA FieldsRcpts ==
    ASSUME NEW msg, MsgShape(msg), NEW lo, NEW hi
    PROVE  Fields(lo, hi, msg).rcpts = Fitting(Value("rcpts", lo, hi, msg.rcpts))
<1>1. DOMAIN msg = {"body", "used", "attached", "octet", "image",
                    "watermark", "signo", "from", "rcpts"}
  BY DEF MsgShape, EmptyMessage
<1>2. PICK from, w, r :
          /\ from = Value("from", lo, hi, msg.from)
          /\ w = Value("watermark", lo, hi, msg.watermark)
          /\ r = Fitting(Value("rcpts", lo, hi, msg.rcpts))
  OBVIOUS
<1>3. PICK b : b = (msg.signo \/ (from = Daemon /\ Find("signo", lo, hi) # 0))
  OBVIOUS
<1>4. Fields(lo, hi, msg) = [msg EXCEPT !.watermark = w, !.from = from,
                                        !.rcpts = r, !.signo = b]
  BY <1>2, <1>3 DEF Fields
<1>5. Fields(lo, hi, msg).rcpts = r  BY <1>1, <1>4
<1>6. QED  BY <1>2, <1>5

(* The body is not the header's.                                           *)
LEMMA AppendedRcpts ==
    ASSUME NEW msg, MsgShape(msg), NEW v, NEW size
    PROVE  Appended(v, size, msg).rcpts = msg.rcpts
<1>1. DOMAIN msg = {"body", "used", "attached", "octet", "image",
                    "watermark", "signo", "from", "rcpts"}
  BY DEF MsgShape, EmptyMessage
<1>2. PICK a, u : a = Append(msg.body, v) /\ u = msg.used + size  OBVIOUS
<1>3. PICK n : n = [msg EXCEPT !.body = a, !.used = u]  OBVIOUS
<1>4. n.rcpts = msg.rcpts  BY <1>1, <1>3
<1>5. Appended(v, size, msg) \in {n, msg}  BY <1>2, <1>3 DEF Appended
<1>6. QED  BY <1>4, <1>5

(* Nor is a text of it.                                                    *)
LEMMA TextRcpts ==
    ASSUME NEW msg, MsgShape(msg), NEW lo, NEW hi
    PROVE  AppendedText(lo, hi, msg).rcpts = msg.rcpts
<1>1. PICK i : i = Find("text", lo, hi)  OBVIOUS
<1>2. AppendedText(lo, hi, msg)
         \in {msg, Appended(text[i][3], TextSize(text[i][2]), msg)}
  BY <1>1 DEF AppendedText
<1>3. QED  BY <1>2, AppendedRcpts

(* parse_eml_buffer goes by the recipients of the header it reads.         *)
LEMMA MessageRcpts ==
    ASSUME NEW msg, MsgShape(msg), NEW lo, NEW hi
    PROVE  \E h \in {hi, HeadersEnd(lo, hi)} :
              /\ h = hi \/ h # 0
              /\ MessageAfter(lo, hi, msg).rcpts
                    = Fitting(Value("rcpts", lo, h, msg.rcpts))
<1>1. PICK e : e = HeadersEnd(lo, hi)  OBVIOUS
<1>2. PICK h : h = IF e = 0 THEN hi ELSE e  OBVIOUS
<1>3. PICK f : f = Fields(lo, h, msg)  OBVIOUS
<1>4. MsgShape(f)  BY <1>3, FieldsHolds
<1>5. f.rcpts = Fitting(Value("rcpts", lo, h, msg.rcpts))
  BY <1>3, FieldsRcpts
<1>6. MessageAfter(lo, hi, msg) \in {f, AppendedText(e + 1, hi, f)}
  BY <1>1, <1>2, <1>3 DEF MessageAfter
<1>7. AppendedText(e + 1, hi, f).rcpts = f.rcpts  BY <1>4, TextRcpts
<1>8. MessageAfter(lo, hi, msg).rcpts = f.rcpts  BY <1>6, <1>7
<1>9. QED  BY <1>1, <1>2, <1>5, <1>8

(* The header of the file names the recipients of the session.             *)
LEMMA OuterRcpts ==
    ASSUME NEW r, Len(text) \in Nat, Len(text) >= 2,
           text[1][1] = "from", text[2] = <<"rcpts", r>>,
           NEW msg, MsgShape(msg)
    PROVE  MessageAfter(1, Len(text) + 1, msg).rcpts = Fitting(r)
<1>1. PICK n \in Nat : n = Len(text) + 1 /\ n >= 3  OBVIOUS
<1>2. PICK h : /\ h \in {n, HeadersEnd(1, n)} /\ (h = n \/ h # 0)
               /\ MessageAfter(1, n, msg).rcpts
                     = Fitting(Value("rcpts", 1, h, msg.rcpts))
  BY MessageRcpts
<1>3. h \in Nat /\ h >= 3
  <2>1. CASE h = n  BY <2>1, <1>1
  <2>2. CASE h # n
    <3>1. Find("blank", 1, n) # 0 /\ h = Find("blank", 1, n)
      BY <2>2, <1>2 DEF HeadersEnd
    <3>2. h \in 1 .. n - 1 /\ text[h][1] = "blank"  BY <3>1, FoundIs
    <3>3. text[2][1] = "rcpts"  OBVIOUS
    <3>4. h # 1 /\ h # 2  BY <3>2, <3>3
    <3>5. QED  BY <3>2, <3>4
  <2>3. QED  BY <2>1, <2>2
<1> DEFINE T == {i \in 1 .. h - 1 : text[i][1] = "rcpts"}
<1>4. 2 \in T  BY <1>3
<1>5. T \subseteq Nat /\ 1 \notin T /\ 0 \notin T  BY <1>3
<1>6. Find("rcpts", 1, h) = First(T)  BY DEF Find
<1> HIDE DEF T
<1>7. First(T) \in T /\ First(T) <= 2  BY <1>4, <1>5, FirstIs
<1>8. First(T) = 2
  <2>1. PICK x : x = First(T)  OBVIOUS
  <2>2. x \in Nat /\ x # 0 /\ x # 1 /\ x <= 2
    BY <2>1, <1>5, <1>7, Zenon
  <2>3. x = 2  BY <2>2
  <2>4. QED  BY <2>1, <2>3
<1>9. Value("rcpts", 1, h, msg.rcpts) = r  BY <1>6, <1>8 DEF Value
<1>10. QED  BY <1>1, <1>2, <1>9

(* The header of a message within the message names the same, or none.     *)
LEMMA InnerRcpts ==
    ASSUME NEW r \in Seq(Rcpt), Len(text) \in Nat,
           DOMAIN text = 1 .. Len(text), text[2] = <<"rcpts", r>>, ~Enclosed,
           NEW msg, MsgShape(msg), msg.rcpts = Fitting(r),
           NEW lo \in Nat, NEW hi \in Nat, lo > 1, hi <= Len(text) + 1
    PROVE  MessageAfter(lo, hi, msg).rcpts = Fitting(r)
<1>1. PICK h : /\ h \in {hi, HeadersEnd(lo, hi)} /\ (h = hi \/ h # 0)
               /\ MessageAfter(lo, hi, msg).rcpts
                     = Fitting(Value("rcpts", lo, h, msg.rcpts))
  BY MessageRcpts
<1>2. h \in Nat /\ h <= hi
  <2>1. CASE h = hi  BY <2>1
  <2>2. CASE h # hi
    <3>1. Find("blank", lo, hi) # 0 /\ h = Find("blank", lo, hi)
      BY <2>2, <1>1 DEF HeadersEnd
    <3>2. h \in lo .. hi - 1  BY <3>1, FoundIs
    <3>3. QED  BY <3>2
  <2>3. QED  BY <2>1, <2>2
<1>3. PICK i : i = Find("rcpts", lo, h)  OBVIOUS
<1>4. CASE i = 0
  <2>1. Value("rcpts", lo, h, msg.rcpts) = msg.rcpts
    BY <1>3, <1>4 DEF Value
  <2>2. QED  BY <2>1, <1>1, FittingIs
<1>5. CASE i # 0
  <2>1. i \in lo .. h - 1 /\ text[i][1] = "rcpts"
    BY <1>2, <1>3, <1>5, FoundIs
  <2>2. i \in DOMAIN text /\ i >= 2  BY <2>1, <1>2
  <2>3. ~(i > 2)  BY <2>1, <2>2 DEF Enclosed
  <2>4. i = 2  BY <2>1, <2>2, <2>3
  <2>5. Value("rcpts", lo, h, msg.rcpts) = r
    BY <2>4, <1>3, <1>5 DEF Value
  <2>6. QED  BY <2>5, <1>1
<1>6. QED  BY <1>4, <1>5

(* No turn of the parser changes them, unless it reads others.             *)
LEMMA ParserRcpts ==
    ASSUME NEW r \in Seq(Rcpt), ParserInv, PartsNest,
           DOMAIN text = 1 .. Len(text), text[2] = <<"rcpts", r>>, ~Enclosed,
           m.rcpts = Fitting(r), ParserStep
    PROVE  m'.rcpts = Fitting(r)
<1>1. MsgShape(m)  BY DEF ParserInv
<1>2. DOMAIN m = {"body", "used", "attached", "octet", "image",
                  "watermark", "signo", "from", "rcpts"}
  BY <1>1 DEF MsgShape, EmptyMessage
<1>3. CASE EndLevel \/ SkipUntyped \/ SkipUnended \/ EnterMultipart \/ LeaveLevel
  BY <1>3 DEF EndLevel, SkipUntyped, SkipUnended, EnterMultipart, LeaveLevel
<1>4. CASE TakeText
  BY <1>4, <1>1, TextRcpts DEF TakeText
<1>5. CASE TakeMessage
  <2>1. PICK k : k = [m EXCEPT !.watermark = None]  OBVIOUS
  <2>2. MsgShape(k) /\ k.rcpts = m.rcpts
    <3>1. /\ DOMAIN k = DOMAIN m /\ k = [x \in DOMAIN k |-> k[x]]
          /\ k.body = m.body /\ k.used = m.used /\ k.attached = m.attached
          /\ k.rcpts = m.rcpts
      BY <1>2, <2>1
    <3>2. QED  BY <3>1, <1>1 DEF MsgShape
  <2>3. PICK lo, hi : lo = BodyLo /\ hi = PartHi  OBVIOUS
  <2>4. m' = MessageAfter(lo, hi, k)
    BY <2>1, <2>3, <1>5 DEF TakeMessage
  <2>5. InPart /\ Ended /\ levels # <<>> /\ Top.at # 0
    BY <1>5 DEF TakeMessage, Ended, InPart
  <2>6. /\ lo \in Nat /\ hi \in Nat /\ Top.at \in Nat /\ Top.hi \in Nat
        /\ Top.at < lo /\ hi <= Top.hi
    BY <2>3, <2>5, PartWithin
  <2>7. PICK n \in Nat : n = Len(text) + 1  BY DEF ParserInv
  <2>8. Top.hi <= n
    <3>1. Nest(levels, n)  BY <2>7, NestIs
    <3>2. Len(levels) \in DOMAIN levels /\ Top = levels[Len(levels)]
      BY <2>5, LevelsAre DEF ParserInv, Top
    <3>3. QED  BY <3>1, <3>2, WithinText DEF ParserInv
  <2>9. PICK a \in Nat, h \in Nat : a = Top.at /\ h = Top.hi
    BY <2>6
  <2>10. lo > 1  BY <2>5, <2>6, <2>9
  <2>11. hi <= Len(text) + 1  BY <2>6, <2>7, <2>8, <2>9
  <2>12. Len(text) \in Nat  BY DEF ParserInv
  <2>13. MessageAfter(lo, hi, k).rcpts = Fitting(r)
    BY <2>2, <2>6, <2>10, <2>11, <2>12, InnerRcpts
  <2>14. QED  BY <2>4, <2>13
<1>6. CASE TakeAttachment
  <2>1. PICK k : k = [m EXCEPT !.octet = @ \/ Type = "octet",
                               !.image = @ \/ Type = "image"]
    OBVIOUS
  <2>2. PICK o : o = [k EXCEPT !.attached = @ + 1]  OBVIOUS
  <2>3. m' = IF m.attached < MaxAttachments
             THEN Appended(NameOf(BodyLo, PartHi), 1, o) ELSE k
    BY <1>6, <2>1, <2>2 DEF TakeAttachment
  <2>4. /\ DOMAIN k = DOMAIN m /\ k = [x \in DOMAIN k |-> k[x]]
        /\ k.body = m.body /\ k.used = m.used /\ k.attached = m.attached
        /\ k.rcpts = m.rcpts
    BY <1>2, <2>1
  <2>5. /\ DOMAIN o = DOMAIN k /\ o = [x \in DOMAIN o |-> o[x]]
        /\ o.body = k.body /\ o.used = k.used /\ o.attached = k.attached + 1
        /\ o.rcpts = k.rcpts
    BY <1>2, <2>2, <2>4
  <2>6. CASE m.attached < MaxAttachments
    <3>1. m.attached \in Nat  BY <1>1 DEF MsgShape
    <3>2. MaxAttachments \in Nat  BY ParserAssumption DEF ParserAssumption
    <3>3. m.attached + 1 \in Nat /\ m.attached + 1 <= MaxAttachments
      BY <3>1, <3>2, <2>6
    <3>4. o.attached = m.attached + 1  BY <2>4, <2>5
    <3>5. MsgShape(o)  BY <3>3, <3>4, <1>1, <2>4, <2>5 DEF MsgShape
    <3>6. m' = Appended(NameOf(BodyLo, PartHi), 1, o)  BY <2>3, <2>6
    <3>7. QED  BY <3>5, <3>6, <2>4, <2>5, AppendedRcpts
  <2>7. CASE ~(m.attached < MaxAttachments)
    BY <2>3, <2>4, <2>7
  <2>8. QED  BY <2>6, <2>7
<1>7. QED  BY <1>3, <1>4, <1>5, <1>6 DEF ParserStep

(* The envelope lines of a file just taken are where smtpd wrote them.     *)
LEMMA TakeEnvelope ==
    ASSUME NEW f, NEW t, TextOf(t) \in Seq(ToSet(TextOf(t))), Take(f, t)
    PROVE  EnvelopeInv'
<1>1. /\ stage' = "read" /\ file' = f
      /\ text' = EnvelopeLines(f.from, f.rcpts) \o TextOf(t)
  BY DEF Take, ReadFile
<1>2. PICK x, a, r : /\ x = EnvelopeLines(a, r) \o TextOf(t)
                     /\ a = f.from /\ r = f.rcpts
  OBVIOUS
<1>3. /\ Len(x) >= 2 /\ DOMAIN x = 1 .. Len(x)
      /\ x[1] = <<"from", a>> /\ x[2] = <<"rcpts", r>>
  BY <1>2, EnvelopeIs
<1>4. text' = x /\ file'.from = a /\ file'.rcpts = r  BY <1>1, <1>2
<1>5. QED  BY <1>1, <1>3, <1>4 DEF EnvelopeInv

(* The worker goes by the recipients that smtpd wrote, as long as no other *)
(* ones are in the message.                                                *)
LEMMA EnvelopeHolds ==
    ASSUME IInv, PartsNest, EnvelopeInv, [Next]_vars
    PROVE  EnvelopeInv'
<1>1. CASE UNCHANGED vars
  BY <1>1 DEF vars, parserVars, EnvelopeInv, Enclosed, Fitting
<1>2. CASE stage' \notin {"read", "parse"}  BY <1>2 DEF EnvelopeInv
<1>3. CASE Session \/ Judge \/ Release \/ Send \/ CheckSpam
  <2>1. stage' \notin {"read", "parse"}
    BY <1>3 DEF Session, Judge, Release, Send, CheckSpam
  <2>2. QED  BY <2>1, <1>2
<1>4. CASE TakeQueued \/ TakeOld
  <2>1. PICK f \in queued \cup OldFile, t \in Tree \cup PlainTree : Take(f, t)
    BY <1>4 DEF TakeQueued, TakeOld
  <2>2. TextOf(t) \in Seq(ToSet(TextOf(t)))
    BY <2>1, PathAssumption DEF PathAssumption
  <2>3. QED  BY <2>1, <2>2, TakeEnvelope
<1>5. CASE Parse
  <2>1. /\ stage \in {"read", "parse"} /\ stage' = "parse" /\ file' = file
    BY <1>5 DEF Parse
  <2>2. text' = text
    BY <1>5 DEF Parse, ParseBuffer, ParserStep, EndLevel, SkipUntyped,
                SkipUnended, EnterMultipart, LeaveLevel, TakeText, TakeMessage,
                TakeAttachment
  <2>3. /\ Len(text) >= 2 /\ DOMAIN text = 1 .. Len(text)
        /\ text[1] = <<"from", file.from>>
        /\ text[2] = <<"rcpts", file.rcpts>>
    BY <2>1 DEF EnvelopeInv
  <2>4. PICK r : r = file.rcpts  OBVIOUS
  <2>5. ParserInv /\ Len(text) \in Nat /\ r \in Seq(Rcpt)
    <3>1. stage # "smtp"  BY <2>1
    <3>2. QED  BY <2>4, <3>1 DEF IInv, ParserInv, Written
  <2>6. ASSUME ~Enclosed PROVE m'.rcpts = Fitting(r)
    <3>1. CASE stage = "read" /\ ParseBuffer
      <4>1. m' = MessageAfter(1, Len(text) + 1, m)
        BY <3>1 DEF ParseBuffer
      <4>2. text[1][1] = "from"  BY <2>3
      <4>3. text[2] = <<"rcpts", r>>  BY <2>3, <2>4
      <4>4. MsgShape(m)  BY <2>5 DEF ParserInv
      <4>5. QED  BY <4>1, <4>2, <4>3, <4>4, <2>3, <2>5, OuterRcpts
    <3>2. CASE stage = "parse" /\ ParserStep
      <4>1. m.rcpts = Fitting(r)  BY <3>2, <2>4, <2>6 DEF EnvelopeInv
      <4>2. text[2] = <<"rcpts", r>>  BY <2>3, <2>4
      <4>3. QED  BY <4>1, <4>2, <3>2, <2>3, <2>5, <2>6, ParserRcpts
    <3>3. QED  BY <3>1, <3>2, <1>5 DEF Parse
  <2>7. Enclosed' <=> Enclosed  BY <2>2 DEF Enclosed
  <2>8. Fitting(file.rcpts)' = Fitting(r)  BY <2>1, <2>4 DEF Fitting
  <2>9. QED  BY <2>1, <2>2, <2>3, <2>6, <2>7, <2>8 DEF EnvelopeInv
<1>6. QED  BY <1>1, <1>3, <1>4, <1>5 DEF Next

(* What the worker trains with smtpd has not counted, and it has counted   *)
(* the rest, but for what the worker cannot see.                           *)
LEMMA CountedStep ==
    ASSUME IInv, EnvelopeInv, Next, stage = "parse", stage' # "parse", ~Enclosed
    PROVE  \/ stage' = "trained" /\ ~file.counted
           \/ stage' # "trained" /\ file.counted
           \/ /\ stage' # "trained"
              /\ \E i \in DOMAIN file.rcpts :
                     i > HeaderRoom /\ file.rcpts[i] \in Tagged
<1>1. CheckSpam
  BY DEF Next, Session, TakeQueued, TakeOld, Parse, Judge, Release, Send
<1>2. PICK r : r = file.rcpts  OBVIOUS
<1>3. /\ r \in Seq(Rcpt) /\ file.counted = (ToSet(r) \cap Tagged = {})
  BY <1>2 DEF IInv, Written
<1>4. m.rcpts = Fitting(r)  BY <1>2 DEF EnvelopeInv
<1>5. TrainingRequest <=> ToSet(Fitting(r)) \cap Tagged # {}
  BY <1>4 DEF TrainingRequest
<1>6. stage' = "trained" <=> TrainingRequest  BY <1>1 DEF CheckSpam
<1>7. CASE TrainingRequest
  <2>1. ~file.counted  BY <1>3, <1>5, <1>7, FittingIs
  <2>2. QED  BY <2>1, <1>6, <1>7
<1>8. CASE ~TrainingRequest /\ ~file.counted
  <2>1. PICK i \in DOMAIN r : r[i] \in Tagged  BY <1>3, <1>8 DEF ToSet
  <2>2. r[i] \notin ToSet(Fitting(r))  BY <2>1, <1>5, <1>8
  <2>3. ~(i <= HeaderRoom)  BY <2>2, <1>3, FittingIs
  <2>4. i \in Nat /\ HeaderRoom \in Nat
    BY <1>3, LenProperties, ParserAssumption DEF ParserAssumption
  <2>5. i > HeaderRoom  BY <2>3, <2>4
  <2>6. QED  BY <2>1, <2>5, <1>2, <1>6, <1>8
<1>9. CASE ~TrainingRequest /\ file.counted  BY <1>6, <1>9
<1>10. QED  BY <1>7, <1>8, <1>9

(* CountedAsTrained: smtpd and the worker agree on which messages are for  *)
(* training, whatever the messages and their recipients are, unless one    *)
(* within the message names recipients or the list is too long for the     *)
(* worker.                                                                 *)
THEOREM Counting == Spec => CountedAsTrained
<1>1. Init => EnvelopeInv  BY DEF Init, EnvelopeInv
<1>2. IInv /\ PartsNest /\ EnvelopeInv /\ [Next]_vars => EnvelopeInv'
  BY EnvelopeHolds
<1>3. IInv /\ EnvelopeInv /\ [Next]_vars
      => [stage = "parse" /\ stage' # "parse" /\ ~Enclosed =>
             \/ stage' = "trained" /\ ~file.counted
             \/ stage' # "trained" /\ file.counted
             \/ /\ stage' # "trained"
                /\ \E i \in DOMAIN file.rcpts :
                       i > HeaderRoom /\ file.rcpts[i] \in Tagged]_vars
  BY CountedStep
<1>4. QED
  BY <1>1, <1>2, <1>3, Inductive, Nesting, PTL DEF Spec, CountedAsTrained

-----------------------------------------------------------------------------
(* The message as MailFlow sees it                                         *)

(* Nothing has been said to the next hop before send takes up the file.    *)
Untold == stage # "relay" => hop = Silent

(* A line is read or its deadline passes, and lines after it are left.     *)
LEMMA MissIs ==
    ASSUME NEW w, NEW more \in Nat, NEW line, ReadLine(w, more, line),
           slips \in Seq(Phase), talk \in Phase
    PROVE  Len(slips') \in {Len(slips) + more, Len(slips) + more + 1}
<1>1. CASE Slip(more)  BY <1>1, SlipIs
<1>2. CASE Slip(more + 1)
  <2>1. more + 1 \in Nat  OBVIOUS
  <2>2. Len(slips') = Len(slips) + (more + 1)  BY <1>2, <2>1, SlipIs
  <2>3. Len(slips) \in Nat  OBVIOUS
  <2>4. QED  BY <2>2, <2>3
<1>3. QED  BY <1>1, <1>2 DEF ReadLine

(* A command leads to the next one, with as many lines left, or more.      *)
LEMMA AskTurn ==
    ASSUME NEW code, NEW next \in Awaiting, Ask(code, next),
           slips \in Seq(Phase), talk \in Phase
    PROVE  /\ talk' \in Awaiting
           /\ Len(slips') \in Nat /\ Len(slips') >= Len(slips)
<1>1. PICK more, line :
         /\ more \in 0 .. MaxSlips
         /\ ReadLine(wire \o Answer(code, more), more, line)
  BY DEF Ask
<1>2. more \in Nat
  BY <1>1, RelayAssumption DEF RelayAssumption
<1>3. Len(slips') \in {Len(slips) + more, Len(slips) + more + 1}
  BY <1>1, <1>2, MissIs
<1>4. PICK n \in Nat : n = Len(slips)  OBVIOUS
<1>5. Len(slips') \in Nat /\ Len(slips') >= n  BY <1>2, <1>3, <1>4
<1>6. talk' = next  BY DEF Ask
<1>7. QED  BY <1>4, <1>5, <1>6

(* A step of the dialogue goes on with it, or ends it for good; then, with *)
(* every answer read to its end, its result is the next hop's.             *)
LEMMA RelayTurn ==
    ASSUME NEW sender, NEW rcpts, RelayInv(sender, rcpts), RelayStep(sender)
    PROVE  /\ talk \in Awaiting
           /\ \/ /\ talk' \in Awaiting /\ hop'.accepted = hop.accepted
                 /\ Len(slips') \in Nat /\ Len(slips') >= Len(slips)
              \/ /\ talk' \in {"removed", "kept"}
                 /\ hop'.accepted \in BOOLEAN
                 /\ Len(slips') \in {Len(slips), Len(slips) + 1}
                 /\ Len(slips') = 0 => (hop'.accepted <=> talk' = "removed")
<1>1. RelayInv(sender, rcpts)'  BY RelayHolds
<1>2. slips \in Seq(Phase) /\ Len(slips) \in Nat
  BY DEF RelayInv, RelayTypes
<1> DEFINE Goes == /\ talk' \in Awaiting
                   /\ Len(slips') \in Nat /\ Len(slips') >= Len(slips)
           Ends == /\ talk' \in {"removed", "kept"}
                   /\ Len(slips') \in {Len(slips), Len(slips) + 1}
<1>3. talk \in Awaiting /\ (Goes \/ Ends)
  <2>1. CASE Dial
    <3>1. talk \in Phase /\ Ask("220", "ehlo") /\ "ehlo" \in Awaiting
      BY <2>1 DEF Dial, Phase, Awaiting
    <3>2. QED  BY <3>1, <1>2, AskTurn DEF Awaiting
  <2>2. CASE Disconnect
    BY <2>2, <1>2 DEF Disconnect, RelayInv, RelayTypes
  <2>3. CASE Ehlo
    <3>1. talk = "ehlo" /\ talk' = "answers"
          /\ (slips' = slips \/ slips' = Append(slips, talk'))
      BY <2>3 DEF Ehlo
    <3>2. talk' \in Phase /\ talk' \in Awaiting /\ talk \in Awaiting
      BY <3>1 DEF Awaiting, Phase
    <3>3. Len(Append(slips, talk')) = Len(slips) + 1
      BY <3>2, <1>2, AppendProperties
    <3>4. QED  BY <3>1, <3>2, <3>3, <1>2
  <2>4. CASE ReadEhlo
    <3>1. talk \in Phase  BY <2>4 DEF ReadEhlo, Phase
    <3>2. PICK line : ReadLine(wire, 0, line) /\ AfterEhlo(line)
      BY <2>4 DEF ReadEhlo
    <3>3. talk' \in Awaiting  BY <3>2 DEF AfterEhlo, Awaiting, Phase
    <3>4. Len(slips') \in {Len(slips) + 0, Len(slips) + 0 + 1}
      BY <3>1, <3>2, <1>2, MissIs
    <3>5. QED  BY <3>1, <3>3, <3>4, <1>2 DEF Awaiting
  <2>5. CASE StartTls
    <3>1. talk \in Phase /\ talk' \in {"ehlo", "kept"}
      BY <2>5 DEF StartTls, Phase
    <3>2. PICK n \in {0, 1} : Slip(n)  BY <2>5 DEF StartTls
    <3>3. Len(slips') = Len(slips) + n  BY <3>1, <3>2, <1>2, SlipIs
    <3>4. QED  BY <3>1, <3>3, <1>2 DEF Awaiting
  <2>6. CASE MailFrom(sender)
    <3>1. PICK code : Ask(code, "rcpt")  BY <2>6 DEF MailFrom
    <3>2. talk \in Phase /\ "rcpt" \in Awaiting
      BY <2>6 DEF MailFrom, Phase, Awaiting
    <3>3. QED  BY <3>1, <3>2, <1>2, AskTurn DEF Awaiting
  <2>7. CASE RcptTo
    <3>1. PICK code : Ask(code, "rcpt")  BY <2>7 DEF RcptTo
    <3>2. talk \in Phase /\ "rcpt" \in Awaiting
      BY <2>7 DEF RcptTo, Phase, Awaiting
    <3>3. QED  BY <3>1, <3>2, <1>2, AskTurn DEF Awaiting
  <2>8. CASE DataCommand
    <3>1. PICK code : Ask(code, "text")  BY <2>8 DEF DataCommand
    <3>2. talk \in Phase /\ "text" \in Awaiting
      BY <2>8 DEF DataCommand, Phase, Awaiting
    <3>3. QED  BY <3>1, <3>2, <1>2, AskTurn DEF Awaiting
  <2>9. CASE SendText
    <3>1. talk \in Phase  BY <2>9 DEF SendText, Phase
    <3>2. PICK w, line : ReadLine(w, 0, line)  BY <2>9 DEF SendText
    <3>3. talk' \in {"removed", "kept"}  BY <2>9 DEF SendText
    <3>4. Len(slips') \in {Len(slips) + 0, Len(slips) + 0 + 1}
      BY <3>1, <3>2, <1>2, MissIs
    <3>5. QED  BY <3>1, <3>3, <3>4, <1>2 DEF Awaiting
  <2> HIDE DEF Goes, Ends
  <2>10. QED
    BY <2>1, <2>2, <2>3, <2>4, <2>5, <2>6, <2>7, <2>8, <2>9, SMTT(30)
        DEF RelayStep
<1>4. hop.accepted = FALSE
  <2>1. hop.accepted \in BOOLEAN  BY DEF RelayInv, RelayTypes, Hop
  <2>2. ~hop.accepted  BY <1>3 DEF RelayInv, HopInv
  <2>3. QED  BY <2>1, <2>2
<1>5. hop'.accepted \in BOOLEAN
  <2>1. hop' \in Hop(sender)  BY <1>1 DEF RelayInv, RelayTypes
  <2>2. QED  BY <2>1 DEF Hop
<1>6. CASE Goes
  <2>1. ~hop'.accepted  BY <1>1, <1>6 DEF RelayInv, HopInv
  <2>2. QED  BY <2>1, <1>3, <1>4, <1>5, <1>6
<1>7. CASE Ends
  <2>1. ASSUME Len(slips') = 0 PROVE hop'.accepted <=> talk' = "removed"
    <3>1. slips' = <<>>
      <4>1. slips' \in Seq(Phase)  BY <1>1 DEF RelayInv, RelayTypes
      <4>2. QED  BY <4>1, <2>1, EmptySeq
    <3>2. RemovedWasAccepted'  BY <1>1 DEF RelayInv
    <3>3. ~(Len(slips') > 1)  BY <2>1
    <3>4. talk' = "removed" => hop'.accepted
      BY <3>1, <3>2, <3>3, Zenon DEF RemovedWasAccepted
    <3>5. talk' = "kept" => ~hop'.accepted
      BY <3>1, <3>2, Zenon DEF RemovedWasAccepted
    <3>6. "removed" # "kept"  OBVIOUS
    <3>7. talk' \in {"removed", "kept"}  BY <1>7
    <3>8. QED  BY <3>4, <3>5, <3>6, <3>7
  <2>2. QED  BY <2>1, <1>3, <1>5, <1>7
<1>8. QED  BY <1>3, <1>6, <1>7

(* Only send talks to the next hop.                                        *)
LEMMA UntoldHolds == ASSUME Untold, [Next]_vars PROVE Untold'
<1>1. CASE UNCHANGED vars  BY <1>1 DEF vars, relayVars, Untold
<1>2. CASE Session \/ TakeQueued \/ TakeOld \/ Parse \/ Judge
  BY <1>2 DEF Session, TakeQueued, TakeOld, Take, Parse, Judge, relayVars, Untold
<1>3. CASE CheckSpam
  BY <1>3 DEF CheckSpam, relayVars, Untold
<1>4. CASE Release \/ Send  BY <1>4 DEF Release, Send, Untold
<1>5. QED  BY <1>1, <1>2, <1>3, <1>4 DEF Next

(* How far the message is, stage by stage.                                 *)
LEMMA HandlingIs ==
    /\ stage = "smtp" => HandlingState = "queue"
    /\ stage = "trained" => HandlingState = "trained"
    /\ stage \in {"read", "parse", "judge"} => HandlingState = "taken"
    /\ stage = "relay" =>
          /\ talk = "removed" => HandlingState = "true"
          /\ talk = "kept" => HandlingState = "false"
          /\ talk \notin {"removed", "kept"} => HandlingState = "sending"
  BY DEF HandlingState

(* The same after a step.                                                  *)
LEMMA HandlingNext ==
    /\ stage' = "smtp" => HandlingState' = "queue"
    /\ stage' = "trained" => HandlingState' = "trained"
    /\ stage' \in {"read", "parse", "judge"} => HandlingState' = "taken"
    /\ stage' = "relay" =>
          /\ talk' = "removed" => HandlingState' = "true"
          /\ talk' = "kept" => HandlingState' = "false"
          /\ talk' \notin {"removed", "kept"} => HandlingState' = "sending"
  BY DEF HandlingState

(* The way of a message begins as MailFlow's does.                         *)
LEMMA HandledInit == Init => Handled!Init
<1> SUFFICES ASSUME Init PROVE Handled!Init  OBVIOUS
<1>1. stage = "smtp" /\ file = NoFile /\ hop = Silent /\ slips = <<>>
  BY DEF Init, RelayInit
<1>2. HandlingState = "queue"  BY <1>1, HandlingIs
<1>3. hop.accepted = FALSE /\ Len(slips) = 0
  BY <1>1, EmptySeq DEF Silent
<1>4. QED  BY <1>2, <1>3 DEF Handled!Init

(* The worker is done with the message, and send has it.                   *)
LEMMA HandsOn ==
    ASSUME IInv, Untold, stage \in {"parse", "judge"}, stage' = "relay",
           file' = file, OpenFile(file.from, Handed(file.rcpts), NullSender)
    PROVE  Handled!HandOn
<1>1. /\ talk' \in {"kept", "dial"} /\ hop' = Silent /\ slips' = <<>>
  BY DEF OpenFile
<1>2. hop = Silent /\ slips = <<>>  BY DEF IInv, Untold
<1>3. HandlingState = "taken"  BY HandlingIs
<1>4. HandlingState' \in {"sending", "false"}  BY <1>1, HandlingNext
<1>5. QED  BY <1>1, <1>2, <1>3, <1>4 DEF Handled!HandOn

(* Every step is one of Handling's, or changes nothing there.              *)
LEMMA HandledNext ==
    ASSUME IInv, Untold, [Next]_vars
    PROVE  Handled!Next \/ UNCHANGED Handled!vars
<1>1. ASSUME UNCHANGED <<HandlingState, file, hop, slips>>
      PROVE  UNCHANGED Handled!vars
  BY <1>1 DEF Handled!vars
<1>2. CASE UNCHANGED vars
  <2>1. UNCHANGED <<HandlingState, file, hop, slips>>
    BY <1>2 DEF vars, relayVars, HandlingState
  <2>2. QED  BY <2>1, <1>1
<1>3. CASE Session
  <2>1. UNCHANGED <<HandlingState, file, hop, slips>>
    BY <1>3 DEF Session, relayVars, HandlingState
  <2>2. QED  BY <2>1, <1>1
<1>4. CASE TakeQueued \/ TakeOld
  <2>1. PICK f, t : stage = "smtp" /\ Take(f, t)
    BY <1>4 DEF TakeQueued, TakeOld
  <2>2. HandlingState = "queue" /\ HandlingState' = "taken"
    BY <2>1, HandlingIs, HandlingNext DEF Take
  <2>3. UNCHANGED <<hop, slips>>  BY <2>1 DEF Take, relayVars
  <2>4. QED  BY <2>2, <2>3 DEF Handled!Take, Handled!Next
<1>5. CASE Parse
  <2>1. stage \in {"read", "parse"} /\ stage' \in {"read", "parse"}
        /\ UNCHANGED <<file, hop, slips>>
    BY <1>5 DEF Parse, relayVars
  <2>2. HandlingState = "taken" /\ HandlingState' = "taken"
    BY <2>1, HandlingIs, HandlingNext
  <2>3. QED  BY <2>1, <2>2, <1>1
<1>6. CASE CheckSpam
  <2>1. stage = "parse" /\ UNCHANGED file /\ HandlingState = "taken"
    BY <1>6, HandlingIs DEF CheckSpam
  <2>2. CASE stage' = "trained" /\ UNCHANGED relayVars
    <3>1. HandlingState' = "trained" /\ UNCHANGED <<hop, slips>>
      BY <2>2, HandlingNext DEF relayVars
    <3>2. QED  BY <2>1, <3>1 DEF Handled!Learn, Handled!Next
  <2>3. CASE /\ stage' = "relay"
             /\ OpenFile(file.from, Handed(file.rcpts), NullSender)
    BY <2>1, <2>3, HandsOn DEF Handled!Next
  <2>4. CASE stage' = "judge" /\ UNCHANGED relayVars
    <3>1. HandlingState' = HandlingState /\ UNCHANGED <<hop, slips>>
      BY <2>1, <2>4, HandlingNext DEF relayVars
    <3>2. QED  BY <2>1, <3>1, <1>1
  <2>5. QED  BY <1>6, <2>2, <2>3, <2>4 DEF CheckSpam
<1>7. CASE Judge
  <2>1. UNCHANGED <<HandlingState, file, hop, slips>>
    BY <1>7 DEF Judge, relayVars, HandlingState
  <2>2. QED  BY <2>1, <1>1
<1>8. CASE Release
  <2>1. /\ stage = "judge" /\ stage' = "relay" /\ file' = file
        /\ OpenFile(file.from, Handed(file.rcpts), NullSender)
    BY <1>8 DEF Release
  <2>2. QED  BY <2>1, HandsOn DEF Handled!Next
<1>9. CASE Send
  <2>1. PICK s, r : s = file.from /\ r = Handed(file.rcpts)  OBVIOUS
  <2>2. /\ stage = "relay" /\ stage' = "relay" /\ file' = file
        /\ RelayInv(s, r) /\ RelayStep(s)
    BY <1>9, <2>1 DEF Send, IInv
  <2> DEFINE Goes == /\ talk' \in Awaiting /\ hop'.accepted = hop.accepted
                     /\ Len(slips') \in Nat /\ Len(slips') >= Len(slips)
             Ends == /\ talk' \in {"removed", "kept"}
                     /\ hop'.accepted \in BOOLEAN
                     /\ Len(slips') \in {Len(slips), Len(slips) + 1}
                     /\ Len(slips') = 0 => (hop'.accepted <=> talk' = "removed")
  <2>3. talk \in Awaiting /\ (Goes \/ Ends)
    BY <2>2, RelayTurn
  <2>4. "removed" \notin Awaiting /\ "kept" \notin Awaiting
    BY DEF Awaiting, Phase
  <2>5. HandlingState = "sending"  BY <2>2, <2>3, <2>4, HandlingIs
  <2>6. CASE Goes
    <3>1. HandlingState' = "sending"  BY <2>2, <2>4, <2>6, HandlingNext
    <3>2. CASE Len(slips') = Len(slips)
      BY <2>2, <2>5, <2>6, <3>1, <3>2 DEF Handled!vars
    <3>3. CASE Len(slips') # Len(slips)
      <4>1. Len(slips) \in Nat  BY <2>2 DEF RelayInv, RelayTypes
      <4>2. Len(slips') \in Nat /\ Len(slips') > Len(slips)
        BY <4>1, <2>6, <3>3
      <4>3. QED  BY <4>2, <2>5, <2>6, <3>1 DEF Handled!Miss, Handled!Next
    <3>4. QED  BY <3>2, <3>3
  <2>7. CASE Ends
    <3>1. /\ talk' = "removed" => HandlingState' = "true"
          /\ talk' = "kept" => HandlingState' = "false"
      BY <2>2, HandlingNext
    <3>2. HandlingState' \in {"true", "false"}
          /\ (HandlingState' = "true" <=> talk' = "removed")
      BY <3>1, <2>7
    <3>3. Len(slips') = 0 => (hop'.accepted <=> HandlingState' = "true")
      BY <3>2, <2>7
    <3>4. Handled!Finish
      BY <2>5, <2>7, <3>2, <3>3 DEF Handled!Finish
    <3>5. QED  BY <3>4 DEF Handled!Next
  <2>8. QED  BY <2>3, <2>6, <2>7
<1>10. QED
  BY <1>2, <1>3, <1>4, <1>5, <1>6, <1>7, <1>8, <1>9 DEF Next

(* HandlesMessage: session, parser, filter and dialogue together are what  *)
(* MailFlow takes them for: one taking, one hand-over or one lesson, one   *)
(* end that is the next hop's word unless a line of an answer was left.    *)
THEOREM MessageHandled == Spec => HandlesMessage
<1>1. Init => Untold  BY DEF Init, RelayInit, Untold
<1>2. Untold /\ [Next]_vars => Untold'  BY UntoldHolds
<1>3. IInv /\ Untold /\ [Next]_vars => [Handled!Next]_(Handled!vars)
  BY HandledNext
<1>4. QED
  BY <1>1, <1>2, <1>3, HandledInit, Inductive, PTL
  DEF Spec, HandlesMessage, Handled!Spec

-----------------------------------------------------------------------------
(* The signo of a bounce                                                   *)

(* Our signo is forgotten with the message.                                *)
SignoInv == m.signo => stage = "parse"

(* The new message still has the signo.                                    *)
SignoKept(msg, new) == msg.signo => new.signo

(* APPENDTOBODY does not touch it.                                         *)
LEMMA AppendedSigno ==
    ASSUME NEW msg, MsgShape(msg), NEW v, NEW size
    PROVE  Appended(v, size, msg).signo = msg.signo
<1>1. DOMAIN msg = {"body", "used", "attached", "octet", "image",
                    "watermark", "signo", "from", "rcpts"}
  BY DEF MsgShape, EmptyMessage
<1>2. PICK a, u : a = Append(msg.body, v) /\ u = msg.used + size  OBVIOUS
<1>3. PICK n : n = [msg EXCEPT !.body = a, !.used = u]  OBVIOUS
<1>4. n.signo = msg.signo  BY <1>1, <1>3
<1>5. Appended(v, size, msg) \in {n, msg}  BY <1>2, <1>3 DEF Appended
<1>6. QED  BY <1>4, <1>5

(* Header fields add it, and never take it back.                           *)
LEMMA FieldsSigno ==
    ASSUME NEW msg, MsgShape(msg), NEW lo, NEW hi
    PROVE  SignoKept(msg, Fields(lo, hi, msg))
<1>1. DOMAIN msg = {"body", "used", "attached", "octet", "image",
                    "watermark", "signo", "from", "rcpts"}
  BY DEF MsgShape, EmptyMessage
<1>2. PICK from, w, r :
          /\ from = Value("from", lo, hi, msg.from)
          /\ w = Value("watermark", lo, hi, msg.watermark)
          /\ r = Fitting(Value("rcpts", lo, hi, msg.rcpts))
  OBVIOUS
<1>3. PICK b : b = (msg.signo \/ (from = Daemon /\ Find("signo", lo, hi) # 0))
  OBVIOUS
<1>4. Fields(lo, hi, msg) = [msg EXCEPT !.watermark = w, !.from = from,
                                        !.rcpts = r, !.signo = b]
  BY <1>2, <1>3 DEF Fields
<1>5. Fields(lo, hi, msg).signo = b  BY <1>1, <1>4
<1>6. QED  BY <1>3, <1>5 DEF SignoKept

(* So does the header of a message within the message.                     *)
LEMMA MessageSigno ==
    ASSUME NEW msg, MsgShape(msg), NEW lo, NEW hi
    PROVE  SignoKept(msg, MessageAfter(lo, hi, msg))
<1>1. PICK e : e = HeadersEnd(lo, hi)  OBVIOUS
<1>2. PICK f : f = Fields(lo, IF e = 0 THEN hi ELSE e, msg)  OBVIOUS
<1>3. MsgShape(f) /\ SignoKept(msg, f)
  BY <1>2, FieldsHolds, FieldsSigno
<1>4. MessageAfter(lo, hi, msg) \in {f, AppendedText(e + 1, hi, f)}
  BY <1>1, <1>2 DEF MessageAfter
<1>5. AppendedText(e + 1, hi, f).signo = f.signo
  <2>1. PICK i : i = Find("text", e + 1, hi)  OBVIOUS
  <2>2. AppendedText(e + 1, hi, f)
           \in {f, Appended(text[i][3], TextSize(text[i][2]), f)}
    BY <2>1 DEF AppendedText
  <2>3. QED  BY <2>2, <1>3, AppendedSigno
<1>6. QED  BY <1>3, <1>4, <1>5 DEF SignoKept

(* No turn of the parser loses it.                                         *)
LEMMA ParserSigno ==
    ASSUME ParserInv, ParserStep
    PROVE  SignoKept(m, m')
<1>1. MsgShape(m)  BY DEF ParserInv
<1>2. DOMAIN m = {"body", "used", "attached", "octet", "image",
                  "watermark", "signo", "from", "rcpts"}
  BY <1>1 DEF MsgShape, EmptyMessage
<1>3. CASE UNCHANGED m  BY <1>3 DEF SignoKept
<1>4. CASE EndLevel \/ SkipUntyped \/ SkipUnended \/ EnterMultipart \/ LeaveLevel
  BY <1>3, <1>4 DEF EndLevel, SkipUntyped, SkipUnended, EnterMultipart, LeaveLevel
<1>5. CASE TakeText
  <2>1. PICK i : i = Find("text", BodyLo, PartHi)  OBVIOUS
  <2>2. m' \in {m, Appended(text[i][3], TextSize(text[i][2]), m)}
    BY <2>1, <1>5 DEF TakeText, AppendedText
  <2>3. m'.signo = m.signo  BY <2>2, <1>1, AppendedSigno
  <2>4. QED  BY <2>3 DEF SignoKept
<1>6. CASE TakeMessage
  <2>1. PICK k : k = [m EXCEPT !.watermark = None]  OBVIOUS
  <2>2. MsgShape(k) /\ k.signo = m.signo
    <3>1. /\ DOMAIN k = DOMAIN m /\ k = [x \in DOMAIN k |-> k[x]]
          /\ k.body = m.body /\ k.used = m.used /\ k.attached = m.attached
          /\ k.signo = m.signo
      BY <1>2, <2>1
    <3>2. QED  BY <3>1, <1>1 DEF MsgShape
  <2>3. m' = MessageAfter(BodyLo, PartHi, k)
    BY <2>1, <1>6 DEF TakeMessage
  <2>4. SignoKept(k, m')  BY <2>2, <2>3, MessageSigno
  <2>5. QED  BY <2>2, <2>4 DEF SignoKept
<1>7. CASE TakeAttachment
  <2>1. PICK k : k = [m EXCEPT !.octet = @ \/ Type = "octet",
                               !.image = @ \/ Type = "image"]
    OBVIOUS
  <2>2. PICK o : o = [k EXCEPT !.attached = @ + 1]  OBVIOUS
  <2>3. m' = IF m.attached < MaxAttachments
             THEN Appended(NameOf(BodyLo, PartHi), 1, o) ELSE k
    BY <1>7, <2>1, <2>2 DEF TakeAttachment
  <2>4. /\ DOMAIN k = DOMAIN m /\ k = [x \in DOMAIN k |-> k[x]]
        /\ k.body = m.body /\ k.used = m.used /\ k.attached = m.attached
        /\ k.signo = m.signo
    BY <1>2, <2>1
  <2>5. /\ DOMAIN o = DOMAIN k /\ o = [x \in DOMAIN o |-> o[x]]
        /\ o.body = k.body /\ o.used = k.used /\ o.attached = k.attached + 1
        /\ o.signo = k.signo
    BY <1>2, <2>2, <2>4
  <2>6. CASE m.attached < MaxAttachments
    <3>1. m.attached \in Nat  BY <1>1 DEF MsgShape
    <3>2. MaxAttachments \in Nat  BY ParserAssumption DEF ParserAssumption
    <3>3. m.attached + 1 \in Nat /\ m.attached + 1 <= MaxAttachments
      BY <3>1, <3>2, <2>6
    <3>4. o.attached = m.attached + 1  BY <2>4, <2>5
    <3>5. MsgShape(o)  BY <3>3, <3>4, <1>1, <2>4, <2>5 DEF MsgShape
    <3>6. m' = Appended(NameOf(BodyLo, PartHi), 1, o)  BY <2>3, <2>6
    <3>7. m'.signo = m.signo  BY <3>5, <3>6, <2>4, <2>5, AppendedSigno
    <3>8. QED  BY <3>7 DEF SignoKept
  <2>7. CASE ~(m.attached < MaxAttachments)
    BY <2>3, <2>4, <2>7 DEF SignoKept
  <2>8. QED  BY <2>6, <2>7
<1>8. QED  BY <1>4, <1>5, <1>6, <1>7 DEF ParserStep

(* A message that is read anew has no signo.                               *)
LEMMA ReadFileSigno == ASSUME NEW t, ReadFile(t) PROVE ~m'.signo
  BY DEF ReadFile, EmptyMessage

(* The signo is found by the parser, kept to the end of the parsing, and   *)
(* decides then.                                                           *)
LEMMA SignoStep ==
    ASSUME IInv, SignoInv, [Next]_vars
    PROVE  /\ SignoInv'
           /\ stage = "parse" /\ m.signo =>
                 \/ UNCHANGED vars
                 \/ stage' \in {"relay", "trained"}
                 \/ stage' = "parse" /\ m'.signo
<1>1. CASE UNCHANGED vars
  BY <1>1 DEF vars, parserVars, SignoInv
<1>2. ASSUME UNCHANGED <<stage, file>>, UNCHANGED parserVars PROVE SignoInv'
  BY <1>2 DEF parserVars, SignoInv
<1>3. CASE Session
  <2>1. stage = "smtp" /\ UNCHANGED <<stage, file>> /\ UNCHANGED parserVars
    BY <1>3 DEF Session
  <2>2. QED  BY <2>1, <1>2
<1>4. CASE TakeQueued \/ TakeOld
  <2>1. PICK f, t : stage = "smtp" /\ Take(f, t)
    BY <1>4 DEF TakeQueued, TakeOld
  <2>2. ~m'.signo  BY <2>1, ReadFileSigno DEF Take
  <2>3. QED  BY <2>1, <2>2 DEF SignoInv
<1>5. CASE Parse
  <2>1. stage' = "parse"  BY <1>5 DEF Parse
  <2>2. CASE stage = "read" /\ ParseBuffer
    <3>1. SignoKept(m, m')
      BY <2>2, MessageSigno DEF ParseBuffer, IInv, ParserInv
    <3>2. ~m.signo  BY <2>2 DEF SignoInv
    <3>3. QED  BY <3>1, <3>2, <2>1, <2>2 DEF SignoKept, SignoInv
  <2>3. CASE stage = "parse" /\ ParserStep
    <3>1. SignoKept(m, m')  BY <2>3, ParserSigno DEF IInv
    <3>2. QED  BY <3>1, <2>1 DEF SignoKept, SignoInv
  <2>4. QED  BY <1>5, <2>2, <2>3 DEF Parse
<1>6. CASE CheckSpam
  <2>1. ~m'.signo  BY <1>6, ReadFileSigno DEF CheckSpam
  <2>2. m.signo => stage' \in {"relay", "trained"}
    BY <1>6 DEF CheckSpam, SignoInv
  <2>3. QED  BY <2>1, <2>2 DEF SignoInv
<1>7. CASE Judge
  <2>1. stage = "judge" /\ UNCHANGED <<stage, file>> /\ UNCHANGED parserVars
    BY <1>7 DEF Judge
  <2>2. QED  BY <2>1, <1>2
<1>8. CASE Release
  <2>1. stage = "judge" /\ UNCHANGED parserVars  BY <1>8 DEF Release
  <2>2. QED  BY <2>1 DEF parserVars, SignoInv
<1>9. CASE Send
  <2>1. stage = "relay" /\ UNCHANGED <<stage, file>> /\ UNCHANGED parserVars
    BY <1>9 DEF Send
  <2>2. QED  BY <2>1, <1>2
<1>10. QED
  BY <1>1, <1>3, <1>4, <1>5, <1>6, <1>7, <1>8, <1>9, SMTT(30) DEF Next

(* SignoDecides: a bounce in which our signo was seen, at any depth, never *)
(* reaches the filter.                                                     *)
THEOREM SignoSpares == Spec => SignoDecides
<1>1. Init => SignoInv
  BY DEF Init, ParserInit, EmptyMessage, SignoInv
<1>2. IInv /\ SignoInv /\ [Next]_vars => SignoInv'  BY SignoStep
<1>3. IInv /\ SignoInv /\ [Next]_vars
      => [stage = "parse" /\ m.signo =>
             \/ stage' \in {"relay", "trained"}
             \/ stage' = "parse" /\ m'.signo]_vars
  BY SignoStep
<1>4. QED  BY <1>1, <1>2, <1>3, Inductive, PTL DEF Spec, SignoDecides

-----------------------------------------------------------------------------
(* The dialogue ends                                                       *)

(* Ahead, place by place.                                                  *)
LEMMA AheadIs ==
    /\ talk = "dial" => Ahead = 9
    /\ talk = "ehlo" => Ahead = IF secure = "yes" THEN 5 ELSE 8
    /\ talk = "answers" => Ahead = IF secure = "yes" THEN 4 ELSE 7
    /\ talk = "starttls" => Ahead = 6
    /\ talk = "mail" => Ahead = 3
    /\ talk = "rcpt" => Ahead = 2
    /\ talk = "text" => Ahead = 1
    /\ talk \in {"removed", "kept"} => Ahead = 0
  BY DEF Ahead

(* The same after a step.                                                  *)
LEMMA AheadNext ==
    /\ talk' = "ehlo" => Ahead' = IF secure' = "yes" THEN 5 ELSE 8
    /\ talk' = "answers" => Ahead' = IF secure' = "yes" THEN 4 ELSE 7
    /\ talk' = "starttls" => Ahead' = 6
    /\ talk' = "mail" => Ahead' = 3
    /\ talk' = "rcpt" => Ahead' = 2
    /\ talk' = "text" => Ahead' = 1
    /\ talk' \in {"removed", "kept"} => Ahead' = 0
  BY DEF Ahead

(* A step of the dialogue is one to something further on, or one turn of   *)
(* its two loops.                                                          *)
LEMMA DialogueStep ==
    ASSUME NEW sender, NEW rcpts, RelayInv(sender, rcpts), RelayStep(sender)
    PROVE  \/ Ahead' < Ahead
           \/ /\ Ahead' = Ahead
              /\ \/ talk = "answers" /\ Len(wire') < Len(wire)
                 \/ talk = "rcpt" /\ Len(left') < Len(left)
<1>1. /\ wire \in Seq(Codes) /\ left \in Seq(Named) /\ slips \in Seq(Phase)
      /\ Len(slips) <= MaxSlips /\ secure \in {"no", "offered", "yes"}
  BY DEF RelayInv, RelayTypes
<1>2. CASE Dial
  <2>1. talk = "dial" /\ talk' = "ehlo"  BY <1>2 DEF Dial, Ask
  <2>2. QED  BY <2>1, AheadIs, AheadNext
<1>3. CASE Disconnect
  <2>1. /\ talk \in Awaiting \cup {"none", "removed", "kept"}
        /\ talk \notin {"none", "removed", "kept"} /\ talk' = "kept"
    BY <1>3 DEF Disconnect, RelayInv, RelayTypes
  <2>2. Ahead > 0  BY <2>1, AheadIs DEF Awaiting, Phase
  <2>3. QED  BY <2>1, <2>2, AheadNext
<1>4. CASE Ehlo
  <2>1. talk = "ehlo" /\ talk' = "answers" /\ secure' = secure
    BY <1>4 DEF Ehlo
  <2>2. QED  BY <2>1, AheadIs, AheadNext
<1>5. CASE ReadEhlo
  <2>1. PICK line : ReadLine(wire, 0, line) /\ AfterEhlo(line) /\ talk = "answers"
    BY <1>5 DEF ReadEhlo
  <2>2. secure' = "yes" <=> secure = "yes"  BY <2>1 DEF AfterEhlo
  <2>3. CASE More(line)
    <3>1. talk' = "answers"  BY <2>1, <2>3 DEF AfterEhlo
    <3>2. Ahead' = Ahead  BY <2>1, <2>2, <3>1, AheadIs, AheadNext
    <3>3. line # ""  BY <2>3 DEF More
    <3>4. talk \in Phase  BY <2>1 DEF Phase
    <3>5. wire' \in Seq(Codes) /\ Len(wire) = Len(wire') + 1
      BY <2>1, <3>3, <3>4, <1>1, ReadIs
    <3>6. Len(wire') < Len(wire)  BY <3>5
    <3>7. QED  BY <2>1, <3>2, <3>6
  <2>4. CASE ~More(line)
    <3>1. talk' = IF secure = "offered" THEN "starttls" ELSE "mail"
      BY <2>1, <2>4 DEF AfterEhlo
    <3>2. QED  BY <2>1, <3>1, AheadIs, AheadNext
  <2>5. QED  BY <2>3, <2>4
<1>6. CASE StartTls
  <2>1. talk = "starttls" /\ talk' \in {"ehlo", "kept"} /\ secure' = "yes"
    BY <1>6 DEF StartTls
  <2>2. QED  BY <2>1, AheadIs, AheadNext
<1>7. CASE MailFrom(sender)
  <2>1. talk = "mail" /\ talk' = "rcpt"  BY <1>7 DEF MailFrom, Ask
  <2>2. QED  BY <2>1, AheadIs, AheadNext
<1>8. CASE RcptTo
  <2>1. talk = "rcpt" /\ talk' = "rcpt" /\ left # <<>> /\ left' = Tail(left)
    BY <1>8 DEF RcptTo, Ask
  <2>2. Len(left') = Len(left) - 1 /\ Len(left) \in Nat
    BY <2>1, <1>1, HeadTailProperties
  <2>3. Len(left') < Len(left)  BY <2>2
  <2>4. QED  BY <2>1, <2>3, AheadIs, AheadNext
<1>9. CASE DataCommand
  <2>1. talk = "rcpt" /\ talk' = "text"  BY <1>9 DEF DataCommand, Ask
  <2>2. QED  BY <2>1, AheadIs, AheadNext
<1>10. CASE SendText
  <2>1. talk = "text" /\ talk' \in {"removed", "kept"}  BY <1>10 DEF SendText
  <2>2. QED  BY <2>1, AheadIs, AheadNext
<1>11. QED
  BY <1>2, <1>3, <1>4, <1>5, <1>6, <1>7, <1>8, <1>9, <1>10 DEF RelayStep

(* DialogueAdvances: an attempt to relay a message ends, so that MailFlow  *)
(* may take it for one step, for any number of lines left unread.          *)
THEOREM DialogueEnds == Spec => DialogueAdvances
<1>1. ASSUME IInv, Next, stage = "relay"
      PROVE  \/ Ahead' < Ahead
             \/ /\ Ahead' = Ahead
                /\ \/ talk = "answers" /\ Len(wire') < Len(wire)
                   \/ talk = "rcpt" /\ Len(left') < Len(left)
  <2>1. Send
    BY <1>1 DEF Next, Session, TakeQueued, TakeOld, Parse, CheckSpam, Judge,
                Release
  <2>2. PICK s, r : s = file.from /\ r = Handed(file.rcpts)  OBVIOUS
  <2>3. RelayInv(s, r) /\ RelayStep(s)
    BY <1>1, <2>1, <2>2 DEF Send, IInv
  <2>4. QED  BY <2>3, DialogueStep
<1>2. IInv /\ [Next]_vars
      => [stage = "relay" =>
             \/ Ahead' < Ahead
             \/ /\ Ahead' = Ahead
                /\ \/ talk = "answers" /\ Len(wire') < Len(wire)
                   \/ talk = "rcpt" /\ Len(left') < Len(left)]_vars
  BY <1>1
<1>3. QED  BY <1>2, Inductive, PTL DEF Spec, DialogueAdvances
=============================================================================
