-------------------------- MODULE PartitionsProofs --------------------------
(***************************************************************************)
(* Proofs about Partitions (src/partition.c), for days of any length, any  *)
(* time zone ahead of UTC by 14/24 of a day at most, any number of days    *)
(* kept, and any downtime of master and database.                          *)
(*                                                                         *)
(* None of the properties is inductive: all rest on the relation between   *)
(* the name of a partition and its bound, which tm_gmtoff shifts against   *)
(* each other by a day east of Greenwich and not at all west of it.        *)
(***************************************************************************)
EXTENDS Partitions, TLAPS

(* Which day after the one in its name a partition ends before.            *)
Shift == IF offset < 0 THEN 0 ELSE 1

Partition == [name : Nat, bound : Nat]

(* A partition ends with a local day, that of its name or the day after it.*)
BoundsInv ==
    /\ partitions \subseteq Partition
    /\ \A p \in partitions : p.bound = Day * (p.name + Shift) - offset - 1

(* None is for a day after tomorrow's.                                     *)
NamesInv == \A p \in partitions : p.name + Shift <= UtcDay(now) + 2

(* The days with a round are not in the future.                            *)
ServedInv == \A d \in served : d \in Int /\ Day * d <= now + offset

(* For the third of a day after the last create_partition the database     *)
(* answered there is a partition that ends with the day it reckoned with,  *)
(* though a drop_partition may get through without the create_partition.   *)
CoverInv ==
    answered # 0 /\ 3 * (now - answered) <= Day =>
        \E p \in partitions :
            p.bound >= Day * (UtcDay(answered) + 2) - offset - 1

(* The inductive invariant.                                                *)
IInv ==
    TypeOK /\ BoundsInv /\ NamesInv /\ ServedInv /\ CoverInv /\ OldAreDropped

-----------------------------------------------------------------------------
(* Arithmetic                                                              *)

(* Quotient and remainder of the divisions of partition.c.                 *)
LEMMA QuotientRemainder ==
    ASSUME NEW b \in Nat \ {0}, NEW a \in Int
    PROVE  /\ a \div b \in Int /\ a % b \in 0 .. b - 1
           /\ a = b * (a \div b) + (a % b)
  OBVIOUS

(* A day lies between its midnights and no other does: the number of a day *)
(* (the name of a partition) is fixed by any of its hours.                 *)
LEMMA SameDay ==
    ASSUME NEW b \in Nat \ {0}, NEW x \in Int, NEW p \in Int, NEW q \in Int,
           b * p <= x, x < b * p + b, b * q <= x, x < b * q + b
    PROVE  p = q
<1>1. CASE p < q
  <2>1. p + 1 <= q  BY <1>1
  <2>2. b * (p + 1) <= b * q  BY <2>1
  <2>3. b * (p + 1) = b * p + b  OBVIOUS
  <2>4. QED  BY <2>2, <2>3
<1>2. CASE q < p
  <2>1. q + 1 <= p  BY <1>2
  <2>2. b * (q + 1) <= b * p  BY <2>1
  <2>3. b * (q + 1) = b * q + b  OBVIOUS
  <2>4. QED  BY <2>2, <2>3
<1>3. QED  BY <1>1, <1>2

(* Later midnights belong to later days (and to no earlier one).           *)
LEMMA Monotone ==
    ASSUME NEW b \in Nat \ {0}, NEW p \in Int, NEW q \in Int, p <= q
    PROVE  b * p <= b * q
  OBVIOUS

(* Offsets are less than a day, to the west and to the east.               *)
LEMMA OffsetRange ==
    ASSUME offset \in Offsets
    PROVE  /\ offset \in Int /\ Day \in Nat \ {0}
           /\ -Day < offset /\ offset < Day /\ 24 * offset <= 14 * Day
  BY ConstantsAssumption DEF ConstantsAssumption

(* create_partition: tomorrow's bound and the day it is named after, which *)
(* is a day later in the west.                                             *)
LEMMA TomorrowIs ==
    ASSUME TypeOK
    PROVE  /\ UtcDay(now) \in Nat
           /\ Day * UtcDay(now) <= now /\ now < Day * UtcDay(now) + Day
           /\ Tomorrow = Day * (UtcDay(now) + 2) - offset - 1
           /\ Tomorrow \in Nat
           /\ UtcDay(Tomorrow) = UtcDay(now) + 2 - Shift
<1>o. /\ offset \in Int /\ Day \in Nat \ {0}
      /\ -Day < offset /\ offset < Day
  BY OffsetRange DEF TypeOK
<1>n. now \in Nat
  <2>1. First \in Nat  BY ConstantsAssumption DEF ConstantsAssumption, First
  <2>2. First + MaxDays * Day \in Int
    BY <2>1, ConstantsAssumption DEF ConstantsAssumption
  <2>3. QED  BY <2>1, <2>2 DEF TypeOK
<1>1. PICK u \in Int, r \in Int :
         /\ u = now \div Day /\ r = now % Day
         /\ r >= 0 /\ r < Day /\ now = Day * u + r
  BY <1>o, <1>n, QuotientRemainder
<1>2. u >= 0
  <2>1. SUFFICES ASSUME u <= -1 PROVE FALSE  BY <1>1
  <2>2. Day * u <= Day * (-1)  BY <2>1, <1>o, <1>1, Monotone
  <2>3. QED  BY <2>2, <1>o, <1>n, <1>1
<1>3. Day * u \in Nat /\ Day * (u + 2) = Day * u + Day + Day
  BY <1>o, <1>1, <1>2
<1>4. Tomorrow = Day * u + Day + Day - offset - 1
  BY <1>o, <1>n, <1>1, <1>3 DEF Tomorrow
<1>5. Tomorrow \in Nat  BY <1>4, <1>3, <1>o
<1>6. PICK k \in Int, s \in Int :
         /\ k = Tomorrow \div Day /\ s = Tomorrow % Day
         /\ s >= 0 /\ s < Day /\ Tomorrow = Day * k + s
  BY <1>o, <1>5, QuotientRemainder
<1>7. Shift \in Int /\ u + 2 - Shift \in Int  BY <1>o, <1>1 DEF Shift
<1>8. /\ Day * (u + 2 - Shift) <= Tomorrow
      /\ Tomorrow < Day * (u + 2 - Shift) + Day
  <2>1. CASE offset < 0
    <3>1. u + 2 - Shift = u + 2  BY <2>1, <1>1 DEF Shift
    <3>2. QED  BY <3>1, <2>1, <1>3, <1>4, <1>o
  <2>2. CASE ~(offset < 0)
    <3>1. u + 2 - Shift = u + 1  BY <2>2, <1>1 DEF Shift
    <3>2. Day * (u + 1) = Day * u + Day  BY <1>o, <1>1
    <3>3. QED  BY <3>1, <3>2, <2>2, <1>3, <1>4, <1>o
  <2>3. QED  BY <2>1, <2>2
<1>9. k = u + 2 - Shift  BY <1>o, <1>5, <1>6, <1>7, <1>8, SameDay
<1>10. u = UtcDay(now) /\ k = UtcDay(Tomorrow)  BY <1>1, <1>6 DEF UtcDay
<1>11. u \in Nat /\ Day * u <= now /\ now < Day * u + Day
  BY <1>o, <1>1, <1>2, <1>3
<1>12. Tomorrow = Day * (u + 2) - offset - 1  BY <1>3, <1>4, <1>o
<1>13. QED  BY <1>5, <1>9, <1>10, <1>11, <1>12

(* The day whose partition is to be dropped is Keep local days ago.        *)
LEMMA ExpiredIs ==
    ASSUME TypeOK
    PROVE  /\ LocalDay(now) \in Int
           /\ Day * LocalDay(now) <= now + offset
           /\ now + offset < Day * LocalDay(now) + Day
           /\ Expired = LocalDay(now) - Keep
<1>o. /\ offset \in Int /\ Day \in Nat \ {0} /\ now \in Int
      /\ Keep \in Nat \ {0}
  BY OffsetRange, ConstantsAssumption DEF TypeOK, First, ConstantsAssumption
<1>1. PICK l \in Int, r \in Int :
         /\ l = (now + offset) \div Day /\ r = (now + offset) % Day
         /\ r >= 0 /\ r < Day /\ now + offset = Day * l + r
  <2>1. now + offset \in Int  BY <1>o
  <2>2. QED  BY <2>1, <1>o, QuotientRemainder
<1>2. PICK e \in Int, s \in Int :
         /\ e = (now - Keep * Day + offset) \div Day
         /\ s = (now - Keep * Day + offset) % Day
         /\ s >= 0 /\ s < Day /\ now - Keep * Day + offset = Day * e + s
  <2>1. now - Keep * Day + offset \in Int  BY <1>o
  <2>2. QED  BY <2>1, <1>o, QuotientRemainder
<1>3. l - Keep \in Int /\ Day * (l - Keep) = Day * l - Keep * Day
  BY <1>o, <1>1
<1>4. e = l - Keep
  <2>1. now - Keep * Day + offset \in Int  BY <1>o
  <2>2. /\ Day * (l - Keep) <= now - Keep * Day + offset
        /\ now - Keep * Day + offset < Day * (l - Keep) + Day
    BY <1>o, <1>1, <1>3
  <2>3. /\ Day * e <= now - Keep * Day + offset
        /\ now - Keep * Day + offset < Day * e + Day
    BY <1>o, <1>2
  <2>4. QED  BY <2>1, <2>2, <2>3, <1>o, <1>2, <1>3, SameDay
<1>5. LocalDay(now) = l /\ Expired = e  BY <1>1, <1>2 DEF LocalDay, Expired
<1>6. Day * l <= now + offset /\ now + offset < Day * l + Day
  BY <1>o, <1>1
<1>7. QED  BY <1>1, <1>4, <1>5, <1>6

(* The names in terms of the bounds are exact: a name, or a bound, belongs *)
(* to one partition.                                                       *)
LEMMA OnePartition ==
    ASSUME NEW d \in Nat \ {0}, NEW a \in Int, NEW b \in Int
    PROVE  d * a = d * b => a = b
  OBVIOUS

-----------------------------------------------------------------------------
(* What a round does to the partitions                                     *)

(* What all the lemmas below know of the constants.                        *)
LEMMA Ranges ==
    ASSUME TypeOK
    PROVE  /\ offset \in Offsets /\ offset \in Int /\ now \in Nat
           /\ Day \in Nat \ {0} /\ Keep \in Nat \ {0} /\ Shift \in 0..1
           /\ -Day < offset /\ offset < Day /\ 24 * offset <= 14 * Day
           /\ MaxFailures \in Nat /\ failures \in Nat
<1>1. First \in Nat  BY ConstantsAssumption DEF ConstantsAssumption, First
<1>2. First + MaxDays * Day \in Int
  BY <1>1, ConstantsAssumption DEF ConstantsAssumption
<1>3. now \in Nat  BY <1>1, <1>2 DEF TypeOK
<1>4. QED
  BY <1>3, OffsetRange, ConstantsAssumption DEF TypeOK, ConstantsAssumption, Shift

(* A local day that has begun is the UTC day or the one after it.          *)
LEMMA Begun ==
    ASSUME TypeOK, NEW d \in Int, Day * d <= now + offset
    PROVE  d <= UtcDay(now) + 1
<1>o. offset \in Int /\ now \in Nat /\ Day \in Nat \ {0} /\ offset < Day
  BY Ranges
<1>t. UtcDay(now) \in Nat /\ now < Day * UtcDay(now) + Day  BY TomorrowIs
<1>1. PICK u \in Nat : u = UtcDay(now)  BY <1>t
<1>2. SUFFICES ASSUME d >= u + 2 PROVE FALSE  BY <1>1
<1>3. Day * (u + 2) <= Day * d  BY <1>2, <1>o, <1>1, Monotone
<1>4. Day * (u + 2) = Day * u + Day + Day  BY <1>o, <1>1
<1>5. Day * u \in Int /\ Day * d \in Int  BY <1>o, <1>1
<1>6. QED  BY <1>3, <1>4, <1>5, <1>o, <1>t, <1>1

(* The partition create_partition would add.                               *)
LEMMA NewIs ==
    ASSUME TypeOK, NEW new, new = [name |-> NewName, bound |-> Tomorrow]
    PROVE  /\ new \in Partition
           /\ new.name + Shift = UtcDay(now) + 2 /\ new.bound = Tomorrow
           /\ new.bound = Day * (new.name + Shift) - offset - 1
<1>o. Shift \in 0..1  BY Ranges
<1>t. /\ UtcDay(now) \in Nat /\ Tomorrow \in Nat
      /\ Tomorrow = Day * (UtcDay(now) + 2) - offset - 1
      /\ NewName = UtcDay(now) + 2 - Shift
  BY TomorrowIs DEF NewName
<1>1. PICK u \in Nat : u = UtcDay(now)  BY <1>t
<1>2. new.name = u + 2 - Shift /\ new.bound = Tomorrow  BY <1>1, <1>t
<1>3. u + 2 - Shift \in Nat  BY <1>o
<1>4. new \in Partition  BY <1>1, <1>3, <1>t DEF Partition
<1>5. new.name + Shift = u + 2  BY <1>2, <1>o
<1>6. QED  BY <1>1, <1>2, <1>4, <1>5, <1>t

(* create_partition: afterwards there is a partition for tomorrow, and     *)
(* none is for a later day, nor for one that had a drop_partition.         *)
LEMMA CreatedIs ==
    ASSUME IInv, NEW parts, parts = Created(partitions)
    PROVE  /\ partitions \subseteq parts
           /\ parts \subseteq Partition
           /\ \A p \in parts : p.bound = Day * (p.name + Shift) - offset - 1
           /\ \A p \in parts : p.name + Shift <= UtcDay(now) + 2
           /\ \E p \in parts :
                 p.bound >= Day * (UtcDay(now) + 2) - offset - 1
           /\ \A p \in parts, d \in served : p.name + Keep # d
<1>i. TypeOK  BY DEF IInv
<1>o. /\ offset \in Int /\ Day \in Nat \ {0} /\ now \in Int
      /\ Keep \in Nat \ {0} /\ Shift \in 0..1
  BY <1>i, Ranges
<1>t. /\ UtcDay(now) \in Nat /\ Tomorrow \in Nat
      /\ Tomorrow = Day * (UtcDay(now) + 2) - offset - 1
      /\ NewName = UtcDay(now) + 2 - Shift
  BY <1>i, TomorrowIs DEF NewName
<1>n. PICK new : new = [name |-> NewName, bound |-> Tomorrow]  OBVIOUS
<1>m. /\ new \in Partition
      /\ new.name + Shift = UtcDay(now) + 2 /\ new.bound = Tomorrow
      /\ new.bound = Day * (new.name + Shift) - offset - 1
  BY <1>i, <1>n, NewIs
<1>1. parts \in {partitions, partitions \cup {new}}  BY <1>n DEF Created
<1>2. partitions \subseteq parts /\ parts \subseteq partitions \cup {new}
  BY <1>1
<1>3. parts \subseteq Partition  BY <1>2, <1>m DEF IInv, BoundsInv
<1>4. \A p \in parts : p.bound = Day * (p.name + Shift) - offset - 1
  BY <1>2, <1>m DEF IInv, BoundsInv
<1>5. \A p \in parts : p.name + Shift <= UtcDay(now) + 2
  <2>1. SUFFICES ASSUME NEW p \in parts
                 PROVE  p.name + Shift <= UtcDay(now) + 2
    OBVIOUS
  <2>2. CASE p \in partitions  BY <2>2 DEF IInv, NamesInv
  <2>3. CASE p = new  BY <2>3, <1>m, <1>t
  <2>4. QED  BY <2>2, <2>3, <1>2
(* Either the new one or the one that kept it from being created.          *)
<1>6. \E p \in parts : p.bound >= Tomorrow
  <2>1. CASE NewName \in Names
    <3>1. PICK p \in partitions : p.name = NewName  BY <2>1 DEF Names
    <3>2. p.bound = Day * (p.name + Shift) - offset - 1
      BY DEF IInv, BoundsInv
    <3>3. p.name + Shift = UtcDay(now) + 2  BY <3>1, <1>t, <1>o
    <3>4. p.bound = Tomorrow  BY <3>2, <3>3, <1>t
    <3>5. QED  BY <3>4, <1>2, <1>t
  <2>2. CASE \E p \in partitions : p.bound >= Tomorrow  BY <2>2, <1>2
  <2>3. CASE ~(NewName \in Names \/ \E p \in partitions : p.bound >= Tomorrow)
    <3>1. new \in parts  BY <2>3, <1>n DEF Created
    <3>2. QED  BY <3>1, <1>m, <1>t
  <2>4. QED  BY <2>1, <2>2, <2>3
<1>7. \A p \in parts, d \in served : p.name + Keep # d
  <2>1. SUFFICES ASSUME NEW p \in parts, NEW d \in served
                 PROVE  p.name + Keep # d
    OBVIOUS
  <2>2. d \in Int /\ Day * d <= now + offset  BY DEF IInv, ServedInv
  <2>3. CASE p \in partitions  BY <2>3 DEF IInv, OldAreDropped
  <2>4. CASE p = new
    <3>1. d <= UtcDay(now) + 1  BY <1>i, <2>2, Begun
    <3>2. p.name \in Nat  BY <2>4, <1>m DEF Partition
    <3>3. p.name + Keep >= UtcDay(now) + 2  BY <2>4, <3>2, <1>m, <1>o, <1>t
    <3>4. QED  BY <3>1, <3>2, <3>3, <2>2, <1>t, <1>o
  <2>5. QED  BY <2>3, <2>4, <1>2
<1>8. QED  BY <1>2, <1>3, <1>4, <1>5, <1>6, <1>7, <1>t

(* drop_partition: none is left of the day Keep days ago; one that ends    *)
(* after today is not touched.                                             *)
LEMMA DroppedIs ==
    ASSUME TypeOK, NEW parts, parts \subseteq Partition
    PROVE  /\ \A p \in Dropped(parts) : p.name + Keep # LocalDay(now)
           /\ \A p \in parts :
                 p.name + Shift > LocalDay(now) => p \in Dropped(parts)
<1>o. Keep \in Nat \ {0} /\ Shift \in 0..1  BY Ranges
<1>e. LocalDay(now) \in Int /\ Expired = LocalDay(now) - Keep  BY ExpiredIs
<1>1. ASSUME NEW p \in Dropped(parts) PROVE p.name + Keep # LocalDay(now)
  <2>1. p.name # Expired /\ p.name \in Nat  BY DEF Dropped, Partition
  <2>2. QED  BY <2>1, <1>e, <1>o
<1>2. ASSUME NEW p \in parts, p.name + Shift > LocalDay(now)
      PROVE  p \in Dropped(parts)
  <2>1. p.name \in Nat  BY DEF Partition
  <2>2. p.name # Expired  BY <2>1, <1>2, <1>e, <1>o
  <2>3. QED  BY <2>2 DEF Dropped
<1>3. QED  BY <1>1, <1>2

(* The day reckoned with a third of a day ago is not over.                 *)
LEMMA NotOver ==
    ASSUME TypeOK, NEW a \in Nat, a <= now, 3 * (now - a) <= Day
    PROVE  /\ UtcDay(a) \in Int
           /\ now < Day * (UtcDay(a) + 2) - offset - 1
           /\ \A b \in Int : b >= UtcDay(a) + 2 => b > LocalDay(now)
<1>o. /\ offset \in Int /\ Day \in Nat \ {0} /\ now \in Nat
      /\ 24 * offset <= 14 * Day
  BY Ranges
<1>1. PICK u \in Int, r \in Int :
         /\ u = a \div Day /\ r = a % Day
         /\ r >= 0 /\ r < Day /\ a = Day * u + r
  BY <1>o, QuotientRemainder
<1>2. Day * (u + 2) = Day * u + Day + Day /\ Day * u \in Int
  BY <1>o, <1>1
<1>3. now < Day * (u + 2) - offset - 1
  <2>1. PICK x \in Int, n \in Int, o \in Int, d \in Int :
           x = Day * u /\ n = now /\ o = offset /\ d = Day
    BY <1>o, <1>2
  <2>2. /\ 3 * (n - a) <= d /\ a = x + r /\ r < d /\ 24 * o <= 14 * d /\ d > 0
    BY <2>1, <1>o, <1>1
  <2>3. n < x + d + d - o - 1  BY <2>2, <1>1
  <2>4. QED  BY <2>1, <2>3, <1>2
<1>4. ASSUME NEW b \in Int, b >= u + 2 PROVE b > LocalDay(now)
  <2>1. PICK l \in Int : l = LocalDay(now) /\ Day * l <= now + offset
    BY ExpiredIs
  <2>2. SUFFICES ASSUME l >= u + 2 PROVE FALSE  BY <1>1, <1>4, <2>1
  <2>3. Day * (u + 2) <= Day * l  BY <2>2, <2>1, <1>o, <1>1, Monotone
  <2>4. Day * (u + 2) \in Int /\ Day * l \in Int  BY <2>1, <1>o, <1>1
  <2>5. QED  BY <2>1, <2>3, <2>4, <1>3, <1>o
<1>5. UtcDay(a) = u  BY <1>1 DEF UtcDay
<1>6. QED  BY <1>1, <1>3, <1>4, <1>5

(* A partition that ends with a local day, or later, is named accordingly. *)
LEMMA LaterName ==
    ASSUME TypeOK, NEW p \in Partition, NEW k \in Int,
           p.bound = Day * (p.name + Shift) - offset - 1,
           p.bound >= Day * k - offset - 1
    PROVE  p.name + Shift >= k
<1>o. offset \in Int /\ Day \in Nat \ {0} /\ Shift \in 0..1  BY Ranges
<1>1. PICK s \in Int : s = p.name + Shift  BY <1>o DEF Partition
<1>2. SUFFICES ASSUME s + 1 <= k PROVE FALSE  BY <1>1
<1>3. Day * (s + 1) <= Day * k  BY <1>2, <1>1, <1>o, Monotone
<1>4. Day * (s + 1) = Day * s + Day  BY <1>1, <1>o
<1>5. Day * s \in Int /\ Day * k \in Int  BY <1>1, <1>o
<1>6. QED  BY <1>1, <1>3, <1>4, <1>5, <1>o

(* If all names and bounds are as BoundsInv says, no two partitions share  *)
(* one.                                                                    *)
LEMMA NoneShared ==
    ASSUME NEW parts, parts \subseteq Partition, offset \in Offsets,
           \A p \in parts : p.bound = Day * (p.name + Shift) - offset - 1
    PROVE  /\ \A p \in parts : p.name \in Nat /\ p.bound \in Nat
           /\ \A p, q \in parts : p.name = q.name \/ p.bound = q.bound => p = q
<1>o. offset \in Int /\ Day \in Nat \ {0} /\ Shift \in 0..1
  BY OffsetRange DEF Shift
<1>1. \A p \in parts : p.name \in Nat /\ p.bound \in Nat  BY DEF Partition
<1>2. ASSUME NEW p \in parts, NEW q \in parts,
             p.name = q.name \/ p.bound = q.bound
      PROVE  p = q
  <2>1. PICK a \in Nat, b \in Nat : a = p.name /\ b = q.name  BY <1>1
  <2>2. p.bound = Day * (a + Shift) - offset - 1  BY <2>1
  <2>3. q.bound = Day * (b + Shift) - offset - 1  BY <2>1
  <2>4. CASE p.bound = q.bound
    <3>1. Day * (a + Shift) \in Int /\ Day * (b + Shift) \in Int
      BY <1>o, <2>1
    <3>2. Day * (a + Shift) = Day * (b + Shift)
      BY <3>1, <2>2, <2>3, <2>4, <1>o
    <3>3. a + Shift = b + Shift  BY <3>2, <1>o, <2>1, OnePartition
    <3>4. QED  BY <3>3, <2>1, <2>4, <1>o DEF Partition
  <2>5. CASE p.name = q.name
    <3>1. p.bound = q.bound  BY <2>1, <2>2, <2>3, <2>5
    <3>2. QED  BY <3>1, <2>5 DEF Partition
  <2>6. QED  BY <2>4, <2>5, <1>2
<1>3. QED  BY <1>1, <1>2

-----------------------------------------------------------------------------
(* The invariant                                                           *)

(* Before the first round there is nothing to be wrong.                    *)
LEMMA InitHolds == Init => IInv
<1> SUFFICES ASSUME Init PROVE IInv  OBVIOUS
<1>1. First \in Nat /\ MaxDays * Day >= Day /\ Day \in Nat \ {0}
  BY ConstantsAssumption DEF ConstantsAssumption, First
<1>2. MaxDays * Day \in Nat  BY ConstantsAssumption DEF ConstantsAssumption
<1>3. now \in First .. First + MaxDays * Day  BY <1>1, <1>2 DEF Init
<1>4. TypeOK
  <2>1. now \in Nat /\ managed \in 0..now /\ answered \in 0..managed
    BY <1>1, <1>3 DEF Init
  <2>2. failures \in 0..MaxFailures /\ downtime \in 0..MaxDowntime
    BY ConstantsAssumption DEF Init, ConstantsAssumption
  <2>3. QED  BY <1>3, <2>1, <2>2 DEF Init, TypeOK
<1>5. BoundsInv /\ NamesInv /\ ServedInv /\ CoverInv /\ OldAreDropped
  BY DEF Init, BoundsInv, NamesInv, ServedInv, CoverInv, OldAreDropped
<1>6. QED  BY <1>4, <1>5 DEF IInv

(* manage_partitions, whichever of the two connections fails.              *)
LEMMA RoundHolds ==
    ASSUME IInv, Round, UNCHANGED <<now, offset, downtime>>, up' \in BOOLEAN
    PROVE  IInv'
<1>i. TypeOK  BY DEF IInv
<1>o. /\ offset \in Offsets /\ offset \in Int /\ now \in Nat
      /\ Day \in Nat \ {0} /\ Keep \in Nat \ {0} /\ Shift \in 0..1
      /\ MaxFailures \in Nat /\ failures \in Nat
      /\ answered \in Nat /\ answered <= now
  BY <1>i, Ranges DEF TypeOK
<1>s. Shift' = Shift  BY DEF Shift
<1>1. PICK created \in BOOLEAN, dropped \in BOOLEAN :
         /\ failures' = failures + Lost(created) + Lost(dropped)
         /\ failures' <= MaxFailures
         /\ partitions' = Managed(created, dropped)
         /\ answered' = IF created THEN now ELSE answered
         /\ served' = IF dropped THEN served \cup {LocalDay(now)} ELSE served
  BY DEF Round
<1>2. PICK parts :
         parts = IF created THEN Created(partitions) ELSE partitions
  OBVIOUS
<1>3. partitions' = IF dropped THEN Dropped(parts) ELSE parts
  BY <1>1, <1>2 DEF Managed
<1>4. /\ parts \subseteq Partition
      /\ \A p \in parts : p.bound = Day * (p.name + Shift) - offset - 1
      /\ \A p \in parts : p.name + Shift <= UtcDay(now) + 2
      /\ \A p \in parts, d \in served : p.name + Keep # d
  <2>1. CASE created
    <3>1. parts = Created(partitions)  BY <2>1, <1>2
    <3>2. QED  BY <3>1, CreatedIs
  <2>2. CASE ~created
    BY <2>2, <1>2 DEF IInv, BoundsInv, NamesInv, OldAreDropped
  <2>3. QED  BY <2>1, <2>2
<1>5. partitions' \subseteq parts  BY <1>3 DEF Dropped
<1>l. LocalDay(now) \in Int /\ Day * LocalDay(now) <= now + offset
  BY <1>i, ExpiredIs
<1>6. TypeOK'
  <2>1. /\ now' \in First .. First + MaxDays * Day /\ offset' \in Offsets
        /\ up' \in BOOLEAN /\ downtime' \in 0..MaxDowntime
    BY <1>i DEF TypeOK
  <2>2. managed' = now /\ now' = now  BY DEF Round
  <2>3. managed' \in 0..now' /\ answered' \in 0..managed'
    BY <1>1, <1>o, <2>2
  <2>4. failures' \in 0..MaxFailures  BY <1>1, <1>o DEF Lost
  <2>5. served' \subseteq Int  BY <1>1, <1>l, <1>i DEF TypeOK
  <2>6. /\ \A p \in partitions' : p.name \in Nat /\ p.bound \in Nat
        /\ \A p, q \in partitions' :
              p.name = q.name \/ p.bound = q.bound => p = q
    <3>1. /\ \A p \in parts : p.name \in Nat /\ p.bound \in Nat
          /\ \A p, q \in parts :
                p.name = q.name \/ p.bound = q.bound => p = q
      BY <1>4, <1>o, NoneShared
    <3>2. QED  BY <3>1, <1>5
  <2>7. QED  BY <2>1, <2>3, <2>4, <2>5, <2>6 DEF TypeOK
<1>7. BoundsInv'  BY <1>4, <1>5, <1>s DEF BoundsInv
<1>8. NamesInv'  BY <1>4, <1>5, <1>s DEF NamesInv, UtcDay
<1>9. ServedInv'  BY <1>1, <1>l DEF IInv, ServedInv
<1>10. CoverInv'
  <2>1. SUFFICES ASSUME answered' # 0, 3 * (now - answered') <= Day
                 PROVE  \E p \in partitions' :
                           p.bound >= Day * (UtcDay(answered') + 2) - offset - 1
    BY DEF CoverInv, UtcDay
  <2>2. PICK a \in Nat : a = answered' /\ a <= now /\ 3 * (now - a) <= Day
    BY <1>1, <1>o, <2>1
  <2>3. PICK p \in parts : p.bound >= Day * (UtcDay(a) + 2) - offset - 1
    <3>1. CASE created
      <4>1. a = now /\ parts = Created(partitions)  BY <3>1, <1>1, <1>2, <2>2
      <4>2. QED  BY <4>1, CreatedIs
    <3>2. CASE ~created
      <4>1. a = answered /\ parts = partitions  BY <3>2, <1>1, <1>2, <2>2
      <4>2. QED  BY <4>1, <2>1, <2>2 DEF IInv, CoverInv
    <3>3. QED  BY <3>1, <3>2
  <2>4. UtcDay(a) \in Int /\ UtcDay(a) + 2 \in Int  BY <1>i, <2>2, NotOver
  <2>5. p \in Partition /\ p.bound = Day * (p.name + Shift) - offset - 1
    BY <1>4
  <2>6. p.name + Shift >= UtcDay(a) + 2
    BY <1>i, <2>3, <2>4, <2>5, LaterName
  <2>7. p.name + Shift \in Int  BY <2>5, <1>o DEF Partition
  <2>8. p.name + Shift > LocalDay(now)  BY <1>i, <2>2, <2>6, <2>7, NotOver
  <2>9. p \in partitions'  BY <1>i, <1>3, <1>4, <2>8, DroppedIs
  <2>10. QED  BY <2>2, <2>3, <2>9
<1>11. OldAreDropped'
  <2>1. SUFFICES ASSUME NEW p \in partitions', NEW d \in served'
                 PROVE  p.name + Keep # d
    BY DEF OldAreDropped
  <2>2. CASE d \in served  BY <2>2, <1>4, <1>5
  <2>3. CASE d \notin served
    <3>1. dropped /\ d = LocalDay(now)  BY <2>3, <1>1
    <3>2. p \in Dropped(parts)  BY <3>1, <1>3
    <3>3. QED  BY <3>1, <3>2, <1>i, <1>4, DroppedIs
  <2>4. QED  BY <2>2, <2>3
<1>12. QED  BY <1>6, <1>7, <1>8, <1>9, <1>10, <1>11 DEF IInv

(* An hour later it is the same day or a later one.                        *)
LEMMA LaterDay ==
    ASSUME NEW d \in Nat \ {0}, NEW t \in Nat
    PROVE  /\ t \div d \in Int /\ (t + 1) \div d \in Int
           /\ t \div d <= (t + 1) \div d
<1>1. PICK u \in Int, r \in Int :
         /\ u = t \div d /\ r = t % d
         /\ r >= 0 /\ r < d /\ t = d * u + r
  BY QuotientRemainder
<1>2. PICK v \in Int, s \in Int :
         /\ v = (t + 1) \div d /\ s = (t + 1) % d
         /\ s >= 0 /\ s < d /\ t + 1 = d * v + s
  <2>1. t + 1 \in Int  OBVIOUS
  <2>2. QED  BY <2>1, QuotientRemainder
<1>3. u <= v
  <2>1. SUFFICES ASSUME v + 1 <= u PROVE FALSE  BY <1>1, <1>2
  <2>2. d * (v + 1) <= d * u  BY <2>1, <1>1, <1>2, Monotone
  <2>3. d * (v + 1) = d * v + d  BY <1>2
  <2>4. d * v \in Int /\ d * u \in Int  BY <1>1, <1>2
  <2>5. QED  BY <2>2, <2>3, <2>4, <1>1, <1>2
<1>4. QED  BY <1>1, <1>2, <1>3

(* An hour passes: no day gets younger.                                    *)
LEMMA HourHolds ==
    ASSUME IInv, Hour
    PROVE  IInv'
<1>o. /\ offset \in Int /\ now \in Nat /\ Day \in Nat \ {0}
      /\ First \in Nat /\ First + MaxDays * Day \in Int
      /\ MaxDowntime \in Nat /\ downtime \in Nat /\ answered \in Nat
  <2>1. First \in Nat /\ MaxDays * Day \in Nat
    BY ConstantsAssumption DEF First, ConstantsAssumption
  <2>2. QED
    BY <2>1, OffsetRange, ConstantsAssumption DEF IInv, TypeOK, ConstantsAssumption
<1>s. Shift' = Shift /\ Shift \in 0..1  BY DEF Shift, Hour
<1>1. TypeOK'
  <2>1. now' \in First .. First + MaxDays * Day
    BY <1>o DEF Hour, IInv, TypeOK
  <2>2. managed' \in 0..now' /\ answered' \in 0..managed'
    BY <1>o DEF Hour, IInv, TypeOK
  <2>3. downtime' \in 0..MaxDowntime
    BY <1>o DEF Hour, IInv, TypeOK
  <2>4. QED  BY <2>1, <2>2, <2>3 DEF Hour, IInv, TypeOK
<1>2. BoundsInv'  BY <1>s DEF Hour, IInv, BoundsInv
<1>3. NamesInv'
  <2>1. SUFFICES ASSUME NEW p \in partitions
                 PROVE  p.name + Shift <= UtcDay(now + 1) + 2
    BY <1>s DEF Hour, NamesInv, UtcDay
  <2>2. /\ UtcDay(now) \in Int /\ UtcDay(now + 1) \in Int
        /\ UtcDay(now) <= UtcDay(now + 1)
    BY <1>o, LaterDay DEF UtcDay
  <2>3. p.name + Shift <= UtcDay(now) + 2 /\ p.name \in Nat
    BY DEF IInv, NamesInv, BoundsInv, Partition
  <2>4. QED  BY <2>2, <2>3, <1>s
<1>4. ServedInv'
  <2>1. SUFFICES ASSUME NEW d \in served
                 PROVE  d \in Int /\ Day * d <= now + 1 + offset
    BY DEF Hour, ServedInv
  <2>2. d \in Int /\ Day * d <= now + offset  BY DEF IInv, ServedInv
  <2>3. QED  BY <2>2, <1>o
<1>5. CoverInv'
  <2>1. /\ now' = now + 1 /\ answered' = answered
        /\ partitions' = partitions /\ offset' = offset
    BY DEF Hour
  <2>2. SUFFICES ASSUME answered' # 0, 3 * (now' - answered') <= Day
                 PROVE  \E p \in partitions' :
                           p.bound >= Day * (UtcDay(answered') + 2) - offset' - 1
    BY ZenonT(60) DEF CoverInv, UtcDay
  <2>3. answered # 0 /\ 3 * (now - answered) <= Day  BY <2>1, <2>2, <1>o
  <2>4. PICK p \in partitions :
           p.bound >= Day * (UtcDay(answered) + 2) - offset - 1
    BY <2>3 DEF IInv, CoverInv
  <2>5. QED  BY <2>1, <2>4
<1>6. OldAreDropped'  BY DEF Hour, IInv, OldAreDropped
<1>7. QED  BY <1>1, <1>2, <1>3, <1>4, <1>5, <1>6 DEF IInv

(* Every step of the master, and of the clock.                             *)
LEMMA NextHolds == IInv /\ [Next]_vars => IInv'
<1> SUFFICES ASSUME IInv, [Next]_vars PROVE IInv'  OBVIOUS
<1>1. CASE StartMaster  BY <1>1, RoundHolds DEF StartMaster
<1>2. CASE Manage
  BY <1>2, RoundHolds DEF Manage, IInv, TypeOK
<1>3. CASE StopMaster
  <2>1. TypeOK'  BY <1>3 DEF StopMaster, IInv, TypeOK
  <2>2. BoundsInv' /\ NamesInv' /\ ServedInv'
    BY <1>3 DEF StopMaster, IInv, BoundsInv, NamesInv, Shift, UtcDay, ServedInv
  <2>3. CoverInv' /\ OldAreDropped'
    BY <1>3 DEF StopMaster, IInv, CoverInv, UtcDay, OldAreDropped
  <2>4. QED  BY <2>1, <2>2, <2>3 DEF IInv
<1>4. CASE Hour  BY <1>4, HourHolds
<1>5. CASE UNCHANGED vars
  BY <1>5 DEF vars, IInv, TypeOK, BoundsInv, NamesInv, Shift, ServedInv,
              CoverInv, UtcDay, OldAreDropped
<1>6. QED  BY <1>1, <1>2, <1>3, <1>4, <1>5 DEF Next

(* The inductive invariant, on every run of the master.                    *)
THEOREM Inductive == Spec => []IInv
<1>1. Init => IInv  BY InitHolds
<1>2. IInv /\ [Next]_vars => IInv'  BY NextHolds
<1>3. QED  BY <1>1, <1>2, PTL DEF Spec

-----------------------------------------------------------------------------
(* The properties                                                          *)

(* The types; no two partitions share a name or a bound.                   *)
THEOREM TypeCorrect == Spec => []TypeOK
<1>1. IInv => TypeOK  BY DEF IInv
<1>2. QED  BY <1>1, Inductive, PTL

(* If tomorrow's name is missing, all partitions end before tomorrow: none *)
(* is for a later day, and one for tomorrow has its name, though west of   *)
(* Greenwich name and bound are two days apart and to the east one.        *)
LEMMA Fits == IInv => AlterFits
<1> SUFFICES ASSUME IInv, NewName \notin Names, NEW p \in partitions
             PROVE  p.bound < Tomorrow
  BY DEF AlterFits
<1>i. TypeOK  BY DEF IInv
<1>o. offset \in Int /\ Day \in Nat \ {0} /\ Shift \in 0..1  BY <1>i, Ranges
<1>t. /\ UtcDay(now) \in Nat /\ NewName = UtcDay(now) + 2 - Shift
      /\ Tomorrow = Day * (UtcDay(now) + 2) - offset - 1
  BY <1>i, TomorrowIs DEF NewName
<1>1. PICK u \in Nat, n \in Nat : u = UtcDay(now) /\ n = p.name
  BY <1>t DEF IInv, BoundsInv, Partition
<1>2. n + Shift <= u + 2 /\ p.bound = Day * (n + Shift) - offset - 1
  BY <1>1 DEF IInv, NamesInv, BoundsInv
<1>3. n # u + 2 - Shift  BY <1>1, <1>t DEF Names
<1>4. n + Shift <= u + 1  BY <1>2, <1>3, <1>o
<1>5. Day * (n + Shift) <= Day * (u + 1)  BY <1>4, <1>o, Monotone
<1>6. Day * (u + 2) = Day * (u + 1) + Day  BY <1>o
<1>7. Day * (n + Shift) \in Int /\ Day * (u + 1) \in Int  BY <1>o
<1>8. QED  BY <1>1, <1>2, <1>5, <1>6, <1>7, <1>t, <1>o

(* The ALTER TABLE of create_partition is never one the database refuses,  *)
(* whatever rounds were lost, in whole or in part.                         *)
THEOREM NeverRefused == Spec => []AlterFits
<1>1. IInv => AlterFits  BY Fits
<1>2. QED  BY <1>1, Inductive, PTL

(* A worker's INSERT finds a partition when create_partition got through   *)
(* in the last third of a day.  The bound is the end of tomorrow, but      *)
(* tomorrow counted from the UTC midnight and its end taken in local time, *)
(* so east of Greenwich it comes earlier: with an offset of two thirds of  *)
(* a day the third would not be left.                                      *)
LEMMA Covered == IInv => InsertFits
<1> SUFFICES ASSUME IInv, 3 * (now - answered) <= Day
             PROVE  \E p \in partitions : now < p.bound
  BY DEF InsertFits
<1>i. TypeOK  BY DEF IInv
<1>o. /\ offset \in Int /\ Day \in Nat \ {0} /\ now \in Nat
      /\ answered \in Nat /\ answered <= now /\ now >= First
  BY <1>i, Ranges, ConstantsAssumption
  DEF TypeOK, First, ConstantsAssumption
<1>1. answered # 0
  <2>1. First >= Day + Day
    <3>1. Keep \in Nat \ {0}  BY ConstantsAssumption DEF ConstantsAssumption
    <3>2. Day * (1 + 1) <= Day * (Keep + 1)  BY <1>o, <3>1, Monotone
    <3>3. (Keep + 1) * Day = Day * (Keep + 1) /\ Day * (1 + 1) = Day + Day
      BY <1>o, <3>1
    <3>4. QED  BY <3>2, <3>3 DEF First
  <2>2. First \in Int
    BY ConstantsAssumption DEF First, ConstantsAssumption
  <2>3. QED  BY <2>1, <2>2, <1>o
<1>2. PICK p \in partitions :
         p.bound >= Day * (UtcDay(answered) + 2) - offset - 1
  BY <1>1 DEF IInv, CoverInv
<1>3. /\ UtcDay(answered) \in Int
      /\ now < Day * (UtcDay(answered) + 2) - offset - 1
  BY <1>i, <1>o, NotOver
<1>4. PICK b \in Int : b = Day * (UtcDay(answered) + 2)  BY <1>3, <1>o
<1>5. p.bound \in Nat  BY DEF IInv, BoundsInv, Partition
<1>6. now < p.bound  BY <1>2, <1>3, <1>4, <1>5, <1>o
<1>7. QED  BY <1>6

(* A message a worker takes while the database answers can be filed in     *)
(* history, and used for training later.                                   *)
THEOREM HistoryOpen == Spec => []InsertFits
<1>1. IInv => InsertFits  BY Covered
<1>2. QED  BY <1>1, Inductive, PTL

(* drop_partition looks for one day only; if it ran that day, the          *)
(* partition is gone and does not come back.                               *)
THEOREM OldGone == Spec => []OldAreDropped
<1>1. IInv => OldAreDropped  BY DEF IInv
<1>2. QED  BY <1>1, Inductive, PTL

(* The youngest row of a partition that is dropped is older than Keep - 1  *)
(* days, whatever the time zone and wherever in the day the round falls.   *)
LEMMA DropsOld ==
    ASSUME IInv, NEW created \in BOOLEAN, NEW dropped \in BOOLEAN,
           partitions' = Managed(created, dropped), now' = now,
           NEW p \in partitions \ partitions'
    PROVE  now - (p.bound - 1) > (Keep - 1) * Day
<1>o. /\ offset \in Int /\ Day \in Nat \ {0} /\ now \in Int
      /\ Keep \in Nat \ {0} /\ Shift \in 0..1
  BY OffsetRange, ConstantsAssumption
  DEF IInv, TypeOK, First, ConstantsAssumption, Shift
<1>e. /\ LocalDay(now) \in Int /\ Day * LocalDay(now) <= now + offset
      /\ Expired = LocalDay(now) - Keep
  BY ExpiredIs DEF IInv
<1>1. p.name = Expired
  BY DEF Managed, Dropped, Created
<1>2. p.bound = Day * (p.name + Shift) - offset - 1
  BY DEF IInv, BoundsInv
<1>3. PICK l \in Int : l = LocalDay(now)  BY <1>e
<1>4. p.name + Shift <= l - (Keep - 1)  BY <1>o, <1>e, <1>1, <1>3
<1>5. Day * (p.name + Shift) <= Day * (l - (Keep - 1))
  BY <1>4, <1>o, <1>e, <1>1, <1>3, Monotone
<1>6. Day * (l - (Keep - 1)) = Day * l - (Keep - 1) * Day  BY <1>o, <1>3
<1>7. /\ Day * (p.name + Shift) \in Int /\ Day * l \in Int
      /\ (Keep - 1) * Day \in Int
  BY <1>o, <1>e, <1>1, <1>3
<1>8. QED  BY <1>2, <1>3, <1>5, <1>6, <1>7, <1>o, <1>e

(* No step of the master drops a row before it is Keep - 1 days old.       *)
THEOREM RowsKept == Spec => KeepsRows
<1> DEFINE Old == \A p \in partitions \ partitions' :
                      now - (p.bound - 1) > (Keep - 1) * Day
<1>1. ASSUME IInv, [Next]_vars PROVE Old
  <2>1. CASE partitions' = partitions  BY <2>1
  <2>2. CASE Round /\ now' = now
    <3>1. PICK created \in BOOLEAN, dropped \in BOOLEAN :
             partitions' = Managed(created, dropped)
      BY <2>2 DEF Round
    <3>2. QED  BY <1>1, <2>2, <3>1, DropsOld
  <2>3. (partitions' = partitions) \/ (Round /\ now' = now)
    BY <1>1 DEF vars, Next, StartMaster, Manage, StopMaster, Hour
  <2>4. QED  BY <2>1, <2>2, <2>3
<1> HIDE DEF Old
<1>2. IInv /\ [Next]_vars => [Old]_vars  BY <1>1
<1>3. Spec => [][Old]_vars  BY <1>2, Inductive, PTL DEF Spec
<1>4. QED  BY <1>3 DEF Old, KeepsRows
=============================================================================
