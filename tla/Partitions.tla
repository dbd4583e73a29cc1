----------------------------- MODULE Partitions -----------------------------
(***************************************************************************)
(* The partitions of the history table: manage_partitions (src/partition.c)*)
(* as the master runs it, before it forks the workers and every hour.      *)
(*                                                                         *)
(* Time is counted in hours from some midnight UTC; a day has Day hours, a *)
(* row is kept about Keep days.  A partition is named after a day and      *)
(* takes the rows older than its bound.  The one of tomorrow is named      *)
(* after the UTC day of its bound, the one to drop after the local day.    *)
(* Abstracted: seconds (a bound is on the hour), dates (a day has a        *)
(* number), changes of the local offset, the first partition (p0, empty),  *)
(* and the connections the early returns leave open.                       *)
(***************************************************************************)
EXTENDS Integers, FiniteSets

CONSTANTS
    Day,            \* hours of a day
    Offsets,        \* local time minus UTC, one of these
    Keep,           \* days a partition is kept: 31
    MaxDays,        \* bound: days looked at
    MaxFailures,    \* bound: times the database does not answer
    MaxDowntime     \* bound: hours the master is down

(* Time zones are ahead of UTC by 14 hours of 24 at most.                  *)
ASSUME ConstantsAssumption ==
    /\ Day \in Nat \ {0} /\ Keep \in Nat \ {0}
    /\ MaxDays \in Nat \ {0} /\ {MaxFailures, MaxDowntime} \subseteq Nat
    /\ Offsets \subseteq Int
    /\ \A o \in Offsets : -Day < o /\ 24 * o <= 14 * Day

VARIABLES
    now,          \* the hour
    offset,       \* tm_gmtoff
    partitions,   \* of history: [name, bound]
    up,           \* the master runs, and with it the workers
    managed,      \* hour of the last manage_partitions
    answered,     \* hour of the last create_partition the database answered
    served,       \* the local days with a drop_partition it answered
    failures, downtime

vars == <<now, offset, partitions, up, managed, answered, served,
          failures, downtime>>

First == (Keep + 1) * Day           \* so that there is a day to drop

UtcDay(t)   == t \div Day
LocalDay(t) == (t + offset) \div Day
Names       == {p.name : p \in partitions}

Init ==
    /\ now \in First .. First + Day - 1
    /\ offset \in Offsets
    /\ partitions = {}
    /\ up = FALSE
    /\ managed = 0 /\ answered = 0
    /\ served = {}
    /\ failures = 0 /\ downtime = 0

-----------------------------------------------------------------------------
EndOfToday == now + Day - (now % Day) - offset - 1                 \* mutant

(* create_partition: up to the last hour of the next local day, or so.     *)
Tomorrow == now + Day - (now % Day) - offset + Day - 1

LocalTomorrow == LocalDay(now) + 1                                 \* mutant
NewName == UtcDay(Tomorrow)

(* ADD PARTITION is refused unless the bound is above all others.          *)
Created(parts) ==
    IF NewName \in Names \/ \E p \in parts : p.bound >= Tomorrow
    THEN parts ELSE parts \cup {[name |-> NewName, bound |-> Tomorrow]}

DayTooSoon == LocalDay(now - (Keep - 1) * Day)                     \* mutant

(* drop_partition: the one of this day, Keep days ago, if there is one.    *)
Expired == LocalDay(now - Keep * Day)
Dropped(parts) == {p \in parts : p.name # Expired}

ManagedOneOf(created, dropped) ==                                  \* mutant
    IF created /\ Created(partitions) # partitions THEN Created(partitions)
    ELSE IF dropped THEN Dropped(partitions) ELSE partitions

(* manage_partitions: each of the two opens the database for itself, and   *)
(* without it does nothing.                                                *)
Managed(created, dropped) ==
    LET parts == IF created THEN Created(partitions) ELSE partitions
    IN  IF dropped THEN Dropped(parts) ELSE parts

Lost(answer) == IF answer THEN 0 ELSE 1

Round ==
    /\ managed' = now
    /\ \E created, dropped \in BOOLEAN :
          /\ failures' = failures + Lost(created) + Lost(dropped)
          /\ failures' <= MaxFailures
          /\ partitions' = Managed(created, dropped)
          /\ answered' = IF created THEN now ELSE answered
          /\ served' = IF dropped THEN served \cup {LocalDay(now)} ELSE served

(* main: a round comes before the workers, and the next an hour later.     *)
StartMaster ==
    /\ ~up
    /\ up' = TRUE
    /\ Round
    /\ UNCHANGED <<now, offset, downtime>>

(* The loop of main, now - last_partition_maintenance >= 3600.             *)
Manage ==
    /\ up /\ managed < now
    /\ Round
    /\ UNCHANGED <<now, offset, up, downtime>>

StopMaster ==
    /\ up /\ downtime < MaxDowntime
    /\ up' = FALSE
    /\ UNCHANGED <<now, offset, partitions, managed, answered, served,
                   failures, downtime>>

(* An hour passes; the master does not sleep through it.                   *)
Hour ==
    /\ now < First + MaxDays * Day
    /\ up => managed = now
    /\ ~up => downtime < MaxDowntime
    /\ downtime' = IF up THEN downtime ELSE downtime + 1
    /\ now' = now + 1
    /\ UNCHANGED <<offset, partitions, up, managed, answered, served, failures>>

Next == StartMaster \/ Manage \/ StopMaster \/ Hour

Spec == Init /\ [][Next]_vars

-----------------------------------------------------------------------------
(* Properties                                                              *)

(* Types; no two partitions have a name, or a bound, in common.            *)
TypeOK ==
    /\ now \in First .. First + MaxDays * Day
    /\ offset \in Offsets
    /\ \A p \in partitions : p.name \in Nat /\ p.bound \in Nat
    /\ \A p, q \in partitions : p.name = q.name \/ p.bound = q.bound => p = q
    /\ up \in BOOLEAN
    /\ managed \in 0..now /\ answered \in 0..managed
    /\ served \subseteq Int
    /\ failures \in 0..MaxFailures /\ downtime \in 0..MaxDowntime

(* The ALTER TABLE that create_partition sends when it does not find       *)
(* tomorrow's name is not refused: all other partitions end before, though *)
(* name and bound are reckoned in different zones.                         *)
AlterFits == NewName \notin Names => \A p \in partitions : p.bound < Tomorrow

(* A worker's INSERT into history finds a partition for the present, at    *)
(* any hour and in any time zone, if in the last third of a day one        *)
(* create_partition got through (else the message cannot be used for       *)
(* training).                                                              *)
InsertFits ==
    up /\ 3 * (now - answered) <= Day => \E p \in partitions : now < p.bound

(* No row is dropped before it is Keep - 1 days old.                       *)
KeepsRows ==
    [][\A p \in partitions \ partitions' :
          now - (p.bound - 1) > (Keep - 1) * Day]_vars

(* A partition is gone if drop_partition got through on its day to be      *)
(* dropped.  (Else it stays for ever: no later round looks for it.)        *)
OldAreDropped == \A p \in partitions : p.name + Keep \notin served
=============================================================================
