---------------------------- MODULE MCPartitions ----------------------------
(* A small instance of Partitions for TLC: days of six hours, time zones   *)
(* on both sides of UTC.                                                   *)
EXTENDS Partitions

MCOffsets == -3 .. 3
=============================================================================
