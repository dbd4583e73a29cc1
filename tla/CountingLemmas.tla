--------------------------- MODULE CountingLemmas ---------------------------
(***************************************************************************)
(* Facts about the sizes of finite sets that the counting invariants of    *)
(* the models need: how the number of messages, or of workers, in some     *)
(* condition changes in a step that concerns one of them.                  *)
(***************************************************************************)
EXTENDS Integers, FiniteSets, FiniteSetTheorems, TLAPS

(* A set that gains at most one element grows by at most one: one file     *)
(* operation leaves at most one message behind.                            *)
LEMMA GainsOne ==
    ASSUME NEW S, NEW T, NEW x, IsFiniteSet(S), T \subseteq S \cup {x}
    PROVE  /\ IsFiniteSet(T)
           /\ Cardinality(T) \in Nat /\ Cardinality(S) \in Nat
           /\ Cardinality(T) <= Cardinality(S) + 1
<1>1. /\ IsFiniteSet(S \cup {x})
      /\ Cardinality(S \cup {x}) <= Cardinality(S) + 1
      /\ Cardinality(S) \in Nat
    BY FS_AddElement, FS_CardinalityType, SMTT(30)
<1>2. /\ IsFiniteSet(T)
      /\ Cardinality(T) <= Cardinality(S \cup {x})
      /\ Cardinality(T) \in Nat
    BY <1>1, FS_Subset, FS_CardinalityType
<1>3. Cardinality(S \cup {x}) \in Nat
    BY <1>1, FS_CardinalityType
<1>. QED
    BY <1>1, <1>2, <1>3

(* A set that gains nothing does not grow.                                 *)
LEMMA GainsNone ==
    ASSUME NEW S, NEW T, IsFiniteSet(S), T \subseteq S
    PROVE  /\ IsFiniteSet(T)
           /\ Cardinality(T) \in Nat /\ Cardinality(S) \in Nat
           /\ Cardinality(T) <= Cardinality(S)
BY FS_Subset, FS_CardinalityType

(* A set that gains exactly x counts one more.                             *)
LEMMA GainsExactly ==
    ASSUME NEW S, NEW x, x \notin S, IsFiniteSet(S)
    PROVE  /\ IsFiniteSet(S \cup {x})
           /\ Cardinality(S) \in Nat
           /\ Cardinality(S \cup {x}) = Cardinality(S) + 1
BY FS_AddElement, FS_CardinalityType

(* A set that loses exactly x counts one less.                             *)
LEMMA LosesExactly ==
    ASSUME NEW S, NEW x, x \in S, IsFiniteSet(S)
    PROVE  /\ IsFiniteSet(S \ {x})
           /\ Cardinality(S) \in Nat
           /\ Cardinality(S \ {x}) = Cardinality(S) - 1
BY FS_RemoveElement, FS_CardinalityType
=============================================================================
