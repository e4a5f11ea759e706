------------------------------- MODULE Fusion -------------------------------
(***************************************************************************)
(* Reciprocal rank fusion (router/fusion.py).  Scores are exact: 1/(k + r) *)
(* is a number of parts of Whole, which every denominator divides.         *)
(***************************************************************************)
EXTENDS Integers, Sequences, FiniteSets

CONSTANTS
  RankConstant,  \* k, 60 in the code
  MaxLength,     \* length of the longest list that is fused
  Whole          \* parts of 1, a common multiple of the denominators

ASSUME FusionAssumption ==
  /\ RankConstant \in Nat \ {0}
  /\ MaxLength \in Nat
  /\ Whole \in Nat \ {0} /\ \A r \in 1..MaxLength : Whole % (RankConstant + r) = 0

Share(rank) == Whole \div (RankConstant + rank)

\* The sum of the values of a function with a finite domain.
Total(f) ==
  LET sum[T \in SUBSET DOMAIN f] ==
        IF T = {} THEN 0 ELSE LET x == CHOOSE x \in T : TRUE IN f[x] + sum[T \ {x}]
  IN sum[DOMAIN f]

\* Where a list has an item; an item may occur more than once.
Ranks(list, x) == {r \in DOMAIN list : list[r] = x}

\* lists is a function from the names of the sources to what they ranked.
ItemsOf(lists) == UNION {{lists[s][r] : r \in DOMAIN lists[s]} : s \in DOMAIN lists}
Score(lists, x) ==
  Total([s \in DOMAIN lists |-> Total([r \in Ranks(lists[s], x) |-> Share(r)])])

\* _tiebreak: identifiers are pairs of naturals, ordered like the texts they stand for.
TextBefore(x, y) == x[1] < y[1] \/ (x[1] = y[1] /\ x[2] < y[2])

FaultyPrecedes(lists, x, y) == TextBefore(x, y)
Precedes(lists, x, y) ==
  \/ Score(lists, x) > Score(lists, y)
  \/ Score(lists, x) = Score(lists, y) /\ TextBefore(x, y)

\* rrf_fuse: the items by falling score, no more than limit of them.
Fuse(lists, limit) ==
  LET items == ItemsOf(lists)
      Place(x) == 1 + Cardinality({y \in items : Precedes(lists, y, x)})
      length == IF limit < Cardinality(items) THEN limit ELSE Cardinality(items)
  IN [i \in 1..length |-> CHOOSE x \in items : Place(x) = i]
=============================================================================
