---------------------------- MODULE RouterProofs ----------------------------
(***************************************************************************)
(* Proofs about Router, for any clients, changes, names and cache size:    *)
(* the entries of the cache are in the order of their last use, what a     *)
(* full cache drops is the entry that was not used for longest, and an     *)
(* entry that misses a change the cache has heard of comes from a call     *)
(* that was under way when the event arrived.                              *)
(***************************************************************************)
EXTENDS Router, FiniteSetTheorems, SequenceTheorems, TLAPS

-----------------------------------------------------------------------------
(* Entries that are left out of a sequence *)

\* Counting the members of I up to i numbers them from 1 in their order.
Rank(I, i) == Cardinality({j \in I : j <= i})

\* These numbers run from 1 to the size of I, each once.
LEMMA Ranks ==
  ASSUME NEW n \in Nat, NEW I \in SUBSET (1..n)
  PROVE  /\ Cardinality(I) \in 0..n
         /\ I # 1..n => Cardinality(I) < n
         /\ \A i \in I : Rank(I, i) \in 1..Cardinality(I)
         /\ \A i, j \in I : i < j => Rank(I, i) < Rank(I, j)
         /\ \A m \in 1..Cardinality(I) : \E i \in I : Rank(I, i) = m
<1>1. IsFiniteSet(1..n) /\ Cardinality(1..n) = n
  BY FS_Interval
<1>2. /\ IsFiniteSet(I) /\ Cardinality(I) \in Nat /\ Cardinality(I) <= n
      /\ Cardinality(I) = n => I = 1..n
  BY <1>1, FS_Subset, FS_CardinalityType
<1>3. ASSUME NEW i \in I
      PROVE  Rank(I, i) \in 1..Cardinality(I)
  <2> DEFINE upto == {j \in I : j <= i}
  <2>1. IsFiniteSet(upto) /\ Cardinality(upto) <= Cardinality(I)
    BY <1>2, FS_Subset
  <2>2. Cardinality(upto) \in Nat /\ (Cardinality(upto) = 0 <=> upto = {})
    BY <2>1, FS_CardinalityType, FS_EmptySet
  <2>3. i \in upto
    OBVIOUS
  <2> QED BY <1>2, <2>1, <2>2, <2>3 DEF Rank
<1>4. ASSUME NEW i \in I, NEW j \in I, i < j
      PROVE  Rank(I, i) < Rank(I, j)
  <2> DEFINE less == {k \in I : k <= i}
             more == {k \in I : k <= j}
  <2>1. less \subseteq more /\ j \in more /\ j \notin less
    <3>1. I \subseteq Nat
      OBVIOUS
    <3>2. \A k \in I : k <= i => k <= j
      BY <1>4, <3>1
    <3>3. ~(j <= i) /\ j <= j
      BY <1>4, <3>1
    <3> QED BY <3>2, <3>3, Zenon
  <2>2. IsFiniteSet(more)
    BY <1>2, FS_Subset
  <2>3. /\ Cardinality(less) <= Cardinality(more)
        /\ Cardinality(more) = Cardinality(less) => more = less
        /\ IsFiniteSet(less)
    BY <2>1, <2>2, FS_Subset
  <2>4. Cardinality(less) \in Nat /\ Cardinality(more) \in Nat
    BY <2>2, <2>3, FS_CardinalityType
  <2>5. Cardinality(more) # Cardinality(less)
    BY <2>1, <2>3
  <2>6. Cardinality(less) < Cardinality(more)
    <3> HIDE DEF less, more
    <3> QED BY <2>3, <2>4, <2>5
  <2> QED BY <2>6 DEF Rank
<1>5. ASSUME NEW m \in 1..Cardinality(I)
      PROVE  \E i \in I : Rank(I, i) = m
  <2> DEFINE rank == [i \in I |-> Rank(I, i)]
             N == 1..Cardinality(I)
  <2>1. rank \in [I -> N]
    BY <1>3
  <2>2. \A i, j \in I : rank[i] = rank[j] => i = j
    BY <1>2, <1>3, <1>4
  <2>3. rank \in Injection(I, N)
    BY <2>1, <2>2 DEF Injection, IsInjective
  <2>4. IsFiniteSet(N) /\ Cardinality(N) = Cardinality(I)
    BY <1>2, FS_Interval
  <2>5. rank \in Surjection(I, N)
    BY <2>3, <2>4, FS_Injection
  <2> QED BY <2>5 DEF Surjection
<1> QED BY <1>2, <1>3, <1>4, <1>5

\* What Without leaves: the entries with other keys, in the order they had.
LEMMA WithoutKeeps ==
  ASSUME NEW S, NEW c \in Seq(S), NEW K
  PROVE  /\ Without(c, K) \in Seq(S)
         /\ Len(Without(c, K)) <= Len(c)
         /\ \A i \in DOMAIN c : c[i].key \in K => Len(Without(c, K)) < Len(c)
         /\ \E p \in [DOMAIN Without(c, K) -> DOMAIN c] :
              /\ \A n \in DOMAIN p : Without(c, K)[n] = c[p[n]] /\ c[p[n]].key \notin K
              /\ \A m, n \in DOMAIN p : m < n => p[m] < p[n]
              /\ \A i \in DOMAIN c : c[i].key \notin K => \E n \in DOMAIN p : p[n] = i
<1> DEFINE kept == {i \in DOMAIN c : c[i].key \notin K}
           size == Cardinality(kept)
           Place(n) == CHOOSE i \in kept : Rank(kept, i) = n
           p == [n \in 1..size |-> Place(n)]
<1>1. Len(c) \in Nat /\ DOMAIN c = 1..Len(c)
  OBVIOUS
<1>2. kept \in SUBSET (1..Len(c))
  BY <1>1
<1>3. /\ size \in 0..Len(c)
      /\ kept # 1..Len(c) => size < Len(c)
      /\ \A i \in kept : Rank(kept, i) \in 1..size
      /\ \A i, j \in kept : i < j => Rank(kept, i) < Rank(kept, j)
      /\ \A m \in 1..size : \E i \in kept : Rank(kept, i) = m
  <2> HIDE DEF kept
  <2> QED BY <1>1, <1>2, Ranks
<1>4. Without(c, K) = [n \in 1..size |-> c[p[n]]]
  BY DEF Without, Rank
<1>5. ASSUME NEW n \in 1..size
      PROVE  p[n] \in kept /\ Rank(kept, p[n]) = n
  BY <1>3
<1>6. p \in [1..size -> kept] /\ p \in [1..size -> DOMAIN c]
  BY <1>5
<1>7. \A n \in 1..size : Without(c, K)[n] = c[p[n]] /\ c[p[n]].key \notin K
  BY <1>4, <1>5
<1>8. ASSUME NEW i \in kept
      PROVE  \E n \in 1..size : p[n] = i
  <2> DEFINE n == Rank(kept, i)
  <2>1. n \in 1..size
    BY <1>3
  <2>2. p[n] \in kept /\ Rank(kept, p[n]) = n
    BY <1>5, <2>1
  <2>3. p[n] \in Nat /\ i \in Nat
    BY <1>2, <2>2
  <2>4. ~(p[n] < i) /\ ~(i < p[n])
    <3>1. p[n] < i => Rank(kept, p[n]) < n
      BY <1>3, <2>2
    <3>2. i < p[n] => n < Rank(kept, p[n])
      BY <1>3, <2>2
    <3> HIDE DEF p, kept
    <3> QED BY <2>1, <2>2, <3>1, <3>2
  <2> HIDE DEF p, kept
  <2> QED BY <2>1, <2>3, <2>4
<1>9. ASSUME NEW m \in 1..size, NEW n \in 1..size, m < n
      PROVE  p[m] < p[n]
  <2>1. p[m] \in kept /\ p[n] \in kept /\ Rank(kept, p[m]) = m /\ Rank(kept, p[n]) = n
    BY <1>5
  <2>2. p[m] \in Nat /\ p[n] \in Nat
    BY <1>2, <2>1
  <2>3. p[n] < p[m] => Rank(kept, p[n]) < Rank(kept, p[m])
    BY <1>3, <2>1
  <2> HIDE DEF p, kept
  <2>4. ~(p[n] < p[m]) /\ p[n] # p[m]
    BY <1>9, <1>3, <2>1, <2>3
  <2> QED BY <2>2, <2>4
<1>10. DOMAIN Without(c, K) = 1..size /\ Len(Without(c, K)) = size /\ Without(c, K) \in Seq(S)
  <2>1. \A n \in 1..size : c[p[n]] \in S
    BY <1>5, ElementOfSeq, <1>1
  <2> HIDE DEF p, kept
  <2>2. size \in Nat
    BY <1>3
  <2> QED BY <1>4, <2>1, <2>2
<1> QED
  <2>1. ASSUME NEW i \in DOMAIN c, c[i].key \in K
        PROVE  size < Len(c)
    <3>1. i \notin kept /\ i \in 1..Len(c)
      BY <1>1, <2>1
    <3> QED BY <1>3, <3>1
  <2>2. \A i \in DOMAIN c : c[i].key \notin K => \E n \in 1..size : p[n] = i
    BY <1>8
  <2> HIDE DEF p, kept
  <2>3. p \in [DOMAIN Without(c, K) -> DOMAIN c] /\ DOMAIN p = 1..size
    BY <1>6, <1>10
  <2>4. size <= Len(c)
    BY <1>1, <1>3
  <2>5. /\ \A n \in DOMAIN p : Without(c, K)[n] = c[p[n]] /\ c[p[n]].key \notin K
        /\ \A m, n \in DOMAIN p : m < n => p[m] < p[n]
        /\ \A i \in DOMAIN c : c[i].key \notin K => \E n \in DOMAIN p : p[n] = i
    BY <1>7, <1>9, <2>2, <2>3
  <2> HIDE DEF size
  <2>6. \A i \in DOMAIN c : c[i].key \in K => Len(Without(c, K)) < Len(c)
    BY <1>10, <2>1
  <2>7. Without(c, K) \in Seq(S) /\ Len(Without(c, K)) <= Len(c)
    BY <1>10, <2>4
  <2> QED BY <2>3, <2>5, <2>6, <2>7, Zenon
-----------------------------------------------------------------------------
(* Moving an entry to the end of the cache *)

\* No two entries have one key.
Distinct(c) == \A i, j \in DOMAIN c : c[i].key = c[j].key => i = j

\* The entries stand in the order of their last use.
Ordered(c, last) == \A i, j \in DOMAIN c : i < j => last[c[i].key] < last[c[j].key]

\* The state of a cache that was used t times.
Cache(c, last, t) ==
  /\ c \in Seq(Entry) /\ t \in Nat /\ last \in [Menu -> 0..t]
  /\ Distinct(c) /\ Ordered(c, last)

\* The entries of d are entries of c.
From(d, c) == \A i \in DOMAIN d : \E j \in DOMAIN c : d[i] = c[j]

\* Leaving entries out keeps the order; an entry with another key stays.
LEMMA LeftOut ==
  ASSUME NEW c, NEW last, NEW t, Cache(c, last, t), NEW K
  PROVE  /\ Cache(Without(c, K), last, t)
         /\ Len(Without(c, K)) \in Nat /\ Len(Without(c, K)) <= Len(c)
         /\ \A i \in DOMAIN c : c[i].key \in K => Len(Without(c, K)) < Len(c)
         /\ From(Without(c, K), c)
         /\ \A n \in DOMAIN Without(c, K) : Without(c, K)[n].key \notin K
         /\ \A i \in DOMAIN c : c[i].key \notin K =>
              \E n \in DOMAIN Without(c, K) : Without(c, K)[n] = c[i]
<1> DEFINE w == Without(c, K)
<1>1. c \in Seq(Entry) /\ t \in Nat /\ last \in [Menu -> 0..t] /\ Distinct(c) /\ Ordered(c, last)
  BY DEF Cache
<1>2. /\ w \in Seq(Entry) /\ Len(w) <= Len(c)
      /\ \A i \in DOMAIN c : c[i].key \in K => Len(w) < Len(c)
  BY <1>1, WithoutKeeps
<1>3. PICK p \in [DOMAIN w -> DOMAIN c] :
        /\ \A n \in DOMAIN p : w[n] = c[p[n]] /\ c[p[n]].key \notin K
        /\ \A m, n \in DOMAIN p : m < n => p[m] < p[n]
        /\ \A i \in DOMAIN c : c[i].key \notin K => \E n \in DOMAIN p : p[n] = i
  BY <1>1, WithoutKeeps
<1> HIDE DEF w
<1>4. \A m, n \in DOMAIN w : m # n => m < n \/ n < m
  BY <1>2
<1>5. Distinct(w)
  <2> SUFFICES ASSUME NEW m \in DOMAIN w, NEW n \in DOMAIN w, w[m].key = w[n].key
               PROVE  m = n
    BY DEF Distinct
  <2>1. p[m] = p[n]
    BY <1>1, <1>3 DEF Distinct
  <2>2. p[m] \in Nat
    BY <1>1, <1>3
  <2> QED BY <1>3, <1>4, <2>1, <2>2
<1>6. Ordered(w, last)
  BY <1>1, <1>3 DEF Ordered
<1> QED BY <1>1, <1>2, <1>3, <1>5, <1>6 DEF Cache, From, w

\* The entries but that of e's key, and e behind them.
Rest(c, e) == Without(c, {e.key})
Renewed(c, e) == Append(Rest(c, e), e)

\* How d comes from c by the use of e, which is in it or new.
Renews(d, c, e, last, t) ==
  /\ Cache(d, [last EXCEPT ![e.key] = t + 1], t + 1)
  /\ Len(d) = Len(Rest(c, e)) + 1 /\ Len(Rest(c, e)) \in Nat /\ Len(Rest(c, e)) <= Len(c)
  /\ DOMAIN d = 1..(Len(Rest(c, e)) + 1) /\ DOMAIN Rest(c, e) = 1..Len(Rest(c, e))
  /\ d[Len(Rest(c, e)) + 1] = e
  /\ \A n \in DOMAIN Rest(c, e) : d[n] = Rest(c, e)[n] /\ Rest(c, e)[n].key # e.key
  /\ From(Rest(c, e), c)
  /\ \A i \in DOMAIN c : c[i].key = e.key => Len(Rest(c, e)) < Len(c)
  /\ \A i \in DOMAIN c : c[i].key # e.key => \E n \in DOMAIN Rest(c, e) : Rest(c, e)[n] = c[i]

\* The entry that is used goes to the end, and the order is again that of use.
LEMMA Moved ==
  ASSUME NEW c, NEW last, NEW t, Cache(c, last, t), NEW e \in Entry
  PROVE  Renews(Renewed(c, e), c, e, last, t)
<1> DEFINE others == Without(c, {e.key})
           all == Append(others, e)
           new == [last EXCEPT ![e.key] = t + 1]
<1>1. /\ Cache(others, last, t) /\ Len(others) \in Nat /\ Len(others) <= Len(c)
      /\ From(others, c)
      /\ \A n \in DOMAIN others : others[n].key # e.key
      /\ \A i \in DOMAIN c : c[i].key = e.key => Len(others) < Len(c)
      /\ \A i \in DOMAIN c : c[i].key # e.key => \E n \in DOMAIN others : others[n] = c[i]
  <2> DEFINE K == {e.key}
  <2>1. \A k : k \in K <=> k = e.key
    OBVIOUS
  <2>2. others = Without(c, K)
    OBVIOUS
  <2> HIDE DEF K, others
  <2> DEFINE w == Without(c, K)
  <2>3. /\ Cache(w, last, t) /\ Len(w) \in Nat /\ Len(w) <= Len(c) /\ From(w, c)
        /\ \A n \in DOMAIN w : w[n].key \notin K
        /\ \A i \in DOMAIN c : c[i].key \in K => Len(w) < Len(c)
        /\ \A i \in DOMAIN c : c[i].key \notin K => \E n \in DOMAIN w : w[n] = c[i]
    BY LeftOut
  <2> QED BY <2>1, <2>2, <2>3, Zenon
<1> HIDE DEF others
<1>2. others \in Seq(Entry) /\ t \in Nat /\ last \in [Menu -> 0..t]
      /\ Distinct(others) /\ Ordered(others, last)
  BY <1>1 DEF Cache
<1>3. /\ all \in Seq(Entry) /\ Len(all) = Len(others) + 1
      /\ DOMAIN all = 1..(Len(others) + 1) /\ DOMAIN others = 1..Len(others)
      /\ all[Len(others) + 1] = e
      /\ \A n \in DOMAIN others : all[n] = others[n]
  BY <1>2, AppendProperties
<1> HIDE DEF all
<1>4. e.key \in Menu
  BY DEF Entry
<1>5. /\ new \in [Menu -> 0..(t + 1)] /\ new[e.key] = t + 1
      /\ \A k \in Menu : k # e.key => new[k] = last[k] /\ last[k] <= t
      /\ \A k \in Menu : last[k] \in Nat
  BY <1>2, <1>4
<1> HIDE DEF new
<1>6. \A n \in DOMAIN others : others[n].key \in Menu
  <2>1. \A n \in DOMAIN others : others[n] \in Entry
    BY <1>2, <1>3, ElementOfSeq
  <2> QED BY <2>1 DEF Entry
<1>7. \A n \in DOMAIN all : n \in DOMAIN others \/ n = Len(others) + 1
  BY <1>1, <1>3
<1>8. Distinct(all)
  BY <1>1, <1>2, <1>3, <1>7 DEF Distinct
<1>9. Ordered(all, new)
  <2> SUFFICES ASSUME NEW i \in DOMAIN all, NEW j \in DOMAIN all, i < j
               PROVE  new[all[i].key] < new[all[j].key]
    BY DEF Ordered
  <2>1. i \in DOMAIN others
    BY <1>1, <1>3
  <2>2. new[all[i].key] = last[others[i].key] /\ last[others[i].key] <= t
        /\ last[others[i].key] \in Nat
    BY <1>1, <1>3, <1>5, <1>6, <2>1
  <2>3. CASE j \in DOMAIN others
    <3>1. new[all[j].key] = last[others[j].key]
      BY <1>1, <1>3, <1>5, <1>6, <2>3
    <3> QED BY <1>2, <2>1, <2>2, <2>3, <3>1 DEF Ordered
  <2>4. CASE j = Len(others) + 1
    <3>1. new[all[j].key] = t + 1
      BY <1>3, <1>5, <2>4
    <3> QED BY <1>2, <2>2, <3>1
  <2> QED BY <1>7, <2>3, <2>4
<1>10. Cache(all, new, t + 1)
  BY <1>2, <1>3, <1>5, <1>8, <1>9 DEF Cache
<1>11. others = Rest(c, e) /\ all = Renewed(c, e)
  BY DEF others, all, Rest, Renewed
<1> QED BY <1>1, <1>3, <1>10, <1>11, Zenon DEF Renews, new

\* Dropping the first entry keeps the order, and the dropped one was not used for longest.
LEMMA Dropped ==
  ASSUME NEW c, NEW last, NEW t, Cache(c, last, t), Len(c) > 0
  PROVE  /\ Cache(Tail(c), last, t) /\ Len(Tail(c)) = Len(c) - 1
         /\ From(Tail(c), c)
         /\ \A i \in DOMAIN c : i = 1 \/ \E j \in DOMAIN Tail(c) : Tail(c)[j] = c[i]
         /\ \A j \in DOMAIN Tail(c) : last[c[1].key] < last[Tail(c)[j].key]
<1>1. c \in Seq(Entry) /\ t \in Nat /\ last \in [Menu -> 0..t] /\ Distinct(c) /\ Ordered(c, last)
  BY DEF Cache
<1>2. /\ Tail(c) \in Seq(Entry) /\ Len(Tail(c)) = Len(c) - 1
      /\ DOMAIN Tail(c) = 1..(Len(c) - 1)
      /\ \A j \in 1..(Len(c) - 1) : Tail(c)[j] = c[j + 1]
      /\ DOMAIN c = 1..Len(c) /\ Len(c) \in Nat
  BY <1>1
<1>3. \A j \in DOMAIN Tail(c) : j \in Nat /\ j + 1 \in DOMAIN c /\ Tail(c)[j] = c[j + 1]
  BY <1>2
<1>4. \A i \in DOMAIN c : i = 1 \/ (i - 1 \in DOMAIN Tail(c) /\ Tail(c)[i - 1] = c[i])
  BY <1>2
<1>5. Distinct(Tail(c))
  BY <1>1, <1>3 DEF Distinct
<1>6. Ordered(Tail(c), last)
  <2> SUFFICES ASSUME NEW i \in DOMAIN Tail(c), NEW j \in DOMAIN Tail(c), i < j
               PROVE  last[Tail(c)[i].key] < last[Tail(c)[j].key]
    BY DEF Ordered
  <2>1. i + 1 < j + 1 /\ i + 1 \in DOMAIN c /\ j + 1 \in DOMAIN c
    BY <1>3
  <2>2. last[c[i + 1].key] < last[c[j + 1].key]
    BY <1>1, <2>1, Zenon DEF Ordered
  <2> QED BY <1>3, <2>2, Zenon
<1>7. \A j \in DOMAIN Tail(c) : last[c[1].key] < last[Tail(c)[j].key]
  <2> SUFFICES ASSUME NEW j \in DOMAIN Tail(c)
               PROVE  last[c[1].key] < last[Tail(c)[j].key]
    OBVIOUS
  <2>1. 1 \in DOMAIN c /\ 1 < j + 1 /\ j + 1 \in DOMAIN c
    BY <1>2, <1>3
  <2> QED BY <1>1, <1>3, <2>1 DEF Ordered
<1> QED BY <1>1, <1>2, <1>3, <1>4, <1>5, <1>6, <1>7 DEF Cache, From
-----------------------------------------------------------------------------
(* Types *)

CallTypes ==
  /\ pc \in [Call -> {"new", "resolve", "dispatch", "ok", "failed", "lost"}]
  /\ query \in [Call -> Menu \cup {None}]
  /\ asked \in [Call -> SUBSET Source] /\ have \in [Call -> SUBSET Source]
  /\ reflects \in [Call -> SUBSET Change] /\ since \in [Call -> SUBSET Change]
  /\ change \in [Change -> {"ahead", "applied", "heard", "unheard"}]

\* What a call may hold at its stage.
Stages ==
  \A r \in Call :
    /\ have[r] \cap asked[r] = {}
    /\ pc[r] \in {"new", "resolve"} => have[r] = {}
    /\ pc[r] \in {"resolve", "dispatch"} => query[r] \in Menu

\* The cache is within its bound, without a key twice, and in the order of use.
CacheTypes == Cache(cache, lastUse, clock) /\ Len(cache) <= MaxEntries

Typed == CallTypes /\ Stages /\ CacheTypes

\* A dispatch asks sources it does not have the parts of.
LEMMA SourcesToAsk ==
  ASSUME NEW q, NEW got
  PROVE  NextSources(q, got) \subseteq Source \ got
<1>1. SourcesOf(q) \subseteq Source
  BY DEF SourcesOf, PathOf, Source
<1> QED BY <1>1 DEF NextSources

\* The look into the cache keeps them, whichever step of a call it belongs to.
LEMMA LookUpTypes ==
  ASSUME Typed, NEW r \in Call, NEW q \in Menu, pc[r] \in {"new", "resolve"}, LookUp(r, q),
         query' \in [Call -> Menu \cup {None}], query'[r] = q,
         \A s \in Call : s # r => query'[s] = query[s],
         UNCHANGED <<have, change>>
  PROVE  CallTypes' /\ Stages'
<1> USE DEF Typed, CallTypes, Stages, LookUp, Goto
<1>1. CASE q \in Keys(cache)
  BY <1>1
<1>2. CASE q \notin Keys(cache)
  <2> DEFINE first == NextSources(q, {})
  <2>1. first \subseteq Source
    BY SourcesToAsk
  <2>2. Relevant(q) \subseteq Change
    BY DEF Relevant
  <2> HIDE DEF first
  <2>3. pc' = [pc EXCEPT ![r] = "dispatch"] /\ asked' = [asked EXCEPT ![r] = first]
        /\ reflects' = [reflects EXCEPT ![r] = Relevant(q)]
        /\ since' = [since EXCEPT ![r] = Heard \cap Relevant(q)]
    BY <1>2 DEF first
  <2>4. CallTypes'
    BY <2>1, <2>2, <2>3
  <2>5. Stages'
    BY <2>1, <2>3
  <2> QED BY <2>4, <2>5
<1> QED BY <1>1, <1>2

\* Every step keeps the types of calls and changes and what a call may hold at its stage.
LEMMA CallTypesStep ==
  ASSUME Typed, [Next]_vars
  PROVE  CallTypes' /\ Stages'
<1>1. ASSUME NEW r \in Call, Ask(r)
      PROVE  CallTypes' /\ Stages'
  <2>1. PICK q \in Menu :
          /\ query' = [query EXCEPT ![r] = q]
          /\ \/ Goto(r, "resolve") /\ UNCHANGED <<cache, asked, reflects, since, use>>
             \/ LookUp(r, q)
    BY <1>1 DEF Ask
  <2>2. pc[r] = "new" /\ UNCHANGED <<have, change>>
    BY <1>1 DEF Ask
  <2>3. /\ query' \in [Call -> Menu \cup {None}] /\ query'[r] = q
        /\ \A s \in Call : s # r => query'[s] = query[s]
    BY <2>1 DEF Typed, CallTypes
  <2>4. CASE LookUp(r, q)
    BY <2>2, <2>3, <2>4, LookUpTypes
  <2>5. CASE Goto(r, "resolve") /\ UNCHANGED <<cache, asked, reflects, since, use>>
    BY <2>2, <2>3, <2>5 DEF Typed, CallTypes, Stages, Goto
  <2> QED BY <2>1, <2>4, <2>5
<1>2. ASSUME NEW r \in Call, Resolved(r)
      PROVE  CallTypes' /\ Stages'
  <2>1. pc[r] = "resolve" /\ UNCHANGED <<query, have, change>>
    BY <1>2 DEF Resolved
  <2>2. query[r] \in Menu /\ query \in [Call -> Menu \cup {None}]
    BY <2>1 DEF Typed, CallTypes, Stages
  <2>3. CASE LookUp(r, query[r])
    BY <2>1, <2>2, <2>3, LookUpTypes
  <2>4. CASE Goto(r, "failed") /\ UNCHANGED <<cache, asked, reflects, since, use>>
    BY <2>1, <2>4 DEF Typed, CallTypes, Stages, Goto
  <2> QED BY <1>2, <2>3, <2>4 DEF Resolved
<1>3. ASSUME NEW r \in Call, NEW s \in Source, Answer(r, s)
      PROVE  CallTypes' /\ Stages'
  <2>1. PICK seen \in {Applied, Change} : reflects' = [reflects EXCEPT ![r] = @ \cap seen]
    BY <1>3 DEF Answer
  <2>2. CallTypes'
    BY <1>3, <2>1 DEF Typed, CallTypes, Answer
  <2>3. Stages'
    BY <1>3 DEF Typed, CallTypes, Stages, Answer
  <2> QED BY <2>2, <2>3
<1>4. ASSUME NEW r \in Call, Continue(r)
      PROVE  CallTypes' /\ Stages'
  <2> DEFINE more == NextSources(query[r], have[r])
  <2>1. more \subseteq Source \ have[r]
    BY SourcesToAsk
  <2>2. asked' = [asked EXCEPT ![r] = more]
    BY <1>4 DEF Continue
  <2> HIDE DEF more
  <2> QED BY <1>4, <2>1, <2>2 DEF Typed, CallTypes, Stages, Continue
<1>5. ASSUME NEW r \in Call, Put(r)
      PROVE  CallTypes' /\ Stages'
  BY <1>5 DEF Typed, CallTypes, Stages, Put, Forget, Goto
<1>6. ASSUME NEW r \in Call, Cancel(r)
      PROVE  CallTypes' /\ Stages'
  BY <1>6 DEF Typed, CallTypes, Stages, Cancel, Forget, Goto
<1>7. ASSUME NEW e \in Change, Apply(e) \/ Deliver(e) \/ StayUnheard(e)
      PROVE  CallTypes' /\ Stages'
  BY <1>7 DEF Typed, CallTypes, Stages, Apply, Deliver, StayUnheard, work
<1>8. CASE UNCHANGED vars
  BY <1>8 DEF Typed, CallTypes, Stages, vars, work, use
<1> QED BY <1>1, <1>2, <1>3, <1>4, <1>5, <1>6, <1>7, <1>8 DEF Next

-----------------------------------------------------------------------------
(* Steps of the cache *)

\* A hit keeps every entry.
LEMMA HitStep ==
  ASSUME Typed, NEW q \in Menu, q \in Keys(cache), cache' = Touched(q), Used(q)
  PROVE  CacheTypes' /\ From(cache', cache) /\ Keys(cache) \subseteq Keys(cache')
<1> DEFINE e == cache[EntryOf(q)]
           others == Rest(cache, e)
<1>1. Cache(cache, lastUse, clock) /\ Len(cache) <= MaxEntries /\ cache \in Seq(Entry)
  BY DEF Typed, CacheTypes, Cache
<1>2. EntryOf(q) \in DOMAIN cache /\ e.key = q
  BY DEF EntryOf, Keys
<1>3. e \in Entry /\ e = cache[EntryOf(q)]
  BY <1>1, <1>2, ElementOfSeq
<1>4. cache' = Renewed(cache, e)
  BY <1>2 DEF Touched, Others, Renewed, Rest
<1>5. lastUse' = [lastUse EXCEPT ![e.key] = clock + 1] /\ clock' = clock + 1
  BY <1>2 DEF Used
<1> HIDE DEF e
<1>6. Renews(cache', cache, e, lastUse, clock)
  BY <1>1, <1>3, <1>4, Moved
<1> HIDE DEF others
<1>7. /\ Cache(cache', lastUse', clock')
      /\ Len(cache') = Len(others) + 1 /\ Len(others) \in Nat /\ Len(others) < Len(cache)
      /\ DOMAIN cache' = 1..(Len(others) + 1) /\ DOMAIN others = 1..Len(others)
      /\ cache'[Len(others) + 1] = e
      /\ \A n \in DOMAIN others : cache'[n] = others[n]
      /\ From(others, cache)
      /\ \A i \in DOMAIN cache : cache[i].key # q => \E n \in DOMAIN others : others[n] = cache[i]
  BY <1>2, <1>3, <1>5, <1>6, Zenon DEF Renews, others
<1>8. CacheTypes'
  <2>1. Len(cache) \in Nat /\ MaxEntries \in Nat
    BY <1>1, LenProperties, RouterAssumption
  <2> QED BY <1>1, <1>7, <2>1 DEF CacheTypes
<1>9. From(cache', cache)
  <2> SUFFICES ASSUME NEW i \in DOMAIN cache'
               PROVE  \E j \in DOMAIN cache : cache'[i] = cache[j]
    BY DEF From
  <2>1. i \in DOMAIN others \/ i = Len(others) + 1
    BY <1>7
  <2>2. CASE i \in DOMAIN others
    <3>1. PICK j \in DOMAIN cache : others[i] = cache[j]
      BY <1>7, <2>2 DEF From
    <3> QED BY <1>7, <2>2, <3>1
  <2>3. CASE i = Len(others) + 1
    BY <1>2, <1>3, <1>7, <2>3
  <2> QED BY <2>1, <2>2, <2>3
<1>10. Keys(cache) \subseteq Keys(cache')
  <2> SUFFICES ASSUME NEW i \in DOMAIN cache
               PROVE  \E n \in DOMAIN cache' : cache'[n].key = cache[i].key
    BY DEF Keys
  <2>1. CASE cache[i].key = q
    <3>1. Len(others) + 1 \in DOMAIN cache'
      BY <1>7
    <3> QED BY <1>2, <1>7, <2>1, <3>1
  <2>2. CASE cache[i].key # q
    <3>1. PICK n \in DOMAIN others : others[n] = cache[i]
      BY <1>7, <2>2
    <3>2. n \in DOMAIN cache'
      BY <1>7
    <3> QED BY <1>7, <3>1, <3>2
  <2> QED BY <2>1, <2>2
<1> QED BY <1>8, <1>9, <1>10

\* A put adds its entry; another one leaves only when the cache was full, and then every entry
\* that stays was used later.
LEMMA PutStep ==
  ASSUME Typed, NEW e \in Entry, cache' = Stored(e), Used(e.key)
  PROVE  /\ CacheTypes'
         /\ \A i \in DOMAIN cache' : cache'[i] = e \/ \E j \in DOMAIN cache : cache'[i] = cache[j]
         /\ \A k \in Keys(cache) \ Keys(cache') :
              /\ Len(cache) = MaxEntries
              /\ \A other \in Keys(cache') : lastUse[k] < lastUse'[other]
<1> DEFINE others == Rest(cache, e)
           all == Renewed(cache, e)
<1>1. Cache(cache, lastUse, clock) /\ Len(cache) <= MaxEntries /\ cache \in Seq(Entry)
  BY DEF Typed, CacheTypes, Cache
<1>2. /\ Len(cache) \in Nat /\ DOMAIN cache = 1..Len(cache)
      /\ MaxEntries \in Nat /\ MaxEntries > 0
  BY <1>1, LenProperties, RouterAssumption
<1>3. lastUse' = [lastUse EXCEPT ![e.key] = clock + 1] /\ clock' = clock + 1
  BY DEF Used
<1>6. cache' = IF Len(all) > MaxEntries THEN Tail(all) ELSE all
  BY DEF Stored, Others, Rest, Renewed
<1>4. /\ Cache(all, [lastUse EXCEPT ![e.key] = clock + 1], clock + 1)
      /\ Len(all) = Len(others) + 1 /\ Len(others) \in Nat /\ Len(others) <= Len(cache)
      /\ DOMAIN all = 1..(Len(others) + 1) /\ DOMAIN others = 1..Len(others)
      /\ all[Len(others) + 1] = e
      /\ \A n \in DOMAIN others : all[n] = others[n] /\ others[n].key # e.key
      /\ From(others, cache)
      /\ \A i \in DOMAIN cache : cache[i].key = e.key => Len(others) < Len(cache)
      /\ \A i \in DOMAIN cache : cache[i].key # e.key =>
           \E n \in DOMAIN others : others[n] = cache[i]
  <2>1. Renews(all, cache, e, lastUse, clock)
    BY <1>1, Moved
  <2> HIDE DEF all
  <2> QED BY <2>1, Zenon DEF Renews
<1> HIDE DEF all, others
<1>5. Cache(all, lastUse', clock')
  BY <1>3, <1>4, Zenon
<1>7. \A i \in DOMAIN all : all[i] = e \/ \E j \in DOMAIN cache : all[i] = cache[j]
  <2> SUFFICES ASSUME NEW i \in DOMAIN all, i \in DOMAIN others
               PROVE  \E j \in DOMAIN cache : all[i] = cache[j]
    BY <1>4
  <2> QED BY <1>4 DEF From
<1>8. \A i \in DOMAIN cache : \E n \in DOMAIN all : all[n].key = cache[i].key
  <2> SUFFICES ASSUME NEW i \in DOMAIN cache
               PROVE  \E n \in DOMAIN all : all[n].key = cache[i].key
    OBVIOUS
  <2>1. CASE cache[i].key = e.key
    <3>1. Len(others) + 1 \in DOMAIN all
      BY <1>4
    <3> QED BY <1>4, <2>1, <3>1
  <2>2. CASE cache[i].key # e.key
    <3>1. PICK n \in DOMAIN others : others[n] = cache[i]
      BY <1>4, <2>2
    <3>2. n \in DOMAIN all
      BY <1>4
    <3> QED BY <1>4, <3>1, <3>2
  <2> QED BY <2>1, <2>2
<1>9. CASE ~(Len(all) > MaxEntries)
  <2>1. cache' = all /\ Len(all) <= MaxEntries
    BY <1>2, <1>4, <1>6, <1>9
  <2>2. CacheTypes'
    BY <1>5, <2>1 DEF CacheTypes
  <2>3. Keys(cache) \subseteq Keys(cache')
    BY <1>8, <2>1 DEF Keys
  <2> QED BY <1>7, <2>1, <2>2, <2>3
<1>10. CASE Len(all) > MaxEntries
  <2>1. cache' = Tail(all)
    BY <1>6, <1>10
  <2>2. /\ Cache(Tail(all), lastUse', clock') /\ Len(Tail(all)) = Len(all) - 1
        /\ From(Tail(all), all)
        /\ \A i \in DOMAIN all : i = 1 \/ \E j \in DOMAIN Tail(all) : Tail(all)[j] = all[i]
        /\ \A j \in DOMAIN Tail(all) : lastUse'[all[1].key] < lastUse'[Tail(all)[j].key]
    <3>1. Len(all) > 0
      BY <1>2, <1>4
    <3> QED BY <1>5, <3>1, Dropped
  <2>3. Len(others) = Len(cache) /\ Len(cache) = MaxEntries
    <3>1. Len(others) + 1 > MaxEntries /\ Len(others) <= Len(cache) /\ Len(others) \in Nat
      BY <1>4, <1>10, Zenon
    <3>2. Len(cache) <= MaxEntries /\ Len(cache) \in Nat /\ MaxEntries \in Nat
      BY <1>1, <1>2, Zenon
    <3> QED BY <3>1, <3>2
  <2>4. CacheTypes'
    BY <1>2, <1>4, <2>1, <2>2, <2>3 DEF CacheTypes
  <2>5. \A i \in DOMAIN cache' :
          cache'[i] = e \/ \E j \in DOMAIN cache : cache'[i] = cache[j]
    BY <1>7, <2>1, <2>2 DEF From
  <2>6. ASSUME NEW k \in Keys(cache) \ Keys(cache')
        PROVE  \A other \in Keys(cache') : lastUse[k] < lastUse'[other]
    <3>1. PICK n \in DOMAIN all : all[n].key = k
      BY <1>8 DEF Keys
    <3>2. n = 1
      BY <2>1, <2>2, <2>6, <3>1 DEF Keys
    <3>3. 1 \in DOMAIN others
      BY <1>2, <1>4, <2>3
    <3>4. k # e.key
      BY <1>4, <3>1, <3>2, <3>3
    <3>5. k \in Menu
      <4>1. PICK i \in DOMAIN cache : cache[i].key = k
        BY DEF Keys
      <4>2. cache[i] \in Entry
        BY <1>1, ElementOfSeq
      <4> QED BY <4>1, <4>2 DEF Entry
    <3>6. lastUse'[k] = lastUse[k]
      BY <1>1, <1>3, <3>4, <3>5 DEF Cache
    <3> QED BY <2>1, <2>2, <3>1, <3>2, <3>6 DEF Keys
  <2> QED BY <2>3, <2>4, <2>5, <2>6
<1> QED BY <1>9, <1>10

\* An event leaves out the entries it evicts, and no other.
LEMMA DeliverStep ==
  ASSUME Typed, NEW e \in Change, Deliver(e)
  PROVE  /\ CacheTypes' /\ From(cache', cache)
         /\ \A i \in DOMAIN cache' : ~Evicts(e, cache'[i].key)
         /\ \A k \in Keys(cache) \ Keys(cache') : Evicts(e, k)
<1> DEFINE gone == {k \in Keys(cache) : Evicts(e, k)}
<1>1. Cache(cache, lastUse, clock) /\ Len(cache) <= MaxEntries
  BY DEF Typed, CacheTypes
<1>2. cache' = Without(cache, gone) /\ UNCHANGED <<lastUse, clock>>
  BY DEF Deliver, use
<1>3. /\ Cache(cache', lastUse', clock') /\ Len(cache') \in Nat /\ Len(cache') <= Len(cache)
      /\ From(cache', cache)
      /\ \A n \in DOMAIN cache' : cache'[n].key \notin gone
      /\ \A i \in DOMAIN cache : cache[i].key \notin gone =>
           \E n \in DOMAIN cache' : cache'[n] = cache[i]
  <2> HIDE DEF gone
  <2> QED BY <1>1, <1>2, LeftOut
<1>4. CacheTypes'
  <2>1. Len(cache) \in Nat /\ MaxEntries \in Nat
    BY <1>1, LenProperties, RouterAssumption DEF Cache
  <2> QED BY <1>1, <1>3, <2>1 DEF CacheTypes
<1>5. \A i \in DOMAIN cache' : ~Evicts(e, cache'[i].key)
  <2> SUFFICES ASSUME NEW i \in DOMAIN cache'
               PROVE  ~Evicts(e, cache'[i].key)
    OBVIOUS
  <2>1. cache'[i].key \in Keys(cache)
    BY <1>3 DEF From, Keys
  <2> QED BY <1>3, <2>1
<1>6. \A k \in Keys(cache) \ Keys(cache') : Evicts(e, k)
  <2> SUFFICES ASSUME NEW k \in Keys(cache), ~Evicts(e, k)
               PROVE  k \in Keys(cache')
    OBVIOUS
  <2>1. PICK i \in DOMAIN cache : cache[i].key = k
    BY DEF Keys
  <2>2. PICK n \in DOMAIN cache' : cache'[n] = cache[i]
    BY <1>3, <2>1
  <2> QED BY <2>1, <2>2 DEF Keys
<1> QED BY <1>3, <1>4, <1>5, <1>6

-----------------------------------------------------------------------------
(* The invariants *)

\* What a step may do to the cache.
LEMMA CacheChange ==
  ASSUME Typed, [Next]_vars
  PROVE  \/ UNCHANGED <<cache, use>>
         \/ /\ \E q \in Menu : q \in Keys(cache) /\ cache' = Touched(q) /\ Used(q)
            /\ UNCHANGED change
         \/ \E r \in Call : Put(r)
         \/ \E e \in Change : Deliver(e)
<1>1. ASSUME NEW r \in Call, NEW q \in Menu, LookUp(r, q), UNCHANGED change
      PROVE  \/ UNCHANGED <<cache, use>>
             \/ q \in Keys(cache) /\ cache' = Touched(q) /\ Used(q)
  BY <1>1 DEF LookUp
<1>2. ASSUME NEW r \in Call, Ask(r)
      PROVE  \/ UNCHANGED <<cache, use>>
             \/ /\ \E q \in Menu : q \in Keys(cache) /\ cache' = Touched(q) /\ Used(q)
                /\ UNCHANGED change
  BY <1>1, <1>2 DEF Ask
<1>3. ASSUME NEW r \in Call, Resolved(r)
      PROVE  \/ UNCHANGED <<cache, use>>
             \/ /\ \E q \in Menu : q \in Keys(cache) /\ cache' = Touched(q) /\ Used(q)
                /\ UNCHANGED change
  <2>1. query[r] \in Menu
    BY <1>3 DEF Resolved, Typed, Stages
  <2> QED BY <1>1, <1>3, <2>1 DEF Resolved
<1>4. ASSUME NEW r \in Call, \/ Continue(r) \/ Cancel(r) \/ \E s \in Source : Answer(r, s)
      PROVE  UNCHANGED <<cache, use>>
  BY <1>4 DEF Continue, Cancel, Answer
<1>5. ASSUME NEW e \in Change, Apply(e) \/ StayUnheard(e)
      PROVE  UNCHANGED <<cache, use>>
  BY <1>5 DEF Apply, StayUnheard
<1>6. UNCHANGED vars => UNCHANGED <<cache, use>>
  BY DEF vars
<1> QED BY <1>2, <1>3, <1>4, <1>5, <1>6 DEF Next

\* What is put is an entry under the key of the call.
LEMMA PutEntry ==
  ASSUME Typed, NEW r \in Call, Put(r)
  PROVE  \E e \in Entry :
           /\ cache' = Stored(e) /\ Used(e.key) /\ UNCHANGED change
           /\ e.heard = Heard \cap Relevant(e.key)
           /\ e.reflects = reflects[r] /\ e.since = since[r]
<1> DEFINE e == [key |-> query[r], reflects |-> reflects[r], since |-> since[r],
                 heard |-> Heard \cap Relevant(query[r])]
<1>1. query[r] \in Menu /\ reflects[r] \in SUBSET Change /\ since[r] \in SUBSET Change
  BY DEF Put, Typed, CallTypes, Stages
<1>2. Heard \cap Relevant(query[r]) \in SUBSET Change
  BY DEF Heard
<1>3. e \in Entry
  BY <1>1, <1>2 DEF Entry
<1>4. cache' = Stored(e) /\ Used(query[r]) /\ UNCHANGED change
  BY DEF Put
<1> QED BY <1>3, <1>4

\* The types hold at the start.
LEMMA TypedInit == Init => Typed
<1> SUFFICES ASSUME Init PROVE Typed
  OBVIOUS
<1>1. CallTypes /\ Stages
  BY DEF Init, CallTypes, Stages
<1>2. cache = <<>> /\ clock = 0 /\ lastUse \in [Menu -> 0..0]
  BY DEF Init
<1>3. Cache(cache, lastUse, clock)
  BY <1>2 DEF Cache, Distinct, Ordered
<1>4. Len(cache) <= MaxEntries
  BY <1>2, RouterAssumption
<1> QED BY <1>1, <1>3, <1>4 DEF Typed, CacheTypes

\* Every step keeps them.
LEMMA TypedStep ==
  ASSUME Typed, [Next]_vars
  PROVE  Typed'
<1>1. CallTypes' /\ Stages'
  BY CallTypesStep
<1>2. ASSUME UNCHANGED <<cache, use>>
      PROVE  CacheTypes'
  BY <1>2 DEF Typed, CacheTypes, use
<1>3. ASSUME NEW q \in Menu, q \in Keys(cache), cache' = Touched(q), Used(q)
      PROVE  CacheTypes'
  BY <1>3, HitStep
<1>4. ASSUME NEW r \in Call, Put(r)
      PROVE  CacheTypes'
  BY <1>4, PutEntry, PutStep
<1>5. ASSUME NEW e \in Change, Deliver(e)
      PROVE  CacheTypes'
  BY <1>5, DeliverStep
<1>6. CacheTypes'
  BY <1>2, <1>3, <1>4, <1>5, CacheChange
<1> QED BY <1>1, <1>6, Zenon DEF Typed

\* They hold in every reachable state.
LEMMA TypedInvariance == Spec => []Typed
<1>1. Typed /\ [Next]_vars => Typed'
  BY TypedStep
<1> QED BY TypedInit, <1>1, PTL DEF Spec

\* The order of the entries is that of their last use, over hits, puts, replaced entries and
\* evictions, for any size of the cache and any number of concurrent calls (router/cache.py).
THEOREM OrderOfUse == Spec => []RecencyOrder
<1>1. Typed => RecencyOrder
  BY DEF Typed, CacheTypes, Cache, Ordered, RecencyOrder
<1> QED BY <1>1, TypedInvariance, PTL

\* An entry leaves the cache for an event that references it, or as the one that was not used for
\* longest when a new key finds the cache full (LRUCache.put, invalidate_if).
THEOREM OldestEvicted == Spec => EvictsOldest
<1> DEFINE Leaves(k) ==
             \/ \E e \in Change : change'[e] = "heard" /\ change[e] # "heard" /\ Evicts(e, k)
             \/ /\ Len(cache) = MaxEntries
                /\ \A other \in Keys(cache') : lastUse[k] < lastUse'[other]
           Step == \A k \in Keys(cache) \ Keys(cache') : Leaves(k)
<1>1. ASSUME Typed, [Next]_vars
      PROVE  Step
  <2>1. CASE UNCHANGED <<cache, use>>
    BY <2>1
  <2>2. ASSUME NEW q \in Menu, q \in Keys(cache), cache' = Touched(q), Used(q)
        PROVE  Step
    BY <1>1, <2>2, HitStep
  <2>3. ASSUME NEW r \in Call, Put(r)
        PROVE  Step
    <3>1. PICK e \in Entry : cache' = Stored(e) /\ Used(e.key)
      BY <1>1, <2>3, PutEntry
    <3>2. \A k \in Keys(cache) \ Keys(cache') :
            /\ Len(cache) = MaxEntries
            /\ \A other \in Keys(cache') : lastUse[k] < lastUse'[other]
      BY <1>1, <3>1, PutStep
    <3> QED BY <3>2
  <2>4. ASSUME NEW e \in Change, Deliver(e)
        PROVE  Step
    <3>1. \A k \in Keys(cache) \ Keys(cache') : Evicts(e, k)
      BY <1>1, <2>4, DeliverStep
    <3>2. change'[e] = "heard" /\ change[e] # "heard"
      BY <1>1, <2>4 DEF Deliver, Typed, CallTypes
    <3> QED BY <3>1, <3>2
  <2> QED BY <1>1, <2>1, <2>2, <2>3, <2>4, CacheChange
<1>2. Typed /\ [Next]_vars => [Step]_vars
  BY <1>1
<1>3. Spec => [][Step]_vars
  BY <1>2, TypedInvariance, PTL DEF Spec
<1> QED BY <1>3 DEF EvictsOldest

-----------------------------------------------------------------------------
(* What an entry may miss *)

\* A call asks after the events the cache had heard when it missed, and none of its sources
\* answered from before one of them.
Begun == \A r \in Call : since[r] \subseteq reflects[r] \cap Applied

StaleInv == StaleOnlyFromOverlap /\ Begun

\* What is true of an entry and an event the cache has heard.
Excused(c, e) ==
  (Concerns(e, c.key) /\ Subjects(e) \cap Escaped = {}) =>
    e \in c.heard /\ (e \in c.reflects \/ e \notin c.since)

\* The property, an entry and an event at a time.
LEMMA StaleMeansExcused ==
  StaleOnlyFromOverlap <=> \A i \in DOMAIN cache : \A e \in Heard : Excused(cache[i], e)
  BY DEF StaleOnlyFromOverlap, Excused

\* An event evicts every entry about its names, but for those JSON writes differently.
LEMMA ConcernsEvicts ==
  ASSUME NEW e, NEW k, Concerns(e, k), Subjects(e) \cap Escaped = {}
  PROVE  Evicts(e, k)
BY DEF Concerns, Evicts, References, Texts

\* Every step of a call keeps what its sources have seen ahead of what the cache had heard.
LEMMA BegunStep ==
  ASSUME Typed, Begun, [Next]_vars
  PROVE  Begun'
<1>1. Applied \subseteq Applied' /\ Heard \subseteq Applied /\ Applied \subseteq Change
  <2>1. Heard \subseteq Applied /\ Applied \subseteq Change
    BY DEF Heard, Applied
  <2>2. ASSUME UNCHANGED change
        PROVE  Applied \subseteq Applied'
    BY <2>2 DEF Applied
  <2>3. ASSUME NEW e \in Change, Apply(e) \/ Deliver(e) \/ StayUnheard(e)
        PROVE  Applied \subseteq Applied'
    BY <2>3 DEF Typed, CallTypes, Applied, Apply, Deliver, StayUnheard
  <2>4. UNCHANGED change \/ \E e \in Change : Apply(e) \/ Deliver(e) \/ StayUnheard(e)
    BY DEF Next, vars, Ask, Resolved, Continue, Put, Cancel, Answer
  <2> QED BY <2>1, <2>2, <2>3, <2>4
<1> DEFINE Sees(r) == since[r] \subseteq reflects[r] \cap Applied
<1>2. ASSUME NEW r \in Call, NEW q, LookUp(r, q)
      PROVE  Begun'
  <2>1. CASE UNCHANGED <<reflects, since>>
    BY <1>1, <2>1 DEF Begun
  <2>2. CASE /\ reflects' = [reflects EXCEPT ![r] = Relevant(q)]
             /\ since' = [since EXCEPT ![r] = Heard \cap Relevant(q)]
    BY <1>1, <2>2 DEF Begun, Typed, CallTypes
  <2> QED BY <1>2, <2>1, <2>2 DEF LookUp
<1>3. ASSUME NEW r \in Call, NEW s \in Source, Answer(r, s)
      PROVE  Begun'
  <2>1. PICK seen \in {Applied, Change} : reflects' = [reflects EXCEPT ![r] = @ \cap seen]
    BY <1>3 DEF Answer
  <2>2. since' = since
    BY <1>3 DEF Answer
  <2> QED BY <1>1, <2>1, <2>2 DEF Begun, Typed, CallTypes
<1>4. ASSUME NEW r \in Call, Forget(r)
      PROVE  Begun'
  BY <1>1, <1>4 DEF Begun, Forget, Typed, CallTypes
<1>5. ASSUME UNCHANGED <<reflects, since>>
      PROVE  Begun'
  BY <1>1, <1>5 DEF Begun
<1>6. ASSUME NEW r \in Call, Ask(r) \/ Resolved(r)
      PROVE  UNCHANGED <<reflects, since>> \/ \E q : LookUp(r, q)
  BY <1>6 DEF Ask, Resolved
<1>7. ASSUME NEW r \in Call, Continue(r)
      PROVE  UNCHANGED <<reflects, since>>
  BY <1>7 DEF Continue
<1>8. ASSUME NEW r \in Call, Put(r) \/ Cancel(r)
      PROVE  Forget(r)
  BY <1>8 DEF Put, Cancel
<1>9. ASSUME NEW e \in Change, Apply(e) \/ Deliver(e) \/ StayUnheard(e)
      PROVE  UNCHANGED <<reflects, since>>
  BY <1>9 DEF Apply, Deliver, StayUnheard, work
<1>10. UNCHANGED vars => UNCHANGED <<reflects, since>>
  BY DEF vars, work
<1> QED BY <1>2, <1>3, <1>4, <1>5, <1>6, <1>7, <1>8, <1>9, <1>10 DEF Next

\* Every step keeps the entries excused.
LEMMA StaleStep ==
  ASSUME Typed, StaleInv, [Next]_vars
  PROVE  StaleOnlyFromOverlap'
<1>1. \A i \in DOMAIN cache : \A e \in Heard : Excused(cache[i], e)
  BY StaleMeansExcused DEF StaleInv
<1>2. SUFFICES \A i \in DOMAIN cache' : \A e \in Heard' : Excused(cache'[i], e)
  BY DEF StaleOnlyFromOverlap, Excused
<1>3. ASSUME From(cache', cache), Heard' \subseteq Heard
      PROVE  \A i \in DOMAIN cache' : \A e \in Heard' : Excused(cache'[i], e)
  <2> SUFFICES ASSUME NEW i \in DOMAIN cache', NEW e \in Heard'
               PROVE  Excused(cache'[i], e)
    OBVIOUS
  <2>1. PICK j \in DOMAIN cache : cache'[i] = cache[j]
    BY <1>3 DEF From
  <2> QED BY <1>1, <1>3, <2>1
<1>4. Heard' \subseteq Heard \/ \E e \in Change : Deliver(e)
  <2>1. UNCHANGED change => Heard' \subseteq Heard
    BY DEF Heard
  <2>2. ASSUME NEW e \in Change, Apply(e) \/ StayUnheard(e)
        PROVE  Heard' \subseteq Heard
    BY <2>2 DEF Apply, StayUnheard, Heard, Typed, CallTypes
  <2>3. \/ UNCHANGED change \/ \E e \in Change : Apply(e) \/ StayUnheard(e)
        \/ \E e \in Change : Deliver(e)
    BY DEF Next, vars, Ask, Resolved, Continue, Put, Cancel, Answer
  <2> QED BY <2>1, <2>2, <2>3
<1>5. ASSUME NEW e \in Change, Deliver(e)
      PROVE  \A i \in DOMAIN cache' : \A d \in Heard' : Excused(cache'[i], d)
  <2>1. From(cache', cache) /\ \A i \in DOMAIN cache' : ~Evicts(e, cache'[i].key)
    BY <1>5, DeliverStep
  <2>2. Heard' \subseteq Heard \cup {e}
    BY <1>5 DEF Deliver, Heard, Typed, CallTypes
  <2> SUFFICES ASSUME NEW i \in DOMAIN cache', NEW d \in Heard'
               PROVE  Excused(cache'[i], d)
    OBVIOUS
  <2>3. CASE d = e
    BY <2>1, <2>3, ConcernsEvicts DEF Excused
  <2>4. CASE d \in Heard
    <3>1. PICK j \in DOMAIN cache : cache'[i] = cache[j]
      BY <2>1 DEF From
    <3> QED BY <1>1, <2>4, <3>1
  <2> QED BY <2>2, <2>3, <2>4
<1>6. CASE UNCHANGED <<cache, use>>
  <2>1. From(cache', cache)
    BY <1>6 DEF From
  <2> QED BY <1>3, <1>4, <1>5, <2>1
<1>7. ASSUME NEW q \in Menu, q \in Keys(cache), cache' = Touched(q), Used(q)
      PROVE  \A i \in DOMAIN cache' : \A e \in Heard' : Excused(cache'[i], e)
  <2>1. From(cache', cache)
    BY <1>7, HitStep
  <2> QED BY <1>3, <1>4, <1>5, <2>1
<1>8. ASSUME NEW r \in Call, Put(r)
      PROVE  \A i \in DOMAIN cache' : \A e \in Heard' : Excused(cache'[i], e)
  <2>1. PICK new \in Entry :
          /\ cache' = Stored(new) /\ Used(new.key) /\ UNCHANGED change
          /\ new.heard = Heard \cap Relevant(new.key)
          /\ new.reflects = reflects[r] /\ new.since = since[r]
    BY <1>8, PutEntry
  <2>2. \A i \in DOMAIN cache' : cache'[i] = new \/ \E j \in DOMAIN cache : cache'[i] = cache[j]
    BY <2>1, PutStep
  <2>3. Heard' = Heard
    BY <2>1 DEF Heard
  <2>4. \A e \in Heard : Excused(new, e)
    <3>1. since[r] \subseteq reflects[r]
      BY DEF StaleInv, Begun
    <3>2. \A e \in Heard : Concerns(e, new.key) => e \in new.heard
      BY <2>1 DEF Relevant, Heard
    <3> QED BY <2>1, <3>1, <3>2 DEF Excused
  <2> QED BY <1>1, <2>2, <2>3, <2>4
<1> QED BY <1>5, <1>6, <1>7, <1>8, CacheChange

\* What the cache still holds about the names and files of an event it has heard was cached after
\* the event, and an entry that does not reflect the change comes from a call that was under way
\* when the event arrived (LRUCache.subscribe_to, why.handler).
THEOREM StaleOnlyByOverlap == Spec => []StaleOnlyFromOverlap
<1>1. Init => StaleInv
  BY DEF Init, StaleInv, StaleOnlyFromOverlap, Begun
<1>2. Typed /\ StaleInv /\ [Next]_vars => StaleInv'
  BY StaleStep, BegunStep DEF StaleInv
<1>3. StaleInv => StaleOnlyFromOverlap
  BY DEF StaleInv
<1> QED BY <1>1, <1>2, <1>3, TypedInvariance, PTL DEF Spec

-----------------------------------------------------------------------------
(* Types, with the number of uses bounded by the number of calls *)

\* Every call uses the cache at most once, when it ends well.
Counted == clock = Cardinality({r \in Call : pc[r] = "ok"})

\* Every step keeps the count.
LEMMA CountedStep ==
  ASSUME IsFiniteSet(Call), Typed, Counted, [Next]_vars
  PROVE  Counted'
<1> DEFINE done == {r \in Call : pc[r] = "ok"}
<1>1. IsFiniteSet(done)
  BY FS_Subset
<1>2. ASSUME NEW r \in Call, pc[r] # "ok", pc' = [pc EXCEPT ![r] = "ok"], clock' = clock + 1
      PROVE  Counted'
  <2>1. done' = done \cup {r} /\ r \notin done
    BY <1>2 DEF Typed, CallTypes
  <2>2. Cardinality(done \cup {r}) = Cardinality(done) + 1
    <3> HIDE DEF done
    <3> QED BY <1>1, <2>1, FS_AddElement
  <2>3. clock = Cardinality(done)
    BY DEF Counted
  <2> QED BY <1>2, <2>1, <2>2, <2>3 DEF Counted
<1>3. ASSUME NEW r \in Call, NEW l, pc[r] # "ok", l # "ok", pc' = [pc EXCEPT ![r] = l],
             UNCHANGED clock
      PROVE  Counted'
  <2>1. done' = done
    BY <1>3 DEF Typed, CallTypes
  <2> QED BY <1>3, <2>1 DEF Counted
<1>4. ASSUME UNCHANGED <<pc, clock>>
      PROVE  Counted'
  BY <1>4 DEF Counted
<1>5. ASSUME NEW r \in Call, NEW q, LookUp(r, q), pc[r] # "ok"
      PROVE  Counted'
  BY <1>2, <1>3, <1>5 DEF LookUp, Goto, Used, use
<1>6. ASSUME NEW r \in Call, Ask(r)
      PROVE  Counted'
  BY <1>3, <1>5, <1>6 DEF Ask, Goto, use
<1>7. ASSUME NEW r \in Call, Resolved(r)
      PROVE  Counted'
  BY <1>3, <1>5, <1>7 DEF Resolved, Goto, use
<1>8. ASSUME NEW r \in Call, Put(r)
      PROVE  Counted'
  BY <1>2, <1>8 DEF Put, Goto, Used
<1>9. ASSUME NEW r \in Call, Cancel(r)
      PROVE  Counted'
  BY <1>3, <1>9 DEF Cancel, Goto, use
<1>10. ASSUME NEW r \in Call, Continue(r) \/ \E s \in Source : Answer(r, s)
       PROVE  UNCHANGED <<pc, clock>>
  BY <1>10 DEF Continue, Answer, use
<1>11. ASSUME NEW e \in Change, Apply(e) \/ Deliver(e) \/ StayUnheard(e)
       PROVE  UNCHANGED <<pc, clock>>
  BY <1>11 DEF Apply, Deliver, StayUnheard, work, use
<1>12. UNCHANGED vars => UNCHANGED <<pc, clock>>
  BY DEF vars, work, use
<1> QED BY <1>4, <1>6, <1>7, <1>8, <1>9, <1>10, <1>11, <1>12 DEF Next

\* As many keys as entries.
LEMMA KeysCounted ==
  ASSUME NEW c \in Seq(Entry), Distinct(c)
  PROVE  Cardinality(Keys(c)) = Len(c)
<1> DEFINE keys == [i \in DOMAIN c |-> c[i].key]
<1>1. keys \in Bijection(DOMAIN c, Keys(c))
  <2>1. keys \in [DOMAIN c -> Keys(c)] /\ \A k \in Keys(c) : \E i \in DOMAIN c : keys[i] = k
    BY DEF Keys
  <2>2. \A i, j \in DOMAIN c : keys[i] = keys[j] => i = j
    BY DEF Distinct
  <2> HIDE DEF keys
  <2> QED BY <2>1, <2>2 DEF Bijection, Injection, Surjection, IsInjective
<1>2. DOMAIN c = 1..Len(c) /\ Len(c) \in Nat
  BY LenProperties
<1>3. IsFiniteSet(DOMAIN c) /\ Cardinality(DOMAIN c) = Len(c)
  <2>1. IsFiniteSet(1..Len(c)) /\ Cardinality(1..Len(c)) = Len(c)
    BY <1>2, FS_Interval
  <2> QED BY <1>2, <2>1, Zenon
<1>4. ExistsBijection(DOMAIN c, Keys(c))
  BY <1>1, Zenon DEF ExistsBijection
<1> QED BY <1>3, <1>4, FS_Bijection

\* Every variable keeps its type for any clients, changes and cache size: the cache stays within its
\* bound and never holds a key twice, a call never waits for a source whose part it has, and no
\* key was used more often than calls were answered.  The calls have to be finitely many for their
\* number to bound anything.
THEOREM TypeCorrect == ASSUME IsFiniteSet(Call) PROVE Spec => []TypeOK
<1>1. Init => Counted
  <2> SUFFICES ASSUME Init PROVE Counted
    OBVIOUS
  <2>1. {r \in Call : pc[r] = "ok"} = {}
    BY DEF Init
  <2>2. clock = 0
    BY DEF Init
  <2> QED BY <2>1, <2>2, FS_EmptySet DEF Counted
<1>2. Typed /\ Counted /\ [Next]_vars => Counted'
  BY CountedStep
<1>3. Typed /\ Counted => TypeOK
  <2> SUFFICES ASSUME Typed, Counted PROVE TypeOK
    OBVIOUS
  <2>1. CallTypes /\ Cache(cache, lastUse, clock) /\ Len(cache) <= MaxEntries
    BY DEF Typed, CacheTypes
  <2>2. /\ cache \in Seq(Entry) /\ Distinct(cache)
        /\ clock \in Nat /\ lastUse \in [Menu -> 0..clock]
    BY <2>1 DEF Cache
  <2>3. Cardinality(Keys(cache)) = Len(cache)
    BY <2>2, KeysCounted
  <2>4. \A r \in Call : have[r] \subseteq Source \ asked[r]
    BY DEF Typed, CallTypes, Stages
  <2>5. clock \in 0..Cardinality(Call)
    <3> DEFINE done == {r \in Call : pc[r] = "ok"}
    <3>1. Cardinality(done) <= Cardinality(Call) /\ Cardinality(Call) \in Nat
      BY FS_Subset, FS_CardinalityType
    <3>2. clock = Cardinality(done)
      BY DEF Counted
    <3> HIDE DEF done
    <3> QED BY <2>2, <3>1, <3>2
  <2> QED BY <2>1, <2>2, <2>3, <2>4, <2>5 DEF TypeOK, CallTypes
<1> QED BY <1>1, <1>2, <1>3, TypedInvariance, PTL DEF Spec
=============================================================================
