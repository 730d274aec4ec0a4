---------------------------- MODULE DirStatsProofs ----------------------------
(***************************************************************************)
(* Proofs about DirStats.                                                  *)
(***************************************************************************)
EXTENDS DirStats, FiniteSetTheorems, TLAPS

-----------------------------------------------------------------------------
(* Sums over finite sets.  A sum is the number of pairs <<x, k>> with k in *)
(* 1 .. f[x], less the number of those with k in 1 .. -f[x]: cardinalities *)
(* have theorems that can be cited, and the minimal counterexample of a    *)
(* well-founded relation takes the place of an induction.                  *)

Pairs(f, S) == {t \in S \X Nat : 1 <= t[2] /\ t[2] <= f[t[1]]}
Minus(f, S) == [x \in S |-> -f[x]]

LEMMA PairsMore ==
  ASSUME NEW S, NEW x \in S, NEW f, f[x] \in Int, IsFiniteSet(Pairs(f, S \ {x}))
  PROVE  /\ IsFiniteSet(Pairs(f, S))
         /\ Cardinality(Pairs(f, S)) =
              Cardinality(Pairs(f, S \ {x})) + (IF f[x] > 0 THEN f[x] ELSE 0)
<1> DEFINE more == {x} \X (1 .. f[x])
<1>1. Pairs(f, S) = Pairs(f, S \ {x}) \cup more /\ Pairs(f, S \ {x}) \cap more = {}
  BY DEF Pairs
<1>2. IsFiniteSet(1 .. f[x]) /\ Cardinality(1 .. f[x]) = IF f[x] > 0 THEN f[x] ELSE 0
  <2>1. 1 \in Int
    OBVIOUS
  <2> QED
    BY <2>1, FS_Interval
<1>3. IsFiniteSet({x}) /\ Cardinality({x}) = 1
  BY FS_Singleton
<1>4. IsFiniteSet(more) /\ Cardinality(more) = IF f[x] > 0 THEN f[x] ELSE 0
  <2>1. IsFiniteSet(more) /\ Cardinality(more) = 1 * Cardinality(1 .. f[x])
    BY <1>2, <1>3, FS_Product
  <2> QED
    BY <1>2, <2>1
<1>5. Cardinality(Pairs(f, S \ {x})) \in Nat
  BY FS_CardinalityType
<1> HIDE DEF more
<1>6. /\ IsFiniteSet(Pairs(f, S \ {x}) \cup more)
      /\ Cardinality(Pairs(f, S \ {x}) \cup more) =
           Cardinality(Pairs(f, S \ {x})) + Cardinality(more)
             - Cardinality(Pairs(f, S \ {x}) \cap more)
  BY <1>4, FS_Union
<1>7. Cardinality(Pairs(f, S \ {x}) \cap more) = 0
  BY <1>1, FS_EmptySet
<1> QED
  BY <1>1, <1>4, <1>5, <1>6, <1>7

LEMMA PairsFinite ==
  ASSUME NEW S, IsFiniteSet(S), NEW f, \A x \in S : f[x] \in Int
  PROVE  \A T \in SUBSET S : IsFiniteSet(Pairs(f, T))
<1> DEFINE Bad == {T \in SUBSET S : ~IsFiniteSet(Pairs(f, T))}
<1> SUFFICES ASSUME Bad # {} PROVE FALSE
  OBVIOUS
<1>1. IsWellFoundedOn(StrictSubsetOrdering(S), SUBSET S)
  BY FS_StrictSubsetOrderingWellFounded, FS_FiniteSubsetsOfFinite
<1>2. PICK T \in Bad : \A U \in Bad : ~(<<U, T>> \in StrictSubsetOrdering(S))
  <2>1. Bad \subseteq SUBSET S
    OBVIOUS
  <2> HIDE DEF Bad
  <2> QED
    BY <1>1, <2>1, WFMin
<1>3. T # {}
  <2>1. Pairs(f, {}) = {}
    BY DEF Pairs
  <2> QED
    BY <2>1, FS_EmptySet
<1>4. PICK x \in T : TRUE
  BY <1>3
<1>5. IsFiniteSet(Pairs(f, T \ {x}))
  <2>1. <<T \ {x}, T>> \in StrictSubsetOrdering(S)
    BY <1>4 DEF StrictSubsetOrdering
  <2> QED
    BY <1>2, <2>1
<1> QED
  BY <1>4, <1>5, PairsMore

\* The sum of f over S.
Weight(f, S) == Cardinality(Pairs(f, S)) - Cardinality(Pairs(Minus(f, S), S))

LEMMA WeightEmpty == ASSUME NEW f PROVE Weight(f, {}) = 0
<1>1. Pairs(f, {}) = {} /\ Pairs(Minus(f, {}), {}) = {}
  BY DEF Pairs
<1> QED
  BY <1>1, FS_EmptySet DEF Weight

LEMMA WeightMore ==
  ASSUME NEW S, IsFiniteSet(S), NEW f, \A x \in S : f[x] \in Int, NEW x \in S
  PROVE  /\ Weight(f, S) = Weight(f, S \ {x}) + f[x]
         /\ Weight(f, S) \in Int /\ Weight(f, S \ {x}) \in Int
<1> DEFINE g == Minus(f, S)
           h == Minus(f, S \ {x})
<1>1. \A y \in S : g[y] = -f[y] /\ g[y] \in Int
  BY DEF Minus
<1>2. Pairs(h, S \ {x}) = Pairs(g, S \ {x})
  BY DEF Pairs, Minus
<1>3. f[x] \in Int /\ g[x] = -f[x] /\ g[x] \in Int /\ S \ {x} \in SUBSET S
  BY <1>1
<1> HIDE DEF g, h
<1>4. IsFiniteSet(Pairs(f, S \ {x})) /\ IsFiniteSet(Pairs(g, S \ {x}))
  BY <1>1, <1>3, PairsFinite
<1>5. /\ Cardinality(Pairs(f, S)) =
           Cardinality(Pairs(f, S \ {x})) + (IF f[x] > 0 THEN f[x] ELSE 0)
      /\ Cardinality(Pairs(g, S)) =
           Cardinality(Pairs(g, S \ {x})) + (IF g[x] > 0 THEN g[x] ELSE 0)
  BY <1>3, <1>4, PairsMore
<1>6. Cardinality(Pairs(f, S \ {x})) \in Nat /\ Cardinality(Pairs(g, S \ {x})) \in Nat
  BY <1>4, FS_CardinalityType
<1> QED
  BY <1>2, <1>3, <1>5, <1>6 DEF Weight, g, h

\* What SumOf computes: the recursive function it is defined with exists, as
\* Weight is one, and is Weight.
LEMMA SumIsWeight ==
  ASSUME NEW S, IsFiniteSet(S), NEW f, \A x \in S : f[x] \in Int
  PROVE  SumOf(f, S) = Weight(f, S)
<1> DEFINE Sums(g) ==
      g = [T \in SUBSET S |->
             IF T = {} THEN 0
             ELSE f[CHOOSE x \in T : TRUE] + g[T \ {CHOOSE x \in T : TRUE}]]
    iter == CHOOSE g : Sums(g)
<1>1. SumOf(f, S) = iter[S]
  BY DEF SumOf, MapThenSumSet, MapThenFoldSet
<1>2. Sums([T \in SUBSET S |-> Weight(f, T)])
  <2> SUFFICES ASSUME NEW T \in SUBSET S, T # {}, NEW x, x = CHOOSE y \in T : TRUE
               PROVE  Weight(f, T) = f[x] + Weight(f, T \ {x})
    BY WeightEmpty
  <2>1. x \in T /\ IsFiniteSet(T)
    BY FS_Subset
  <2>2. \A y \in T : f[y] \in Int
    OBVIOUS
  <2>3. Weight(f, T) = Weight(f, T \ {x}) + f[x] /\ Weight(f, T \ {x}) \in Int
    BY <2>1, <2>2, WeightMore
  <2> QED
    BY <2>1, <2>2, <2>3
<1>3. Sums(iter)
  BY <1>2
<1> DEFINE Bad == {T \in SUBSET S : iter[T] # Weight(f, T)}
<1> SUFFICES ASSUME Bad # {} PROVE FALSE
  BY <1>1
<1>4. IsWellFoundedOn(StrictSubsetOrdering(S), SUBSET S)
  BY FS_StrictSubsetOrderingWellFounded, FS_FiniteSubsetsOfFinite
<1>5. PICK T \in Bad : \A U \in Bad : ~(<<U, T>> \in StrictSubsetOrdering(S))
  <2>1. Bad \subseteq SUBSET S
    OBVIOUS
  <2> HIDE DEF Bad
  <2> QED
    BY <1>4, <2>1, WFMin
<1>6. T \in SUBSET S /\ iter[T] # Weight(f, T)
  BY <1>5
<1> HIDE DEF iter
<1>7. T # {}
  BY <1>3, <1>6, WeightEmpty
<1> DEFINE x == CHOOSE y \in T : TRUE
<1>8. x \in T /\ iter[T] = f[x] + iter[T \ {x}]
  BY <1>3, <1>6, <1>7
<1> HIDE DEF x
<1>9. T \ {x} \notin Bad /\ T \ {x} \in SUBSET S
  BY <1>5, <1>6, <1>8 DEF StrictSubsetOrdering
<1>10. IsFiniteSet(T) /\ \A y \in T : f[y] \in Int
  BY <1>6, FS_Subset
<1>11. /\ Weight(f, T) = Weight(f, T \ {x}) + f[x]
       /\ Weight(f, T \ {x}) \in Int /\ f[x] \in Int
  BY <1>8, <1>10, WeightMore
<1> QED
  BY <1>6, <1>8, <1>9, <1>11

\* The laws of sums.
LEMMA SumEmpty == ASSUME NEW f PROVE SumOf(f, {}) = 0
  BY SumIsWeight, WeightEmpty, FS_EmptySet

LEMMA SumMore ==
  ASSUME NEW S, IsFiniteSet(S), NEW f, \A x \in S : f[x] \in Int, NEW x \in S
  PROVE  /\ SumOf(f, S) = SumOf(f, S \ {x}) + f[x]
         /\ SumOf(f, S) \in Int /\ SumOf(f, S \ {x}) \in Int
<1>1. IsFiniteSet(S \ {x}) /\ \A y \in S \ {x} : f[y] \in Int
  BY FS_RemoveElement
<1> QED
  BY <1>1, SumIsWeight, WeightMore

LEMMA SumNat ==
  ASSUME NEW S, IsFiniteSet(S), NEW f, \A x \in S : f[x] \in Nat
  PROVE  SumOf(f, S) \in Nat
<1>1. SumOf(f, S) = Weight(f, S)
  BY SumIsWeight
<1>2. IsFiniteSet(Pairs(f, S))
  BY PairsFinite
<1>3. Pairs(Minus(f, S), S) = {}
  BY DEF Pairs, Minus
<1>4. Cardinality(Pairs(f, S)) \in Nat
  BY <1>2, FS_CardinalityType
<1> QED
  BY <1>1, <1>3, <1>4, FS_EmptySet DEF Weight

\* What is zero may be left out, and what is equal exchanged.
LEMMA SumSupport ==
  ASSUME NEW S, IsFiniteSet(S), NEW f, \A x \in S : f[x] \in Int,
         NEW T \in SUBSET S, NEW g, \A x \in T : g[x] = f[x], \A x \in S \ T : f[x] = 0
  PROVE  SumOf(f, S) = SumOf(g, T)
<1>1. IsFiniteSet(T) /\ \A x \in T : g[x] \in Int
  BY FS_Subset
<1>2. Pairs(f, S) = Pairs(g, T)
  BY DEF Pairs
<1>3. Pairs(Minus(f, S), S) = Pairs(Minus(g, T), T)
  BY DEF Pairs, Minus
<1> QED
  BY <1>1, <1>2, <1>3, SumIsWeight DEF Weight

LEMMA SumSame ==
  ASSUME NEW S, IsFiniteSet(S), NEW f, \A x \in S : f[x] \in Int,
         NEW g, \A x \in S : g[x] = f[x]
  PROVE  SumOf(f, S) = SumOf(g, S)
  BY SumSupport

LEMMA SumSplit ==
  ASSUME NEW S, IsFiniteSet(S), NEW f, \A x \in S : f[x] \in Int, NEW T \in SUBSET S
  PROVE  /\ SumOf(f, S) = SumOf(f, T) + SumOf(f, S \ T)
         /\ SumOf(f, T) \in Int /\ SumOf(f, S \ T) \in Int /\ SumOf(f, S) \in Int
<1> DEFINE U == S \ T
<1>1. IsFiniteSet(T) /\ IsFiniteSet(U) /\ U \in SUBSET S
  BY FS_Subset
<1>2. \A x \in S : Minus(f, S)[x] \in Int
  BY DEF Minus
<1>3. ASSUME NEW g, \A x \in S : g[x] \in Int
      PROVE  /\ Cardinality(Pairs(g, S)) = Cardinality(Pairs(g, T)) + Cardinality(Pairs(g, U))
             /\ Cardinality(Pairs(g, T)) \in Nat /\ Cardinality(Pairs(g, U)) \in Nat
  <2>1. IsFiniteSet(Pairs(g, T)) /\ IsFiniteSet(Pairs(g, U))
    BY <1>1, <1>3, PairsFinite
  <2>2. Pairs(g, S) = Pairs(g, T) \cup Pairs(g, U) /\ Pairs(g, T) \cap Pairs(g, U) = {}
    BY DEF Pairs
  <2>3. Cardinality(Pairs(g, T)) \in Nat /\ Cardinality(Pairs(g, U)) \in Nat
    BY <2>1, FS_CardinalityType
  <2>4. Cardinality(Pairs(g, T) \cap Pairs(g, U)) = 0
    BY <2>2, FS_EmptySet
  <2>5. Cardinality(Pairs(g, T) \cup Pairs(g, U)) =
          Cardinality(Pairs(g, T)) + Cardinality(Pairs(g, U))
            - Cardinality(Pairs(g, T) \cap Pairs(g, U))
    BY <2>1, FS_Union
  <2> QED
    BY <2>2, <2>3, <2>4, <2>5
<1>4. /\ Pairs(Minus(f, T), T) = Pairs(Minus(f, S), T)
      /\ Pairs(Minus(f, U), U) = Pairs(Minus(f, S), U)
  BY DEF Pairs, Minus
<1>5. /\ SumOf(f, S) = Weight(f, S)
      /\ SumOf(f, T) = Weight(f, T) /\ SumOf(f, U) = Weight(f, U)
  BY <1>1, SumIsWeight
<1>6. /\ Cardinality(Pairs(f, S)) = Cardinality(Pairs(f, T)) + Cardinality(Pairs(f, U))
      /\ Cardinality(Pairs(f, T)) \in Nat /\ Cardinality(Pairs(f, U)) \in Nat
  BY <1>3
<1> DEFINE m == Minus(f, S)
<1>7. /\ Cardinality(Pairs(m, S)) = Cardinality(Pairs(m, T)) + Cardinality(Pairs(m, U))
      /\ Cardinality(Pairs(m, T)) \in Nat /\ Cardinality(Pairs(m, U)) \in Nat
  BY <1>2, <1>3
<1> QED
  BY <1>4, <1>5, <1>6, <1>7 DEF Weight

\* One summand changes.
LEMMA SumChange ==
  ASSUME NEW S, IsFiniteSet(S), NEW x \in S,
         NEW f, \A y \in S : f[y] \in Int, NEW g, \A y \in S : g[y] \in Int,
         \A y \in S \ {x} : g[y] = f[y]
  PROVE  /\ SumOf(g, S) = SumOf(f, S) - f[x] + g[x]
         /\ SumOf(f, S) \in Int /\ SumOf(g, S) \in Int
<1>1. /\ SumOf(f, S) = SumOf(f, S \ {x}) + f[x]
      /\ SumOf(f, S) \in Int /\ SumOf(f, S \ {x}) \in Int
  BY SumMore
<1>2. /\ SumOf(g, S) = SumOf(g, S \ {x}) + g[x]
      /\ SumOf(g, S) \in Int
  BY SumMore
<1>3. SumOf(f, S \ {x}) = SumOf(g, S \ {x})
  <2>1. IsFiniteSet(S \ {x}) /\ \A y \in S \ {x} : f[y] \in Int /\ g[y] = f[y]
    BY FS_RemoveElement
  <2> QED
    BY <2>1, SumSame
<1> QED
  BY <1>1, <1>2, <1>3

\* Two summands change by opposite amounts.
LEMMA SumMove ==
  ASSUME NEW S, IsFiniteSet(S), NEW x \in S, NEW y \in S, x # y,
         NEW f, \A z \in S : f[z] \in Int, NEW g, \A z \in S : g[z] \in Int,
         \A z \in S \ {x, y} : g[z] = f[z],
         g[x] + g[y] = f[x] + f[y]
  PROVE  SumOf(g, S) = SumOf(f, S)
<1> DEFINE h == [z \in S |-> IF z = x THEN g[x] ELSE f[z]]
<1>1. /\ \A z \in S : h[z] \in Int
      /\ \A z \in S \ {x} : h[z] = f[z]
      /\ \A z \in S \ {y} : g[z] = h[z]
      /\ h[x] = g[x] /\ h[y] = f[y]
  OBVIOUS
<1> HIDE DEF h
<1>2. /\ SumOf(h, S) = SumOf(f, S) - f[x] + h[x]
      /\ SumOf(f, S) \in Int /\ SumOf(h, S) \in Int
  BY <1>1, SumChange
<1>3. SumOf(g, S) = SumOf(h, S) - h[y] + g[y] /\ SumOf(g, S) \in Int
  BY <1>1, SumChange
<1>4. f[x] \in Int /\ f[y] \in Int /\ g[x] \in Int /\ g[y] \in Int
  OBVIOUS
<1>5. /\ SumOf(h, S) = SumOf(f, S) - f[x] + g[x]
      /\ SumOf(g, S) = SumOf(h, S) - f[y] + g[y]
  BY <1>1, <1>2, <1>3
<1>6. g[x] = f[x] + f[y] - g[y]
  BY <1>4
<1> HIDE DEF h
<1> QED
  BY <1>2, <1>3, <1>4, <1>5, <1>6

-----------------------------------------------------------------------------
(* Entries.                                                                *)

LEMMA CountBelow ==
  ASSUME NEW a, NEW d
  PROVE  /\ IsFiniteSet(Below(a, d)) /\ CountOf(a, d) \in Nat
         /\ CountOf(a, d) = 0 <=> Below(a, d) = {}
<1>1. IsFiniteSet(Below(a, d))
  <2>1. Below(a, d) \in SUBSET Paths
    BY DEF Below
  <2> QED
    BY <2>1, DirAssumption, FS_Subset
<1> QED
  BY <1>1, FS_EmptySet, FS_CardinalityType DEF CountOf

LEMMA BytesNat ==
  ASSUME NEW a \in [Paths -> Sizes \cup {0}], NEW d
  PROVE  BytesOf(a, d) \in Nat
<1>1. Sizes \subseteq Nat
  BY DirAssumption
<1>2. IsFiniteSet(Below(a, d))
  BY CountBelow
<1>3. \A p \in Below(a, d) : a[p] \in Nat
  BY <1>1 DEF Below
<1> QED
  BY <1>2, <1>3, SumNat DEF BytesOf

LEMMA EntryType ==
  ASSUME NEW a \in [Paths -> Sizes \cup {0}], NEW d \in Dirs, NEW v \in Nat
  PROVE  /\ EntryOf(a, d, v) \in Entry \cup {None}
         /\ EntryOf(a, d, v) = None <=> CountOf(a, d) = 0
         /\ EntryOf(a, d, v) # None => EntryOf(a, d, v).n > 0
<1>1. CountOf(a, d) \in Nat /\ BytesOf(a, d) \in Nat
  BY CountBelow, BytesNat
<1>2. None \notin Entry
  BY DirAssumption
<1> QED
  BY <1>1, <1>2 DEF EntryOf, Entry

\* An entry made from a says what a says.
LEMMA EntrySays ==
  ASSUME NEW a \in [Paths -> Sizes \cup {0}], NEW d \in Dirs, NEW v \in Nat
  PROVE  Says(EntryOf(a, d, v), a, d)
<1>1. CASE CountOf(a, d) = 0
  BY <1>1 DEF Says, EntryOf
<1>2. CASE CountOf(a, d) # 0
  BY <1>2, EntryType DEF Says, EntryOf
<1> QED
  BY <1>1, <1>2

LEMMA PlusType ==
  ASSUME NEW x \in Delta \cup {None}, NEW y \in Delta \cup {None}
  PROVE  Plus(x, y) \in Delta \cup {None}
  BY DEF Plus, Delta

LEMMA MergeType ==
  ASSUME NEW f \in Deltas, NEW g \in Deltas
  PROVE  /\ Merge(f, g) \in Deltas
         /\ \A d \in Dirs : Merge(f, g)[d] # None => f[d] # None \/ g[d] # None
  BY PlusType DEF Merge, Deltas, Plus

LEMMA UpdatedType ==
  ASSUME NEW e \in Entry \cup {None}, NEW x \in Delta
  PROVE  /\ Updated(e, x) \in Entry \cup {None}
         /\ Updated(e, x) # None => Updated(e, x).n > 0
<1>1. CASE e = None
  BY <1>1 DEF Updated, NotBelow0, Entry, Delta
<1>2. CASE e \in Entry
  BY <1>2, DirAssumption DEF Updated, NotBelow0, Entry, Delta
<1> QED
  BY <1>1, <1>2

-----------------------------------------------------------------------------
(* Types.                                                                  *)

LEMMA TypeInit == Init => TypeOK
<1> SUFFICES ASSUME Init PROVE TypeOK
  OBVIOUS
<1>1. art \in [Paths -> Sizes \cup {0}]
  BY DirAssumption DEF Init
<1>2. /\ entry \in [Dirs -> Entry \cup {None}]
      /\ \A d \in Dirs : entry[d] # None => entry[d].n > 0
  <2>1. entry = [d \in Dirs |-> EntryOf(art, d, 1)]
    BY DEF Init
  <2>2. \A d \in Dirs : /\ EntryOf(art, d, 1) \in Entry \cup {None}
                        /\ EntryOf(art, d, 1) # None => EntryOf(art, d, 1).n > 0
    BY <1>1, EntryType
  <2> QED
    BY <2>1, <2>2
<1>3. Nothing \in Deltas
  BY DEF Nothing, Deltas
<1>4. calm \in BOOLEAN
  BY DEF Init
<1> QED
  BY <1>1, <1>2, <1>3, <1>4 DEF Init, TypeOK

\* What a worker does with one delta of its batch.
LEMMA ThroughType ==
  ASSUME TypeOK, NEW i \in Instances, NEW d \in Dirs, NEW next \in Deltas,
         Through(i, d, next)
  PROVE  /\ batch' \in [Instances -> Deltas] /\ buf' \in [Instances -> Deltas]
         /\ seen' \in [Instances -> [Dirs -> Entry \cup {None, Unread}]]
         /\ \A j \in Instances, e \in Dirs : seen'[j][e] # Unread => batch'[j][e] # None
         /\ chan' = chan /\ mode' = mode
         /\ \A j \in Instances, e \in Dirs :
              /\ batch'[j][e] = IF j = i /\ e = d THEN None ELSE batch[j][e]
              /\ seen'[j][e] = IF j = i /\ e = d THEN Unread ELSE seen[j][e]
         /\ buf' = [buf EXCEPT ![i] = Merge(buf[i], next)]
<1>1. /\ batch \in [Instances -> Deltas] /\ buf \in [Instances -> Deltas]
      /\ seen \in [Instances -> [Dirs -> Entry \cup {None, Unread}]]
      /\ \A j \in Instances, e \in Dirs : seen[j][e] # Unread => batch[j][e] # None
  BY DEF TypeOK
<1>2. Merge(buf[i], next) \in Deltas
  BY <1>1, MergeType
<1> QED
  BY <1>1, <1>2 DEF Through, Deltas

LEMMA RequeueType ==
  ASSUME TypeOK, NEW i \in Instances, NEW d \in Dirs
  PROVE  /\ Requeue(i, d) \in Deltas /\ Propagate(i, d) \in Deltas
         /\ \A e \in Dirs :
              /\ Requeue(i, d)[e] # None => e = d /\ batch[i][d] # None
              /\ Propagate(i, d)[e] # None =>
                   d # Root /\ e = Parent[d] /\ batch[i][d] # None
<1>1. batch[i][d] \in Delta \cup {None}
  BY DEF TypeOK, Deltas
<1>2. d # Root => Parent[d] \in Dirs
  BY DirAssumption
<1> QED
  BY <1>1, <1>2 DEF Requeue, Propagate, Nothing, Deltas

LEMMA TypeStep == TypeOK /\ [Next]_vars => TypeOK'
<1> SUFFICES ASSUME TypeOK, [Next]_vars PROVE TypeOK'
  OBVIOUS
<1> USE DEF repo, workers, rebuild
<1>1. ASSUME NEW c \in Clients, NEW p \in Paths, NEW size \in Sizes \cup {0}, Change(c, p, size)
      PROVE  TypeOK'
  <2>1. Sizes \cup {0} \subseteq Int
    BY DirAssumption
  <2>2. art'= [art EXCEPT ![p] = size] /\ art' \in [Paths -> Sizes \cup {0}]
    BY <1>1 DEF Change, TypeOK
  <2>3. art[p] \in Sizes \cup {0} /\ DirOf[p] \in Dirs
    BY DirAssumption DEF TypeOK
  <2>4. held' \in [Clients -> [dir: Dirs, delta: Delta] \cup {None}]
    BY <1>1, <2>1, <2>3 DEF Change, TypeOK, Delta
  <2>5. ops' \in Nat
    <3>1. ops \in Nat /\ ops' = IF size = 0 THEN ops ELSE ops + 1
      BY <1>1 DEF Change, TypeOK
    <3> QED
      BY <3>1
  <2>6. calm' \in BOOLEAN
    BY <1>1 DEF Change
  <2> QED
    BY <1>1, <2>2, <2>4, <2>5, <2>6 DEF Change, TypeOK
<1>2. ASSUME NEW c \in Clients, Send(c) PROVE TypeOK'
  <2>1. held[c] \in [dir: Dirs, delta: Delta]
    BY <1>2 DEF Send, TypeOK
  <2>2. load.on[c] \in Instances
    BY DirAssumption DEF TypeOK, Workload
  <2>3. chan \in [Instances -> Deltas]
    BY DEF TypeOK
  <2>4. Plus(chan[load.on[c]][held[c].dir], held[c].delta) \in Delta \cup {None}
    BY <2>1, <2>2, <2>3, PlusType DEF Deltas
  <2>5. chan' \in [Instances -> Deltas]
    BY <1>2, <2>1, <2>2, <2>3, <2>4 DEF Send, Deltas
  <2>6. held' \in [Clients -> [dir: Dirs, delta: Delta] \cup {None}]
    BY <1>2 DEF Send, TypeOK
  <2> QED
    BY <1>2, <2>5, <2>6 DEF Send, TypeOK
<1>3. ASSUME NEW i \in Instances, StartBatch(i) PROVE TypeOK'
  <2>1. Nothing \in Deltas
    BY DEF Nothing, Deltas
  <2>2. Merge(chan[i], buf[i]) \in Deltas /\ buf[i] \in Deltas
    BY MergeType DEF TypeOK
  <2>3. batch' \in [Instances -> Deltas] /\ buf' \in [Instances -> Deltas] /\ chan' \in [Instances -> Deltas]
    BY <1>3, <2>1, <2>2 DEF StartBatch, TypeOK
  <2>4. \A e \in Dirs : seen[i][e] = Unread
    BY <1>3 DEF StartBatch, TypeOK, Nothing
  <2>5. \A j \in Instances, e \in Dirs : seen'[j][e] # Unread => batch'[j][e] # None
    BY <1>3, <2>4 DEF StartBatch, TypeOK
  <2> QED
    BY <1>3, <2>3, <2>5 DEF StartBatch, TypeOK
<1>4. ASSUME NEW i \in Instances, NEW d \in Dirs, ReadEntry(i, d) PROVE TypeOK'
  <2>1. CASE Through(i, d, Requeue(i, d))
    BY <1>4, <2>1, ThroughType, RequeueType DEF ReadEntry, TypeOK
  <2>2. CASE seen' = [seen EXCEPT ![i][d] = entry[d]] /\ UNCHANGED <<chan, buf, batch, mode>>
    <3>1. /\ seen' \in [Instances -> [Dirs -> Entry \cup {None, Unread}]]
          /\ \A j \in Instances, e \in Dirs : seen'[j][e] # Unread => batch'[j][e] # None
      BY <1>4, <2>2 DEF ReadEntry, TypeOK
    <3> QED
      BY <1>4, <2>2, <3>1 DEF ReadEntry, TypeOK
  <2> QED
    BY <1>4, <2>1, <2>2 DEF ReadEntry
<1>5. ASSUME NEW i \in Instances, NEW d \in Dirs, WriteEntry(i, d) PROVE TypeOK'
  <2>1. seen[i][d] \in Entry \cup {None} /\ batch[i][d] \in Delta
    BY <1>5 DEF WriteEntry, TypeOK, Deltas
  <2>2. /\ entry' \in [Dirs -> Entry \cup {None}]
        /\ \A e \in Dirs : entry'[e] # None => entry'[e].n > 0
    <3>1. entry' = entry \/ entry' = [entry EXCEPT ![d] = Updated(seen[i][d], batch[i][d])]
      BY <1>5 DEF WriteEntry
    <3>2. /\ entry \in [Dirs -> Entry \cup {None}]
          /\ \A e \in Dirs : entry[e] # None => entry[e].n > 0
      BY DEF TypeOK
    <3> QED
      BY <2>1, <3>1, <3>2, UpdatedType
  <2>3. PICK next \in Deltas : Through(i, d, next)
    BY <1>5, RequeueType DEF WriteEntry
  <2> QED
    BY <1>5, <2>2, <2>3, ThroughType DEF WriteEntry, TypeOK
<1>6. ASSUME NEW i \in Instances, NEW d \in Dirs, ApplyFails(i, d) PROVE TypeOK'
  <2>1. faults' \in Nat
    BY <1>6 DEF ApplyFails, TypeOK
  <2> QED
    BY <1>6, <2>1, ThroughType, RequeueType DEF ApplyFails, TypeOK
<1>7. ASSUME NEW i \in Instances, Stop(i) \/ Stopped(i) PROVE TypeOK'
  <2>1. Nothing \in Deltas
    BY DEF Nothing, Deltas
  <2> QED
    BY <1>7, <2>1 DEF Stop, Stopped, TypeOK
<1>8. CASE RebuildStart
  <2>1. \A w \in Workloads, c \in Clients : w.paths[c] \subseteq Paths /\ w.keep \subseteq Paths
    BY DirAssumption DEF Workload
  <2>2. UsedPaths \subseteq Paths
    BY <2>1, DirAssumption DEF UsedPaths, TypeOK, Workload
  <2>3. UsedDirs \subseteq Dirs
    BY <2>2, DirAssumption DEF UsedDirs
  <2>4. toRead' \subseteq Paths \cup Dirs
    BY <1>8, <2>2, <2>3 DEF RebuildStart
  <2>5. calm' \in BOOLEAN
    BY <1>8 DEF RebuildStart, Quiet
  <2> QED
    BY <1>8, <2>4, <2>5 DEF RebuildStart, TypeOK
<1>9. ASSUME NEW p \in Paths, RebuildRead(p) PROVE TypeOK'
  BY <1>9 DEF RebuildRead, TypeOK
<1>10. ASSUME NEW d \in Dirs, RebuildDiff(d) PROVE TypeOK'
  BY <1>10 DEF RebuildDiff, TypeOK
<1>11. ASSUME NEW d \in Dirs, RebuildWrite(d) PROVE TypeOK'
  <2> DEFINE v == IF entry[d] = None THEN 1 ELSE entry[d].ver + 1
  <2>1. v \in Nat
    BY DEF TypeOK, Entry
  <2>2. entry' = [entry EXCEPT ![d] = EntryOf(found, d, v)]
    BY <1>11 DEF RebuildWrite
  <2> HIDE DEF v
  <2>3. /\ EntryOf(found, d, v) \in Entry \cup {None}
        /\ EntryOf(found, d, v) # None => EntryOf(found, d, v).n > 0
    BY <2>1, EntryType DEF TypeOK
  <2> QED
    BY <1>11, <2>2, <2>3 DEF RebuildWrite, TypeOK
<1>12. CASE RebuildEnd \/ RebuildFails
  <2>1. faults \in Nat
    BY DEF TypeOK
  <2> QED
    BY <1>12, <2>1 DEF RebuildEnd, RebuildFails, TypeOK
<1>13. CASE UNCHANGED vars
  BY <1>13 DEF vars, TypeOK
<1> QED
  BY <1>1, <1>2, <1>3, <1>4, <1>5, <1>6, <1>7, <1>8, <1>9, <1>10, <1>11, <1>12, <1>13
     DEF Next, Client, Worker, Rebuild

\* Every variable keeps its type, whatever the workload: counts of entries are
\* positive, and a worker writes only what it has a delta for.
THEOREM DirTypeCorrect == Spec => []TypeOK
  BY TypeInit, TypeStep, PTL DEF Spec

-----------------------------------------------------------------------------
(* The rebuild.                                                            *)

\* The directories in use, and those above them.
LEMMA Used ==
  ASSUME TypeOK
  PROVE  /\ UsedPaths \subseteq Paths /\ UsedDirs \subseteq Dirs
         /\ load.keep \subseteq UsedPaths
         /\ \A c \in Clients : load.paths[c] \subseteq UsedPaths
         /\ \A p \in UsedPaths : Above[DirOf[p]] \subseteq UsedDirs /\ DirOf[p] \in UsedDirs
         /\ \A d \in UsedDirs \ {Root} : Parent[d] \in UsedDirs
<1>1. load \in Workload
  BY DirAssumption DEF TypeOK
<1>2. UsedPaths \subseteq Paths /\ load.keep \subseteq UsedPaths
  BY <1>1 DEF UsedPaths, Workload
<1>3. \A c \in Clients : load.paths[c] \subseteq UsedPaths
  BY DEF UsedPaths
<1>4. \A d \in Dirs : d \in Above[d]
  BY DirAssumption
<1>5. \A p \in UsedPaths : Above[DirOf[p]] \subseteq UsedDirs /\ DirOf[p] \in UsedDirs
  BY <1>2, <1>4, DirAssumption DEF UsedDirs
<1>6. UsedDirs \subseteq Dirs
  BY <1>2, DirAssumption DEF UsedDirs
<1>7. ASSUME NEW d \in UsedDirs \ {Root} PROVE Parent[d] \in UsedDirs
  <2>1. PICK p \in UsedPaths : d \in Above[DirOf[p]]
    BY DEF UsedDirs
  <2>2. Above[d] \subseteq Above[DirOf[p]] /\ Parent[d] \in Above[d]
    BY <1>2, <1>4, <1>6, <2>1, DirAssumption
  <2> QED
    BY <1>5, <2>2
<1> QED
  BY <1>2, <1>3, <1>5, <1>6, <1>7

LEMMA UsedSame ==
  ASSUME load' = load
  PROVE  UsedPaths' = UsedPaths /\ UsedDirs' = UsedDirs
  BY DEF UsedPaths, UsedDirs

LEMMA UseInit == Init => WithinUse
<1> SUFFICES ASSUME Init PROVE WithinUse
  OBVIOUS
<1>1. TypeOK
  BY TypeInit
<1>2. \A p \in Paths : art[p] # 0 \/ found[p] # 0 => p \in UsedPaths
  BY <1>1, Used DEF Init
<1>3. ASSUME NEW d \in Dirs, entry[d] # None PROVE d \in UsedDirs
  <2>1. CountOf(art, d) # 0
    BY <1>3 DEF Init, EntryOf
  <2>2. PICK p \in Paths : art[p] # 0 /\ d \in Above[DirOf[p]]
    BY <2>1, CountBelow DEF Below
  <2> QED
    BY <1>1, <1>2, <2>2, Used
<1> QED
  BY <1>2, <1>3 DEF Init, WithinUse, Nothing

LEMMA ThroughUse ==
  ASSUME TypeOK, WithinUse, NEW i \in Instances, NEW d \in Dirs, batch[i][d] # None,
         NEW next \in {Requeue(i, d), Propagate(i, d)}, Through(i, d, next)
  PROVE  \A j \in Instances, e \in Dirs :
           chan'[j][e] # None \/ buf'[j][e] # None \/ batch'[j][e] # None => e \in UsedDirs
<1>1. next \in Deltas
  BY RequeueType
<1>2. \A e \in Dirs : next[e] # None => e \in UsedDirs
  <2>1. d \in UsedDirs
    BY DEF WithinUse
  <2> QED
    BY <2>1, RequeueType, Used
<1>3. buf \in [Instances -> Deltas]
  BY DEF TypeOK
<1>4. \A e \in Dirs : Merge(buf[i], next)[e] # None => e \in UsedDirs
  BY <1>1, <1>2, <1>3, MergeType DEF WithinUse
<1>5. /\ chan' = chan
      /\ \A j \in Instances, e \in Dirs :
              batch'[j][e] = IF j = i /\ e = d THEN None ELSE batch[j][e]
      /\ buf' = [buf EXCEPT ![i] = Merge(buf[i], next)]
  BY <1>1, ThroughType
<1> QED
  BY <1>3, <1>4, <1>5 DEF WithinUse

LEMMA UseStep == RebuildInv /\ [Next]_vars => WithinUse'
<1> SUFFICES ASSUME TypeOK, WithinUse, RebuildOrder, [Next]_vars PROVE WithinUse'
  BY DEF RebuildInv
<1>1. load' = load
  BY DEF Next, Client, Worker, Rebuild, Change, Send, StartBatch, Stopped, Stop, ReadEntry, WriteEntry,
     ApplyFails, RebuildStart, RebuildEnd, RebuildFails, RebuildRead, RebuildDiff, RebuildWrite,
     vars, repo
<1>2. UsedPaths' = UsedPaths /\ UsedDirs' = UsedDirs
  BY <1>1, UsedSame
<1> USE <1>2 DEF repo, workers, rebuild
<1>3. ASSUME NEW c \in Clients, NEW p \in Paths, NEW size \in Sizes \cup {0}, Change(c, p, size)
      PROVE  WithinUse'
  <2>1. p \in UsedPaths /\ DirOf[p] \in UsedDirs
    BY <1>3, Used DEF Change
  <2>2. \A q \in Paths : art'[q] # 0 \/ found'[q] # 0 => q \in UsedPaths
    BY <1>3, <2>1 DEF Change, TypeOK, WithinUse
  <2>3. \A e \in Clients : held'[e] # None => held'[e].dir \in UsedDirs
    BY <1>3, <2>1 DEF Change, TypeOK, WithinUse
  <2> QED
    BY <1>3, <2>2, <2>3 DEF Change, WithinUse
<1>4. ASSUME NEW c \in Clients, Send(c) PROVE WithinUse'
  <2>1. held[c] \in [dir: Dirs, delta: Delta] /\ held[c].dir \in UsedDirs
    BY <1>4 DEF Send, TypeOK, WithinUse
  <2>2. load.on[c] \in Instances
    BY DirAssumption DEF TypeOK, Workload
  <2>3. \A i \in Instances, d \in Dirs : chan'[i][d] # chan[i][d] => d \in UsedDirs
    BY <1>4, <2>1, <2>2 DEF Send, TypeOK, Deltas
  <2>4. \A e \in Clients : held'[e] # None => held'[e].dir \in UsedDirs
    BY <1>4 DEF Send, TypeOK, WithinUse
  <2> QED
    BY <1>4, <2>3, <2>4 DEF Send, WithinUse
<1>5. ASSUME NEW i \in Instances, StartBatch(i) PROVE WithinUse'
  <2>1. chan[i] \in Deltas /\ buf[i] \in Deltas
    BY DEF TypeOK
  <2>2. \A d \in Dirs : Merge(chan[i], buf[i])[d] # None => d \in UsedDirs
    BY <2>1, MergeType DEF WithinUse
  <2>3. \A j \in Instances, d \in Dirs :
          chan'[j][d] # None \/ buf'[j][d] # None \/ batch'[j][d] # None => d \in UsedDirs
    BY <1>5, <2>2 DEF StartBatch, TypeOK, WithinUse, Nothing
  <2> QED
    BY <1>5, <2>3 DEF StartBatch, WithinUse
<1>6. ASSUME NEW i \in Instances, NEW d \in Dirs,
             ReadEntry(i, d) \/ WriteEntry(i, d) \/ ApplyFails(i, d)
      PROVE  WithinUse'
  <2>1. batch[i][d] # None
    BY <1>6 DEF ReadEntry, WriteEntry, ApplyFails, TypeOK
  <2>2. \A j \in Instances, e \in Dirs :
          chan'[j][e] # None \/ buf'[j][e] # None \/ batch'[j][e] # None => e \in UsedDirs
    BY <1>6, <2>1, ThroughUse DEF ReadEntry, WriteEntry, ApplyFails, WithinUse
  <2>3. \A e \in Dirs : entry'[e] # None => e \in UsedDirs
    BY <1>6, <2>1 DEF ReadEntry, WriteEntry, ApplyFails, WithinUse, TypeOK
  <2> QED
    BY <1>6, <2>2, <2>3 DEF ReadEntry, WriteEntry, ApplyFails, WithinUse
<1>7. ASSUME NEW i \in Instances, Stop(i) \/ Stopped(i) PROVE WithinUse'
  BY <1>7 DEF Stop, Stopped, WithinUse, TypeOK, Nothing
<1>8. CASE RebuildStart \/ RebuildEnd \/ RebuildFails
  BY <1>8 DEF RebuildStart, RebuildEnd, RebuildFails, WithinUse
<1>9. ASSUME NEW p \in Paths, RebuildRead(p) PROVE WithinUse'
  BY <1>9 DEF RebuildRead, WithinUse, TypeOK
<1>10. ASSUME NEW d \in Dirs, RebuildDiff(d) PROVE WithinUse'
  BY <1>10 DEF RebuildDiff, WithinUse
<1>11. ASSUME NEW d \in Dirs, RebuildWrite(d) PROVE WithinUse'
  <2>1. entry'[d] # None => d \in UsedDirs
    <3> SUFFICES ASSUME CountOf(found, d) # 0 PROVE d \in UsedDirs
      BY <1>11 DEF RebuildWrite, TypeOK, EntryOf
    <3>1. PICK p \in Paths : found[p] # 0 /\ d \in Above[DirOf[p]]
      BY CountBelow DEF Below
    <3> QED
      BY <3>1, Used DEF WithinUse
  <2>2. \A e \in Dirs : entry'[e] # None => e \in UsedDirs
    BY <1>11, <2>1 DEF RebuildWrite, TypeOK, WithinUse
  <2> QED
    BY <1>11, <2>2 DEF RebuildWrite, WithinUse
<1>12. CASE UNCHANGED vars
  BY <1>12 DEF vars, WithinUse
<1> QED
  BY <1>3, <1>4, <1>5, <1>6, <1>7, <1>8, <1>9, <1>10, <1>11, <1>12
     DEF Next, Client, Worker, Rebuild

LEMMA OrderStep == RebuildInv /\ [Next]_vars => RebuildOrder'
<1> SUFFICES ASSUME TypeOK, RebuildOrder, [Next]_vars PROVE RebuildOrder'
  BY DEF RebuildInv
<1>1. load' = load
  BY DEF Next, Client, Worker, Rebuild, Change, Send, StartBatch, Stopped, Stop, ReadEntry, WriteEntry,
     ApplyFails, RebuildStart, RebuildEnd, RebuildFails, RebuildRead, RebuildDiff, RebuildWrite,
     vars, repo
<1>2. UsedPaths' = UsedPaths /\ UsedDirs' = UsedDirs
  BY <1>1, UsedSame
<1>3. UsedDirs \subseteq Dirs /\ Paths \cap Dirs = {}
  BY Used, DirAssumption
<1>4. CASE UNCHANGED rebuild
  BY <1>2, <1>4 DEF rebuild, RebuildOrder
<1>5. CASE RebuildStart
  BY <1>2, <1>5 DEF RebuildStart, RebuildOrder
<1>6. CASE RebuildEnd \/ RebuildFails
  BY <1>2, <1>6 DEF RebuildEnd, RebuildFails, RebuildOrder
<1>7. ASSUME NEW p \in Paths, RebuildRead(p) PROVE RebuildOrder'
  BY <1>2, <1>3, <1>7 DEF RebuildRead, RebuildOrder
<1>8. ASSUME NEW d \in Dirs, RebuildDiff(d) PROVE RebuildOrder'
  BY <1>2, <1>8 DEF RebuildDiff, RebuildOrder
<1>9. ASSUME NEW d \in Dirs, RebuildWrite(d) PROVE RebuildOrder'
  BY <1>2, <1>9 DEF RebuildWrite, RebuildOrder
<1> QED
  BY <1>4, <1>5, <1>6, <1>7, <1>8, <1>9
     DEF Next, Client, Worker, Rebuild, Change, Send, StartBatch, Stopped, Stop, ReadEntry,
     WriteEntry, ApplyFails, vars

\* No worker has anything to do while nothing is on its way.
LEMMA QuietWorkers ==
  ASSUME TypeOK, Quiet, NEW i \in Instances
  PROVE  /\ ~StartBatch(i)
         /\ \A d \in Dirs : ~ReadEntry(i, d) /\ ~WriteEntry(i, d) /\ ~ApplyFails(i, d)
         /\ Stop(i) \/ Stopped(i) => Quiet' /\ UNCHANGED <<entry, rebuild, art, calm>>
<1>1. batch[i] = Nothing /\ buf[i] = Nothing /\ chan[i] = Nothing
  BY DEF Quiet, Resting
<1>2. \A d \in Dirs : batch[i][d] = None /\ seen[i][d] = Unread
  BY <1>1 DEF Nothing, TypeOK
<1>3. Merge(chan[i], buf[i]) = Nothing
  BY <1>1 DEF Merge, Plus, Nothing
<1>4. Stop(i) \/ Stopped(i) => Quiet' /\ UNCHANGED <<entry, rebuild, art, calm>>
  BY <1>1 DEF Stop, Stopped, Quiet, Resting, TypeOK, repo
<1> QED
  BY <1>1, <1>2, <1>3, <1>4 DEF StartBatch, ReadEntry, WriteEntry, ApplyFails

\* Where no path in use is, there is no entry, and none is due.
LEMMA UnusedSays ==
  ASSUME TypeOK, WithinUse, NEW d \in Dirs \ UsedDirs
  PROVE  Says(entry[d], found, d)
<1>1. Below(found, d) = {}
  BY Used DEF WithinUse, Below
<1>2. CountOf(found, d) = 0
  BY <1>1, CountBelow
<1> QED
  BY <1>2 DEF WithinUse, Says, EntryOf

LEMMA HoldsStep == RebuildInv /\ [Next]_vars => RebuildHolds'
<1> SUFFICES ASSUME RebuildInv, [Next]_vars, calm' PROVE RebuildHolds'
  BY DEF RebuildHolds
<1>1. TypeOK /\ WithinUse /\ RebuildOrder /\ RebuildHolds
  BY DEF RebuildInv
<1>2. CASE calm /\ Quiet' /\ UNCHANGED <<entry, rebuild, art, calm>>
  BY <1>1, <1>2 DEF RebuildHolds, rebuild, Says, EntryOf, CountOf, BytesOf, Below
<1>3. ASSUME NEW c \in Clients, Client(c) PROVE RebuildHolds'
  BY <1>1, <1>3 DEF Client, Change, Send, RebuildHolds, Quiet
<1>4. ASSUME NEW i \in Instances,
             Worker(i) \/ Stop(i) \/ \E d \in Dirs : ApplyFails(i, d)
      PROVE  RebuildHolds'
  <2>1. calm /\ Quiet
    BY <1>1, <1>4 DEF Worker, StartBatch, Stopped, Stop, ReadEntry, WriteEntry, ApplyFails, repo,
       RebuildHolds
  <2>2. Quiet' /\ UNCHANGED <<entry, rebuild, art, calm>>
    BY <1>1, <1>4, <2>1, QuietWorkers DEF Worker
  <2> QED
    BY <1>2, <2>1, <2>2
<1>5. CASE RebuildStart
  <2>1. Quiet /\ Quiet'
    BY <1>5 DEF RebuildStart, workers, Quiet, Resting
  <2>2. \A p \in Paths \ toRead' : found'[p] = art'[p]
    BY <1>1, <1>5 DEF RebuildStart, WithinUse
  <2>3. \A d \in Dirs \ toRead' : Says(entry[d], found, d)
    BY <1>1, <1>5, UnusedSays DEF RebuildStart
  <2> QED
    BY <1>5, <2>1, <2>2, <2>3 DEF RebuildStart, RebuildHolds, Says, EntryOf, CountOf, BytesOf, Below
<1>6. ASSUME NEW p \in Paths, RebuildRead(p) PROVE RebuildHolds'
  <2>1. calm /\ Quiet /\ Quiet' /\ art' = art /\ entry' = entry /\ toWrite' = toWrite
    BY <1>1, <1>6 DEF RebuildRead, repo, workers, RebuildHolds, Quiet, Resting
  <2>2. TypeOK' /\ WithinUse'
    BY TypeStep, UseStep DEF RebuildInv
  <2>3. \A q \in Paths \ toRead' : found'[q] = art'[q]
    BY <1>1, <1>6, <2>1 DEF RebuildRead, RebuildHolds, TypeOK
  <2>4. UsedDirs \subseteq toRead' /\ UsedDirs' = UsedDirs
    <3>1. UsedDirs \subseteq toRead /\ UsedDirs' = UsedDirs
      BY <1>1, <1>6, UsedSame DEF RebuildRead, repo, RebuildOrder
    <3>2. p \notin UsedDirs
      BY <1>1, Used, DirAssumption
    <3> QED
      BY <1>6, <3>1, <3>2 DEF RebuildRead
  <2>6. ASSUME NEW d \in Dirs \ UsedDirs' PROVE Says(entry[d], found, d)'
    <3>1. Below(found', d) = {}
      <4>1. \A q \in Paths : found'[q] # 0 => q \in UsedPaths
        <5>1. UsedPaths' = UsedPaths
          BY <1>6, UsedSame DEF RebuildRead, repo
        <5> QED
          BY <2>2, <5>1 DEF WithinUse
      <4>2. \A q \in UsedPaths : d \notin Above[DirOf[q]]
        BY <1>1, <2>4, Used
      <4> QED
        BY <4>1, <4>2 DEF Below
    <3>2. CountOf(found', d) = 0
      BY <3>1, CountBelow
    <3> QED
      BY <2>2, <3>2 DEF WithinUse, Says, EntryOf, CountOf, Below
  <2> QED
    BY <1>6, <2>1, <2>3, <2>4, <2>6 DEF RebuildHolds
<1>7. ASSUME NEW d \in Dirs, RebuildDiff(d) PROVE RebuildHolds'
  <2>1. /\ calm /\ Quiet /\ Quiet' /\ art' = art /\ entry' = entry /\ found' = found
        /\ task = "scan"
    BY <1>1, <1>7 DEF RebuildDiff, repo, workers, RebuildHolds, Quiet, Resting
  <2>2. \A e \in Dirs : Says(entry[e], found, e)' <=> Says(entry[e], found, e)
    BY <2>1 DEF Says, EntryOf, CountOf, BytesOf, Below
  <2>3. \A e \in Dirs \ (toRead' \cup toWrite') : Says(entry[e], found, e)
    BY <1>1, <1>7, <2>1 DEF RebuildDiff, RebuildHolds
  <2>4. \A p \in Paths \ toRead' : found'[p] = art'[p]
    <3>1. d \notin Paths
      BY DirAssumption
    <3> QED
      BY <1>1, <1>7, <2>1, <3>1 DEF RebuildDiff, RebuildHolds
  <2> QED
    BY <2>1, <2>2, <2>3, <2>4 DEF RebuildHolds
<1>8. ASSUME NEW d \in Dirs, RebuildWrite(d) PROVE RebuildHolds'
  <2>1. /\ calm /\ Quiet /\ Quiet' /\ art' = art /\ found' = found /\ toRead' = toRead
        /\ task = "write"
    BY <1>1, <1>8 DEF RebuildWrite, repo, workers, RebuildHolds, Quiet, Resting
  <2> DEFINE v == IF entry[d] = None THEN 1 ELSE entry[d].ver + 1
  <2>2. v \in Nat
    BY <1>1 DEF TypeOK, Entry
  <2>3. entry' = [entry EXCEPT ![d] = EntryOf(found, d, v)]
    BY <1>8 DEF RebuildWrite
  <2> HIDE DEF v
  <2>4. Says(EntryOf(found, d, v), found, d)
    BY <1>1, <2>2, EntrySays DEF TypeOK
  <2>5. ASSUME NEW e \in Dirs \ (toRead' \cup toWrite') PROVE Says(entry'[e], found, e)
    <3>1. CASE e = d
      BY <1>1, <2>3, <2>4, <3>1 DEF TypeOK
    <3>2. CASE e # d
      <4>1. entry'[e] = entry[e] /\ e \in Dirs \ (toRead \cup toWrite)
        BY <1>1, <1>8, <2>1, <2>3, <3>2 DEF RebuildWrite, TypeOK
      <4> QED
        BY <1>1, <2>1, <4>1 DEF RebuildHolds
    <3> QED
      BY <3>1, <3>2
  <2>6. \A e \in Dirs : Says(entry[e], found, e)' <=> Says(entry'[e], found, e)
    BY <2>1 DEF Says, EntryOf, CountOf, BytesOf, Below
  <2> QED
    BY <1>1, <2>1, <2>5, <2>6 DEF RebuildHolds
<1>9. CASE RebuildEnd \/ RebuildFails
  <2>1. /\ calm /\ Quiet' /\ UNCHANGED <<entry, art, found, toRead, toWrite>>
        /\ task \in {"scan", "write"}
    BY <1>1, <1>9 DEF RebuildEnd, RebuildFails, repo, workers, RebuildHolds, Quiet, Resting
  <2> QED
    BY <1>1, <2>1 DEF RebuildHolds, Says, EntryOf, CountOf, BytesOf, Below
<1>10. CASE UNCHANGED vars
  <2>1. calm /\ Quiet' /\ UNCHANGED <<entry, rebuild, art, calm>>
    BY <1>1, <1>10 DEF vars, repo, workers, RebuildHolds, Quiet, Resting
  <2> QED
    BY <1>2, <2>1
<1> QED
  BY <1>3, <1>4, <1>5, <1>6, <1>7, <1>8, <1>9, <1>10 DEF Next, Rebuild

LEMMA RebuildAlways == Spec => []RebuildInv
<1>1. Init => RebuildInv
  <2> SUFFICES ASSUME Init PROVE RebuildInv
    OBVIOUS
  <2>1. RebuildOrder /\ RebuildHolds
    BY DEF Init, RebuildOrder, RebuildHolds
  <2> QED
    BY <2>1, TypeInit, UseInit DEF RebuildInv
<1>2. RebuildInv /\ [Next]_vars => RebuildInv'
  <2> SUFFICES ASSUME RebuildInv, [Next]_vars PROVE RebuildInv'
    OBVIOUS
  <2>1. TypeOK
    BY DEF RebuildInv
  <2> QED
    BY <2>1, TypeStep, UseStep, OrderStep, HoldsStep DEF RebuildInv
<1> QED
  BY <1>1, <1>2, PTL DEF Spec

\* A rebuild during which nothing is on its way repairs every entry, whatever
\* they were before: the counts that were clamped, the deltas that were lost and
\* the versions that were used again leave no trace.
THEOREM RebuildRepairs == Spec => []RebuildReconciles
<1>1. RebuildInv => RebuildReconciles
  <2> SUFFICES ASSUME RebuildInv, task = "done", calm PROVE Exact
    BY DEF RebuildReconciles
  <2>1. toRead = {} /\ toWrite = {}
    BY DEF RebuildInv, RebuildOrder
  <2>2. found = art
    BY <2>1 DEF RebuildInv, RebuildHolds, TypeOK
  <2> QED
    BY <2>1, <2>2 DEF RebuildInv, RebuildHolds, Exact
<1> QED
  BY <1>1, RebuildAlways, PTL

-----------------------------------------------------------------------------
(* What lies below a directory, and which of it an instance deals with.    *)

Fields == {"n", "b"}
Value(f, size) == IF f = "n" THEN (IF size = 0 THEN 0 ELSE 1) ELSE size
States == [Paths -> Sizes \cup {0}]

PathsIn(d) == {p \in Paths : d \in Above[DirOf[p]]}
Share(i, d) == PathsIn(d) \cap PathsOf(i)

Total(a, S, f) == SumOf([p \in S |-> Value(f, a[p])], S)

LEMMA ValueType ==
  ASSUME NEW a \in States, NEW p \in Paths, NEW f \in Fields
  PROVE  Value(f, a[p]) \in Nat /\ a[p] \in Nat
<1>1. Sizes \subseteq Nat
  BY DirAssumption
<1>2. a[p] \in Nat
  <2>1. Sizes \cup {0} \subseteq Nat
    BY <1>1
  <2>2. a[p] \in Sizes \cup {0}
    BY DEF States
  <2> QED
    BY <2>1, <2>2
<1> QED
  BY <1>2 DEF Value

LEMMA TotalType ==
  ASSUME NEW a \in States, NEW S \in SUBSET Paths, NEW f \in Fields
  PROVE  /\ Total(a, S, f) \in Nat
         /\ IsFiniteSet(S) /\ \A p \in S : [q \in S |-> Value(f, a[q])][p] \in Int
<1>1. IsFiniteSet(S)
  BY DirAssumption, FS_Subset
<1>2. \A p \in S : [q \in S |-> Value(f, a[q])][p] \in Nat
  BY ValueType
<1> QED
  BY <1>1, <1>2, SumNat DEF Total

LEMMA TotalSame ==
  ASSUME NEW a \in States, NEW b \in States, NEW S \in SUBSET Paths, NEW f \in Fields,
         \A p \in S : a[p] = b[p]
  PROVE  Total(a, S, f) = Total(b, S, f)
<1>1. [p \in S |-> Value(f, a[p])] = [p \in S |-> Value(f, b[p])]
  OBVIOUS
<1> QED
  BY <1>1 DEF Total

LEMMA TotalSplit ==
  ASSUME NEW a \in States, NEW S \in SUBSET Paths, NEW f \in Fields, NEW T \in SUBSET S
  PROVE  Total(a, S, f) = Total(a, T, f) + Total(a, S \ T, f)
<1> DEFINE g == [p \in S |-> Value(f, a[p])]
<1>1. IsFiniteSet(S) /\ \A p \in S : g[p] \in Int
  BY TotalType
<1>2. SumOf(g, S) = SumOf(g, T) + SumOf(g, S \ T)
  BY <1>1, SumSplit
<1>3. SumOf(g, T) = Total(a, T, f)
  <2>1. IsFiniteSet(T) /\ \A p \in T : g[p] \in Int /\ [q \in T |-> Value(f, a[q])][p] = g[p]
    BY <1>1, FS_Subset
  <2> HIDE DEF g
  <2> QED
    BY <2>1, SumSame DEF Total
<1>4. SumOf(g, S \ T) = Total(a, S \ T, f)
  <2>1. /\ IsFiniteSet(S \ T)
        /\ \A p \in S \ T : g[p] \in Int /\ [q \in S \ T |-> Value(f, a[q])][p] = g[p]
    BY <1>1, FS_Subset
  <2> HIDE DEF g
  <2> QED
    BY <2>1, SumSame DEF Total
<1> QED
  BY <1>2, <1>3, <1>4 DEF Total

\* a and b differ in T only.
LEMMA TotalChange ==
  ASSUME NEW a \in States, NEW b \in States, NEW S \in SUBSET Paths, NEW f \in Fields,
         NEW T \in SUBSET S, \A p \in S \ T : b[p] = a[p]
  PROVE  Total(b, S, f) = Total(a, S, f) - Total(a, T, f) + Total(b, T, f)
<1>1. /\ Total(a, S, f) = Total(a, T, f) + Total(a, S \ T, f)
      /\ Total(b, S, f) = Total(b, T, f) + Total(b, S \ T, f)
  BY TotalSplit
<1>2. Total(a, S \ T, f) = Total(b, S \ T, f)
  BY TotalSame
<1>3. /\ Total(a, T, f) \in Nat /\ Total(a, S \ T, f) \in Nat /\ Total(a, S, f) \in Nat
      /\ Total(b, T, f) \in Nat /\ Total(b, S \ T, f) \in Nat /\ Total(b, S, f) \in Nat
  <2>1. T \in SUBSET Paths /\ S \ T \in SUBSET Paths
    OBVIOUS
  <2> QED
    BY <2>1, TotalType
<1> QED
  BY <1>1, <1>2, <1>3

LEMMA TotalOne ==
  ASSUME NEW a \in States, NEW p \in Paths, NEW f \in Fields
  PROVE  Total(a, {p}, f) = Value(f, a[p])
<1> DEFINE g == [q \in {p} |-> Value(f, a[q])]
<1>1. IsFiniteSet({p}) /\ \A q \in {p} : g[q] \in Int
  BY TotalType
<1>2. SumOf(g, {p}) = SumOf(g, {p} \ {p}) + g[p]
  BY <1>1, SumMore
<1>3. {p} \ {p} = {} /\ g[p] = Value(f, a[p]) /\ Value(f, a[p]) \in Nat
  BY ValueType
<1> QED
  BY <1>2, <1>3, SumEmpty DEF Total

\* CountOf and BytesOf are totals; without an artifact there are no bytes.
LEMMA TotalBelow ==
  ASSUME NEW a \in States, NEW d
  PROVE  /\ CountOf(a, d) = Total(a, PathsIn(d), "n")
         /\ BytesOf(a, d) = Total(a, PathsIn(d), "b")
         /\ Total(a, PathsIn(d), "n") = 0 => Total(a, PathsIn(d), "b") = 0
<1> DEFINE S == PathsIn(d)
           B == Below(a, d)
           ones == [p \in S |-> Value("n", a[p])]
           sizes == [p \in S |-> Value("b", a[p])]
<1>1. B \in SUBSET S /\ S \in SUBSET Paths /\ IsFiniteSet(S) /\ IsFiniteSet(B)
  <2>1. B \in SUBSET S /\ S \in SUBSET Paths
    BY DEF Below, PathsIn
  <2> QED
    BY <2>1, DirAssumption, FS_Subset
<1>2. \A p \in S : ones[p] \in Int /\ sizes[p] \in Int
  BY <1>1, TotalType DEF Fields
<1>3. \A p \in B : sizes[p] = a[p]
  BY <1>1 DEF Value
<1>4. \A p \in S \ B : sizes[p] = 0
  BY DEF Value, Below, PathsIn
<1>5. SumOf(a, B) = SumOf(sizes, S)
  <2> HIDE DEF sizes, B, S
  <2> QED
    BY <1>1, <1>2, <1>3, <1>4, SumSupport
<1>6. SumOf(ones, S) = Cardinality(B)
  <2>1. Pairs(ones, S) = B \X {1}
    BY DEF Pairs, Below, PathsIn, Value
  <2>2. Pairs(Minus(ones, S), S) = {}
    BY DEF Pairs, Minus, Value
  <2>3. Cardinality(B \X {1}) = Cardinality(B) * Cardinality({1})
    BY <1>1, FS_Singleton, FS_Product
  <2>4. Cardinality({1}) = 1 /\ Cardinality(B) \in Nat
    BY <1>1, FS_Singleton, FS_CardinalityType
  <2>5. SumOf(ones, S) = Weight(ones, S)
    BY <1>1, <1>2, SumIsWeight
  <2>6. Cardinality(Pairs(ones, S)) = Cardinality(B)
    <3>1. Cardinality(B) * 1 = Cardinality(B)
      BY <2>4
    <3> HIDE DEF ones, B
    <3> QED
      BY <2>1, <2>3, <2>4, <3>1
  <2>7. Cardinality(Pairs(Minus(ones, S), S)) = 0
    BY <2>2, FS_EmptySet
  <2> QED
    BY <2>4, <2>5, <2>6, <2>7 DEF Weight
<1>7. CountOf(a, d) = Total(a, S, "n") /\ BytesOf(a, d) = Total(a, S, "b")
  BY <1>5, <1>6 DEF CountOf, BytesOf, Total
<1>8. CountOf(a, d) = 0 => BytesOf(a, d) = 0
  BY CountBelow, SumEmpty DEF BytesOf
<1> QED
  BY <1>7, <1>8

-----------------------------------------------------------------------------
(* Conserved.  The deltas that are on their way at one moment belong to     *)
(* states of the artifacts at earlier moments: told[d] is the state that    *)
(* the deltas sent to directory d amount to, taken[d] the one up to the end *)
(* of the batches, done[d] the one that the entry of d has.  What a worker  *)
(* has for d is the difference of two of them, in the paths of its          *)
(* instance, so that an entry and a batch always add up to a count of       *)
(* artifacts, and never to less than nothing.                               *)

Ghost == [Dirs -> States]

\* What a client has yet to send is the change of one of its paths.
HeldFits(told) ==
    \A c \in Clients :
      IF held[c] = None THEN \A p \in load.paths[c] : told[DirOf[p]][p] = art[p]
      ELSE \E p \in load.paths[c] :
             /\ held[c].dir = DirOf[p]
             /\ \A f \in Fields :
                  held[c].delta[f] = Value(f, art[p]) - Value(f, told[DirOf[p]][p])
             /\ \A q \in load.paths[c] \ {p} : told[DirOf[q]][q] = art[q]

BufFits(told, taken) ==
    \A i \in Instances, d \in Dirs :
      /\ \A f \in Fields : Amount(chan[i][d], f) + Amount(buf[i][d], f) =
                             Total(told[d], Share(i, d), f) - Total(taken[d], Share(i, d), f)
      /\ chan[i][d] = None /\ buf[i][d] = None => \A p \in Share(i, d) : told[d][p] = taken[d][p]

BatchFits(taken, done) ==
    \A i \in Instances, d \in Dirs :
      /\ \A f \in Fields : Amount(batch[i][d], f) =
                             Total(taken[d], Share(i, d), f) - Total(done[d], Share(i, d), f)
      /\ batch[i][d] = None => \A p \in Share(i, d) : taken[d][p] = done[d][p]

EntryFits(done) ==
    \A d \in Dirs, f \in Fields : Amount(entry[d], f) = Total(done[d], PathsIn(d), f)

\* What is applied to a directory is passed on to its parent.
Linked(told, done) ==
    \A d \in Dirs \ {Root} : \A p \in PathsIn(d) : told[Parent[d]][p] = done[d][p]

KeptFits(done) == \A d \in Dirs, p \in load.keep : done[d][p] = 1

Traced(told, taken, done) ==
    /\ HeldFits(told) /\ BufFits(told, taken) /\ BatchFits(taken, done)
    /\ EntryFits(done) /\ Linked(told, done) /\ KeptFits(done)

\* An instance has deltas only for the directories above its paths.
Sharing ==
    \A i \in Instances, d \in Dirs :
      chan[i][d] # None \/ buf[i][d] # None \/ batch[i][d] # None => Share(i, d) # {}

\* An entry that was read and has still its version is still the same.
SeenFits ==
    \A i \in Instances, d \in Dirs :
      seen[i][d] # Unread =>
        IF Kept(d)
        THEN /\ seen[i][d] # None /\ entry[d] # None
             /\ seen[i][d].ver <= entry[d].ver
             /\ seen[i][d].ver = entry[d].ver => seen[i][d] = entry[d]
        ELSE seen[i][d] = entry[d]

Balanced ==
    \A d \in Dirs, f \in Fields :
      Amount(entry[d], f) + Pending(d, f) = Total(art, PathsIn(d), f)

SteadyInv ==
    Steady => /\ task = "idle" /\ \A i \in Instances : mode[i] = "run"
              /\ Sharing /\ SeenFits /\ Balanced
              /\ \E told, taken, done \in Ghost : Traced(told, taken, done)

LEMMA AmountType ==
  ASSUME NEW x \in Delta \cup Entry \cup {None}, NEW f \in Fields
  PROVE  Amount(x, f) \in Int
<1>1. CASE x \in Delta
  BY <1>1 DEF Amount, Delta, Fields
<1>2. CASE x \in Entry
  BY <1>2 DEF Amount, Entry, Fields
<1> QED
  BY <1>1, <1>2 DEF Amount

LEMMA PlusAmount ==
  ASSUME NEW x \in Delta \cup {None}, NEW y \in Delta \cup {None}
  PROVE  /\ \A f \in Fields : Amount(Plus(x, y), f) = Amount(x, f) + Amount(y, f)
         /\ Plus(x, y) \in Delta \cup {None}
         /\ Plus(x, y) = None <=> x = None /\ y = None
<1>1. None \notin Delta
  BY DirAssumption
<1>2. CASE x \in Delta /\ y \in Delta
  <2>1. Plus(x, y) = [n |-> x.n + y.n, b |-> x.b + y.b]
    BY <1>1, <1>2 DEF Plus
  <2>2. Plus(x, y) \in Delta
    BY <1>2, <2>1 DEF Delta
  <2>3. /\ Amount(Plus(x, y), "n") = Amount(x, "n") + Amount(y, "n")
        /\ Amount(Plus(x, y), "b") = Amount(x, "b") + Amount(y, "b")
    BY <1>1, <1>2, <2>1, <2>2 DEF Amount
  <2> QED
    BY <1>1, <1>2, <2>2, <2>3 DEF Fields
<1>3. CASE x = None
  BY <1>3, AmountType DEF Plus, Amount
<1>4. CASE y = None
  BY <1>4, AmountType DEF Plus, Amount
<1> QED
  BY <1>2, <1>3, <1>4

LEMMA Shares ==
  /\ \A d \in Dirs : PathsIn(d) \in SUBSET Paths /\ IsFiniteSet(PathsIn(d))
  /\ \A i \in Instances, d \in Dirs :
       Share(i, d) \in SUBSET PathsIn(d) /\ Share(i, d) \in SUBSET Paths
  /\ \A p \in Paths : p \in PathsIn(DirOf[p]) /\ DirOf[p] \in Dirs
  /\ \A d \in Dirs \ {Root} : Parent[d] \in Dirs /\ Parent[d] # d /\ PathsIn(d) \subseteq PathsIn(Parent[d])
<1>1. \A d \in Dirs : d \in Above[d]
  BY DirAssumption
<1>2. \A d \in Dirs : PathsIn(d) \in SUBSET Paths /\ IsFiniteSet(PathsIn(d))
  <2>1. \A d \in Dirs : PathsIn(d) \in SUBSET Paths
    BY DEF PathsIn
  <2> QED
    BY <2>1, DirAssumption, FS_Subset
<1>3. ASSUME NEW d \in Dirs \ {Root}
      PROVE  Parent[d] \in Dirs /\ Parent[d] # d /\ PathsIn(d) \subseteq PathsIn(Parent[d])
  <2>1. Parent[d] \in Dirs /\ Parent[d] # d /\ Parent[d] \in Above[d]
    BY <1>1, DirAssumption
  <2> QED
    BY <2>1, DirAssumption DEF PathsIn
<1> QED
  BY <1>1, <1>2, <1>3, DirAssumption DEF Share, PathsIn

\* A path is not below two directories of one parent, nor in the parent of a
\* directory that it is below.
LEMMA Siblings ==
  ASSUME NEW x \in Dirs \ {Root}, NEW p \in PathsIn(x)
  PROVE  /\ DirOf[p] # Parent[x]
         /\ \A y \in Dirs \ {Root} : p \in PathsIn(y) /\ Parent[y] = Parent[x] => y = x
<1>1. p \in Paths /\ DirOf[p] \in Dirs /\ x \in Above[DirOf[p]]
  BY DirAssumption DEF PathsIn
<1>2. ASSUME NEW y \in Dirs \ {Root}, p \in PathsIn(y), Parent[y] = Parent[x], y # x PROVE FALSE
  <2>1. x \in Above[y] \/ y \in Above[x]
    BY <1>1, <1>2, DirAssumption DEF PathsIn
  <2> QED
    BY <1>2, <2>1, DirAssumption
<1> QED
  BY <1>1, <1>2, DirAssumption

\* While nothing is shared, no two instances have a path in common.
LEMMA Apart ==
  ASSUME TypeOK, Steady, NEW c \in Clients, NEW p \in load.paths[c]
  PROVE  /\ load.on[c] \in Instances /\ p \in Paths /\ p \in PathsOf(load.on[c])
         /\ \A e \in Clients : p \in load.paths[e] => e = c
         /\ \A i \in Instances : p \in PathsOf(i) => i = load.on[c]
         /\ p \notin load.keep
<1>1. load \in Workload /\ load \in Workloads
  BY DirAssumption DEF TypeOK
<1> QED
  BY <1>1, DirAssumption DEF Workload, Steady, PathsOf

LEMMA SharesApart ==
  ASSUME TypeOK, Steady, NEW i \in Instances, NEW j \in Instances, NEW p \in PathsOf(i)
  PROVE  (p \in PathsOf(j) => i = j) /\ p \notin load.keep /\ p \in Paths
<1>1. PICK c \in Clients : load.on[c] = i /\ p \in load.paths[c]
  BY DEF PathsOf
<1> QED
  BY <1>1, Apart

-----------------------------------------------------------------------------
(* The steps that there are while the workload is steady, by what they do.  *)

Up(x) == {y \in Dirs : x # Root /\ y = Parent[x]}

\* The delta of x leaves the batch of i for the buffers of the directories in to.
Leaves(i, x, to) ==
    /\ batch[i][x] # None
    /\ \A j \in Instances, e \in Dirs :
         /\ batch'[j][e] = IF j = i /\ e = x THEN None ELSE batch[j][e]
         /\ seen'[j][e] = IF j = i /\ e = x THEN Unread ELSE seen[j][e]
         /\ buf'[j][e] = IF j = i /\ e \in to THEN Plus(buf[j][e], batch[i][x]) ELSE buf[j][e]
    /\ UNCHANGED <<art, held, chan>>

Retried(i, x) == Leaves(i, x, {x}) /\ entry' = entry

Applied(i, x) ==
    /\ Leaves(i, x, Up(x))
    /\ entry' = [entry EXCEPT ![x] = Updated(entry[x], batch[i][x])]

HasRead(i, x) ==
    /\ batch[i][x] # None
    /\ seen' = [seen EXCEPT ![i][x] = entry[x]]
    /\ UNCHANGED <<art, held, chan, buf, batch, entry>>

Untouched == UNCHANGED <<art, held, chan, buf, batch, seen, entry>>

LEMMA LeavesBatch ==
  ASSUME TypeOK, NEW i \in Instances, NEW x \in Dirs, batch[i][x] # None, mode[i] = "run",
         UNCHANGED <<art, held>>
  PROVE  /\ Through(i, x, Requeue(i, x)) => Leaves(i, x, {x})
         /\ Through(i, x, Propagate(i, x)) => Leaves(i, x, Up(x))
<1>1. buf \in [Instances -> Deltas] /\ batch[i][x] \in Delta \cup {None}
  BY DEF TypeOK, Deltas
<1>2. \A e \in Dirs : Requeue(i, x)[e] = IF e = x THEN batch[i][x] ELSE None
  BY DEF Requeue, Nothing
<1>3. \A e \in Dirs : Propagate(i, x)[e] = IF e \in Up(x) THEN batch[i][x] ELSE None
  BY DirAssumption DEF Propagate, Nothing, Up
<1>4. Requeue(i, x) \in Deltas /\ Propagate(i, x) \in Deltas
  BY RequeueType
<1>5. \A y : Plus(y, None) = y
  BY DEF Plus
<1>6. ASSUME NEW next \in Deltas, NEW to, \A e \in Dirs : next[e] = IF e \in to THEN batch[i][x] ELSE None,
             Through(i, x, next)
      PROVE  Leaves(i, x, to)
  <2>1. /\ chan' = chan
        /\ \A j \in Instances, e \in Dirs :
             /\ batch'[j][e] = IF j = i /\ e = x THEN None ELSE batch[j][e]
             /\ seen'[j][e] = IF j = i /\ e = x THEN Unread ELSE seen[j][e]
        /\ buf' = [buf EXCEPT ![i] = Merge(buf[i], next)]
    BY <1>6, ThroughType
  <2>2. \A e \in Dirs : Merge(buf[i], next)[e] = Plus(buf[i][e], next[e])
    BY DEF Merge
  <2>3. \A j \in Instances, e \in Dirs :
          buf'[j][e] = IF j = i /\ e \in to THEN Plus(buf[j][e], batch[i][x]) ELSE buf[j][e]
    BY <1>1, <1>5, <1>6, <2>1, <2>2
  <2> QED
    BY <2>1, <2>3 DEF Leaves
<1> QED
  BY <1>2, <1>3, <1>4, <1>6

\* An entry with an artifact that stays is there.
LEMMA KeptEntry ==
  ASSUME TypeOK, NEW done \in Ghost, EntryFits(done), KeptFits(done), NEW d \in Dirs, Kept(d)
  PROVE  entry[d] # None
<1>1. PICK p \in load.keep : d \in Above[DirOf[p]]
  BY DEF Kept
<1>2. p \in PathsIn(d) /\ p \in Paths /\ done[d][p] = 1 /\ done[d] \in States
  BY <1>1, DirAssumption DEF TypeOK, Workload, PathsIn, KeptFits, Ghost
<1>3. Below(done[d], d) # {}
  BY <1>2 DEF Below, PathsIn
<1>4. Total(done[d], PathsIn(d), "n") # 0
  BY <1>2, <1>3, CountBelow, TotalBelow
<1> QED
  BY <1>4 DEF EntryFits, Amount, Fields

LEMMA SeenEntry ==
  ASSUME TypeOK, SeenFits, NEW i \in Instances, NEW d \in Dirs, seen[i][d] # Unread, Same(i, d)
  PROVE  seen[i][d] = entry[d]
  BY DEF SeenFits, Same

LEMMA Effects ==
  ASSUME TypeOK, Steady, SteadyInv, [Next]_vars
  PROVE  /\ UNCHANGED <<load, mode, task>>
         /\ \/ \E c \in Clients, p \in Paths, size \in Sizes \cup {0} : Change(c, p, size)
            \/ \E c \in Clients : Send(c)
            \/ \E i \in Instances : StartBatch(i)
            \/ \E i \in Instances, x \in Dirs : Retried(i, x) \/ Applied(i, x) \/ HasRead(i, x)
            \/ Untouched
<1>1. task = "idle" /\ ~load.rebuild /\ \A i \in Instances : mode[i] = "run" /\ i \notin load.stops
  BY DEF SteadyInv, Steady
<1>2. SeenFits
  BY DEF SteadyInv
<1>3. CASE Rebuild
  BY <1>1, <1>3 DEF Rebuild, RebuildStart, RebuildEnd, RebuildFails, RebuildRead, RebuildDiff,
     RebuildWrite
<1>4. ASSUME NEW i \in Instances PROVE ~Stop(i) /\ ~Stopped(i)
  BY <1>1 DEF Stop, Stopped
<1>5. ASSUME NEW i \in Instances, NEW x \in Dirs, ReadEntry(i, x)
      PROVE  /\ UNCHANGED <<load, mode, task>>
             /\ Retried(i, x) \/ HasRead(i, x)
  <2>1. CASE entry[x] = None /\ batch[i][x].n <= 0
    BY <1>1, <1>5, <2>1, LeavesBatch DEF ReadEntry, Retried, Through, repo, rebuild
  <2>2. CASE ~(entry[x] = None /\ batch[i][x].n <= 0)
    BY <1>5, <2>2 DEF ReadEntry, HasRead, repo, rebuild
  <2> QED
    BY <2>1, <2>2
<1>6. ASSUME NEW i \in Instances, NEW x \in Dirs, WriteEntry(i, x)
      PROVE  /\ UNCHANGED <<load, mode, task>>
             /\ Retried(i, x) \/ Applied(i, x)
  <2>1. batch[i][x] # None /\ seen[i][x] # Unread
    BY <1>6 DEF WriteEntry, TypeOK
  <2>2. CASE Same(i, x)
    <3>1. seen[i][x] = entry[x]
      BY <1>2, <2>1, <2>2, SeenEntry
    <3> QED
      BY <1>1, <1>6, <2>1, <2>2, <3>1, LeavesBatch DEF WriteEntry, Applied, Through, repo, rebuild
  <2>3. CASE ~Same(i, x)
    BY <1>1, <1>6, <2>1, <2>3, LeavesBatch DEF WriteEntry, Retried, Through, repo, rebuild
  <2> QED
    BY <2>2, <2>3
<1>7. ASSUME NEW i \in Instances, NEW x \in Dirs, ApplyFails(i, x)
      PROVE  /\ UNCHANGED <<load, mode, task>>
             /\ Retried(i, x)
  BY <1>1, <1>7, LeavesBatch DEF ApplyFails, Retried, Through, repo, rebuild
<1>8. ASSUME NEW i \in Instances, StartBatch(i) PROVE UNCHANGED <<load, mode, task>>
  BY <1>8 DEF StartBatch, repo, rebuild
<1>9. ASSUME NEW c \in Clients, Client(c)
      PROVE  /\ UNCHANGED <<load, mode, task>>
             /\ \/ \E p \in Paths, size \in Sizes \cup {0} : Change(c, p, size)
                \/ Send(c)
  BY <1>9 DEF Client, Change, Send, workers, rebuild
<1>10. CASE UNCHANGED vars
  BY <1>10 DEF vars, repo, workers, rebuild, Untouched
<1>11. ASSUME NEW i \in Instances, NEW x \in Dirs, ReadEntry(i, x) \/ WriteEntry(i, x) \/ ApplyFails(i, x)
       PROVE  /\ UNCHANGED <<load, mode, task>>
              /\ Retried(i, x) \/ Applied(i, x) \/ HasRead(i, x)
  BY <1>5, <1>6, <1>7, <1>11
<1> QED
  BY <1>3, <1>4, <1>8, <1>9, <1>10, <1>11 DEF Next, Worker

-----------------------------------------------------------------------------
(* Traced, step by step.                                                    *)

\* a, but b on T.
Mix(a, b, T) == [p \in Paths |-> IF p \in T THEN b[p] ELSE a[p]]

LEMMA MixTotal ==
  ASSUME NEW a \in States, NEW b \in States, NEW T, NEW S \in SUBSET Paths, NEW f \in Fields
  PROVE  /\ Total(Mix(a, b, T), S, f) = Total(a, S, f) - Total(a, S \cap T, f) + Total(b, S \cap T, f)
         /\ S \cap T = {} => Total(Mix(a, b, T), S, f) = Total(a, S, f)
         /\ S \subseteq T => Total(Mix(a, b, T), S, f) = Total(b, S, f)
         /\ Total(a, S, f) \in Nat /\ Total(b, S, f) \in Nat
         /\ Total(a, S \cap T, f) \in Nat /\ Total(b, S \cap T, f) \in Nat
<1> DEFINE m == Mix(a, b, T)
<1>1. m \in States /\ \A p \in Paths : m[p] = IF p \in T THEN b[p] ELSE a[p]
  BY DEF Mix, States
<1> HIDE DEF m
<1>2. Total(m, S, f) = Total(a, S, f) - Total(a, S \cap T, f) + Total(m, S \cap T, f)
  BY <1>1, TotalChange
<1>3. Total(m, S \cap T, f) = Total(b, S \cap T, f)
  <2>1. S \cap T \in SUBSET Paths /\ \A p \in S \cap T : m[p] = b[p]
    BY <1>1
  <2> QED
    BY <1>1, <2>1, TotalSame
<1>4. S \cap T = {} => Total(m, S, f) = Total(a, S, f)
  BY <1>1, TotalSame
<1>5. S \subseteq T => Total(m, S, f) = Total(b, S, f)
  BY <1>1, TotalSame
<1>6. /\ Total(a, S, f) \in Nat /\ Total(b, S, f) \in Nat
      /\ Total(a, S \cap T, f) \in Nat /\ Total(b, S \cap T, f) \in Nat
  <2>1. S \cap T \in SUBSET Paths
    OBVIOUS
  <2> QED
    BY <2>1, TotalType
<1> QED
  BY <1>2, <1>3, <1>4, <1>5, <1>6 DEF m

LEMMA MixType ==
  ASSUME NEW a \in States, NEW b \in States, NEW T
  PROVE  Mix(a, b, T) \in States
  BY DEF Mix, States

LEMMA LoadSame ==
  ASSUME load' = load
  PROVE  /\ \A i : PathsOf(i)' = PathsOf(i)
         /\ \A i, d : Share(i, d)' = Share(i, d)
         /\ \A d : Kept(d)' <=> Kept(d)
         /\ Steady' <=> Steady
  BY DEF PathsOf, Share, Kept, Steady

LEMMA TracedChange ==
  ASSUME TypeOK, Steady, NEW told \in Ghost, NEW taken \in Ghost, NEW done \in Ghost,
         Traced(told, taken, done), NEW c \in Clients, NEW p \in Paths, NEW size \in Sizes \cup {0},
         Change(c, p, size)
  PROVE  Traced(told, taken, done)'
<1>1. /\ held[c] = None /\ p \in load.paths[c] /\ load' = load
      /\ art' = [art EXCEPT ![p] = size]
      /\ held' = [held EXCEPT ![c] =
           [dir   |-> DirOf[p],
            delta |-> [n |-> IF size = 0 THEN -1 ELSE IF art[p] = 0 THEN 1 ELSE 0,
                       b |-> size - art[p]]]]
      /\ size = 0 => art[p] # 0
      /\ UNCHANGED <<entry, chan, buf, batch>>
  BY DEF Change, workers
<1>2. art \in [Paths -> Sizes \cup {0}] /\ held \in [Clients -> [dir: Dirs, delta: Delta] \cup {None}]
  BY DEF TypeOK
<1>3. /\ held'[c] = [dir   |-> DirOf[p],
                     delta |-> [n |-> IF size = 0 THEN -1 ELSE IF art[p] = 0 THEN 1 ELSE 0,
                                b |-> size - art[p]]]
      /\ \A e \in Clients \ {c} : held'[e] = held[e]
      /\ \A q \in Paths \ {p} : art'[q] = art[q]
      /\ art'[p] = size
  BY <1>1, <1>2
<1>4. \A e \in Clients : load.paths[e] \subseteq Paths
  BY Apart
<1>5. HeldFits(told)'
  <2> SUFFICES ASSUME NEW e \in Clients
               PROVE  IF held'[e] = None THEN \A q \in load.paths[e] : told[DirOf[q]][q] = art'[q]
                      ELSE \E q \in load.paths[e] :
                             /\ held'[e].dir = DirOf[q]
                             /\ \A f \in Fields :
                                  held'[e].delta[f] = Value(f, art'[q]) - Value(f, told[DirOf[q]][q])
                             /\ \A r \in load.paths[e] \ {q} : told[DirOf[r]][r] = art'[r]
    BY <1>1 DEF HeldFits
  <2>1. CASE e = c
    <3>1. told[DirOf[p]][p] = art[p] /\ \A r \in load.paths[c] \ {p} : told[DirOf[r]][r] = art'[r]
      BY <1>1, <1>3, <1>4 DEF Traced, HeldFits
    <3>2. held'[c] # None
      <4>1. size \in Nat /\ art[p] \in Nat
        <5>1. Sizes \cup {0} \subseteq Nat
          BY DirAssumption
        <5> QED
          BY <1>2, <5>1
      <4>2. held'[c].delta \in Delta
        BY <1>3, <4>1 DEF Delta
      <4>3. held'[c] \in [dir: Dirs, delta: Delta]
        BY <1>3, <4>2, Shares
      <4> QED
        BY <4>3, DirAssumption
    <3>3. \A f \in Fields :
            held'[c].delta[f] = Value(f, art'[p]) - Value(f, told[DirOf[p]][p])
      <4>1. /\ held'[c].delta["n"] = (IF size = 0 THEN -1 ELSE IF art[p] = 0 THEN 1 ELSE 0)
            /\ held'[c].delta["b"] = size - art[p]
        BY <1>3
      <4> QED
        BY <1>1, <1>3, <3>1, <4>1 DEF Fields, Value
    <3> QED
      BY <1>1, <1>3, <2>1, <3>1, <3>2, <3>3
  <2>2. CASE e # c
    <3>1. held'[e] = held[e] /\ \A q \in load.paths[e] : art'[q] = art[q]
      <4>1. p \notin load.paths[e]
        BY <1>1, <2>2, Apart
      <4> QED
        BY <1>3, <1>4, <2>2, <4>1
    <3>2. IF held[e] = None THEN \A q \in load.paths[e] : told[DirOf[q]][q] = art[q]
          ELSE \E q \in load.paths[e] :
                 /\ held[e].dir = DirOf[q]
                 /\ \A f \in Fields :
                      held[e].delta[f] = Value(f, art[q]) - Value(f, told[DirOf[q]][q])
                 /\ \A r \in load.paths[e] \ {q} : told[DirOf[r]][r] = art[r]
      BY DEF Traced, HeldFits
    <3> QED
      BY <3>1, <3>2
  <2> QED
    BY <2>1, <2>2
<1> QED
  BY <1>1, <1>5, LoadSame DEF Traced, BufFits, BatchFits, EntryFits, Linked, KeptFits

LEMMA TracedSend ==
  ASSUME TypeOK, Steady, NEW told \in Ghost, NEW taken \in Ghost, NEW done \in Ghost,
         Traced(told, taken, done), \A i \in Instances : mode[i] = "run",
         NEW c \in Clients, Send(c)
  PROVE  \E now \in Ghost : Traced(now, taken, done)'
<1> DEFINE d == held[c].dir
           i == load.on[c]
<1>1. PICK p \in load.paths[c] :
        /\ d = DirOf[p]
        /\ \A f \in Fields : held[c].delta[f] = Value(f, art[p]) - Value(f, told[DirOf[p]][p])
        /\ \A q \in load.paths[c] \ {p} : told[DirOf[q]][q] = art[q]
  BY DEF Send, Traced, HeldFits
<1>2. /\ held[c] # None /\ held' = [held EXCEPT ![c] = None]
      /\ chan' = [chan EXCEPT ![i][d] = Plus(@, held[c].delta)]
      /\ UNCHANGED <<art, load, entry, buf, batch>>
  BY Apart, <1>1 DEF Send
<1>3. /\ art \in States /\ held \in [Clients -> [dir: Dirs, delta: Delta] \cup {None}]
      /\ chan \in [Instances -> Deltas] /\ buf \in [Instances -> Deltas]
      /\ i \in Instances /\ p \in Paths /\ p \in PathsOf(i)
      /\ \A e \in Clients : load.paths[e] \subseteq Paths
      /\ \A j \in Instances : p \in PathsOf(j) => j = i
  BY <1>1, Apart DEF TypeOK, States
<1>4. d \in Dirs /\ held[c].delta \in Delta
  BY <1>2, <1>3
<1>5. /\ held'[c] = None /\ \A e \in Clients \ {c} : held'[e] = held[e]
      /\ chan'[i][d] = Plus(chan[i][d], held[c].delta)
      /\ \A j \in Instances, e \in Dirs : <<j, e>> # <<i, d>> => chan'[j][e] = chan[j][e]
  BY <1>2, <1>3, <1>4 DEF Deltas
<1>6. chan[i][d] \in Delta \cup {None} /\ held[c].delta # None
  BY <1>3, <1>4, DirAssumption DEF Deltas
<1> HIDE DEF d, i
<1>7. told[d] \in States
  BY <1>4 DEF Ghost
<1>8. PICK now \in Ghost :
        /\ now[d] = Mix(told[d], art, {p}) /\ \A e \in Dirs \ {d} : now[e] = told[e]
        /\ now[d][p] = art[p] /\ \A q \in Paths \ {p} : now[d][q] = told[d][q]
  <2> DEFINE new == [told EXCEPT ![d] = Mix(told[d], art, {p})]
  <2>1. /\ new \in Ghost
        /\ new[d] = Mix(told[d], art, {p}) /\ \A e \in Dirs \ {d} : new[e] = told[e]
    BY <1>3, <1>4, <1>7, MixType DEF Ghost
  <2> HIDE DEF new
  <2>2. new[d][p] = art[p] /\ \A q \in Paths \ {p} : new[d][q] = told[d][q]
    BY <1>3, <2>1 DEF Mix
  <2> QED
    BY <2>1, <2>2
<1>9. HeldFits(now)'
  <2>1. ASSUME NEW e \in Clients, NEW q \in load.paths[e], q # p
        PROVE  now[DirOf[q]][q] = told[DirOf[q]][q]
    BY <1>3, <1>8, <2>1, Shares
  <2>2. now[DirOf[p]][p] = art[p]
    BY <1>1, <1>8
  <2>3. \A e \in Clients : p \in load.paths[e] => e = c
    BY <1>1, Apart
  <2>4. ASSUME NEW e \in Clients
        PROVE  IF held'[e] = None THEN \A q \in load.paths[e] : now[DirOf[q]][q] = art[q]
               ELSE \E q \in load.paths[e] :
                      /\ held'[e].dir = DirOf[q]
                      /\ \A f \in Fields :
                           held'[e].delta[f] = Value(f, art[q]) - Value(f, now[DirOf[q]][q])
                      /\ \A r \in load.paths[e] \ {q} : now[DirOf[r]][r] = art[r]
    <3>1. CASE e = c
      BY <1>1, <1>5, <2>1, <2>2, <3>1
    <3>2. CASE e # c
      <4>1. held'[e] = held[e] /\ \A q \in load.paths[e] : now[DirOf[q]][q] = told[DirOf[q]][q]
        BY <1>5, <2>1, <2>3, <3>2
      <4>2. IF held[e] = None THEN \A q \in load.paths[e] : told[DirOf[q]][q] = art[q]
            ELSE \E q \in load.paths[e] :
                   /\ held[e].dir = DirOf[q]
                   /\ \A f \in Fields :
                        held[e].delta[f] = Value(f, art[q]) - Value(f, told[DirOf[q]][q])
                   /\ \A r \in load.paths[e] \ {q} : told[DirOf[r]][r] = art[r]
        BY DEF Traced, HeldFits
      <4> QED
        BY <4>1, <4>2
    <3> QED
      BY <3>1, <3>2
  <2> QED
    BY <1>2, <2>4 DEF HeldFits
<1>10. BufFits(now, taken)'
  <2>1. ASSUME NEW j \in Instances, NEW e \in Dirs
        PROVE  /\ \A f \in Fields : Amount(chan'[j][e], f) + Amount(buf[j][e], f) =
                                     Total(now[e], Share(j, e), f) - Total(taken[e], Share(j, e), f)
               /\ chan'[j][e] = None /\ buf[j][e] = None =>
                    \A q \in Share(j, e) : now[e][q] = taken[e][q]
    <3>1. /\ \A f \in Fields : Amount(chan[j][e], f) + Amount(buf[j][e], f) =
                                 Total(told[e], Share(j, e), f) - Total(taken[e], Share(j, e), f)
          /\ chan[j][e] = None /\ buf[j][e] = None =>
               \A q \in Share(j, e) : told[e][q] = taken[e][q]
      BY DEF Traced, BufFits
    <3>2. Share(j, e) \in SUBSET Paths /\ now[e] \in States /\ told[e] \in States
      BY <1>8, Shares DEF Ghost
    <3>3. CASE <<j, e>> # <<i, d>>
      <4>1. chan'[j][e] = chan[j][e]
        BY <1>5, <3>3
      <4>2. \A q \in Share(j, e) : now[e][q] = told[e][q]
        BY <1>3, <1>8, <3>2, <3>3 DEF Share
      <4>3. \A f \in Fields : Total(now[e], Share(j, e), f) = Total(told[e], Share(j, e), f)
        BY <3>2, <4>2, TotalSame
      <4> QED
        BY <3>1, <4>1, <4>2, <4>3
    <3>4. CASE j = i /\ e = d
      <4>1. p \in Share(i, d)
        BY <1>1, <1>3, Shares DEF Share
      <4>2. Share(i, d) \cap {p} = {p}
        BY <4>1
      <4>3. ASSUME NEW f \in Fields
            PROVE  Amount(chan'[i][d], f) + Amount(buf[i][d], f) =
                     Total(now[d], Share(i, d), f) - Total(taken[d], Share(i, d), f)
        <5>1. Total(now[d], Share(i, d), f) =
                Total(told[d], Share(i, d), f) - Value(f, told[d][p]) + Value(f, art[p])
          <6>1. Share(i, d) \in SUBSET Paths
            BY <3>2, <3>4
          <6>2. Total(Mix(told[d], art, {p}), Share(i, d), f) =
                  Total(told[d], Share(i, d), f) - Total(told[d], {p}, f) + Total(art, {p}, f)
            BY <1>3, <1>7, <4>2, <6>1, MixTotal
          <6> QED
            BY <1>3, <1>7, <1>8, <6>2, TotalOne
        <5>2. Amount(chan'[i][d], f) = Amount(chan[i][d], f) + held[c].delta[f]
          BY <1>5, <1>6, <1>4, PlusAmount DEF Amount
        <5>3. held[c].delta[f] = Value(f, art[p]) - Value(f, told[d][p])
          BY <1>1
        <5>4. /\ Amount(chan[i][d], f) \in Int /\ Amount(buf[i][d], f) \in Int
              /\ Value(f, art[p]) \in Nat /\ Value(f, told[d][p]) \in Nat
              /\ Total(told[d], Share(i, d), f) \in Nat /\ Total(taken[d], Share(i, d), f) \in Nat
          <6>1. buf[i][d] \in Delta \cup {None} /\ taken[d] \in States
            BY <1>3, <1>4 DEF Deltas, Ghost
          <6> QED
            BY <1>3, <1>6, <1>7, <3>2, <3>4, <6>1, AmountType, ValueType, TotalType
        <5>5. Amount(chan[i][d], f) + Amount(buf[i][d], f) =
                Total(told[d], Share(i, d), f) - Total(taken[d], Share(i, d), f)
          BY <3>1, <3>4
        <5> QED
          BY <5>1, <5>2, <5>3, <5>4, <5>5
      <4>4. chan'[i][d] # None
        BY <1>4, <1>5, <1>6, PlusAmount
      <4> QED
        BY <3>4, <4>3, <4>4
    <3> QED
      BY <3>3, <3>4
  <2> QED
    BY <1>2, <2>1, LoadSame DEF BufFits
<1>11. Linked(now, done)
  <2> SUFFICES ASSUME NEW x \in Dirs \ {Root}, NEW q \in PathsIn(x)
               PROVE  now[Parent[x]][q] = done[x][q]
    BY DEF Linked
  <2>1. told[Parent[x]][q] = done[x][q]
    BY DEF Traced, Linked
  <2>2. ~(q = p /\ Parent[x] = d)
    BY <1>1, Siblings
  <2> QED
    BY <1>8, <2>1, <2>2, Shares
<1> QED
  BY <1>2, <1>8, <1>9, <1>10, <1>11, LoadSame DEF Traced, BatchFits, EntryFits, Linked, KeptFits

\* The paths of an instance are those of no other.
LEMMA SharesOf ==
  ASSUME TypeOK, Steady, NEW i \in Instances, NEW j \in Instances, NEW d \in Dirs
  PROVE  /\ Share(j, d) \in SUBSET Paths
         /\ j # i => Share(j, d) \cap PathsOf(i) = {}
         /\ Share(i, d) \subseteq PathsOf(i)
  BY Shares, SharesApart DEF Share

LEMMA TracedStart ==
  ASSUME TypeOK, Steady, NEW told \in Ghost, NEW taken \in Ghost, NEW done \in Ghost,
         Traced(told, taken, done), \A i \in Instances : mode[i] = "run",
         NEW i \in Instances, StartBatch(i)
  PROVE  \E now \in Ghost : Traced(told, now, done)'
<1>1. /\ batch[i] = Nothing
      /\ batch' = [batch EXCEPT ![i] = Merge(chan[i], buf[i])]
      /\ buf' = [buf EXCEPT ![i] = Nothing] /\ chan' = [chan EXCEPT ![i] = Nothing]
      /\ UNCHANGED <<art, held, load, entry>>
  BY DEF StartBatch, repo
<1>2. /\ batch \in [Instances -> Deltas] /\ buf \in [Instances -> Deltas]
      /\ chan \in [Instances -> Deltas]
  BY DEF TypeOK
<1>3. /\ \A d \in Dirs : /\ batch'[i][d] = Plus(chan[i][d], buf[i][d])
                         /\ buf'[i][d] = None /\ chan'[i][d] = None /\ batch[i][d] = None
      /\ \A j \in Instances \ {i}, d \in Dirs :
           batch'[j][d] = batch[j][d] /\ buf'[j][d] = buf[j][d] /\ chan'[j][d] = chan[j][d]
  BY <1>1, <1>2 DEF Merge, Nothing
<1>4. \A d \in Dirs : told[d] \in States /\ taken[d] \in States /\ done[d] \in States
  BY DEF Ghost
<1>5. PICK now \in Ghost : \A d \in Dirs : now[d] = Mix(taken[d], told[d], PathsOf(i))
  <2> DEFINE new == [d \in Dirs |-> Mix(taken[d], told[d], PathsOf(i))]
  <2>1. new \in Ghost
    BY <1>4, MixType DEF Ghost
  <2> QED
    BY <2>1
<1>6. ASSUME NEW j \in Instances, NEW d \in Dirs
      PROVE  /\ \A p \in Share(j, d) : now[d][p] = IF j = i THEN told[d][p] ELSE taken[d][p]
             /\ \A f \in Fields : Total(now[d], Share(j, d), f) =
                  IF j = i THEN Total(told[d], Share(j, d), f) ELSE Total(taken[d], Share(j, d), f)
  <2>1. now[d] = Mix(taken[d], told[d], PathsOf(i))
    BY <1>5
  <2>2. \A p \in Share(j, d) : now[d][p] = IF j = i THEN told[d][p] ELSE taken[d][p]
    BY <2>1, SharesOf DEF Mix
  <2>3. ASSUME NEW f \in Fields
        PROVE  Total(now[d], Share(j, d), f) =
                 IF j = i THEN Total(told[d], Share(j, d), f) ELSE Total(taken[d], Share(j, d), f)
    BY <1>4, <2>2, SharesOf, TotalSame DEF Ghost
  <2> QED
    BY <2>2, <2>3
<1>7. ASSUME NEW j \in Instances, NEW d \in Dirs
      PROVE  /\ \A f \in Fields : Amount(chan'[j][d], f) + Amount(buf'[j][d], f) =
                   Total(told[d], Share(j, d), f) - Total(now[d], Share(j, d), f)
             /\ chan'[j][d] = None /\ buf'[j][d] = None => \A p \in Share(j, d) : told[d][p] = now[d][p]
  <2>1. CASE j = i
    <3>1. \A f \in Fields : Total(told[d], Share(i, d), f) \in Nat
      BY <1>4, SharesOf, TotalType
    <3> QED
      BY <1>3, <1>6, <2>1, <3>1 DEF Amount
  <2>2. CASE j # i
    BY <1>3, <1>6, <2>2 DEF Traced, BufFits
  <2> QED
    BY <2>1, <2>2
<1>8. ASSUME NEW j \in Instances, NEW d \in Dirs
      PROVE  /\ \A f \in Fields : Amount(batch'[j][d], f) =
                  Total(now[d], Share(j, d), f) - Total(done[d], Share(j, d), f)
             /\ batch'[j][d] = None => \A p \in Share(j, d) : now[d][p] = done[d][p]
  <2>1. CASE j = i
    <3>1. \A p \in Share(i, d) : taken[d][p] = done[d][p]
      BY <1>3 DEF Traced, BatchFits
    <3>2. \A f \in Fields : Total(taken[d], Share(i, d), f) = Total(done[d], Share(i, d), f)
      BY <1>4, <3>1, SharesOf, TotalSame
    <3>3. /\ chan[i][d] \in Delta \cup {None} /\ buf[i][d] \in Delta \cup {None}
          /\ batch'[i][d] = Plus(chan[i][d], buf[i][d])
      BY <1>2, <1>3 DEF Deltas
    <3>4. ASSUME NEW f \in Fields
          PROVE  Amount(batch'[i][d], f) =
                   Total(now[d], Share(i, d), f) - Total(done[d], Share(i, d), f)
      <4>1. Amount(batch'[i][d], f) = Amount(chan[i][d], f) + Amount(buf[i][d], f)
        BY <3>3, PlusAmount
      <4>2. Amount(chan[i][d], f) + Amount(buf[i][d], f) =
              Total(told[d], Share(i, d), f) - Total(taken[d], Share(i, d), f)
        BY DEF Traced, BufFits
      <4> QED
        BY <1>6, <3>2, <4>1, <4>2
    <3>5. ASSUME batch'[i][d] = None PROVE \A p \in Share(i, d) : now[d][p] = done[d][p]
      <4>1. chan[i][d] = None /\ buf[i][d] = None
        BY <3>3, <3>5, PlusAmount
      <4>2. \A p \in Share(i, d) : told[d][p] = taken[d][p]
        BY <4>1 DEF Traced, BufFits
      <4> QED
        BY <1>6, <3>1, <4>2
    <3> QED
      BY <2>1, <3>4, <3>5
  <2>2. CASE j # i
    BY <1>3, <1>6, <2>2 DEF Traced, BatchFits
  <2> QED
    BY <2>1, <2>2
<1>9. BufFits(told, now)' /\ BatchFits(now, done)'
  BY <1>1, <1>7, <1>8, LoadSame DEF BufFits, BatchFits
<1> QED
  BY <1>1, <1>9, LoadSame DEF Traced, HeldFits, EntryFits, Linked, KeptFits

LEMMA TracedRetried ==
  ASSUME TypeOK, Steady, NEW told \in Ghost, NEW taken \in Ghost, NEW done \in Ghost,
         Traced(told, taken, done), load' = load,
         NEW i \in Instances, NEW x \in Dirs, Retried(i, x)
  PROVE  \E now \in Ghost : Traced(told, now, done)'
<1>1. /\ batch[i][x] # None
      /\ \A j \in Instances, e \in Dirs :
           /\ batch'[j][e] = IF j = i /\ e = x THEN None ELSE batch[j][e]
           /\ buf'[j][e] = IF j = i /\ e = x THEN Plus(buf[j][e], batch[i][x]) ELSE buf[j][e]
      /\ UNCHANGED <<art, held, chan, entry>>
  BY DEF Retried, Leaves
<1>2. \A d \in Dirs : told[d] \in States /\ taken[d] \in States /\ done[d] \in States
  BY DEF Ghost
<1>3. PICK now \in Ghost : /\ now[x] = Mix(taken[x], done[x], PathsOf(i))
                           /\ \A d \in Dirs \ {x} : now[d] = taken[d]
  <2> DEFINE new == [taken EXCEPT ![x] = Mix(taken[x], done[x], PathsOf(i))]
  <2>1. new \in Ghost
    BY <1>2, MixType DEF Ghost
  <2> QED
    BY <2>1 DEF Ghost
<1>4. ASSUME NEW j \in Instances, NEW d \in Dirs, <<j, d>> # <<i, x>>
      PROVE  /\ \A p \in Share(j, d) : now[d][p] = taken[d][p]
             /\ \A f \in Fields : Total(now[d], Share(j, d), f) = Total(taken[d], Share(j, d), f)
  <2>1. \A p \in Share(j, d) : now[d][p] = taken[d][p]
    BY <1>3, <1>4, SharesOf DEF Mix
  <2> QED
    BY <1>2, <2>1, SharesOf, TotalSame DEF Ghost
<1>5. /\ \A p \in Share(i, x) : now[x][p] = done[x][p]
      /\ \A f \in Fields : Total(now[x], Share(i, x), f) = Total(done[x], Share(i, x), f)
  <2>1. \A p \in Share(i, x) : now[x][p] = done[x][p]
    BY <1>3, SharesOf DEF Mix
  <2> QED
    BY <1>2, <2>1, SharesOf, TotalSame DEF Ghost
<1>6. ASSUME NEW j \in Instances, NEW d \in Dirs
      PROVE  /\ \A f \in Fields : Amount(chan'[j][d], f) + Amount(buf'[j][d], f) =
                   Total(told[d], Share(j, d), f) - Total(now[d], Share(j, d), f)
             /\ chan'[j][d] = None /\ buf'[j][d] = None => \A p \in Share(j, d) : told[d][p] = now[d][p]
  <2>1. CASE j = i /\ d = x
    <3>1. /\ buf[i][x] \in Delta \cup {None} /\ batch[i][x] \in Delta \cup {None}
          /\ chan[i][x] \in Delta \cup {None}
      BY DEF TypeOK, Deltas
    <3>2. buf'[i][x] = Plus(buf[i][x], batch[i][x]) /\ buf'[i][x] # None
      BY <1>1, <3>1, PlusAmount
    <3>3. ASSUME NEW f \in Fields
          PROVE  Amount(chan[i][x], f) + Amount(buf'[i][x], f) =
                   Total(told[x], Share(i, x), f) - Total(done[x], Share(i, x), f)
      <4>1. Amount(buf'[i][x], f) = Amount(buf[i][x], f) + Amount(batch[i][x], f)
        BY <3>1, <3>2, PlusAmount
      <4>2. /\ Amount(chan[i][x], f) + Amount(buf[i][x], f) =
                 Total(told[x], Share(i, x), f) - Total(taken[x], Share(i, x), f)
            /\ Amount(batch[i][x], f) =
                 Total(taken[x], Share(i, x), f) - Total(done[x], Share(i, x), f)
        BY DEF Traced, BufFits, BatchFits
      <4>3. /\ Amount(chan[i][x], f) \in Int /\ Amount(buf[i][x], f) \in Int
            /\ Total(told[x], Share(i, x), f) \in Nat /\ Total(taken[x], Share(i, x), f) \in Nat
            /\ Total(done[x], Share(i, x), f) \in Nat
        BY <1>2, <3>1, SharesOf, AmountType, TotalType
      <4> QED
        BY <4>1, <4>2, <4>3
    <3> QED
      BY <1>1, <1>5, <2>1, <3>2, <3>3
  <2>2. CASE <<j, d>> # <<i, x>>
    <3>1. buf'[j][d] = buf[j][d]
      BY <1>1, <2>2
    <3> QED
      BY <1>1, <1>4, <2>2, <3>1 DEF Traced, BufFits
  <2> QED
    BY <2>1, <2>2
<1>7. ASSUME NEW j \in Instances, NEW d \in Dirs
      PROVE  /\ \A f \in Fields : Amount(batch'[j][d], f) =
                  Total(now[d], Share(j, d), f) - Total(done[d], Share(j, d), f)
             /\ batch'[j][d] = None => \A p \in Share(j, d) : now[d][p] = done[d][p]
  <2>1. CASE j = i /\ d = x
    <3>1. \A f \in Fields : Total(done[x], Share(i, x), f) \in Nat
      BY <1>2, SharesOf, TotalType
    <3> QED
      BY <1>1, <1>5, <2>1, <3>1 DEF Amount
  <2>2. CASE <<j, d>> # <<i, x>>
    <3>1. batch'[j][d] = batch[j][d]
      BY <1>1, <2>2
    <3> QED
      BY <1>4, <2>2, <3>1 DEF Traced, BatchFits
  <2> QED
    BY <2>1, <2>2
<1>8. BufFits(told, now)' /\ BatchFits(now, done)'
  BY <1>6, <1>7, LoadSame DEF BufFits, BatchFits
<1> QED
  BY <1>1, <1>8, LoadSame DEF Traced, HeldFits, EntryFits, Linked, KeptFits

\* An entry and a batch add up to a state of the artifacts: nothing is clamped.
LEMMA UpdatedFits ==
  ASSUME NEW old \in Entry \cup {None}, NEW x \in Delta, NEW a \in States, NEW d,
         \A f \in Fields : Amount(old, f) + Amount(x, f) = Total(a, PathsIn(d), f)
  PROVE  \A f \in Fields : Amount(Updated(old, x), f) = Total(a, PathsIn(d), f)
<1> DEFINE n == Total(a, PathsIn(d), "n")
           b == Total(a, PathsIn(d), "b")
<1>1. n \in Nat /\ b \in Nat /\ (n = 0 => b = 0)
  <2>1. PathsIn(d) \in SUBSET Paths
    BY DEF PathsIn
  <2> QED
    BY <2>1, TotalType, TotalBelow DEF Fields
<1> HIDE DEF n, b
<1>2. None \notin Delta /\ None \notin Entry /\ x.n \in Int /\ x.b \in Int
  BY DirAssumption DEF Delta
<1>3. /\ (IF old = None THEN 0 ELSE old.n) + x.n = n
      /\ (IF old = None THEN 0 ELSE old.b) + x.b = b
  BY <1>2 DEF Amount, Fields, n, b
<1>4. CASE n = 0
  BY <1>1, <1>3, <1>4 DEF Updated, NotBelow0, Amount, Fields, n, b
<1>5. CASE n # 0
  <2> DEFINE v == IF old = None THEN 1 ELSE old.ver + 1
  <2>1. Updated(old, x) = [n |-> n, b |-> b, ver |-> v]
    BY <1>1, <1>3, <1>5 DEF Updated, NotBelow0
  <2>2. Updated(old, x) # None
    <3>1. v \in Nat
      BY DEF Entry
    <3> HIDE DEF v
    <3> QED
      BY <1>1, <1>2, <2>1, <3>1 DEF Entry
  <2>3. Updated(old, x)["n"] = n /\ Updated(old, x)["b"] = b
    BY <2>1
  <2> QED
    BY <2>2, <2>3 DEF Amount, Fields, n, b
<1> QED
  BY <1>4, <1>5

\* What a worker writes is what the entry and the delta add up to.
LEMMA AppliedAmount ==
  ASSUME TypeOK, Steady, NEW told \in Ghost, NEW taken \in Ghost, NEW done \in Ghost,
         Traced(told, taken, done), NEW i \in Instances, NEW x \in Dirs, Applied(i, x), NEW f \in Fields
  PROVE  /\ Amount(entry'[x], f) = Amount(entry[x], f) + Amount(batch[i][x], f)
         /\ Amount(entry'[x], f) = Total(Mix(done[x], taken[x], PathsOf(i)), PathsIn(x), f)
<1>1. /\ batch[i][x] \in Delta /\ entry[x] \in Entry \cup {None}
      /\ entry'[x] = Updated(entry[x], batch[i][x])
      /\ done[x] \in States /\ taken[x] \in States
  BY DEF TypeOK, Deltas, Applied, Leaves, Ghost
<1>2. PathsIn(x) \in SUBSET Paths /\ PathsIn(x) \cap PathsOf(i) = Share(i, x)
  BY Shares DEF Share
<1>3. Mix(done[x], taken[x], PathsOf(i)) \in States
  BY <1>1, MixType
<1>4. ASSUME NEW g \in Fields
      PROVE  Amount(entry[x], g) + Amount(batch[i][x], g) =
               Total(Mix(done[x], taken[x], PathsOf(i)), PathsIn(x), g)
  <2>1. Total(Mix(done[x], taken[x], PathsOf(i)), PathsIn(x), g) =
          Total(done[x], PathsIn(x), g) - Total(done[x], Share(i, x), g)
            + Total(taken[x], Share(i, x), g)
    BY <1>1, <1>2, MixTotal
  <2>2. /\ Amount(entry[x], g) = Total(done[x], PathsIn(x), g)
        /\ Amount(batch[i][x], g) =
             Total(taken[x], Share(i, x), g) - Total(done[x], Share(i, x), g)
    BY DEF Traced, EntryFits, BatchFits
  <2>3. /\ Total(done[x], PathsIn(x), g) \in Nat
        /\ Total(taken[x], Share(i, x), g) \in Nat /\ Total(done[x], Share(i, x), g) \in Nat
    BY <1>1, <1>2, Shares, TotalType
  <2> QED
    BY <2>1, <2>2, <2>3
<1>5. \A g \in Fields : Amount(Updated(entry[x], batch[i][x]), g) =
        Total(Mix(done[x], taken[x], PathsOf(i)), PathsIn(x), g)
  <2> DEFINE m == Mix(done[x], taken[x], PathsOf(i))
  <2>1. m \in States /\ \A g \in Fields :
          Amount(entry[x], g) + Amount(batch[i][x], g) = Total(m, PathsIn(x), g)
    BY <1>3, <1>4
  <2> HIDE DEF m
  <2>2. \A g \in Fields : Amount(Updated(entry[x], batch[i][x]), g) = Total(m, PathsIn(x), g)
    BY <1>1, <2>1, UpdatedFits
  <2> QED
    BY <2>2 DEF m
<1> QED
  BY <1>1, <1>4, <1>5

LEMMA TracedApplied ==
  ASSUME TypeOK, Steady, NEW told \in Ghost, NEW taken \in Ghost, NEW done \in Ghost,
         Traced(told, taken, done), load' = load,
         NEW i \in Instances, NEW x \in Dirs, Applied(i, x)
  PROVE  \E said, now \in Ghost : Traced(said, taken, now)'
<1>1. /\ batch[i][x] # None
      /\ \A j \in Instances, e \in Dirs :
           /\ batch'[j][e] = IF j = i /\ e = x THEN None ELSE batch[j][e]
           /\ buf'[j][e] = IF j = i /\ e \in Up(x) THEN Plus(buf[j][e], batch[i][x]) ELSE buf[j][e]
      /\ entry' = [entry EXCEPT ![x] = Updated(entry[x], batch[i][x])]
      /\ UNCHANGED <<art, held, chan>>
  BY DEF Applied, Leaves
<1>2. \A d \in Dirs : told[d] \in States /\ taken[d] \in States /\ done[d] \in States
  BY DEF Ghost
<1>3. /\ batch[i][x] \in Delta /\ \A j \in Instances, d \in Dirs :
           /\ chan[j][d] \in Delta \cup {None} /\ buf[j][d] \in Delta \cup {None}
           /\ batch[j][d] \in Delta \cup {None}
      /\ entry \in [Dirs -> Entry \cup {None}]
  BY <1>1 DEF TypeOK, Deltas
<1>4. PICK now \in Ghost : /\ now[x] = Mix(done[x], taken[x], PathsOf(i))
                           /\ \A d \in Dirs \ {x} : now[d] = done[d]
  <2> DEFINE new == [done EXCEPT ![x] = Mix(done[x], taken[x], PathsOf(i))]
  <2>1. new \in Ghost
    BY <1>2, MixType DEF Ghost
  <2> QED
    BY <2>1 DEF Ghost
<1>5. PICK said \in Ghost : \A d \in Dirs :
        said[d] = IF d \in Up(x) THEN Mix(told[d], taken[x], Share(i, x)) ELSE told[d]
  <2> DEFINE new == [d \in Dirs |-> IF d \in Up(x) THEN Mix(told[d], taken[x], Share(i, x))
                                    ELSE told[d]]
  <2>1. new \in Ghost
    BY <1>2, MixType DEF Ghost
  <2> QED
    BY <2>1
<1>6. Up(x) \subseteq Dirs /\ (x # Root => Up(x) = {Parent[x]}) /\ (x = Root => Up(x) = {})
  BY Shares DEF Up
<1>7. \A j \in Instances, d \in Dirs :
        Share(j, d) \in SUBSET Paths /\ Share(j, d) \in SUBSET PathsIn(d)
  BY Shares
<1>8. ASSUME NEW d \in Dirs, NEW p \in Paths
      PROVE  /\ said[d][p] = IF d \in Up(x) /\ p \in Share(i, x) THEN taken[x][p] ELSE told[d][p]
             /\ now[d][p] = IF d = x /\ p \in PathsOf(i) THEN taken[x][p] ELSE done[d][p]
  BY <1>4, <1>5 DEF Mix
<1>9. HeldFits(said)'
  <2>1. ASSUME NEW c \in Clients, NEW p \in load.paths[c]
        PROVE  said[DirOf[p]][p] = told[DirOf[p]][p]
    <3>1. p \in Paths /\ DirOf[p] \in Dirs
      BY Apart, Shares
    <3>2. ~(DirOf[p] \in Up(x) /\ p \in Share(i, x))
      <4>1. CASE x = Root
        BY <1>6, <4>1
      <4>2. CASE x # Root
        BY <1>6, <1>7, <4>2, Siblings
      <4> QED
        BY <4>1, <4>2
    <3> QED
      BY <1>8, <3>1, <3>2
  <2>2. HeldFits(said)
    <3> SUFFICES ASSUME NEW e \in Clients
                 PROVE  IF held[e] = None THEN \A q \in load.paths[e] : said[DirOf[q]][q] = art[q]
                        ELSE \E q \in load.paths[e] :
                               /\ held[e].dir = DirOf[q]
                               /\ \A f \in Fields : held[e].delta[f] =
                                    Value(f, art[q]) - Value(f, said[DirOf[q]][q])
                               /\ \A r \in load.paths[e] \ {q} : said[DirOf[r]][r] = art[r]
      BY DEF HeldFits
    <3>1. IF held[e] = None THEN \A q \in load.paths[e] : told[DirOf[q]][q] = art[q]
          ELSE \E q \in load.paths[e] :
                 /\ held[e].dir = DirOf[q]
                 /\ \A f \in Fields :
                      held[e].delta[f] = Value(f, art[q]) - Value(f, told[DirOf[q]][q])
                 /\ \A r \in load.paths[e] \ {q} : told[DirOf[r]][r] = art[r]
      BY DEF Traced, HeldFits
    <3>2. \A q \in load.paths[e] : said[DirOf[q]][q] = told[DirOf[q]][q]
      BY <2>1
    <3> QED
      BY <3>1, <3>2
  <2> QED
    BY <1>1, <2>2 DEF HeldFits
<1>10. ASSUME NEW j \in Instances, NEW d \in Dirs
       PROVE  /\ \A f \in Fields : Amount(chan'[j][d], f) + Amount(buf'[j][d], f) =
                    Total(said[d], Share(j, d), f) - Total(taken[d], Share(j, d), f)
              /\ chan'[j][d] = None /\ buf'[j][d] = None =>
                   \A p \in Share(j, d) : said[d][p] = taken[d][p]
  <2>1. CASE j = i /\ d \in Up(x)
    <3>1. x \in Dirs \ {Root} /\ d = Parent[x]
      BY <1>6, <2>1
    <3>2. buf'[i][d] = Plus(buf[i][d], batch[i][x]) /\ buf'[i][d] # None
      BY <1>1, <1>3, <2>1, PlusAmount
    <3>3. Share(i, d) \cap Share(i, x) = Share(i, x)
      BY <3>1, Shares DEF Share
    <3>4. \A p \in Share(i, x) : told[d][p] = done[x][p]
      BY <1>7, <3>1 DEF Traced, Linked
    <3>5. ASSUME NEW f \in Fields
          PROVE  Amount(chan[i][d], f) + Amount(buf'[i][d], f) =
                   Total(said[d], Share(i, d), f) - Total(taken[d], Share(i, d), f)
      <4>1. said[d] = Mix(told[d], taken[x], Share(i, x))
        BY <1>5, <2>1
      <4>2. Total(said[d], Share(i, d), f) =
              Total(told[d], Share(i, d), f) - Total(told[d], Share(i, x), f)
                + Total(taken[x], Share(i, x), f)
        BY <1>2, <1>7, <3>3, <4>1, MixTotal
      <4>3. Total(told[d], Share(i, x), f) = Total(done[x], Share(i, x), f)
        BY <1>2, <1>7, <3>4, TotalSame
      <4>4. Amount(buf'[i][d], f) = Amount(buf[i][d], f) + Amount(batch[i][x], f)
        <5>1. buf[i][d] \in Delta \cup {None} /\ batch[i][x] \in Delta \cup {None}
          BY <1>3
        <5> QED
          BY <3>2, <5>1, PlusAmount
      <4>5. /\ Amount(chan[i][d], f) + Amount(buf[i][d], f) =
                 Total(told[d], Share(i, d), f) - Total(taken[d], Share(i, d), f)
            /\ Amount(batch[i][x], f) =
                 Total(taken[x], Share(i, x), f) - Total(done[x], Share(i, x), f)
        BY DEF Traced, BufFits, BatchFits
      <4>6. /\ Amount(chan[i][d], f) \in Int /\ Amount(buf[i][d], f) \in Int
            /\ Total(told[d], Share(i, d), f) \in Nat /\ Total(taken[d], Share(i, d), f) \in Nat
            /\ Total(taken[x], Share(i, x), f) \in Nat /\ Total(done[x], Share(i, x), f) \in Nat
        BY <1>2, <1>3, <1>7, AmountType, TotalType
      <4> QED
        BY <4>2, <4>3, <4>4, <4>5, <4>6
    <3> QED
      BY <1>1, <2>1, <3>2, <3>5
  <2>2. CASE ~(j = i /\ d \in Up(x))
    <3>1. buf'[j][d] = buf[j][d] /\ chan'[j][d] = chan[j][d]
      BY <1>1, <2>2
    <3>2. \A p \in Share(j, d) : said[d][p] = told[d][p]
      <4>1. j # i => Share(j, d) \cap Share(i, x) = {}
        BY SharesOf DEF Share
      <4> QED
        BY <1>7, <1>8, <2>2, <4>1
    <3>3. \A f \in Fields : Total(said[d], Share(j, d), f) = Total(told[d], Share(j, d), f)
      BY <1>2, <1>7, <3>2, TotalSame DEF Ghost
    <3> QED
      BY <3>1, <3>2, <3>3 DEF Traced, BufFits
  <2> QED
    BY <2>1, <2>2
<1>11. ASSUME NEW j \in Instances, NEW d \in Dirs
       PROVE  /\ \A f \in Fields : Amount(batch'[j][d], f) =
                   Total(taken[d], Share(j, d), f) - Total(now[d], Share(j, d), f)
              /\ batch'[j][d] = None => \A p \in Share(j, d) : taken[d][p] = now[d][p]
  <2>1. CASE j = i /\ d = x
    <3>1. \A p \in Share(i, x) : now[x][p] = taken[x][p]
      BY <1>7, <1>8 DEF Share
    <3>2. ASSUME NEW f \in Fields
          PROVE  /\ Total(now[x], Share(i, x), f) = Total(taken[x], Share(i, x), f)
                 /\ Total(taken[x], Share(i, x), f) \in Nat
      BY <1>2, <1>7, <3>1, TotalSame, TotalType DEF Ghost
    <3> QED
      BY <1>1, <2>1, <3>1, <3>2 DEF Amount
  <2>2. CASE <<j, d>> # <<i, x>>
    <3>1. batch'[j][d] = batch[j][d]
      BY <1>1, <2>2
    <3>2. \A p \in Share(j, d) : now[d][p] = done[d][p]
      BY <1>7, <1>8, <2>2, SharesOf
    <3>3. \A f \in Fields : Total(now[d], Share(j, d), f) = Total(done[d], Share(j, d), f)
      BY <1>2, <1>7, <3>2, TotalSame DEF Ghost
    <3> QED
      BY <3>1, <3>2, <3>3 DEF Traced, BatchFits
  <2> QED
    BY <2>1, <2>2
<1>12. EntryFits(now)'
  <2> SUFFICES ASSUME NEW d \in Dirs
               PROVE  \A f \in Fields : Amount(entry'[d], f) = Total(now[d], PathsIn(d), f)
    BY DEF EntryFits
  <2>1. CASE d # x
    BY <1>1, <1>3, <1>4, <2>1 DEF Traced, EntryFits
  <2>2. CASE d = x
    BY <1>4, <2>2, AppliedAmount
  <2> QED
    BY <2>1, <2>2
<1>13. Linked(said, now)
  <2> SUFFICES ASSUME NEW y \in Dirs \ {Root}, NEW p \in PathsIn(y)
               PROVE  said[Parent[y]][p] = now[y][p]
    BY DEF Linked
  <2>1. p \in Paths /\ Parent[y] \in Dirs /\ told[Parent[y]][p] = done[y][p]
    BY Shares DEF Traced, Linked
  <2>2. CASE y = x
    BY <1>6, <1>8, <2>1, <2>2 DEF Share
  <2>3. CASE y # x
    <3>1. ~(Parent[y] \in Up(x) /\ p \in Share(i, x))
      <4>1. CASE x = Root
        BY <1>6, <4>1
      <4>2. CASE x # Root
        BY <1>6, <1>7, <2>3, <4>2, Siblings
      <4> QED
        BY <4>1, <4>2
    <3> QED
      BY <1>8, <2>1, <2>3, <3>1
  <2> QED
    BY <2>2, <2>3
<1>14. KeptFits(now)'
  <2>1. \A d \in Dirs, p \in load.keep : now[d][p] = done[d][p]
    <3>1. load.keep \subseteq Paths /\ \A p \in load.keep : p \notin PathsOf(i)
      BY Used, SharesApart
    <3> QED
      BY <1>8, <3>1
  <2> QED
    BY <2>1 DEF Traced, KeptFits
<1>15. BufFits(said, taken)' /\ BatchFits(taken, now)'
  BY <1>10, <1>11, LoadSame DEF BufFits, BatchFits
<1> QED
  BY <1>9, <1>12, <1>13, <1>14, <1>15 DEF Traced, Linked

-----------------------------------------------------------------------------
(* Balanced, step by step.                                                  *)

Holding(d, f) ==
    [c \in Clients |-> IF held[c] = None \/ d \notin Above[held[c].dir] THEN 0
                       ELSE held[c].delta[f]]

Working(d, f) ==
    [t \in Instances \X Under(d) |->
       Amount(chan[t[1]][t[2]], f) + Amount(buf[t[1]][t[2]], f) + Amount(batch[t[1]][t[2]], f)]

At(i, x, f) == Amount(chan[i][x], f) + Amount(buf[i][x], f) + Amount(batch[i][x], f)

LEMMA PendingSums ==
  ASSUME TypeOK, NEW d \in Dirs, NEW f \in Fields
  PROVE  /\ IsFiniteSet(Clients) /\ IsFiniteSet(Instances \X Under(d)) /\ Under(d) \subseteq Dirs
         /\ \A c \in Clients : Holding(d, f)[c] \in Int
         /\ \A t \in Instances \X Under(d) : Working(d, f)[t] = At(t[1], t[2], f)
         /\ \A i \in Instances, x \in Dirs :
              /\ Amount(chan[i][x], f) \in Int /\ Amount(buf[i][x], f) \in Int
              /\ Amount(batch[i][x], f) \in Int /\ At(i, x, f) \in Int
         /\ \A t \in Instances \X Under(d) : Working(d, f)[t] \in Int
         /\ Pending(d, f) = SumOf(Holding(d, f), Clients)
                              + SumOf(Working(d, f), Instances \X Under(d))
         /\ SumOf(Holding(d, f), Clients) \in Int
         /\ SumOf(Working(d, f), Instances \X Under(d)) \in Int
         /\ Amount(entry[d], f) \in Int
<1>1. IsFiniteSet(Clients) /\ IsFiniteSet(Instances \X Under(d)) /\ Under(d) \subseteq Dirs
  <2>1. Under(d) \in SUBSET Dirs
    BY DEF Under
  <2>2. IsFiniteSet(Under(d))
    BY <2>1, DirAssumption, FS_Subset
  <2> QED
    BY <2>1, <2>2, DirAssumption, FS_Product
<1>2. \A c \in Clients : Holding(d, f)[c] \in Int
  <2> SUFFICES ASSUME NEW c \in Clients, held[c] # None PROVE held[c].delta[f] \in Int
    BY DEF Holding
  <2>1. held[c].delta \in Delta
    BY DEF TypeOK
  <2> QED
    BY <2>1 DEF Delta, Fields
<1>3. ASSUME NEW i \in Instances, NEW x \in Dirs
      PROVE  /\ Amount(chan[i][x], f) \in Int /\ Amount(buf[i][x], f) \in Int
             /\ Amount(batch[i][x], f) \in Int /\ At(i, x, f) \in Int
  <2>1. /\ chan[i][x] \in Delta \cup {None} /\ buf[i][x] \in Delta \cup {None}
        /\ batch[i][x] \in Delta \cup {None}
    BY DEF TypeOK, Deltas
  <2>2. /\ Amount(chan[i][x], f) \in Int /\ Amount(buf[i][x], f) \in Int
        /\ Amount(batch[i][x], f) \in Int
    BY <2>1, AmountType
  <2> QED
    BY <2>2 DEF At
<1>4. \A t \in Instances \X Under(d) : Working(d, f)[t] = At(t[1], t[2], f)
  BY DEF Working, At
<1>5. \A t \in Instances \X Under(d) : Working(d, f)[t] \in Int
  BY <1>1, <1>3, <1>4
<1>6. Pending(d, f) = SumOf(Holding(d, f), Clients) + SumOf(Working(d, f), Instances \X Under(d))
  BY DEF Pending, Holding, Working
<1>7. SumOf(Holding(d, f), Clients) \in Int
  BY <1>1, <1>2, SumSplit
<1>8. SumOf(Working(d, f), Instances \X Under(d)) \in Int
  BY <1>1, <1>5, SumSplit
<1>9. Amount(entry[d], f) \in Int
  BY AmountType DEF TypeOK
<1> QED
  BY <1>1, <1>2, <1>3, <1>4, <1>5, <1>6, <1>7, <1>8, <1>9

\* What was sent, and what a worker has, is passed on.
LEMMA WorkingSame ==
  ASSUME TypeOK, TypeOK', NEW d \in Dirs, NEW f \in Fields,
         \A i \in Instances, x \in Dirs : d \in Above[x] => At(i, x, f)' = At(i, x, f)
  PROVE  SumOf(Working(d, f), Instances \X Under(d))' = SumOf(Working(d, f), Instances \X Under(d))
<1> DEFINE W == Working(d, f)
           V == Working(d, f)'
           S == Instances \X Under(d)
<1>1. S' = S
  BY DEF Under
<1>2. \A t \in S : W[t] \in Int /\ W[t] = At(t[1], t[2], f) /\ IsFiniteSet(S)
  BY PendingSums
<1>3. \A t \in S : V[t] = At(t[1], t[2], f)'
  BY <1>1 DEF Working, At, Under
<1>4. \A t \in S : V[t] = W[t]
  BY <1>2, <1>3 DEF Under
<1>5. IsFiniteSet(S)
  BY PendingSums
<1>6. SumOf(W, S)' = SumOf(V, S)
  BY <1>1
<1> HIDE DEF W, V, S
<1> QED
  BY <1>2, <1>4, <1>5, <1>6, SumSame DEF W, S

\* One client's delta changes.
LEMMA HoldingChange ==
  ASSUME TypeOK, TypeOK', NEW d \in Dirs, NEW f \in Fields, NEW c \in Clients,
         \A e \in Clients \ {c} : held'[e] = held[e]
  PROVE  /\ SumOf(Holding(d, f), Clients)' =
              SumOf(Holding(d, f), Clients) - Holding(d, f)[c] + Holding(d, f)'[c]
         /\ Holding(d, f)[c] \in Int /\ Holding(d, f)'[c] \in Int
<1> DEFINE H == Holding(d, f)
           G == Holding(d, f)'
<1>1. IsFiniteSet(Clients) /\ \A e \in Clients : H[e] \in Int
  BY PendingSums
<1>2. \A e \in Clients : G[e] \in Int
  <2> SUFFICES ASSUME NEW e \in Clients, held'[e] # None PROVE held'[e].delta[f] \in Int
    BY DEF Holding
  <2>1. held'[e].delta \in Delta
    BY DEF TypeOK
  <2> QED
    BY <2>1 DEF Delta, Fields
<1>3. \A e \in Clients \ {c} : G[e] = H[e]
  BY DEF Holding
<1>4. SumOf(Holding(d, f), Clients)' = SumOf(G, Clients)
  OBVIOUS
<1> HIDE DEF G, H
<1> QED
  BY <1>1, <1>2, <1>3, <1>4, SumChange DEF G, H

LEMMA BalancedChange ==
  ASSUME TypeOK, TypeOK', Steady, Balanced, NEW c \in Clients, NEW p \in Paths,
         NEW size \in Sizes \cup {0}, Change(c, p, size)
  PROVE  Balanced'
<1> SUFFICES ASSUME NEW d \in Dirs, NEW f \in Fields
             PROVE  Amount(entry'[d], f) + Pending(d, f)' = Total(art', PathsIn(d), f)
  BY DEF Balanced
<1>1. /\ held[c] = None /\ art' = [art EXCEPT ![p] = size]
      /\ held' = [held EXCEPT ![c] =
           [dir   |-> DirOf[p],
            delta |-> [n |-> IF size = 0 THEN -1 ELSE IF art[p] = 0 THEN 1 ELSE 0,
                       b |-> size - art[p]]]]
      /\ size = 0 => art[p] # 0
      /\ UNCHANGED <<entry, chan, buf, batch>>
  BY DEF Change, workers
<1>2. art \in States /\ art' \in States /\ art'[p] = size /\ \A q \in Paths \ {p} : art'[q] = art[q]
  BY <1>1 DEF TypeOK, States
<1>3. /\ held'[c] = [dir   |-> DirOf[p],
                     delta |-> [n |-> IF size = 0 THEN -1 ELSE IF art[p] = 0 THEN 1 ELSE 0,
                                b |-> size - art[p]]]
      /\ \A e \in Clients \ {c} : held'[e] = held[e]
  BY <1>1 DEF TypeOK
<1>4. /\ SumOf(Holding(d, f), Clients)' =
           SumOf(Holding(d, f), Clients) - Holding(d, f)[c] + Holding(d, f)'[c]
      /\ Holding(d, f)[c] \in Int /\ Holding(d, f)'[c] \in Int
  BY <1>3, HoldingChange
<1>5. SumOf(Working(d, f), Instances \X Under(d))' = SumOf(Working(d, f), Instances \X Under(d))
  BY <1>1, WorkingSame DEF At
<1>6. Holding(d, f)[c] = 0
  BY <1>1 DEF Holding
<1>7. Value(f, art[p]) \in Nat /\ Value(f, art'[p]) \in Nat /\ art[p] \in Nat /\ size \in Nat
  BY <1>2, ValueType
<1>8. Holding(d, f)'[c] =
        IF p \in PathsIn(d) THEN Value(f, art'[p]) - Value(f, art[p]) ELSE 0
  <2>1. held'[c] # None
    <3>1. held'[c].delta \in Delta
      BY <1>3, <1>7 DEF Delta
    <3>2. held'[c] \in [dir: Dirs, delta: Delta]
      BY <1>3, <3>1, Shares
    <3> QED
      BY <3>2, DirAssumption
  <2>2. p \in PathsIn(d) <=> d \in Above[held'[c].dir]
    BY <1>3 DEF PathsIn
  <2>3. Holding(d, f)'[c] = IF p \in PathsIn(d) THEN held'[c].delta[f] ELSE 0
    BY <2>1, <2>2 DEF Holding
  <2>4. held'[c].delta[f] = Value(f, art'[p]) - Value(f, art[p])
    <3>1. /\ held'[c].delta["n"] = (IF size = 0 THEN -1 ELSE IF art[p] = 0 THEN 1 ELSE 0)
          /\ held'[c].delta["b"] = size - art[p]
      BY <1>3
    <3> QED
      BY <1>1, <1>2, <3>1 DEF Fields, Value
  <2> QED
    BY <2>3, <2>4
<1>9. Total(art', PathsIn(d), f) =
        IF p \in PathsIn(d) THEN Total(art, PathsIn(d), f) - Value(f, art[p]) + Value(f, art'[p])
        ELSE Total(art, PathsIn(d), f)
  <2>1. PathsIn(d) \in SUBSET Paths
    BY Shares
  <2>2. CASE p \in PathsIn(d)
    <3>1. {p} \in SUBSET PathsIn(d) /\ \A q \in PathsIn(d) \ {p} : art'[q] = art[q]
      BY <1>2, <2>1, <2>2
    <3>2. Total(art', PathsIn(d), f) =
            Total(art, PathsIn(d), f) - Total(art, {p}, f) + Total(art', {p}, f)
      BY <1>2, <2>1, <3>1, TotalChange
    <3> QED
      BY <1>2, <2>2, <3>2, TotalOne
  <2>3. CASE p \notin PathsIn(d)
    BY <1>2, <2>1, <2>3, TotalSame
  <2> QED
    BY <2>2, <2>3
<1>10. /\ Amount(entry[d], f) + Pending(d, f) = Total(art, PathsIn(d), f)
       /\ Total(art, PathsIn(d), f) \in Nat
  BY <1>2, Shares, TotalType DEF Balanced
<1>11. /\ Pending(d, f) = SumOf(Holding(d, f), Clients)
                              + SumOf(Working(d, f), Instances \X Under(d))
       /\ SumOf(Holding(d, f), Clients) \in Int
       /\ SumOf(Working(d, f), Instances \X Under(d)) \in Int
       /\ Amount(entry[d], f) \in Int
  BY PendingSums
<1>12. Pending(d, f)' = SumOf(Holding(d, f), Clients)'
                              + SumOf(Working(d, f), Instances \X Under(d))'
  BY DEF Pending, Holding, Working
<1> QED
  BY <1>1, <1>4, <1>5, <1>6, <1>7, <1>8, <1>9, <1>10, <1>11, <1>12

LEMMA AtNext ==
  ASSUME TypeOK', NEW i \in Instances, NEW x \in Dirs, NEW f \in Fields
  PROVE  At(i, x, f)' \in Int
<1>1. /\ chan'[i][x] \in Delta \cup {None} /\ buf'[i][x] \in Delta \cup {None}
      /\ batch'[i][x] \in Delta \cup {None}
  BY DEF TypeOK, Deltas
<1>2. /\ Amount(chan'[i][x], f) \in Int /\ Amount(buf'[i][x], f) \in Int
      /\ Amount(batch'[i][x], f) \in Int
  BY <1>1, AmountType
<1> QED
  BY <1>2 DEF At

\* What one instance has for one directory changes.
LEMMA WorkingChange ==
  ASSUME TypeOK, TypeOK', NEW d \in Dirs, NEW f \in Fields, NEW i \in Instances, NEW x \in Dirs,
         \A j \in Instances, y \in Dirs :
           d \in Above[y] /\ <<j, y>> # <<i, x>> => At(j, y, f)' = At(j, y, f)
  PROVE  SumOf(Working(d, f), Instances \X Under(d))' =
           SumOf(Working(d, f), Instances \X Under(d))
             + IF d \in Above[x] THEN At(i, x, f)' - At(i, x, f) ELSE 0
<1> DEFINE W == Working(d, f)
           V == Working(d, f)'
           S == Instances \X Under(d)
<1>1. \A t \in S : W[t] \in Int /\ W[t] = At(t[1], t[2], f) /\ IsFiniteSet(S)
  BY PendingSums
<1>2. \A t \in S : V[t] = At(t[1], t[2], f)' /\ V[t] \in Int
  <2>1. \A t \in S : V[t] = At(t[1], t[2], f)'
    BY DEF Working, At, Under
  <2>2. \A t \in S : At(t[1], t[2], f)' \in Int
    BY AtNext DEF Under
  <2> QED
    BY <2>1, <2>2
<1>3. IsFiniteSet(S) /\ SumOf(W, S) \in Int /\ At(i, x, f) \in Int /\ At(i, x, f)' \in Int
  BY PendingSums, AtNext
<1>4. SumOf(W, S)' = SumOf(V, S)
  BY DEF Under
<1>5. CASE d \in Above[x]
  <2>1. <<i, x>> \in S /\ W[<<i, x>>] = At(i, x, f) /\ V[<<i, x>>] = At(i, x, f)'
    <3>1. <<i, x>> \in S /\ <<i, x>>[1] = i /\ <<i, x>>[2] = x
      BY <1>5 DEF Under
    <3> HIDE DEF W, V, S
    <3> QED
      BY <1>1, <1>2, <3>1
  <2>2. \A t \in S \ {<<i, x>>} : V[t] = W[t]
    <3> SUFFICES ASSUME NEW t \in S, t # <<i, x>> PROVE V[t] = W[t]
      OBVIOUS
    <3>1. t[1] \in Instances /\ t[2] \in Dirs /\ d \in Above[t[2]] /\ <<t[1], t[2]>> # <<i, x>>
      BY DEF Under
    <3> QED
      BY <1>1, <1>2, <3>1
  <2> HIDE DEF W, V, S
  <2>3. SumOf(V, S) = SumOf(W, S) - W[<<i, x>>] + V[<<i, x>>]
    BY <1>1, <1>2, <1>3, <2>1, <2>2, SumChange
  <2> QED
    BY <1>3, <1>4, <1>5, <2>1, <2>3 DEF W, V, S
<1>6. CASE d \notin Above[x]
  <2>1. \A t \in S : V[t] = W[t]
    <3> SUFFICES ASSUME NEW t \in S PROVE V[t] = W[t]
      OBVIOUS
    <3>1. t[1] \in Instances /\ t[2] \in Dirs /\ d \in Above[t[2]] /\ <<t[1], t[2]>> # <<i, x>>
      BY <1>6 DEF Under
    <3> QED
      BY <1>1, <1>2, <3>1
  <2> HIDE DEF W, V, S
  <2>2. SumOf(V, S) = SumOf(W, S)
    BY <1>1, <1>3, <2>1, SumSame
  <2> QED
    BY <1>3, <1>4, <1>6, <2>2 DEF W, V, S
<1> QED
  BY <1>5, <1>6

\* What one instance has for two directories that are both below d changes by
\* opposite amounts.
LEMMA WorkingMove ==
  ASSUME TypeOK, TypeOK', NEW d \in Dirs, NEW f \in Fields, NEW i \in Instances,
         NEW x \in Under(d), NEW y \in Under(d), x # y,
         \A j \in Instances, z \in Dirs :
           <<j, z>> \notin {<<i, x>>, <<i, y>>} => At(j, z, f)' = At(j, z, f),
         At(i, x, f)' + At(i, y, f)' = At(i, x, f) + At(i, y, f)
  PROVE  SumOf(Working(d, f), Instances \X Under(d))' = SumOf(Working(d, f), Instances \X Under(d))
<1> DEFINE W == Working(d, f)
           V == Working(d, f)'
           S == Instances \X Under(d)
<1>1. \A t \in S : W[t] \in Int /\ W[t] = At(t[1], t[2], f) /\ IsFiniteSet(S)
  BY PendingSums
<1>2. \A t \in S : V[t] = At(t[1], t[2], f)' /\ V[t] \in Int
  <2>1. \A t \in S : V[t] = At(t[1], t[2], f)'
    BY DEF Working, At, Under
  <2>2. \A t \in S : At(t[1], t[2], f)' \in Int
    BY AtNext DEF Under
  <2> QED
    BY <2>1, <2>2
<1>3. IsFiniteSet(S)
  BY PendingSums
<1>4. SumOf(W, S)' = SumOf(V, S)
  BY DEF Under
<1>5. /\ <<i, x>> \in S /\ <<i, y>> \in S /\ <<i, x>> # <<i, y>>
      /\ W[<<i, x>>] = At(i, x, f) /\ V[<<i, x>>] = At(i, x, f)'
      /\ W[<<i, y>>] = At(i, y, f) /\ V[<<i, y>>] = At(i, y, f)'
  BY <1>1, <1>2
<1>6. \A t \in S \ {<<i, x>>, <<i, y>>} : V[t] = W[t]
  <2> SUFFICES ASSUME NEW t \in S, t \notin {<<i, x>>, <<i, y>>} PROVE V[t] = W[t]
    OBVIOUS
  <2>1. t[1] \in Instances /\ t[2] \in Dirs /\ <<t[1], t[2]>> \notin {<<i, x>>, <<i, y>>}
    BY DEF Under
  <2> QED
    BY <1>1, <1>2, <2>1
<1>7. V[<<i, x>>] + V[<<i, y>>] = W[<<i, x>>] + W[<<i, y>>]
  BY <1>5
<1> HIDE DEF W, V, S
<1>8. SumOf(V, S) = SumOf(W, S)
  BY <1>1, <1>2, <1>3, <1>5, <1>6, <1>7, SumMove
<1> QED
  BY <1>4, <1>8 DEF W, V, S

LEMMA BalancedSend ==
  ASSUME TypeOK, TypeOK', Balanced, \A i \in Instances : mode[i] = "run",
         NEW c \in Clients, Send(c)
  PROVE  Balanced'
<1> SUFFICES ASSUME NEW d \in Dirs, NEW f \in Fields
             PROVE  Amount(entry'[d], f) + Pending(d, f)' = Total(art', PathsIn(d), f)
  BY DEF Balanced
<1>1. PICK i \in Instances, x \in Dirs, delta \in Delta :
        /\ i = load.on[c] /\ x = held[c].dir /\ delta = held[c].delta
        /\ held[c] # None /\ delta # None
  <2>1. load \in Workload /\ held[c] \in [dir: Dirs, delta: Delta]
    BY DirAssumption DEF TypeOK, Send
  <2>2. load.on[c] \in Instances /\ held[c].dir \in Dirs /\ held[c].delta \in Delta
    BY <2>1 DEF Workload
  <2> QED
    BY <2>2, DirAssumption DEF Send
<1>2. /\ held' = [held EXCEPT ![c] = None]
      /\ chan' = [chan EXCEPT ![i][x] = Plus(@, delta)]
      /\ UNCHANGED <<art, entry, buf, batch>>
  BY <1>1 DEF Send
<1>3. held'[c] = None /\ \A e \in Clients \ {c} : held'[e] = held[e]
  BY <1>2 DEF TypeOK
<1>4. /\ chan'[i][x] = Plus(chan[i][x], delta) /\ chan[i][x] \in Delta \cup {None}
      /\ \A j \in Instances, y \in Dirs : <<j, y>> # <<i, x>> => chan'[j][y] = chan[j][y]
  BY <1>1, <1>2 DEF TypeOK, Deltas
<1>5. /\ SumOf(Holding(d, f), Clients)' =
           SumOf(Holding(d, f), Clients) - Holding(d, f)[c] + Holding(d, f)'[c]
      /\ Holding(d, f)[c] \in Int /\ Holding(d, f)'[c] \in Int
  BY <1>3, HoldingChange
<1>6. /\ Holding(d, f)[c] = IF d \in Above[x] THEN delta[f] ELSE 0
      /\ Holding(d, f)'[c] = 0
  BY <1>1, <1>3 DEF Holding
<1>7. \A j \in Instances, y \in Dirs : <<j, y>> # <<i, x>> => At(j, y, f)' = At(j, y, f)
  BY <1>2, <1>4 DEF At
<1>8. At(i, x, f)' = At(i, x, f) + delta[f]
  <2>1. Amount(chan'[i][x], f) = Amount(chan[i][x], f) + delta[f]
    <3>1. Amount(chan'[i][x], f) = Amount(chan[i][x], f) + Amount(delta, f)
      BY <1>4, PlusAmount
    <3> QED
      BY <1>1, <3>1 DEF Amount
  <2>2. delta[f] \in Int
    BY <1>1 DEF Delta, Fields
  <2>3. /\ Amount(chan[i][x], f) \in Int /\ Amount(buf[i][x], f) \in Int
        /\ Amount(batch[i][x], f) \in Int
    BY <1>1, PendingSums
  <2> QED
    BY <1>2, <2>1, <2>2, <2>3 DEF At
<1>9. SumOf(Working(d, f), Instances \X Under(d))' =
        SumOf(Working(d, f), Instances \X Under(d))
          + IF d \in Above[x] THEN At(i, x, f)' - At(i, x, f) ELSE 0
  BY <1>1, <1>7, WorkingChange
<1>10. /\ Pending(d, f) = SumOf(Holding(d, f), Clients)
                              + SumOf(Working(d, f), Instances \X Under(d))
       /\ SumOf(Holding(d, f), Clients) \in Int
       /\ SumOf(Working(d, f), Instances \X Under(d)) \in Int
       /\ Amount(entry[d], f) \in Int /\ At(i, x, f) \in Int
  BY <1>1, PendingSums
<1>11. Pending(d, f)' = SumOf(Holding(d, f), Clients)'
                              + SumOf(Working(d, f), Instances \X Under(d))'
  BY DEF Pending, Holding, Working
<1>12. Pending(d, f)' = Pending(d, f)
  <2>1. delta[f] \in Int
    BY <1>1 DEF Delta, Fields
  <2> QED
    BY <1>5, <1>6, <1>8, <1>9, <1>10, <1>11, <2>1
<1> QED
  BY <1>2, <1>12 DEF Balanced

\* Deltas go from the channel and the buffer to the batch, and back.
LEMMA BalancedMoved ==
  ASSUME TypeOK, TypeOK', Balanced, UNCHANGED <<art, held, entry>>,
         \A f \in Fields, j \in Instances, x \in Dirs : At(j, x, f)' = At(j, x, f)
  PROVE  Balanced'
<1> SUFFICES ASSUME NEW d \in Dirs, NEW f \in Fields
             PROVE  Pending(d, f)' = Pending(d, f)
  BY DEF Balanced
<1>1. SumOf(Working(d, f), Instances \X Under(d))' = SumOf(Working(d, f), Instances \X Under(d))
  BY WorkingSame
<1>2. SumOf(Holding(d, f), Clients)' = SumOf(Holding(d, f), Clients)
  BY DEF Holding
<1>3. Pending(d, f)' = SumOf(Holding(d, f), Clients)'
                              + SumOf(Working(d, f), Instances \X Under(d))'
  BY DEF Pending, Holding, Working
<1> QED
  BY <1>1, <1>2, <1>3, PendingSums

LEMMA BalancedStart ==
  ASSUME TypeOK, TypeOK', Balanced, \A j \in Instances : mode[j] = "run",
         NEW i \in Instances, StartBatch(i)
  PROVE  Balanced'
<1>1. /\ batch[i] = Nothing
      /\ batch' = [batch EXCEPT ![i] = Merge(chan[i], buf[i])]
      /\ buf' = [buf EXCEPT ![i] = Nothing] /\ chan' = [chan EXCEPT ![i] = Nothing]
      /\ UNCHANGED <<art, held, entry>>
  BY DEF StartBatch, repo
<1>2. ASSUME NEW f \in Fields, NEW j \in Instances, NEW x \in Dirs
      PROVE  At(j, x, f)' = At(j, x, f)
  <2>1. /\ Amount(chan[j][x], f) \in Int /\ Amount(buf[j][x], f) \in Int
        /\ Amount(batch[j][x], f) \in Int
    BY PendingSums
  <2>2. CASE j = i
    <3>1. chan[i][x] \in Delta \cup {None} /\ buf[i][x] \in Delta \cup {None}
      BY DEF TypeOK, Deltas
    <3>2. /\ batch'[i][x] = Plus(chan[i][x], buf[i][x])
          /\ chan'[i][x] = None /\ buf'[i][x] = None /\ batch[i][x] = None
      BY <1>1 DEF TypeOK, Merge, Nothing
    <3>3. Amount(batch'[i][x], f) = Amount(chan[i][x], f) + Amount(buf[i][x], f)
      BY <3>1, <3>2, PlusAmount
    <3>4. Amount(chan'[i][x], f) = 0 /\ Amount(buf'[i][x], f) = 0 /\ Amount(batch[i][x], f) = 0
      BY <3>2 DEF Amount
    <3> QED
      BY <2>1, <2>2, <3>3, <3>4 DEF At
  <2>3. CASE j # i
    <3>1. chan'[j][x] = chan[j][x] /\ buf'[j][x] = buf[j][x] /\ batch'[j][x] = batch[j][x]
      BY <1>1, <2>3 DEF TypeOK
    <3> QED
      BY <3>1 DEF At
  <2> QED
    BY <2>2, <2>3
<1> QED
  BY <1>1, <1>2, BalancedMoved

LEMMA BalancedRetried ==
  ASSUME TypeOK, TypeOK', Balanced, NEW i \in Instances, NEW x \in Dirs, Retried(i, x)
  PROVE  Balanced'
<1>1. /\ batch[i][x] # None
      /\ \A j \in Instances, e \in Dirs :
           /\ batch'[j][e] = IF j = i /\ e = x THEN None ELSE batch[j][e]
           /\ buf'[j][e] = IF j = i /\ e = x THEN Plus(buf[j][e], batch[i][x]) ELSE buf[j][e]
      /\ UNCHANGED <<art, held, chan, entry>>
  BY DEF Retried, Leaves
<1>2. ASSUME NEW f \in Fields, NEW j \in Instances, NEW y \in Dirs
      PROVE  At(j, y, f)' = At(j, y, f)
  <2>1. /\ Amount(chan[j][y], f) \in Int /\ Amount(buf[j][y], f) \in Int
        /\ Amount(batch[j][y], f) \in Int
    BY PendingSums
  <2>2. CASE j = i /\ y = x
    <3>1. batch[i][x] \in Delta \cup {None} /\ buf[i][x] \in Delta \cup {None}
      BY DEF TypeOK, Deltas
    <3>2. /\ buf'[i][x] = Plus(buf[i][x], batch[i][x])
          /\ chan'[i][x] = chan[i][x] /\ batch'[i][x] = None
      BY <1>1
    <3>3. /\ Amount(buf'[i][x], f) = Amount(buf[i][x], f) + Amount(batch[i][x], f)
          /\ Amount(batch'[i][x], f) = 0
      BY <3>1, <3>2, PlusAmount DEF Amount
    <3> QED
      BY <2>1, <2>2, <3>2, <3>3 DEF At
  <2>3. CASE ~(j = i /\ y = x)
    <3>1. chan'[j][y] = chan[j][y] /\ buf'[j][y] = buf[j][y] /\ batch'[j][y] = batch[j][y]
      BY <1>1, <2>3
    <3> QED
      BY <3>1 DEF At
  <2> QED
    BY <2>2, <2>3
<1> QED
  BY <1>1, <1>2, BalancedMoved

LEMMA BalancedApplied ==
  ASSUME TypeOK, TypeOK', Balanced, NEW i \in Instances, NEW x \in Dirs, Applied(i, x),
         \A f \in Fields : Amount(entry'[x], f) = Amount(entry[x], f) + Amount(batch[i][x], f)
  PROVE  Balanced'
<1>1. /\ batch[i][x] # None
      /\ \A j \in Instances, e \in Dirs :
           /\ batch'[j][e] = IF j = i /\ e = x THEN None ELSE batch[j][e]
           /\ buf'[j][e] = IF j = i /\ e \in Up(x) THEN Plus(buf[j][e], batch[i][x]) ELSE buf[j][e]
      /\ entry' = [entry EXCEPT ![x] = Updated(entry[x], batch[i][x])]
      /\ UNCHANGED <<art, held, chan>>
  BY DEF Applied, Leaves
<1> SUFFICES ASSUME NEW d \in Dirs, NEW f \in Fields
             PROVE  Amount(entry'[d], f) + Pending(d, f)' = Amount(entry[d], f) + Pending(d, f)
  BY <1>1 DEF Balanced
<1>2. Up(x) \subseteq Dirs /\ (x # Root => Up(x) = {Parent[x]}) /\ (x = Root => Up(x) = {})
  BY Shares DEF Up
<1>3. x # Root => Parent[x] \in Dirs /\ Parent[x] # x /\ Above[x] = Above[Parent[x]] \cup {x}
                  /\ x \notin Above[Parent[x]]
  BY Shares, DirAssumption
<1>4. \A j \in Instances, y \in Dirs :
        /\ Amount(chan[j][y], f) \in Int /\ Amount(buf[j][y], f) \in Int
        /\ Amount(batch[j][y], f) \in Int /\ At(j, y, f) \in Int
  BY PendingSums
<1>5. /\ Pending(d, f) = SumOf(Holding(d, f), Clients)
                              + SumOf(Working(d, f), Instances \X Under(d))
      /\ SumOf(Holding(d, f), Clients) \in Int
      /\ SumOf(Working(d, f), Instances \X Under(d)) \in Int
      /\ Amount(entry[d], f) \in Int
  BY PendingSums
<1>6. Pending(d, f)' = SumOf(Holding(d, f), Clients)
                              + SumOf(Working(d, f), Instances \X Under(d))'
  <2>1. Pending(d, f)' = SumOf(Holding(d, f), Clients)'
                              + SumOf(Working(d, f), Instances \X Under(d))'
    BY DEF Pending, Holding, Working
  <2>2. SumOf(Holding(d, f), Clients)' = SumOf(Holding(d, f), Clients)
    BY <1>1 DEF Holding
  <2> QED
    BY <2>1, <2>2
<1>7. /\ At(i, x, f)' = At(i, x, f) - Amount(batch[i][x], f)
      /\ \A y \in Up(x) : At(i, y, f)' = At(i, y, f) + Amount(batch[i][x], f)
      /\ \A j \in Instances, y \in Dirs :
           j # i \/ y \notin Up(x) \cup {x} => At(j, y, f)' = At(j, y, f)
  <2>1. x \notin Up(x)
    BY <1>2, <1>3
  <2>2. At(i, x, f)' = At(i, x, f) - Amount(batch[i][x], f)
    <3>1. batch'[i][x] = None /\ buf'[i][x] = buf[i][x] /\ chan'[i][x] = chan[i][x]
      BY <1>1, <2>1
    <3>2. Amount(batch'[i][x], f) = 0
      BY <3>1 DEF Amount
    <3> QED
      BY <1>4, <3>1, <3>2 DEF At
  <2>3. ASSUME NEW y \in Up(x)
        PROVE  At(i, y, f)' = At(i, y, f) + Amount(batch[i][x], f)
    <3>1. y \in Dirs /\ y # x
      BY <1>2, <2>1
    <3>2. batch[i][x] \in Delta \cup {None} /\ buf[i][y] \in Delta \cup {None}
      BY <3>1 DEF TypeOK, Deltas
    <3>3. /\ batch'[i][y] = batch[i][y] /\ chan'[i][y] = chan[i][y]
          /\ buf'[i][y] = Plus(buf[i][y], batch[i][x])
      BY <1>1, <3>1
    <3>4. Amount(buf'[i][y], f) = Amount(buf[i][y], f) + Amount(batch[i][x], f)
      BY <3>2, <3>3, PlusAmount
    <3> QED
      BY <1>4, <3>1, <3>3, <3>4 DEF At
  <2>4. ASSUME NEW j \in Instances, NEW y \in Dirs, j # i \/ y \notin Up(x) \cup {x}
        PROVE  At(j, y, f)' = At(j, y, f)
    <3>1. chan'[j][y] = chan[j][y] /\ buf'[j][y] = buf[j][y] /\ batch'[j][y] = batch[j][y]
      BY <1>1, <2>4
    <3> QED
      BY <3>1 DEF At
  <2> QED
    BY <2>2, <2>3, <2>4
<1>8. CASE d \notin Above[x]
  <2>1. \A y \in Up(x) : d \notin Above[y]
    BY <1>2, <1>3, <1>8
  <2>2. \A j \in Instances, y \in Dirs : d \in Above[y] => At(j, y, f)' = At(j, y, f)
    BY <1>7, <1>8, <2>1
  <2>3. SumOf(Working(d, f), Instances \X Under(d))' = SumOf(Working(d, f), Instances \X Under(d))
    BY <2>2, WorkingSame
  <2>4. entry'[d] = entry[d]
    <3>1. x \in Above[x]
      BY DirAssumption
    <3> QED
      BY <1>1, <1>8, <3>1 DEF TypeOK
  <2> QED
    BY <1>5, <1>6, <2>3, <2>4
<1>9. CASE d = x
  <2>1. \A y \in Up(x) : d \notin Above[y]
    BY <1>2, <1>3, <1>9
  <2> DEFINE W == SumOf(Working(d, f), Instances \X Under(d))
  <2>2. W' = W - Amount(batch[i][x], f)
    <3>1. d \in Above[x]
      BY <1>9, DirAssumption
    <3>2. \A j \in Instances, y \in Dirs :
            d \in Above[y] /\ <<j, y>> # <<i, x>> => At(j, y, f)' = At(j, y, f)
      BY <1>7, <2>1
    <3>3. W' = W + (At(i, x, f)' - At(i, x, f))
      BY <3>1, <3>2, WorkingChange
    <3> QED
      BY <1>4, <1>5, <1>7, <3>3
  <2> HIDE DEF W
  <2>3. Pending(d, f) = SumOf(Holding(d, f), Clients) + W /\ W \in Int
    BY <1>5 DEF W
  <2>4. Pending(d, f)' = SumOf(Holding(d, f), Clients) + W'
    BY <1>6 DEF W
  <2>5. SumOf(Holding(d, f), Clients) \in Int
    BY <1>5
  <2> QED
    BY <1>4, <1>5, <1>9, <2>2, <2>3, <2>4, <2>5
<1>10. CASE d \in Above[x] /\ d # x
  <2>1. x # Root /\ d \in Above[Parent[x]]
    BY <1>3, <1>10, DirAssumption
  <2>2. x \in Under(d) /\ Parent[x] \in Under(d) /\ x # Parent[x] /\ Parent[x] \in Up(x)
    BY <1>2, <1>3, <1>10, <2>1 DEF Under
  <2>3. At(i, x, f)' + At(i, Parent[x], f)' = At(i, x, f) + At(i, Parent[x], f)
    BY <1>3, <1>4, <1>7, <2>1, <2>2
  <2>4. \A j \in Instances, z \in Dirs :
          <<j, z>> \notin {<<i, x>>, <<i, Parent[x]>>} => At(j, z, f)' = At(j, z, f)
    BY <1>2, <1>7, <2>1
  <2>5. SumOf(Working(d, f), Instances \X Under(d))' = SumOf(Working(d, f), Instances \X Under(d))
    BY <2>2, <2>3, <2>4, WorkingMove
  <2>6. entry'[d] = entry[d]
    BY <1>1, <1>10 DEF TypeOK
  <2> QED
    BY <1>5, <1>6, <2>5, <2>6
<1> QED
  BY <1>8, <1>9, <1>10

-----------------------------------------------------------------------------
(* Conserved.                                                               *)

LEMMA SteadyInit == Init => SteadyInv
<1> SUFFICES ASSUME Init, Steady PROVE SteadyInv
  BY DEF SteadyInv
<1>1. TypeOK
  BY TypeInit
<1>2. /\ \A i \in Instances, d \in Dirs :
           chan[i][d] = None /\ buf[i][d] = None /\ batch[i][d] = None /\ seen[i][d] = Unread
      /\ \A c \in Clients : held[c] = None
      /\ task = "idle" /\ \A i \in Instances : mode[i] = "run"
  BY DEF Init, Nothing
<1>3. Sharing /\ SeenFits
  BY <1>2 DEF Sharing, SeenFits
<1>4. art \in States
  BY <1>1 DEF TypeOK, States
<1>5. ASSUME NEW d \in Dirs, NEW f \in Fields PROVE Amount(entry[d], f) = Total(art, PathsIn(d), f)
  <2>1. entry[d] = EntryOf(art, d, 1) /\ None \notin Entry
    BY DirAssumption DEF Init
  <2>2. /\ CountOf(art, d) = Total(art, PathsIn(d), "n")
        /\ BytesOf(art, d) = Total(art, PathsIn(d), "b")
        /\ Total(art, PathsIn(d), "n") = 0 => Total(art, PathsIn(d), "b") = 0
    BY <1>4, TotalBelow
  <2>3. CASE CountOf(art, d) = 0
    BY <2>1, <2>2, <2>3 DEF EntryOf, Amount, Fields
  <2>4. CASE CountOf(art, d) # 0
    <3>1. /\ entry[d] = [n |-> CountOf(art, d), b |-> BytesOf(art, d), ver |-> 1]
          /\ entry[d] # None
      BY <1>4, <2>1, <2>4, EntryType DEF EntryOf, States
    <3>2. entry[d]["n"] = CountOf(art, d) /\ entry[d]["b"] = BytesOf(art, d)
      BY <3>1
    <3> QED
      BY <2>2, <3>1, <3>2 DEF Amount, Fields
  <2> QED
    BY <2>3, <2>4
<1>6. Balanced
  <2> SUFFICES ASSUME NEW d \in Dirs, NEW f \in Fields PROVE Pending(d, f) = 0
    <3>1. \A d \in Dirs, f \in Fields : Amount(entry[d], f) \in Int
      BY <1>1, PendingSums
    <3> QED
      BY <1>5, <3>1 DEF Balanced
  <2> DEFINE H == Holding(d, f)
             W == Working(d, f)
             S == Instances \X Under(d)
  <2>1. IsFiniteSet(Clients) /\ IsFiniteSet(S)
    BY <1>1, PendingSums
  <2>2. (\A c \in Clients : H[c] = 0) /\ (\A t \in S : W[t] = 0)
    BY <1>2 DEF Holding, Working, Amount, Under
  <2>3. Pending(d, f) = SumOf(H, Clients) + SumOf(W, S)
    BY DEF Pending, Holding, Working
  <2> HIDE DEF H, W, S
  <2>4. SumOf(H, Clients) = SumOf(H, {}) /\ SumOf(W, S) = SumOf(W, {})
    <3>1. (\A c \in Clients : H[c] \in Int) /\ (\A t \in S : W[t] \in Int)
      BY <2>2
    <3> QED
      BY <2>1, <2>2, <3>1, SumSupport
  <2> QED
    BY <2>3, <2>4, SumEmpty
<1>7. \E told, taken, done \in Ghost : Traced(told, taken, done)
  <2>1. PICK a \in Ghost : \A d \in Dirs : a[d] = art
    <3>1. [d \in Dirs |-> art] \in Ghost
      BY <1>4 DEF Ghost
    <3> QED
      BY <3>1
  <2>2. HeldFits(a)
    <3>1. \A c \in Clients : \A p \in load.paths[c] : DirOf[p] \in Dirs
      BY <1>1, Apart, Shares
    <3> QED
      BY <1>2, <2>1, <3>1 DEF HeldFits
  <2>3. BufFits(a, a) /\ BatchFits(a, a)
    <3>1. \A i \in Instances, d \in Dirs, f \in Fields : Total(a[d], Share(i, d), f) \in Nat
      BY <1>4, <2>1, Shares, TotalType
    <3> QED
      BY <1>2, <3>1 DEF BufFits, BatchFits, Amount
  <2>4. EntryFits(a)
    BY <1>5, <2>1 DEF EntryFits
  <2>5. Linked(a, a)
    BY <2>1, Shares DEF Linked
  <2>6. KeptFits(a)
    BY <1>1, <2>1, Used DEF KeptFits, Init
  <2> QED
    BY <2>2, <2>3, <2>4, <2>5, <2>6 DEF Traced
<1> QED
  BY <1>2, <1>3, <1>6, <1>7 DEF SteadyInv

\* An instance has deltas only for directories above its paths.
LEMMA SharingStep ==
  ASSUME TypeOK, Steady, SteadyInv, [Next]_vars
  PROVE  Sharing'
<1>1. load' = load /\ Sharing /\ \A i \in Instances : mode[i] = "run"
  BY Effects DEF SteadyInv
<1> SUFFICES ASSUME NEW i \in Instances, NEW d \in Dirs,
                    chan'[i][d] # None \/ buf'[i][d] # None \/ batch'[i][d] # None
             PROVE  Share(i, d) # {}
  BY <1>1, LoadSame DEF Sharing
<1>2. CASE UNCHANGED <<chan, buf, batch>>
  BY <1>1, <1>2 DEF Sharing
<1>3. ASSUME NEW c \in Clients, Send(c) PROVE Share(i, d) # {}
  <2>1. CASE i = load.on[c] /\ d = held[c].dir
    <3>1. PICK told, taken, done \in Ghost : Traced(told, taken, done)
      BY DEF SteadyInv
    <3>2. PICK p \in load.paths[c] : held[c].dir = DirOf[p]
      BY <1>3, <3>1 DEF Send, Traced, HeldFits
    <3> QED
      BY <2>1, <3>2, Apart, Shares DEF Share
  <2>2. CASE ~(i = load.on[c] /\ d = held[c].dir)
    <3>1. chan'[i][d] = chan[i][d] /\ buf'[i][d] = buf[i][d] /\ batch'[i][d] = batch[i][d]
      BY <1>3, <2>2 DEF Send, TypeOK, Deltas
    <3> QED
      BY <1>1, <3>1 DEF Sharing
  <2> QED
    BY <2>1, <2>2
<1>4. ASSUME NEW j \in Instances, StartBatch(j) PROVE Share(i, d) # {}
  <2>1. CASE j = i
    <3>1. /\ chan[i] \in Deltas /\ buf[i] \in Deltas
          /\ batch' = [batch EXCEPT ![i] = Merge(chan[i], buf[i])]
          /\ buf'[i][d] = None /\ chan'[i][d] = None
      BY <1>1, <1>4, <2>1 DEF StartBatch, TypeOK, Nothing
    <3>2. Merge(chan[i], buf[i])[d] # None
      BY <3>1 DEF TypeOK
    <3> QED
      BY <1>1, <3>1, <3>2, MergeType DEF Sharing
  <2>2. CASE j # i
    BY <1>1, <1>4, <2>2 DEF StartBatch, TypeOK, Sharing
  <2> QED
    BY <2>1, <2>2
<1>5. ASSUME NEW j \in Instances, NEW x \in Dirs, Retried(j, x) \/ Applied(j, x)
      PROVE  Share(i, d) # {}
  <2>1. Share(j, x) # {} /\ chan' = chan
    BY <1>1, <1>5 DEF Retried, Applied, Leaves, Sharing
  <2>2. CASE i = j /\ (d = x \/ d \in Up(x))
    BY <2>1, <2>2, Shares DEF Up, Share
  <2>3. CASE ~(i = j /\ (d = x \/ d \in Up(x)))
    <3>1. buf'[i][d] = buf[i][d] /\ batch'[i][d] = batch[i][d]
      BY <1>5, <2>3 DEF Retried, Applied, Leaves
    <3> QED
      BY <1>1, <2>1, <3>1 DEF Sharing
  <2> QED
    BY <2>2, <2>3
<1> QED
  BY <1>2, <1>3, <1>4, <1>5, Effects DEF Change, workers, HasRead, Untouched

LEMMA TracedStep ==
  ASSUME TypeOK, Steady, SteadyInv, [Next]_vars
  PROVE  \E told, taken, done \in Ghost : Traced(told, taken, done)'
<1>1. PICK told, taken, done \in Ghost : Traced(told, taken, done)
  BY DEF SteadyInv
<1>2. load' = load /\ \A i \in Instances : mode[i] = "run"
  BY Effects DEF SteadyInv
<1>3. ASSUME NEW c \in Clients, NEW p \in Paths, NEW size \in Sizes \cup {0}, Change(c, p, size)
      PROVE  Traced(told, taken, done)'
  BY <1>1, <1>3, TracedChange
<1>4. ASSUME NEW c \in Clients, Send(c) PROVE \E now \in Ghost : Traced(now, taken, done)'
  BY <1>1, <1>2, <1>4, TracedSend
<1>5. ASSUME NEW i \in Instances, StartBatch(i) PROVE \E now \in Ghost : Traced(told, now, done)'
  BY <1>1, <1>2, <1>5, TracedStart
<1>6. ASSUME NEW i \in Instances, NEW x \in Dirs, Retried(i, x)
      PROVE  \E now \in Ghost : Traced(told, now, done)'
  BY <1>1, <1>2, <1>6, TracedRetried
<1>7. ASSUME NEW i \in Instances, NEW x \in Dirs, Applied(i, x)
      PROVE  \E said, now \in Ghost : Traced(said, taken, now)'
  BY <1>1, <1>2, <1>7, TracedApplied
<1>8. ASSUME Untouched \/ \E i \in Instances, x \in Dirs : HasRead(i, x)
      PROVE  Traced(told, taken, done)'
  <2>1. UNCHANGED <<art, held, chan, buf, batch, entry>>
    BY <1>8 DEF Untouched, HasRead
  <2> QED
    BY <1>1, <1>2, <2>1, LoadSame
       DEF Traced, HeldFits, BufFits, BatchFits, EntryFits, Linked, KeptFits
<1>9. \/ \E c \in Clients, p \in Paths, size \in Sizes \cup {0} : Change(c, p, size)
      \/ \E c \in Clients : Send(c)
      \/ \E i \in Instances : StartBatch(i)
      \/ \E i \in Instances, x \in Dirs : Retried(i, x) \/ Applied(i, x)
      \/ Untouched \/ \E i \in Instances, x \in Dirs : HasRead(i, x)
  BY Effects
<1>10. CASE \E c \in Clients, p \in Paths, size \in Sizes \cup {0} : Change(c, p, size)
  BY <1>3, <1>10
<1>11. CASE \E c \in Clients : Send(c)
  BY <1>4, <1>11
<1>12. CASE \E i \in Instances : StartBatch(i)
  BY <1>5, <1>12
<1>13. CASE \E i \in Instances, x \in Dirs : Retried(i, x) \/ Applied(i, x)
  BY <1>6, <1>7, <1>13
<1>14. CASE Untouched \/ \E i \in Instances, x \in Dirs : HasRead(i, x)
  BY <1>8, <1>14
<1> QED
  BY <1>9, <1>10, <1>11, <1>12, <1>13, <1>14

LEMMA BalancedStep ==
  ASSUME TypeOK, Steady, SteadyInv, [Next]_vars
  PROVE  Balanced'
<1>1. TypeOK' /\ Balanced /\ \A i \in Instances : mode[i] = "run"
  BY TypeStep DEF SteadyInv
<1>2. ASSUME NEW i \in Instances, NEW x \in Dirs, Applied(i, x) PROVE Balanced'
  <2>1. \A f \in Fields : Amount(entry'[x], f) = Amount(entry[x], f) + Amount(batch[i][x], f)
    BY <1>2, AppliedAmount DEF SteadyInv
  <2> QED
    BY <1>1, <1>2, <2>1, BalancedApplied
<1>3. ASSUME Untouched \/ \E i \in Instances, x \in Dirs : HasRead(i, x) PROVE Balanced'
  <2>1. UNCHANGED <<art, held, chan, buf, batch, entry>>
    BY <1>3 DEF Untouched, HasRead
  <2> QED
    BY <1>1, <2>1 DEF Balanced, Pending
<1> QED
  BY <1>1, <1>2, <1>3, Effects, BalancedChange, BalancedSend, BalancedStart, BalancedRetried

\* A directory that may be empty belongs to one instance, whose worker alone
\* writes its entry; the version of any other entry grows with every write.
LEMMA SeenStep ==
  ASSUME TypeOK, Steady, SteadyInv, [Next]_vars
  PROVE  SeenFits'
<1>1. load' = load /\ Sharing /\ SeenFits /\ \A i \in Instances : mode[i] = "run"
  BY Effects DEF SteadyInv
<1>2. ASSUME NEW d \in Dirs, Kept(d) PROVE entry[d] # None /\ entry'[d] # None
  <2>1. PICK told, taken, done \in Ghost : Traced(told, taken, done)
    BY DEF SteadyInv
  <2>2. entry[d] # None
    BY <1>2, <2>1, KeptEntry DEF Traced
  <2>3. PICK told1, taken1, done1 \in Ghost : Traced(told1, taken1, done1)'
    BY TracedStep
  <2>4. PICK p \in load.keep : d \in Above[DirOf[p]]
    BY <1>2 DEF Kept
  <2>5. p \in PathsIn(d) /\ p \in Paths /\ done1[d][p] = 1 /\ done1[d] \in States
    <3>1. p \in PathsIn(d) /\ p \in Paths
      BY <2>4, Used DEF PathsIn
    <3> QED
      BY <1>1, <2>3, <3>1 DEF Traced, KeptFits, Ghost
  <2>6. Below(done1[d], d) # {}
    BY <2>5 DEF Below, PathsIn
  <2>7. Total(done1[d], PathsIn(d), "n") # 0
    BY <2>5, <2>6, CountBelow, TotalBelow
  <2>8. Amount(entry'[d], "n") = Total(done1[d], PathsIn(d), "n")
    BY <2>3 DEF Traced, EntryFits, Fields
  <2> QED
    BY <2>2, <2>7, <2>8 DEF Amount
<1> SUFFICES ASSUME NEW j \in Instances, NEW d \in Dirs, seen'[j][d] # Unread
             PROVE  IF Kept(d)
                    THEN /\ seen'[j][d] # None /\ entry'[d] # None
                         /\ seen'[j][d].ver <= entry'[d].ver
                         /\ seen'[j][d].ver = entry'[d].ver => seen'[j][d] = entry'[d]
                    ELSE seen'[j][d] = entry'[d]
  BY <1>1, LoadSame DEF SeenFits
<1>3. seen[j][d] # Unread =>
        IF Kept(d)
        THEN /\ seen[j][d] # None /\ entry[d] # None
             /\ seen[j][d].ver <= entry[d].ver
             /\ seen[j][d].ver = entry[d].ver => seen[j][d] = entry[d]
        ELSE seen[j][d] = entry[d]
  BY <1>1 DEF SeenFits
<1>4. CASE seen'[j][d] = seen[j][d] /\ entry'[d] = entry[d]
  BY <1>3, <1>4
<1>5. ASSUME NEW i \in Instances, NEW x \in Dirs, Retried(i, x) \/ HasRead(i, x)
      PROVE  \/ seen'[j][d] = seen[j][d] /\ entry'[d] = entry[d]
             \/ seen'[j][d] = entry[d] /\ entry'[d] = entry[d]
  <2>1. seen \in [Instances -> [Dirs -> Entry \cup {None, Unread}]]
    BY DEF TypeOK
  <2> QED
    BY <1>5, <2>1 DEF Retried, HasRead, Leaves
<1>6. CASE seen'[j][d] = entry[d] /\ entry'[d] = entry[d]
  <2>1. Kept(d) => entry[d] \in Entry
    BY <1>2 DEF TypeOK
  <2> QED
    BY <1>2, <1>6, <2>1 DEF Entry
<1>7. ASSUME NEW i \in Instances, NEW x \in Dirs, Applied(i, x)
      PROVE  IF Kept(d)
             THEN /\ seen'[j][d] # None /\ entry'[d] # None
                  /\ seen'[j][d].ver <= entry'[d].ver
                  /\ seen'[j][d].ver = entry'[d].ver => seen'[j][d] = entry'[d]
             ELSE seen'[j][d] = entry'[d]
  <2>1. /\ batch[i][x] # None /\ entry' = [entry EXCEPT ![x] = Updated(entry[x], batch[i][x])]
        /\ seen'[j][d] = seen[j][d] /\ ~(j = i /\ d = x)
    BY <1>7 DEF Applied, Leaves
  <2>2. CASE d # x
    <3>1. entry'[d] = entry[d]
      BY <2>1, <2>2 DEF TypeOK
    <3> QED
      BY <1>4, <2>1, <3>1
  <2>3. CASE d = x /\ j # i
    <3>1. seen[j][x] # Unread /\ batch[j][x] # None
      BY <2>1, <2>3 DEF TypeOK
    <3>2. Kept(x)
      <4>1. Share(i, x) # {} /\ Share(j, x) # {}
        BY <1>1, <2>1, <3>1 DEF Sharing
      <4>2. PICK p \in PathsOf(i), q \in PathsOf(j) : x \in Above[DirOf[p]] \cap Above[DirOf[q]]
        BY <4>1 DEF Share, PathsIn
      <4> QED
        BY <2>3, <4>2 DEF Steady
    <3>3. entry[x] \in Entry /\ entry'[x] # None /\ entry'[x] = Updated(entry[x], batch[i][x])
      BY <1>2, <2>1, <3>2 DEF TypeOK
    <3>4. entry'[x].ver = entry[x].ver + 1 /\ entry[x].ver \in Nat
      BY <1>2, <3>2, <3>3 DEF Updated, Entry
    <3>5. seen[j][x] # None /\ seen[j][x].ver <= entry[x].ver
      BY <1>3, <2>3, <3>1, <3>2
    <3>6. seen[j][x].ver \in Nat
      <4>1. seen[j][x] \in Entry
        BY <3>1, <3>5 DEF TypeOK
      <4> QED
        BY <4>1 DEF Entry
    <3> QED
      BY <2>1, <2>3, <3>2, <3>3, <3>4, <3>5, <3>6
  <2> QED
    BY <2>1, <2>2, <2>3
<1>8. \/ \E i \in Instances, x \in Dirs : Retried(i, x) \/ Applied(i, x) \/ HasRead(i, x)
      \/ seen'[j][d] = seen[j][d] /\ entry'[d] = entry[d]
  <2>1. ASSUME NEW c \in Clients, NEW p \in Paths, NEW size \in Sizes \cup {0}, Change(c, p, size)
        PROVE  seen' = seen /\ entry' = entry
    BY <2>1 DEF Change, workers
  <2>2. ASSUME NEW c \in Clients, Send(c) PROVE seen' = seen /\ entry' = entry
    BY <2>2 DEF Send
  <2>3. ASSUME NEW i \in Instances, StartBatch(i) PROVE seen' = seen /\ entry' = entry
    BY <2>3 DEF StartBatch
  <2>4. Untouched => seen' = seen /\ entry' = entry
    BY DEF Untouched
  <2> QED
    BY <2>1, <2>2, <2>3, <2>4, Effects
<1> QED
  BY <1>4, <1>5, <1>6, <1>7, <1>8

LEMMA SteadyStep == TypeOK /\ SteadyInv /\ [Next]_vars => SteadyInv'
<1> SUFFICES ASSUME TypeOK, SteadyInv, [Next]_vars, Steady' PROVE SteadyInv'
  BY DEF SteadyInv
<1>1. load' = load
  BY DEF Next, Client, Worker, Rebuild, Change, Send, StartBatch, Stopped, Stop, ReadEntry, WriteEntry,
     ApplyFails, RebuildStart, RebuildEnd, RebuildFails, RebuildRead, RebuildDiff, RebuildWrite,
     vars, repo
<1>2. Steady
  BY <1>1, LoadSame
<1>3. task' = "idle" /\ \A i \in Instances : mode'[i] = "run"
  BY <1>2, Effects DEF SteadyInv
<1>4. Sharing' /\ SeenFits' /\ Balanced'
  BY <1>2, SharingStep, SeenStep, BalancedStep
<1>5. \E told, taken, done \in Ghost : Traced(told, taken, done)'
  BY <1>2, TracedStep
<1> QED
  BY <1>3, <1>4, <1>5 DEF SteadyInv

\* Whatever the workers coalesce, fail to apply, apply again and pass on: an
\* entry and the deltas on their way to it always add up to what is stored below
\* the directory.
THEOREM CountsConserved == Spec => []Conserved
<1>1. Init => TypeOK /\ SteadyInv
  BY TypeInit, SteadyInit
<1>2. TypeOK /\ SteadyInv /\ [Next]_vars => (TypeOK /\ SteadyInv)'
  BY TypeStep, SteadyStep
<1>3. TypeOK /\ SteadyInv => Conserved
  <2> SUFFICES ASSUME TypeOK, SteadyInv, Steady, NEW d \in Dirs
               PROVE  /\ Amount(entry[d], "n") + Pending(d, "n") = CountOf(art, d)
                      /\ Amount(entry[d], "b") + Pending(d, "b") = BytesOf(art, d)
    BY DEF Conserved
  <2>1. art \in States
    BY DEF TypeOK, States
  <2> QED
    BY <2>1, TotalBelow DEF SteadyInv, Balanced, Fields
<1> QED
  BY <1>1, <1>2, <1>3, PTL DEF Spec
=============================================================================
