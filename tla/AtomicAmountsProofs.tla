------------------------- MODULE AtomicAmountsProofs -------------------------
(***************************************************************************)
(* What AtomicTotal does when keys are added, removed or have their amount *)
(* replaced.  The ledger proofs cite these lemmas and never unfold a sum.  *)
(***************************************************************************)
EXTENDS AtomicAmounts, Integers, FiniteSetTheorems, TLAPS

\* The units of one key are as many as its amount.
LEMMA UnitsOfKey ==
  ASSUME NEW k, NEW n \in Nat
  PROVE  /\ IsFiniteSet({k} \X (1 .. n))
         /\ Cardinality({k} \X (1 .. n)) = n
<1>1. IsFiniteSet({k}) /\ Cardinality({k}) = 1
  BY FS_Singleton
<1>2. IsFiniteSet(1 .. n) /\ Cardinality(1 .. n) = n
  BY FS_Interval
<1>3. /\ IsFiniteSet({k} \X (1 .. n))
      /\ Cardinality({k} \X (1 .. n)) = Cardinality({k}) * Cardinality(1 .. n)
  BY <1>1, <1>2, FS_Product
<1>4. 1 * n = n
  OBVIOUS
<1> QED BY <1>1, <1>2, <1>3, <1>4

\* A finite set of keys holds finitely many units, so its total is a number.
LEMMA AtomicTotalType ==
  ASSUME NEW S, IsFiniteSet(S), NEW f, \A k \in S : f[k] \in Nat
  PROVE  /\ IsFiniteSet(Units(S, f))
         /\ AtomicTotal(S, f) \in Nat
<1> DEFINE g == [k \in S |-> {k} \X (1 .. f[k])]
           T == { {k} \X (1 .. f[k]) : k \in S }
<1>1. g \in Surjection(S, T)
  <2>1. g \in [S -> T]
    OBVIOUS
  <2>2. \A t \in T : \E k \in S : g[k] = t
    OBVIOUS
  <2> QED BY <2>1, <2>2 DEF Surjection
<1>2. IsFiniteSet(T)
  BY <1>1, FS_Surjection
<1>3. \A t \in T : IsFiniteSet(t)
  <2> SUFFICES ASSUME NEW k \in S
               PROVE  IsFiniteSet({k} \X (1 .. f[k]))
    OBVIOUS
  <2>1. f[k] \in Nat
    OBVIOUS
  <2> QED BY <2>1, UnitsOfKey
<1>4. IsFiniteSet(UNION T)
  BY <1>2, <1>3, FS_UNION
<1> QED BY <1>4, FS_CardinalityType DEF Units, AtomicTotal

\* No key, no amount.
LEMMA AtomicTotalEmpty ==
  ASSUME NEW f
  PROVE  AtomicTotal({}, f) = 0
<1>1. Units({}, f) = {}
  BY DEF Units
<1> QED BY <1>1, FS_EmptySet DEF AtomicTotal

\* The total is additive over disjoint sets of keys.
LEMMA AtomicTotalDisjoint ==
  ASSUME NEW S, NEW T, IsFiniteSet(S), IsFiniteSet(T), S \cap T = {}, NEW f,
         \A k \in S \cup T : f[k] \in Nat
  PROVE  AtomicTotal(S \cup T, f) = AtomicTotal(S, f) + AtomicTotal(T, f)
<1>1. Units(S \cup T, f) = Units(S, f) \cup Units(T, f)
  BY DEF Units
<1>2. Units(S, f) \cap Units(T, f) = {}
  BY DEF Units
<1>3. IsFiniteSet(Units(S, f)) /\ IsFiniteSet(Units(T, f))
  BY AtomicTotalType
<1>4. Cardinality(Units(S, f)) \in Nat /\ Cardinality(Units(T, f)) \in Nat
  BY <1>3, FS_CardinalityType
<1>5. Cardinality(Units(S, f) \cup Units(T, f))
        = Cardinality(Units(S, f)) + Cardinality(Units(T, f))
          - Cardinality(Units(S, f) \cap Units(T, f))
  BY <1>3, FS_Union
<1>6. Cardinality(Units(S, f) \cap Units(T, f)) = 0
  BY <1>2, FS_EmptySet
<1>7. \A a, b \in Nat : a + b - 0 = a + b
  OBVIOUS
<1>8. Cardinality(Units(S, f) \cup Units(T, f))
        = Cardinality(Units(S, f)) + Cardinality(Units(T, f))
  BY <1>4, <1>5, <1>6, <1>7
<1> QED BY <1>1, <1>8, Zenon DEF AtomicTotal

\* Only the amounts of the summed keys matter.
LEMMA AtomicTotalAgree ==
  ASSUME NEW S, NEW f, NEW g, \A k \in S : f[k] = g[k]
  PROVE  AtomicTotal(S, f) = AtomicTotal(S, g)
<1>1. Units(S, f) = Units(S, g)
  BY DEF Units
<1> QED BY <1>1 DEF AtomicTotal

\* The total of a single key is its amount.
LEMMA AtomicTotalSingle ==
  ASSUME NEW k, NEW f, f[k] \in Nat
  PROVE  AtomicTotal({k}, f) = f[k]
<1>1. Units({k}, f) = {k} \X (1 .. f[k])
  BY DEF Units
<1> QED BY <1>1, UnitsOfKey DEF AtomicTotal

\* A new key adds its amount.
LEMMA AtomicTotalAdd ==
  ASSUME NEW S, IsFiniteSet(S), NEW k, k \notin S, NEW f,
         \A j \in S \cup {k} : f[j] \in Nat
  PROVE  AtomicTotal(S \cup {k}, f) = AtomicTotal(S, f) + f[k]
<1>1. IsFiniteSet({k}) /\ S \cap {k} = {}
  BY FS_Singleton
<1>2. AtomicTotal(S \cup {k}, f) = AtomicTotal(S, f) + AtomicTotal({k}, f)
  BY <1>1, AtomicTotalDisjoint
<1> QED BY <1>2, AtomicTotalSingle

\* A key that leaves takes its amount with it.
LEMMA AtomicTotalRemove ==
  ASSUME NEW S, IsFiniteSet(S), NEW k \in S, NEW f, \A j \in S : f[j] \in Nat
  PROVE  AtomicTotal(S \ {k}, f) = AtomicTotal(S, f) - f[k]
<1>1. IsFiniteSet(S \ {k})
  BY FS_RemoveElement
<1>2. AtomicTotal((S \ {k}) \cup {k}, f) = AtomicTotal(S \ {k}, f) + f[k]
  BY <1>1, AtomicTotalAdd
<1>3. (S \ {k}) \cup {k} = S
  OBVIOUS
<1>4. AtomicTotal(S \ {k}, f) \in Nat
  BY <1>1, AtomicTotalType
<1>5. f[k] \in Nat
  OBVIOUS
<1> QED BY <1>2, <1>3, <1>4, <1>5

\* Fewer keys, no larger a total.
LEMMA AtomicTotalMonotone ==
  ASSUME NEW S, NEW T, S \subseteq T, IsFiniteSet(T), NEW f,
         \A k \in T : f[k] \in Nat
  PROVE  AtomicTotal(S, f) <= AtomicTotal(T, f)
<1>1. Units(S, f) \subseteq Units(T, f)
  BY DEF Units
<1>2. IsFiniteSet(Units(T, f))
  BY AtomicTotalType
<1> QED BY <1>1, <1>2, FS_Subset DEF AtomicTotal
=============================================================================
