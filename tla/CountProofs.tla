---------------------------- MODULE CountProofs ----------------------------
(***************************************************************************)
(* Proofs that count: what the sums of the community modules add up, shown *)
(* by the least set for which they would not, and the components whose     *)
(* properties are about sums, numbers and greatest elements: the building  *)
(* of a device, and the parsers of descriptors and reports on the host.    *)
(* PartsCountProofs applies the theorems to the instances of MCParts.      *)
(***************************************************************************)
EXTENDS Integers, Sequences, FiniteSets, Functions, FiniteSetTheorems, FunctionTheorems,
        SequenceTheorems, WellFoundedInduction, TLAPS

\* DevBuild
CONSTANTS Strings, MaxCfg, Intfs, EpNums, MaxPipes, MaxFuncs
VARIABLES builtMask, builtDev, builtStr, builtNum, builtCfg

Build == INSTANCE DevBuild WITH
    strMask <- builtMask, dev <- builtDev, devStr <- builtStr, nCfg <- builtNum,
    cfg <- builtCfg
-----------------------------------------------------------------------------
(* Sums: what SumFunctionOnSet adds up, by the least set that it would not *)

Pick(s) == CHOOSE x \in s : TRUE

\* g adds up f over the subsets of S.
Adds(f, S, g) == g = [s \in SUBSET S |-> IF s = {} THEN 0 ELSE f[Pick(s)] + g[s \ {Pick(s)}]]
Iter(f, S) == CHOOSE g : Adds(f, S, g)

LEMMA SumIter ==
    ASSUME NEW f, NEW S
    PROVE  SumFunctionOnSet(f, S) = Iter(f, S)[S]
BY DEF SumFunctionOnSet, FoldFunctionOnSet, MapThenFoldSet, Iter, Adds, Pick

\* A set of numbers has a least one.
LEMMA Least ==
    ASSUME NEW T, T \subseteq Nat, T # {}
    PROVE  \E x \in T : \A y \in T : x <= y
<1>1. PICK x \in T : \A y \in T : <<y, x>> \notin OpToRel(<, Nat)
  BY WFMin, NatLessThanWellFounded
<1>2. \A y \in T : ~(y < x)
  BY <1>1 DEF OpToRel
<1> QED BY <1>2

LEMMA PickIn ==
    ASSUME NEW s, s # {}
    PROVE  Pick(s) \in s
BY DEF Pick

LEMMA LessSubset ==
    ASSUME NEW S, IsFiniteSet(S), NEW s \in SUBSET S, s # {}
    PROVE  /\ Pick(s) \in s /\ s \ {Pick(s)} \in SUBSET S
           /\ Cardinality(s) \in Nat /\ Cardinality(s \ {Pick(s)}) = Cardinality(s) - 1
           /\ Cardinality(s) > 0
<1>1. Pick(s) \in s
  BY PickIn
<1>2. IsFiniteSet(s)
  BY FS_Subset
<1>3. Cardinality(s \ {Pick(s)}) = Cardinality(s) - 1
  BY <1>1, <1>2, FS_RemoveElement
<1>4. Cardinality(s) \in Nat /\ Cardinality(s) # 0
  BY <1>2, FS_CardinalityType, FS_EmptySet
<1> QED BY <1>1, <1>3, <1>4

Small(S, n) == {s \in SUBSET S : Cardinality(s) <= n}
AddsTo(f, S, n, g) ==
    g = [s \in Small(S, n) |-> IF s = {} THEN 0 ELSE f[Pick(s)] + g[s \ {Pick(s)}]]

LEMMA AddsExists ==
    ASSUME NEW S, IsFiniteSet(S), NEW f, NEW n \in Nat
    PROVE  \E g : AddsTo(f, S, n, g)
<1> DEFINE T == {m \in Nat : ~ \E g : AddsTo(f, S, m, g)}
<1> SUFFICES ASSUME T # {} PROVE FALSE
  OBVIOUS
<1>1. PICK m \in T : \A k \in T : m <= k
  BY Least
<1>2. m # 0
  <2> DEFINE g == [s \in Small(S, 0) |-> 0]
  <2>1. \A s \in Small(S, 0) : s = {}
    <3> SUFFICES ASSUME NEW s \in Small(S, 0), s # {} PROVE FALSE
      OBVIOUS
    <3>1. s \in SUBSET S /\ Cardinality(s) <= 0
      BY DEF Small
    <3>2. Cardinality(s) > 0 /\ Cardinality(s) \in Nat
      BY <3>1, LessSubset
    <3> QED BY <3>1, <3>2
  <2>2. AddsTo(f, S, 0, g)
    BY <2>1 DEF AddsTo
  <2> QED BY <1>1, <2>2
<1>3. m - 1 \in Nat /\ m - 1 \notin T
  BY <1>1, <1>2
<1>4. PICK h : AddsTo(f, S, m - 1, h)
  BY <1>3
<1> DEFINE g == [s \in Small(S, m) |-> IF s = {} THEN 0 ELSE f[Pick(s)] + h[s \ {Pick(s)}]]
<1>5. ASSUME NEW s \in Small(S, m), s # {}
      PROVE  s \ {Pick(s)} \in Small(S, m - 1) /\ s \ {Pick(s)} \in Small(S, m)
  BY <1>1, <1>5, LessSubset DEF Small
<1>6. ASSUME NEW s \in Small(S, m - 1)
      PROVE  s \in Small(S, m) /\ g[s] = h[s]
  <2>1. s \in Small(S, m)
    <3>1. IsFiniteSet(s) /\ s \in SUBSET S
      BY FS_Subset DEF Small
    <3>2. Cardinality(s) \in Nat
      BY <3>1, FS_CardinalityType
    <3> QED BY <1>1, <3>2 DEF Small
  <2>2. h[s] = IF s = {} THEN 0 ELSE f[Pick(s)] + h[s \ {Pick(s)}]
    BY <1>4 DEF AddsTo
  <2> QED BY <2>1, <2>2
<1>7. g = [s \in Small(S, m) |-> IF s = {} THEN 0 ELSE f[Pick(s)] + g[s \ {Pick(s)}]]
  <2>1. \A s \in Small(S, m) : s # {} => g[s \ {Pick(s)}] = h[s \ {Pick(s)}]
    BY <1>5, <1>6
  <2> QED BY <2>1
<1> HIDE DEF g
<1>8. AddsTo(f, S, m, g)
  BY <1>7 DEF AddsTo
<1> QED BY <1>1, <1>8

\* The sum is what the fold says, for every subset.
LEMMA IterAdds ==
    ASSUME NEW S, IsFiniteSet(S), NEW f
    PROVE  Adds(f, S, Iter(f, S))
<1>1. Cardinality(S) \in Nat
  BY FS_CardinalityType
<1>2. Small(S, Cardinality(S)) = SUBSET S
  BY FS_Subset DEF Small
<1>3. PICK g : AddsTo(f, S, Cardinality(S), g)
  BY <1>1, AddsExists
<1>4. Adds(f, S, g)
  BY <1>2, <1>3 DEF Adds, AddsTo
<1> QED BY <1>4 DEF Iter

LEMMA IterSame ==
    ASSUME NEW S, IsFiniteSet(S), NEW s \in SUBSET S, NEW f, NEW g, NEW h, NEW e,
           Adds(f, S, g), Adds(e, s, h), \A x \in s : f[x] = e[x]
    PROVE  g[s] = h[s]
<1> DEFINE T == {Cardinality(t) : t \in {u \in SUBSET s : g[u] # h[u]}}
<1>1. \A t \in SUBSET s : IsFiniteSet(t) /\ Cardinality(t) \in Nat /\ t \in SUBSET S
  <2>1. IsFiniteSet(s)
    BY FS_Subset
  <2> QED BY <2>1, FS_Subset, FS_CardinalityType
<1> SUFFICES ASSUME g[s] # h[s] PROVE FALSE
  OBVIOUS
<1>2. T \subseteq Nat /\ T # {}
  BY <1>1
<1>3. PICK m \in T : \A k \in T : m <= k
  BY <1>2, Least
<1>4. PICK t \in SUBSET s : g[t] # h[t] /\ m = Cardinality(t)
  BY <1>3
<1>5. t # {}
  BY <1>1, <1>4 DEF Adds
<1> DEFINE r == t \ {Pick(t)}
<1>6. Pick(t) \in t /\ r \in SUBSET s /\ Cardinality(r) = m - 1 /\ m \in Nat
  BY <1>1, <1>4, <1>5, LessSubset
<1>7. g[t] = f[Pick(t)] + g[r] /\ h[t] = e[Pick(t)] + h[r]
  BY <1>1, <1>5 DEF Adds
<1>8. g[r] # h[r]
  BY <1>4, <1>6, <1>7
<1>9. Cardinality(r) \in T
  BY <1>6, <1>8
<1> HIDE DEF r, T
<1>10. m <= Cardinality(r)
  BY <1>3, <1>9
<1> QED BY <1>6, <1>10

\* A sum depends on the values in its set only.
LEMMA SumEqual ==
    ASSUME NEW S, IsFiniteSet(S), NEW f, NEW e, \A x \in S : f[x] = e[x]
    PROVE  SumFunctionOnSet(f, S) = SumFunctionOnSet(e, S)
<1>1. Adds(f, S, Iter(f, S)) /\ Adds(e, S, Iter(e, S)) /\ S \in SUBSET S
  BY IterAdds
<1>2. Iter(f, S)[S] = Iter(e, S)[S]
  BY <1>1, IterSame
<1> QED BY <1>2, SumIter

LEMMA SumEmpty ==
    ASSUME NEW f
    PROVE  SumFunctionOnSet(f, {}) = 0
<1>1. IsFiniteSet({})
  BY FS_EmptySet
<1>2. Adds(f, {}, Iter(f, {}))
  BY <1>1, IterAdds
<1> QED BY <1>2, SumIter DEF Adds

LEMMA SumPick ==
    ASSUME NEW S, IsFiniteSet(S), S # {}, NEW f
    PROVE  SumFunctionOnSet(f, S) = f[Pick(S)] + SumFunctionOnSet(f, S \ {Pick(S)})
<1> DEFINE r == S \ {Pick(S)}
<1>1. IsFiniteSet(r) /\ r \in SUBSET S
  BY FS_Subset
<1>2. Adds(f, S, Iter(f, S)) /\ Adds(f, r, Iter(f, r))
  BY <1>1, IterAdds
<1>3. Iter(f, S)[r] = Iter(f, r)[r]
  BY <1>1, <1>2, IterSame
<1>4. Iter(f, S)[S] = f[Pick(S)] + Iter(f, S)[r]
  BY <1>2 DEF Adds
<1> QED BY <1>3, <1>4, SumIter

\* A sum of integers is one, and of naturals too.
LEMMA SumType ==
    ASSUME NEW S, IsFiniteSet(S), NEW f
    PROVE  /\ (\A x \in S : f[x] \in Int) => SumFunctionOnSet(f, S) \in Int
           /\ (\A x \in S : f[x] \in Nat) => SumFunctionOnSet(f, S) \in Nat
<1>1. ASSUME NEW V, V = Int \/ V = Nat, \A x \in S : f[x] \in V,
             SumFunctionOnSet(f, S) \notin V
      PROVE  FALSE
  <2> DEFINE Bad == {u \in SUBSET S : SumFunctionOnSet(f, u) \notin V}
  <2> DEFINE T == {Cardinality(t) : t \in Bad}
  <2>1. \A t \in SUBSET S : IsFiniteSet(t) /\ Cardinality(t) \in Nat
    BY FS_Subset, FS_CardinalityType
  <2>2. T \subseteq Nat /\ T # {}
    BY <1>1, <2>1
  <2>3. PICK m \in T : \A k \in T : m <= k
    BY <2>2, Least
  <2>4. PICK t \in Bad : m = Cardinality(t)
    BY <2>3
  <2>5. t # {}
    BY <1>1, <2>4, SumEmpty
  <2> DEFINE r == t \ {Pick(t)}
  <2>6. Pick(t) \in t /\ r \in SUBSET S /\ Cardinality(r) = m - 1 /\ m \in Nat
    BY <2>1, <2>4, <2>5, LessSubset
  <2>7. SumFunctionOnSet(f, t) = f[Pick(t)] + SumFunctionOnSet(f, r)
    BY <2>1, <2>5, SumPick
  <2>8. f[Pick(t)] \in V
    BY <1>1, <2>4, <2>6
  <2>9. SumFunctionOnSet(f, r) \notin V
    BY <1>1, <2>4, <2>7, <2>8
  <2>10. Cardinality(r) \in T
    BY <2>6, <2>9
  <2> HIDE DEF r, T, Bad
  <2>11. m <= Cardinality(r)
    BY <2>3, <2>10
  <2> QED BY <2>6, <2>11
<1> QED BY <1>1

\* One element is taken out of a sum, whichever it is.
LEMMA SumRemove ==
    ASSUME NEW S, IsFiniteSet(S), NEW f, \A x \in S : f[x] \in Int, NEW y \in S
    PROVE  SumFunctionOnSet(f, S) = f[y] + SumFunctionOnSet(f, S \ {y})
<1> DEFINE Fails(u, x) == SumFunctionOnSet(f, u) # f[x] + SumFunctionOnSet(f, u \ {x})
<1> DEFINE Bad == {u \in SUBSET S : \E x \in u : Fails(u, x)}
<1> DEFINE T == {Cardinality(t) : t \in Bad}
<1> SUFFICES ASSUME Fails(S, y) PROVE FALSE
  OBVIOUS
<1>1. \A t \in SUBSET S : IsFiniteSet(t) /\ Cardinality(t) \in Nat
  BY FS_Subset, FS_CardinalityType
<1>2. T \subseteq Nat /\ T # {}
  BY <1>1
<1>3. PICK m \in T : \A k \in T : m <= k
  BY <1>2, Least
<1>4. PICK t \in Bad : m = Cardinality(t)
  BY <1>3
<1>5. PICK x \in t : Fails(t, x)
  BY <1>4
<1> DEFINE p == Pick(t)
<1>6. t \in SUBSET S /\ p \in t /\ x \in S /\ p \in S
  BY <1>4, <1>5, PickIn
<1>7. \A u \in SUBSET t : u # t => u \notin Bad
  <2> SUFFICES ASSUME NEW u \in SUBSET t, u # t, u \in Bad PROVE FALSE
    OBVIOUS
  <2>1. Cardinality(u) \in T /\ IsFiniteSet(t) /\ Cardinality(u) \in Nat
    BY <1>1, <1>6
  <2> HIDE DEF T
  <2>2. m <= Cardinality(u)
    BY <1>3, <2>1
  <2>3. Cardinality(u) <= Cardinality(t) /\ Cardinality(u) # Cardinality(t)
    BY <2>1, FS_Subset
  <2>4. m \in Nat
    BY <1>2, <1>3
  <2> QED BY <1>4, <2>1, <2>2, <2>3, <2>4
<1> DEFINE tp == t \ {p}
<1> DEFINE tx == t \ {x}
<1> DEFINE tpx == t \ {p, x}
<1>8. /\ tp \in SUBSET t /\ tp # t /\ tp \notin Bad /\ tp \in SUBSET S
      /\ tx \in SUBSET t /\ tx # t /\ tx \notin Bad /\ tx \in SUBSET S
      /\ tp \ {x} = tpx /\ tx \ {p} = tpx /\ tpx \in SUBSET S
  BY <1>6, <1>7
<1>9. SumFunctionOnSet(f, t) = f[p] + SumFunctionOnSet(f, tp)
  BY <1>1, <1>6, SumPick
<1>10. x # p
  BY <1>5, <1>9
<1>11. SumFunctionOnSet(f, tp) = f[x] + SumFunctionOnSet(f, tpx)
  BY <1>5, <1>8, <1>10
<1>12. SumFunctionOnSet(f, tx) = f[p] + SumFunctionOnSet(f, tpx)
  BY <1>6, <1>8, <1>10
<1>13. SumFunctionOnSet(f, tpx) \in Int
  BY <1>1, <1>8, SumType
<1>14. f[x] \in Int /\ f[p] \in Int
  BY <1>6
<1>15. SumFunctionOnSet(f, t) # f[x] + SumFunctionOnSet(f, tx)
  BY <1>5
<1> HIDE DEF p, tp, tx, tpx
<1> QED BY <1>9, <1>11, <1>12, <1>13, <1>14, <1>15

\* One element more.
LEMMA SumAdd ==
    ASSUME NEW S, IsFiniteSet(S), NEW y, y \notin S, NEW f, f[y] \in Int,
           \A x \in S : f[x] \in Int
    PROVE  SumFunctionOnSet(f, S \cup {y}) = f[y] + SumFunctionOnSet(f, S)
<1>1. IsFiniteSet(S \cup {y})
  BY FS_AddElement
<1>2. (S \cup {y}) \ {y} = S
  OBVIOUS
<1> QED BY <1>1, <1>2, SumRemove

\* A sum over more, of naturals, is no less.
LEMMA SumLess ==
    ASSUME NEW S, IsFiniteSet(S), NEW f, \A x \in S : f[x] \in Nat, NEW u \in SUBSET S
    PROVE  SumFunctionOnSet(f, u) <= SumFunctionOnSet(f, S)
<1> DEFINE Bad == {t \in SUBSET S : u \subseteq t /\ ~(SumFunctionOnSet(f, u) <= SumFunctionOnSet(f, t))}
<1> DEFINE T == {Cardinality(t) : t \in Bad}
<1> SUFFICES ASSUME S \in Bad PROVE FALSE
  OBVIOUS
<1>1. \A t \in SUBSET S : /\ IsFiniteSet(t) /\ Cardinality(t) \in Nat
                          /\ SumFunctionOnSet(f, t) \in Nat
  BY FS_Subset, FS_CardinalityType, SumType
<1>2. T \subseteq Nat /\ T # {}
  BY <1>1
<1>3. PICK m \in T : \A k \in T : m <= k
  BY <1>2, Least
<1>4. PICK t \in Bad : m = Cardinality(t)
  BY <1>3
<1>5. PICK x \in t : x \notin u
  BY <1>1, <1>4
<1> DEFINE r == t \ {x}
<1>6. r \in SUBSET S /\ u \subseteq r /\ t \in SUBSET S
  BY <1>4, <1>5
<1>7. Cardinality(r) = m - 1 /\ m \in Nat
  BY <1>1, <1>4, <1>5, <1>6, FS_RemoveElement
<1>8. SumFunctionOnSet(f, t) = f[x] + SumFunctionOnSet(f, r)
  BY <1>1, <1>5, <1>6, SumRemove
<1>9. f[x] \in Nat /\ SumFunctionOnSet(f, r) \in Nat /\ SumFunctionOnSet(f, u) \in Nat
  BY <1>1, <1>5, <1>6
<1>10. ~(SumFunctionOnSet(f, u) <= SumFunctionOnSet(f, t))
  BY <1>4
<1>11. ~(SumFunctionOnSet(f, u) <= SumFunctionOnSet(f, r))
  BY <1>8, <1>9, <1>10
<1>12. Cardinality(r) \in T
  BY <1>6, <1>11
<1> HIDE DEF r, T, Bad
<1>13. m <= Cardinality(r)
  BY <1>3, <1>12
<1> QED BY <1>7, <1>13

\* Induction over the subsets of a finite set: G has the ones for which it holds.
LEMMA SetInduction ==
    ASSUME NEW S, IsFiniteSet(S), NEW G, {} \in G,
           \A t \in SUBSET S : \A x \in S \ t : t \in G => t \cup {x} \in G
    PROVE  \A t \in SUBSET S : t \in G
<1> DEFINE Bad == {t \in SUBSET S : t \notin G}
           Sizes == {Cardinality(t) : t \in Bad}
<1> SUFFICES ASSUME Bad # {} PROVE FALSE
  OBVIOUS
<1>1. \A t \in SUBSET S : IsFiniteSet(t) /\ Cardinality(t) \in Nat
  BY FS_Subset, FS_CardinalityType
<1>2. Sizes \subseteq Nat /\ Sizes # {}
  BY <1>1
<1>3. PICK m \in Sizes : \A k \in Sizes : m <= k
  BY <1>2, Least
<1>4. PICK t \in Bad : m = Cardinality(t)
  BY <1>3
<1>5. PICK x \in t : TRUE
  BY <1>4
<1> DEFINE r == t \ {x}
<1>6. r \in SUBSET S /\ x \in S \ r /\ r \cup {x} = t /\ IsFiniteSet(t)
  BY <1>1, <1>4, <1>5
<1>7. Cardinality(r) = m - 1 /\ m \in Nat
  BY <1>1, <1>4, <1>5, <1>6, FS_RemoveElement
<1>8. r \notin G
  BY <1>4, <1>6
<1>9. Cardinality(r) \in Sizes
  BY <1>6, <1>8
<1> HIDE DEF r, Sizes, Bad
<1>10. m <= Cardinality(r)
  BY <1>3, <1>9
<1> QED BY <1>7, <1>10

\* The sum over two sets that are apart, and the sum of ones.
LEMMA SumUnion ==
    ASSUME NEW A, NEW B, IsFiniteSet(A), IsFiniteSet(B), A \cap B = {},
           NEW f, \A x \in A \cup B : f[x] \in Int
    PROVE  SumFunctionOnSet(f, A \cup B) = SumFunctionOnSet(f, A) + SumFunctionOnSet(f, B)
<1> DEFINE G == {t \in SUBSET B : SumFunctionOnSet(f, A \cup t) =
                                  SumFunctionOnSet(f, A) + SumFunctionOnSet(f, t)}
<1>1. \A t \in SUBSET B : IsFiniteSet(t) /\ SumFunctionOnSet(f, t) \in Int
  BY FS_Subset, SumType
<1>2. SumFunctionOnSet(f, A) \in Int
  BY SumType
<1>3. {} \in G
  <2>1. SumFunctionOnSet(f, {}) = 0 /\ A \cup {} = A
    BY SumEmpty
  <2> QED BY <1>2, <2>1
<1>4. ASSUME NEW t \in SUBSET B, NEW x \in B \ t, t \in G
      PROVE  t \cup {x} \in G
  <2>1. SumFunctionOnSet(f, A \cup t) = SumFunctionOnSet(f, A) + SumFunctionOnSet(f, t)
    BY <1>4
  <2>2. IsFiniteSet(A \cup t) /\ x \notin A \cup t
    BY <1>1, FS_Union
  <2>3. SumFunctionOnSet(f, (A \cup t) \cup {x}) = f[x] + SumFunctionOnSet(f, A \cup t)
    BY <2>2, SumAdd
  <2>4. SumFunctionOnSet(f, t \cup {x}) = f[x] + SumFunctionOnSet(f, t)
    BY <1>1, SumAdd
  <2>5. A \cup (t \cup {x}) = (A \cup t) \cup {x} /\ f[x] \in Int
    OBVIOUS
  <2>6. SumFunctionOnSet(f, A \cup (t \cup {x})) = f[x] + SumFunctionOnSet(f, A \cup t)
    BY <2>3, <2>5
  <2>7. SumFunctionOnSet(f, A \cup (t \cup {x})) =
          SumFunctionOnSet(f, A) + SumFunctionOnSet(f, t \cup {x})
    BY <1>1, <1>2, <2>1, <2>4, <2>5, <2>6
  <2> QED BY <2>7
<1> HIDE DEF G
<1>5. B \in G
  BY <1>3, <1>4, SetInduction
<1> QED BY <1>5 DEF G

LEMMA SumOnes ==
    ASSUME NEW S, IsFiniteSet(S), NEW f, \A x \in S : f[x] = 1
    PROVE  SumFunctionOnSet(f, S) = Cardinality(S)
<1> DEFINE G == {t \in SUBSET S : SumFunctionOnSet(f, t) = Cardinality(t)}
<1>1. {} \in G
  BY SumEmpty, FS_EmptySet
<1>2. ASSUME NEW t \in SUBSET S, NEW x \in S \ t, t \in G
      PROVE  t \cup {x} \in G
  <2>1. IsFiniteSet(t) /\ Cardinality(t) \in Nat
    BY FS_Subset, FS_CardinalityType
  <2>2. Cardinality(t \cup {x}) = Cardinality(t) + 1
    BY <2>1, FS_AddElement
  <2>3. SumFunctionOnSet(f, t \cup {x}) = f[x] + SumFunctionOnSet(f, t)
    <3>1. \A y \in t : f[y] \in Int
      OBVIOUS
    <3>2. f[x] \in Int
      OBVIOUS
    <3> QED BY <2>1, <3>1, <3>2, SumAdd
  <2>4. SumFunctionOnSet(f, t) = Cardinality(t) /\ f[x] = 1
    BY <1>2
  <2>5. SumFunctionOnSet(f, t \cup {x}) = Cardinality(t \cup {x})
    BY <2>1, <2>2, <2>3, <2>4
  <2> QED BY <2>5
<1> HIDE DEF G
<1>3. S \in G
  BY <1>1, <1>2, SetInduction
<1> QED BY <1>3 DEF G

LEMMA SumZeros ==
    ASSUME NEW S, IsFiniteSet(S), NEW f, \A x \in S : f[x] = 0
    PROVE  SumFunctionOnSet(f, S) = 0
<1> DEFINE G == {t \in SUBSET S : SumFunctionOnSet(f, t) = 0}
<1>1. {} \in G
  BY SumEmpty
<1>2. ASSUME NEW t \in SUBSET S, NEW x \in S \ t, t \in G
      PROVE  t \cup {x} \in G
  <2>1. IsFiniteSet(t) /\ f[x] \in Int /\ f[x] = 0 /\ \A y \in t : f[y] \in Int
    BY FS_Subset
  <2>2. SumFunctionOnSet(f, t \cup {x}) = f[x] + SumFunctionOnSet(f, t)
    BY <2>1, SumAdd
  <2> QED BY <1>2, <2>1, <2>2
<1> HIDE DEF G
<1>3. S \in G
  BY <1>1, <1>2, SetInduction
<1> QED BY <1>3 DEF G
-----------------------------------------------------------------------------
(* Building a device                                                       *)

\* 31 string indices and 16 interfaces in the code.
BuildParams ==
    /\ Strings \subseteq Nat \ {0} /\ IsFiniteSet(Strings)
    /\ Intfs \subseteq Nat /\ IsFiniteSet(Intfs)

BuiltFuncs == [idx : Strings, spec : BOOLEAN, nEp : Nat, assoc : Strings \cup {0}]
BuiltPipes == [ep : EpNums, intf : Intfs]
BuiltCfgs == [idx : Strings, nFunc : Nat, total : Int, whole : BOOLEAN,
              func : [Intfs -> BuiltFuncs \cup {Build!NoFunc}], pipes : Seq(BuiltPipes)]

\* What an interface adds to the descriptor, by its counted endpoints.
BuiltLen(c) ==
    [i \in Intfs |-> Build!IntfLen + (IF c.func[i].spec THEN Build!SpecLen ELSE 0)
                     + Build!EpLen * c.func[i].nEp
                     + (IF c.func[i].assoc = 0 THEN 0 ELSE Build!AssocLen)]
BuiltIntfs(c) == {i \in Intfs : Build!HasIntf(c, i)}

\* The counters of a configuration are exact, whatever has failed: an interface
\* counts its pipes, the total is the sum over the interfaces that are there.
BuiltExact(c) ==
    /\ c \in BuiltCfgs
    /\ \A i \in Intfs : c.func[i].nEp = Build!PipesOf(c, i)
    /\ c.total = Build!CfgLen + SumFunctionOnSet(BuiltLen(c), BuiltIntfs(c))

\* A string index has one owner in the configurations at most, and none if it is
\* free or the device's own.
BuiltOwned ==
    /\ builtMask \subseteq Strings /\ builtStr \subseteq builtMask
    /\ \A s \in Strings :
        /\ \A o, p \in Build!OwnersOf(s) : o = p
        /\ s \in builtStr \/ s \notin builtMask => Build!OwnersOf(s) = {}

BuildInv ==
    /\ BuiltOwned
    /\ builtNum \in Nat /\ DOMAIN builtCfg \subseteq 1 .. builtNum
    /\ \A n \in DOMAIN builtCfg : BuiltExact(builtCfg[n])

LEMMA BuildSame ==
    /\ \A S : Build!Cardinality(S) = Cardinality(S)
    /\ \A f, S : Build!SumFunctionOnSet(f, S) = SumFunctionOnSet(f, S)
<1>1. \A S : Build!Cardinality(S) = Cardinality(S)
  BY DEF Build!Cardinality, Build!IsFiniteSet, Cardinality, IsFiniteSet
<1>2. \A f, S : Build!SumFunctionOnSet(f, S) = SumFunctionOnSet(f, S)
  BY DEF Build!SumFunctionOnSet, Build!FoldFunctionOnSet, Build!MapThenFoldSet,
         SumFunctionOnSet, FoldFunctionOnSet, MapThenFoldSet
<1> QED BY <1>1, <1>2

\* The strings of one configuration that have an index.
OwnersIn(c, n, s) ==
    {<<n, j, "idx">> : j \in {j \in Intfs : c.func[j].idx = s}}
    \cup {<<n, j, "assoc">> : j \in {j \in Intfs : c.func[j].assoc = s}}
    \cup {<<n, n, "cfg">> : d \in {c.idx} \cap {s}}

LEMMA OwnerIn ==
    ASSUME NEW c, NEW n, NEW s, NEW o
    PROVE  o \in OwnersIn(c, n, s) <=>
               \/ \E j \in Intfs : o = <<n, j, "idx">> /\ c.func[j].idx = s
               \/ \E j \in Intfs : o = <<n, j, "assoc">> /\ c.func[j].assoc = s
               \/ o = <<n, n, "cfg">> /\ c.idx = s
<1>1. o \in {<<n, j, "idx">> : j \in {j \in Intfs : c.func[j].idx = s}}
          <=> \E j \in Intfs : o = <<n, j, "idx">> /\ c.func[j].idx = s
  OBVIOUS
<1>2. o \in {<<n, j, "assoc">> : j \in {j \in Intfs : c.func[j].assoc = s}}
          <=> \E j \in Intfs : o = <<n, j, "assoc">> /\ c.func[j].assoc = s
  OBVIOUS
<1>3. o \in {<<n, n, "cfg">> : d \in {c.idx} \cap {s}} <=> o = <<n, n, "cfg">> /\ c.idx = s
  OBVIOUS
<1> QED BY <1>1, <1>2, <1>3 DEF OwnersIn

LEMMA OwnerIs ==
    ASSUME NEW s
    PROVE  /\ Build!OwnersOf(s) = UNION {OwnersIn(builtCfg[n], n, s) : n \in DOMAIN builtCfg}
           /\ Build!OwnersOf(s)' = UNION {OwnersIn(builtCfg'[n], n, s) : n \in DOMAIN builtCfg'}
BY DEF Build!OwnersOf, OwnersIn

\* A free index is the least of the free ones.
LEMMA LowestIn ==
    ASSUME NEW S, S \subseteq Nat, S # {}
    PROVE  Build!Lowest(S) \in S
<1>1. PICK x \in S : \A y \in S : x <= y
  BY Least
<1> QED BY <1>1 DEF Build!Lowest, Build!Min

\* Indices are taken: those taken have one owner then, the others no other.
LEMMA OwnersGrow ==
    ASSUME BuiltOwned, NEW N, N \subseteq Build!Free,
           builtMask' = builtMask \cup N, builtStr' = builtStr,
           \A s \in Strings \ N : Build!OwnersOf(s)' \subseteq Build!OwnersOf(s),
           \A s \in N : \A o, p \in Build!OwnersOf(s)' : o = p
    PROVE  BuiltOwned'
<1>1. N \subseteq Strings /\ N \cap builtMask = {}
  BY DEF Build!Free
<1>2. builtMask' \subseteq Strings /\ builtStr' \subseteq builtMask'
  BY <1>1 DEF BuiltOwned
<1>3. ASSUME NEW s \in Strings
      PROVE  /\ \A o, p \in Build!OwnersOf(s)' : o = p
             /\ s \in builtStr' \/ s \notin builtMask' => Build!OwnersOf(s)' = {}
  <2>1. CASE s \in N
    BY <1>1, <2>1 DEF BuiltOwned
  <2>2. CASE s \notin N
    BY <2>2 DEF BuiltOwned
  <2> QED BY <2>1, <2>2
<1> QED BY <1>2, <1>3 DEF BuiltOwned

\* Configurations are deleted: the indices of their functions are given back, and
\* no string that stays has one of them.
LEMMA OwnersShrink ==
    ASSUME BuiltOwned, NEW G \in SUBSET DOMAIN builtCfg,
           builtMask' = builtMask \ UNION {Build!CfgFreed(n) : n \in G}, builtStr' = builtStr,
           builtCfg' = [c \in DOMAIN builtCfg \ G |-> builtCfg[c]],
           \A n \in DOMAIN builtCfg : DOMAIN builtCfg[n].func = Intfs
    PROVE  BuiltOwned'
<1>1. ASSUME NEW s \in Strings, NEW o \in Build!OwnersOf(s)'
      PROVE  o \in Build!OwnersOf(s) /\ \E n \in DOMAIN builtCfg \ G : o[1] = n
  BY <1>1, OwnerIs, OwnerIn
<1>2. ASSUME NEW n \in G, NEW s \in Build!CfgFreed(n)
      PROVE  \E o \in Build!OwnersOf(s) : o[1] = n
  <2>1. PICK j \in Intfs : builtCfg[n].func[j].idx = s
    BY <1>2 DEF Build!CfgFreed, Build!FuncStrs
  <2>2. <<n, j, "idx">> \in Build!OwnersOf(s)
    BY <2>1, OwnerIs, OwnerIn
  <2> QED BY <2>2
<1>3. ASSUME NEW s \in Strings, NEW n \in G, s \in Build!CfgFreed(n)
      PROVE  Build!OwnersOf(s)' = {} /\ s \notin builtStr
  <2>1. PICK o \in Build!OwnersOf(s) : o[1] = n
    BY <1>2, <1>3
  <2>2. s \notin builtStr /\ \A p \in Build!OwnersOf(s) : p = o
    BY <2>1 DEF BuiltOwned
  <2>3. \A p \in Build!OwnersOf(s)' : p = o /\ p[1] # n
    BY <1>1, <2>2
  <2> QED BY <2>1, <2>2, <2>3
<1>4. builtMask' \subseteq Strings /\ builtStr' \subseteq builtMask'
  <2>1. ASSUME NEW s \in builtStr PROVE s \in builtMask'
    BY <1>3, <2>1 DEF BuiltOwned
  <2> QED BY <2>1 DEF BuiltOwned
<1>5. ASSUME NEW s \in Strings
      PROVE  /\ \A o, p \in Build!OwnersOf(s)' : o = p
             /\ s \in builtStr' \/ s \notin builtMask' => Build!OwnersOf(s)' = {}
  <2>1. Build!OwnersOf(s)' \subseteq Build!OwnersOf(s)
    BY <1>1
  <2>2. s \notin builtMask' => s \notin builtMask \/ \E n \in G : s \in Build!CfgFreed(n)
    OBVIOUS
  <2> QED BY <1>3, <2>1, <2>2 DEF BuiltOwned
<1> QED BY <1>4, <1>5 DEF BuiltOwned

\* The places of the pipes of an interface.
BuiltAt(t, i) == {k \in DOMAIN t : t[k].intf = i}

LEMMA BuiltAtIs ==
    ASSUME NEW c, NEW i
    PROVE  Build!PipesOf(c, i) = Cardinality(BuiltAt(c.pipes, i))
BY BuildSame DEF Build!PipesOf, BuiltAt

LEMMA BuiltAtFinite ==
    ASSUME NEW S, NEW s \in Seq(S), NEW i
    PROVE  IsFiniteSet(BuiltAt(s, i))
<1>1. Len(s) \in Nat /\ DOMAIN s = 1 .. Len(s)
  OBVIOUS
<1>2. IsFiniteSet(1 .. Len(s))
  BY <1>1, FS_Interval
<1> QED BY <1>1, <1>2, FS_Subset DEF BuiltAt

\* A pipe more, at the end.
LEMMA PipesAppend ==
    ASSUME NEW S, NEW s \in Seq(S), NEW e \in S, NEW i
    PROVE  /\ IsFiniteSet(BuiltAt(s, i))
           /\ Cardinality(BuiltAt(Append(s, e), i)) =
                  Cardinality(BuiltAt(s, i)) + (IF e.intf = i THEN 1 ELSE 0)
<1> USE DEF BuiltAt
<1>1. Len(s) \in Nat /\ DOMAIN s = 1 .. Len(s) /\ DOMAIN Append(s, e) = 1 .. Len(s) + 1
  OBVIOUS
<1>2. /\ \A k \in 1 .. Len(s) : Append(s, e)[k] = s[k]
      /\ Append(s, e)[Len(s) + 1] = e
  OBVIOUS
<1>3. IsFiniteSet(1 .. Len(s))
  BY <1>1, FS_Interval
<1>4. IsFiniteSet(BuiltAt(s, i)) /\ Cardinality(BuiltAt(s, i)) \in Nat
  BY <1>1, <1>3, FS_Subset, FS_CardinalityType
<1>5. BuiltAt(Append(s, e), i) = BuiltAt(s, i) \cup (IF e.intf = i THEN {Len(s) + 1} ELSE {})
  BY <1>1, <1>2
<1>6. Len(s) + 1 \notin BuiltAt(s, i)
  BY <1>1
<1> HIDE DEF BuiltAt
<1>7. Cardinality(BuiltAt(s, i) \cup {Len(s) + 1}) = Cardinality(BuiltAt(s, i)) + 1
  BY <1>4, <1>6, FS_AddElement
<1>8. Cardinality(BuiltAt(Append(s, e), i)) = Cardinality(BuiltAt(s, i)) + (IF e.intf = i THEN 1 ELSE 0)
  <2>1. CASE e.intf = i
    BY <1>5, <1>7, <2>1
  <2>2. CASE e.intf # i
    <3>1. BuiltAt(Append(s, e), i) = BuiltAt(s, i)
      BY <1>5, <2>2
    <3> QED BY <1>4, <2>2, <3>1
  <2> QED BY <2>1, <2>2
<1> QED BY <1>4, <1>8

\* A pipe less: those after it move up.
LEMMA PipesRemove ==
    ASSUME NEW S, NEW s \in Seq(S), NEW n \in 1 .. Len(s), NEW r \in Seq(S),
           Len(r) = Len(s) - 1,
           \A k \in 1 .. Len(r) : r[k] = IF k < n THEN s[k] ELSE s[k + 1], NEW i
    PROVE  Cardinality(BuiltAt(r, i)) = Cardinality(BuiltAt(s, i)) - (IF s[n].intf = i THEN 1 ELSE 0)
<1> USE DEF BuiltAt
<1> DEFINE f == [k \in BuiltAt(r, i) |-> IF k < n THEN k ELSE k + 1]
<1>1. /\ Len(s) \in Nat /\ DOMAIN s = 1 .. Len(s)
      /\ Len(r) \in Nat /\ DOMAIN r = 1 .. Len(r)
  OBVIOUS
<1>2. IsFiniteSet(BuiltAt(s, i)) /\ Cardinality(BuiltAt(s, i)) \in Nat /\ IsFiniteSet(BuiltAt(r, i))
  <2>1. IsFiniteSet(1 .. Len(s)) /\ IsFiniteSet(1 .. Len(r))
    BY <1>1, FS_Interval
  <2> QED BY <1>1, <2>1, FS_Subset, FS_CardinalityType
<1>3. f \in [BuiltAt(r, i) -> BuiltAt(s, i) \ {n}]
  <2> SUFFICES ASSUME NEW k \in BuiltAt(r, i) PROVE f[k] \in BuiltAt(s, i) /\ f[k] # n
    OBVIOUS
  <2>1. k \in 1 .. Len(r) /\ r[k].intf = i
    BY <1>1
  <2>2. CASE k < n
    <3>1. f[k] = k /\ k \in 1 .. Len(s) /\ s[k].intf = i
      BY <1>1, <2>1, <2>2
    <3> QED BY <1>1, <2>2, <3>1
  <2>3. CASE ~(k < n)
    <3>1. f[k] = k + 1 /\ k + 1 \in 1 .. Len(s)
      BY <1>1, <2>1, <2>3
    <3>2. s[k + 1].intf = i
      BY <2>1, <2>3
    <3> QED BY <1>1, <2>1, <2>3, <3>1, <3>2
  <2> QED BY <2>2, <2>3
<1>4. \A j, k \in BuiltAt(r, i) : f[j] = f[k] => j = k
  BY <1>1
<1>5. ASSUME NEW m \in BuiltAt(s, i) \ {n} PROVE \E k \in BuiltAt(r, i) : f[k] = m
  <2>1. m \in 1 .. Len(s) /\ s[m].intf = i /\ m # n
    BY <1>1
  <2>2. CASE m < n
    <3>1. m \in 1 .. Len(r) /\ r[m] = s[m]
      BY <1>1, <2>1, <2>2
    <3>2. m \in BuiltAt(r, i) /\ f[m] = m
      BY <1>1, <2>1, <2>2, <3>1
    <3> QED BY <3>2
  <2>3. CASE ~(m < n)
    <3>1. m - 1 \in 1 .. Len(r) /\ r[m - 1] = s[m]
      BY <1>1, <2>1, <2>3
    <3>2. m - 1 \in BuiltAt(r, i) /\ f[m - 1] = m
      BY <1>1, <2>1, <2>3, <3>1
    <3> QED BY <3>2
  <2> QED BY <2>2, <2>3
<1> HIDE DEF f
<1>6. f \in Bijection(BuiltAt(r, i), BuiltAt(s, i) \ {n})
  BY <1>3, <1>4, <1>5, Fun_IsBij
<1>7. Cardinality(BuiltAt(s, i) \ {n}) = Cardinality(BuiltAt(r, i))
  <2>1. ExistsBijection(BuiltAt(r, i), BuiltAt(s, i) \ {n})
    BY <1>6 DEF ExistsBijection
  <2> QED BY <1>2, <2>1, FS_Bijection
<1>8. n \in BuiltAt(s, i) <=> s[n].intf = i
  BY <1>1
<1> HIDE DEF BuiltAt
<1>9. Cardinality(BuiltAt(r, i)) = Cardinality(BuiltAt(s, i)) - (IF s[n].intf = i THEN 1 ELSE 0)
  <2>1. CASE s[n].intf = i
    <3>1. Cardinality(BuiltAt(s, i) \ {n}) = Cardinality(BuiltAt(s, i)) - 1
      BY <1>2, <1>8, <2>1, FS_RemoveElement
    <3> QED BY <1>7, <2>1, <3>1
  <2>2. CASE s[n].intf # i
    <3>1. BuiltAt(s, i) \ {n} = BuiltAt(s, i)
      BY <1>8, <2>2
    <3>2. Cardinality(BuiltAt(r, i)) = Cardinality(BuiltAt(s, i))
      BY <1>7, <3>1, Zenon
    <3>3. Cardinality(BuiltAt(s, i)) = Cardinality(BuiltAt(s, i)) - (IF s[n].intf = i THEN 1 ELSE 0)
      BY <1>2, <2>2
    <3> QED BY <3>2, <3>3
  <2> QED BY <2>1, <2>2
<1> QED BY <1>9

LEMMA BuiltLenType ==
    ASSUME NEW c \in BuiltCfgs, NEW x \in Intfs
    PROVE  /\ BuiltLen(c)[x] \in Int /\ c.func[x].nEp \in Nat
           /\ c.func[x].idx \in Strings \cup {0} /\ c.func[x].assoc \in Strings \cup {0}
<1>1. c.func[x] \in BuiltFuncs \/ c.func[x] = Build!NoFunc
  BY DEF BuiltCfgs
<1>2. /\ c.func[x].nEp \in Nat /\ c.func[x].idx \in Strings \cup {0}
      /\ c.func[x].assoc \in Strings \cup {0}
  BY <1>1 DEF BuiltFuncs, Build!NoFunc
<1>3. BuiltLen(c)[x] \in Int
  BY <1>2 DEF BuiltLen, Build!IntfLen, Build!SpecLen, Build!EpLen, Build!AssocLen
<1> QED BY <1>2, <1>3

\* A function is made: its length is counted.
LEMMA FuncMadeExact ==
    ASSUME BuildParams, NEW c, BuiltExact(c), NEW i \in Intfs, ~Build!HasIntf(c, i),
           NEW spec \in BOOLEAN, NEW idx \in Strings, NEW assoc \in Strings \cup {0}
    PROVE  LET d == Build!FuncMade(c, i, spec, idx, assoc)
           IN /\ BuiltExact(d) /\ d.idx = c.idx
              /\ d.func = [c.func EXCEPT ![i] = [idx |-> idx, spec |-> spec, nEp |-> 0,
                                                 assoc |-> assoc]]
<1> DEFINE new == [idx |-> idx, spec |-> spec, nEp |-> 0, assoc |-> assoc]
           more == Build!IntfLen + (IF spec THEN Build!SpecLen ELSE 0)
                       + (IF assoc = 0 THEN 0 ELSE Build!AssocLen)
           d == Build!FuncMade(c, i, spec, idx, assoc)
<1>1. c \in BuiltCfgs
  BY DEF BuiltExact
<1>a. c.total + more
          = c.total + Build!IntfLen + (IF spec THEN Build!SpecLen ELSE 0)
                + (IF assoc = 0 THEN 0 ELSE Build!AssocLen)
  <2>1. c.total \in Int
    BY <1>1 DEF BuiltCfgs
  <2> QED BY <2>1 DEF Build!IntfLen, Build!SpecLen, Build!AssocLen
<1>b. d = [c EXCEPT !.nFunc = c.nFunc + 1, !.func[i] = new, !.total = c.total + more]
  BY <1>a DEF Build!FuncMade
<1> HIDE DEF d
<1>2. /\ d.idx = c.idx /\ d.nFunc = c.nFunc + 1 /\ d.whole = c.whole /\ d.pipes = c.pipes
      /\ d.func = [c.func EXCEPT ![i] = new] /\ d.total = c.total + more
      /\ d = [idx |-> d.idx, nFunc |-> d.nFunc, total |-> d.total, whole |-> d.whole,
              func |-> d.func, pipes |-> d.pipes]
  <2> HIDE DEF new, more
  <2> QED BY <1>1, <1>b DEF BuiltCfgs
<1>3. new \in BuiltFuncs /\ new # Build!NoFunc /\ more \in Nat
  BY DEF BuiltFuncs, Build!NoFunc, BuildParams, Build!IntfLen, Build!SpecLen, Build!AssocLen
<1>4. d \in BuiltCfgs
  <2>1. d.func \in [Intfs -> BuiltFuncs \cup {Build!NoFunc}] /\ d.total \in Int
    BY <1>1, <1>2, <1>3 DEF BuiltCfgs
  <2>2. d.idx \in Strings /\ d.nFunc \in Nat /\ d.whole \in BOOLEAN /\ d.pipes \in Seq(BuiltPipes)
    BY <1>1, <1>2 DEF BuiltCfgs
  <2> HIDE DEF new, more
  <2> QED BY <1>2, <2>1, <2>2 DEF BuiltCfgs
<1>5. /\ BuiltIntfs(d) = BuiltIntfs(c) \cup {i} /\ i \notin BuiltIntfs(c)
      /\ \A x \in Intfs : x # i => BuiltLen(d)[x] = BuiltLen(c)[x]
      /\ BuiltLen(d)[i] = more
  <2>1. c.func \in [Intfs -> BuiltFuncs \cup {Build!NoFunc}]
    BY <1>1 DEF BuiltCfgs
  <2>2. d.func[i] = new /\ \A x \in Intfs : x # i => d.func[x] = c.func[x]
    BY <1>2, <2>1
  <2>3. BuiltIntfs(d) = BuiltIntfs(c) \cup {i} /\ i \notin BuiltIntfs(c)
    BY <1>3, <2>2 DEF BuiltIntfs, Build!HasIntf
  <2>4. BuiltLen(d)[i] = more
    BY <2>2 DEF BuiltLen, Build!EpLen, Build!IntfLen, Build!SpecLen, Build!AssocLen
  <2>5. \A x \in Intfs : x # i => BuiltLen(d)[x] = BuiltLen(c)[x]
    BY <2>2 DEF BuiltLen
  <2> QED BY <2>3, <2>4, <2>5
<1>6. d.total = Build!CfgLen + SumFunctionOnSet(BuiltLen(d), BuiltIntfs(d))
  <2>1. IsFiniteSet(BuiltIntfs(c)) /\ BuiltIntfs(c) \subseteq Intfs
    BY FS_Subset DEF BuildParams, BuiltIntfs
  <2>2. \A x \in Intfs : BuiltLen(d)[x] \in Int
    BY <1>4, BuiltLenType
  <2>3. SumFunctionOnSet(BuiltLen(d), BuiltIntfs(c) \cup {i})
            = BuiltLen(d)[i] + SumFunctionOnSet(BuiltLen(d), BuiltIntfs(c))
    BY <1>5, <2>1, <2>2, SumAdd
  <2>4. SumFunctionOnSet(BuiltLen(d), BuiltIntfs(c)) = SumFunctionOnSet(BuiltLen(c), BuiltIntfs(c))
    BY <1>5, <2>1, SumEqual
  <2>5. SumFunctionOnSet(BuiltLen(c), BuiltIntfs(c)) \in Int
    BY <1>1, <2>1, BuiltLenType, SumType
  <2>6. c.total = Build!CfgLen + SumFunctionOnSet(BuiltLen(c), BuiltIntfs(c))
    BY DEF BuiltExact
  <2> HIDE DEF more
  <2> QED BY <1>2, <1>3, <1>5, <2>3, <2>4, <2>5, <2>6 DEF Build!CfgLen
<1>7. \A x \in Intfs : d.func[x].nEp = Build!PipesOf(d, x)
  <2> SUFFICES ASSUME NEW x \in Intfs PROVE d.func[x].nEp = Build!PipesOf(d, x)
    OBVIOUS
  <2>1. Build!PipesOf(d, x) = Build!PipesOf(c, x)
    BY <1>2 DEF Build!PipesOf
  <2>2. c.func[x].nEp = Build!PipesOf(c, x)
    BY DEF BuiltExact
  <2>3. c.func[i].nEp = 0
    BY DEF Build!HasIntf, Build!NoFunc
  <2>4. d.func[x].nEp = c.func[x].nEp
    BY <1>1, <1>2, <2>3 DEF BuiltCfgs
  <2> QED BY <2>1, <2>2, <2>4
<1>8. BuiltExact(d)
  BY <1>4, <1>6, <1>7 DEF BuiltExact
<1> QED BY <1>2, <1>8 DEF d, new

\* An interface with n endpoints more, or less, and other pipes.
BuiltWith(c, i, n, p) ==
    [c EXCEPT !.pipes = p, !.func[i].nEp = @ + n, !.total = @ + Build!EpLen * n]

LEMMA PipesExact ==
    ASSUME BuildParams, NEW c, BuiltExact(c), NEW i \in Intfs, Build!HasIntf(c, i),
           NEW n \in Int, c.func[i].nEp + n \in Nat, NEW p \in Seq(BuiltPipes),
           \A x \in Intfs : Cardinality(BuiltAt(p, x))
                                = Build!PipesOf(c, x) + (IF x = i THEN n ELSE 0)
    PROVE  BuiltExact(BuiltWith(c, i, n, p))
<1> DEFINE d == BuiltWith(c, i, n, p)
<1>1. c \in BuiltCfgs /\ c.func[i] \in BuiltFuncs
  BY DEF BuiltExact, BuiltCfgs, Build!HasIntf
<1> DEFINE new == [c.func[i] EXCEPT !.nEp = c.func[i].nEp + n]
<1>2. /\ d.idx = c.idx /\ d.nFunc = c.nFunc /\ d.whole = c.whole /\ d.pipes = p
      /\ d.func = [c.func EXCEPT ![i] = new] /\ d.total = c.total + Build!EpLen * n
      /\ d = [idx |-> d.idx, nFunc |-> d.nFunc, total |-> d.total, whole |-> d.whole,
              func |-> d.func, pipes |-> d.pipes]
  <2> DEFINE t == c.total + Build!EpLen * n
             f == [c.func EXCEPT ![i] = new]
  <2>1. d = [c EXCEPT !.pipes = p, !.func = f, !.total = t]
    BY DEF BuiltWith
  <2>2. d.func = f /\ d.total = t
    <3> HIDE DEF f, t, d
    <3> QED BY <1>1, <2>1 DEF BuiltCfgs
  <2> HIDE DEF f, t, d, new
  <2>3. /\ d.idx = c.idx /\ d.nFunc = c.nFunc /\ d.whole = c.whole /\ d.pipes = p
        /\ d = [idx |-> d.idx, nFunc |-> d.nFunc, total |-> d.total, whole |-> d.whole,
                func |-> d.func, pipes |-> d.pipes]
    BY <1>1, <2>1 DEF BuiltCfgs
  <2> QED BY <2>2, <2>3 DEF f, t
<1> HIDE DEF d
<1>3. /\ new \in BuiltFuncs /\ new # Build!NoFunc /\ new.spec = c.func[i].spec
      /\ new.assoc = c.func[i].assoc /\ new.nEp = c.func[i].nEp + n
  <2>1. new.idx = c.func[i].idx /\ c.func[i].idx # 0
    BY <1>1 DEF BuiltFuncs, BuildParams
  <2> QED BY <1>1, <2>1 DEF BuiltFuncs, Build!NoFunc
<1> HIDE DEF new
<1>4. d \in BuiltCfgs
  <2>1. d.func \in [Intfs -> BuiltFuncs \cup {Build!NoFunc}] /\ d.total \in Int
    BY <1>1, <1>2, <1>3 DEF BuiltCfgs, Build!EpLen
  <2>2. d.idx \in Strings /\ d.nFunc \in Nat /\ d.whole \in BOOLEAN
    BY <1>1, <1>2 DEF BuiltCfgs
  <2> QED BY <1>2, <2>1, <2>2 DEF BuiltCfgs
<1>5. c.func \in [Intfs -> BuiltFuncs \cup {Build!NoFunc}]
  BY <1>1 DEF BuiltCfgs
<1>6. d.func[i] = new /\ \A x \in Intfs : x # i => d.func[x] = c.func[x]
  BY <1>2, <1>5
<1>7. BuiltIntfs(d) = BuiltIntfs(c) /\ i \in BuiltIntfs(c)
  BY <1>3, <1>6 DEF BuiltIntfs, Build!HasIntf
<1>8. \A x \in Intfs : BuiltLen(d)[x] = BuiltLen(c)[x] + (IF x = i THEN Build!EpLen * n ELSE 0)
  <2>1. ASSUME NEW x \in Intfs, x # i PROVE BuiltLen(d)[x] = BuiltLen(c)[x]
    BY <1>6, <2>1 DEF BuiltLen
  <2>2. c.func[i].nEp \in Nat
    BY <1>1 DEF BuiltFuncs
  <2>3. BuiltLen(d)[i] = BuiltLen(c)[i] + Build!EpLen * n
    <3> DEFINE a == Build!IntfLen + (IF c.func[i].spec THEN Build!SpecLen ELSE 0)
               b == IF c.func[i].assoc = 0 THEN 0 ELSE Build!AssocLen
    <3>1. BuiltLen(c)[i] = a + Build!EpLen * c.func[i].nEp + b
      BY DEF BuiltLen
    <3>2. BuiltLen(d)[i] = a + Build!EpLen * (c.func[i].nEp + n) + b
      BY <1>3, <1>6 DEF BuiltLen
    <3>3. a \in Int /\ b \in Int
      BY DEF Build!IntfLen, Build!SpecLen, Build!AssocLen
    <3> DEFINE m == c.func[i].nEp
    <3> HIDE DEF a, b, m
    <3>4. m \in Nat /\ BuiltLen(c)[i] = a + Build!EpLen * m + b
          /\ BuiltLen(d)[i] = a + Build!EpLen * (m + n) + b
      BY <2>2, <3>1, <3>2 DEF m
    <3> QED BY ONLY <3>3, <3>4, n \in Int DEF Build!EpLen
  <2>4. \A x \in Intfs : BuiltLen(c)[x] \in Int
    BY <1>1, BuiltLenType
  <2> QED BY <2>1, <2>3, <2>4
<1>9. d.total = Build!CfgLen + SumFunctionOnSet(BuiltLen(d), BuiltIntfs(d))
  <2> DEFINE R == BuiltIntfs(c) \ {i}
  <2>1. /\ IsFiniteSet(BuiltIntfs(c)) /\ BuiltIntfs(c) \subseteq Intfs
        /\ IsFiniteSet(R) /\ R \subseteq Intfs /\ i \notin R
    BY FS_Subset DEF BuildParams, BuiltIntfs
  <2>2. \A x \in Intfs : BuiltLen(c)[x] \in Int /\ BuiltLen(d)[x] \in Int
    BY <1>1, <1>4, BuiltLenType
  <2>3. SumFunctionOnSet(BuiltLen(c), BuiltIntfs(c))
            = BuiltLen(c)[i] + SumFunctionOnSet(BuiltLen(c), R)
    BY <1>7, <2>1, <2>2, SumRemove
  <2>4. SumFunctionOnSet(BuiltLen(d), BuiltIntfs(c))
            = BuiltLen(d)[i] + SumFunctionOnSet(BuiltLen(d), R)
    BY <1>7, <2>1, <2>2, SumRemove
  <2>5. SumFunctionOnSet(BuiltLen(d), R) = SumFunctionOnSet(BuiltLen(c), R)
    <3>1. \A x \in R : BuiltLen(d)[x] = BuiltLen(c)[x]
      BY <1>8, <2>1, <2>2
    <3> QED BY <2>1, <3>1, SumEqual
  <2>6. SumFunctionOnSet(BuiltLen(c), R) \in Int
    BY <2>1, <2>2, SumType
  <2>7. c.total = Build!CfgLen + SumFunctionOnSet(BuiltLen(c), BuiltIntfs(c))
    BY DEF BuiltExact
  <2>8. BuiltLen(d)[i] = BuiltLen(c)[i] + Build!EpLen * n
    BY <1>8
  <2>9. BuiltLen(c)[i] \in Int /\ BuiltLen(d)[i] \in Int
    BY <2>2
  <2> HIDE DEF R
  <2> QED BY <1>2, <1>7, <2>3, <2>4, <2>5, <2>6, <2>7, <2>8, <2>9
      DEF Build!CfgLen, Build!EpLen
<1>10. \A x \in Intfs : d.func[x].nEp = Build!PipesOf(d, x)
  <2> SUFFICES ASSUME NEW x \in Intfs PROVE d.func[x].nEp = Build!PipesOf(d, x)
    OBVIOUS
  <2>1. c.func[x].nEp = Build!PipesOf(c, x)
    BY DEF BuiltExact
  <2>2. d.func[x].nEp = c.func[x].nEp + (IF x = i THEN n ELSE 0)
    <3>1. c.func[x].nEp \in Nat
      BY <1>1, BuiltLenType
    <3> QED BY <1>3, <1>6, <3>1
  <2>3. Build!PipesOf(d, x) = Cardinality(BuiltAt(p, x))
    BY <1>2, BuiltAtIs
  <2> QED BY <2>1, <2>2, <2>3
<1>11. BuiltExact(d)
  BY <1>4, <1>9, <1>10 DEF BuiltExact
<1> QED BY <1>11 DEF d

\* One configuration changes, the others keep their strings.
LEMMA OwnersOther ==
    ASSUME NEW n \in DOMAIN builtCfg, NEW d, builtCfg' = [builtCfg EXCEPT ![n] = d],
           NEW s, NEW E, OwnersIn(d, n, s) \subseteq OwnersIn(builtCfg[n], n, s) \cup E
    PROVE  Build!OwnersOf(s)' \subseteq Build!OwnersOf(s) \cup E
<1>1. ASSUME NEW o \in Build!OwnersOf(s)' PROVE o \in Build!OwnersOf(s) \cup E
  <2>1. PICK m \in DOMAIN builtCfg' : o \in OwnersIn(builtCfg'[m], m, s)
    BY <1>1, OwnerIs
  <2>2. m \in DOMAIN builtCfg /\ builtCfg'[m] = IF m = n THEN d ELSE builtCfg[m]
    BY <2>1
  <2>3. o \in OwnersIn(builtCfg[m], m, s) \cup E
    BY <2>1, <2>2
  <2> QED BY <2>2, <2>3, OwnerIs
<1> QED BY <1>1

NewOwners(n, i, idx, assoc, s) ==
    (IF s = idx THEN {<<n, i, "idx">>} ELSE {})
    \cup (IF s = assoc THEN {<<n, i, "assoc">>} ELSE {})

LEMMA FuncOwners ==
    ASSUME NEW c, DOMAIN c.func = Intfs, NEW d, d.idx = c.idx, NEW i \in Intfs,
           NEW f, d.func = [c.func EXCEPT ![i] = f], NEW n, NEW s
    PROVE  OwnersIn(d, n, s) \subseteq OwnersIn(c, n, s) \cup NewOwners(n, i, f.idx, f.assoc, s)
<1>1. \A j \in Intfs : d.func[j] = IF j = i THEN f ELSE c.func[j]
  OBVIOUS
<1>2. ASSUME NEW o \in OwnersIn(d, n, s)
      PROVE  o \in OwnersIn(c, n, s) \cup NewOwners(n, i, f.idx, f.assoc, s)
  <2>1. CASE \E j \in Intfs : o = <<n, j, "idx">> /\ d.func[j].idx = s
    <3>1. PICK j \in Intfs : o = <<n, j, "idx">> /\ d.func[j].idx = s
      BY <2>1
    <3>2. CASE j = i
      BY <1>1, <3>1, <3>2 DEF NewOwners
    <3>3. CASE j # i
      BY <1>1, <3>1, <3>3, OwnerIn
    <3> QED BY <3>2, <3>3
  <2>2. CASE \E j \in Intfs : o = <<n, j, "assoc">> /\ d.func[j].assoc = s
    <3>1. PICK j \in Intfs : o = <<n, j, "assoc">> /\ d.func[j].assoc = s
      BY <2>2
    <3>2. CASE j = i
      BY <1>1, <3>1, <3>2 DEF NewOwners
    <3>3. CASE j # i
      BY <1>1, <3>1, <3>3, OwnerIn
    <3> QED BY <3>2, <3>3
  <2>3. CASE o = <<n, n, "cfg">> /\ d.idx = s
    BY <2>3, OwnerIn
  <2> QED BY <1>2, <2>1, <2>2, <2>3, OwnerIn
<1> QED BY <1>2

\* The counters of one configuration are kept by a call, those of the others stay.
LEMMA ExactOther ==
    ASSUME BuildInv, NEW n \in DOMAIN builtCfg, NEW d, BuiltExact(d),
           builtCfg' = [builtCfg EXCEPT ![n] = d], builtNum' = builtNum, BuiltOwned'
    PROVE  BuildInv'
<1>1. DOMAIN builtCfg' = DOMAIN builtCfg
      /\ \A m \in DOMAIN builtCfg : builtCfg'[m] = IF m = n THEN d ELSE builtCfg[m]
  OBVIOUS
<1>2. \A m \in DOMAIN builtCfg' : BuiltExact(builtCfg'[m])
  BY <1>1 DEF BuildInv
<1>3. \A m \in DOMAIN builtCfg' : BuiltExact(builtCfg[m])'
  BY <1>2 DEF BuiltExact, BuiltIntfs, BuiltLen, Build!PipesOf, Build!HasIntf
<1> QED BY <1>1, <1>3 DEF BuildInv

LEMMA BuildInit ==
    ASSUME Build!Init
    PROVE  BuildInv
<1>1. builtMask = {} /\ builtStr = {} /\ builtNum = 0 /\ DOMAIN builtCfg = {}
  BY DEF Build!Init
<1>2. \A s : Build!OwnersOf(s) = {}
  BY <1>1, OwnerIs
<1> QED BY <1>1, <1>2 DEF BuildInv, BuiltOwned

LEMMA FuncAddStep ==
    ASSUME BuildParams, BuildInv, NEW n \in DOMAIN builtCfg, NEW i \in Intfs,
           NEW spec \in BOOLEAN, Build!FuncAdd(n, i, spec)
    PROVE  BuildInv'
<1> DEFINE c == builtCfg[n]
           a == Build!Lowest(Build!Free)
<1>1. BuiltExact(c) /\ ~Build!HasIntf(c, i) /\ c \in BuiltCfgs /\ BuiltOwned
  BY DEF BuildInv, Build!FuncAdd, BuiltExact
<1>2. DOMAIN c.func = Intfs
  BY <1>1 DEF BuiltCfgs
<1>3. CASE Build!Free # {} /\ builtMask' = builtMask \cup {a}
           /\ builtCfg' = [builtCfg EXCEPT ![n] = Build!FuncMade(c, i, spec, a, 0)]
  <2>1. a \in Build!Free /\ a \in Strings /\ a # 0
    <3>1. Build!Free \subseteq Nat
      BY DEF BuildParams, Build!Free
    <3>2. a \in Build!Free
      BY <1>3, <3>1, LowestIn
    <3> QED BY <3>2 DEF Build!Free, BuildParams
  <2> HIDE DEF a
  <2> DEFINE f == [idx |-> a, spec |-> spec, nEp |-> 0, assoc |-> 0]
             d == Build!FuncMade(c, i, spec, a, 0)
  <2>2. BuiltExact(d) /\ d.idx = c.idx /\ d.func = [c.func EXCEPT ![i] = f]
    BY <1>1, <2>1, FuncMadeExact
  <2> HIDE DEF d
  <2>3. ASSUME NEW s \in Strings
        PROVE  Build!OwnersOf(s)' \subseteq
                   Build!OwnersOf(s) \cup (IF s = a THEN {<<n, i, "idx">>} ELSE {})
    <3>1. OwnersIn(d, n, s) \subseteq OwnersIn(c, n, s) \cup NewOwners(n, i, a, 0, s)
      <4>1. f.idx = a /\ f.assoc = 0
        OBVIOUS
      <4> HIDE DEF f, c
      <4> QED BY <1>2, <2>2, <4>1, FuncOwners
    <3>2. NewOwners(n, i, a, 0, s) = IF s = a THEN {<<n, i, "idx">>} ELSE {}
      BY DEF NewOwners, BuildParams
    <3>3. builtCfg' = [builtCfg EXCEPT ![n] = d]
      BY <1>3 DEF d
    <3> QED BY <3>1, <3>2, <3>3, OwnersOther
  <2>4. BuiltOwned'
    <3> DEFINE N == {a}
    <3>1. N \subseteq Build!Free /\ builtStr' = builtStr /\ builtMask' = builtMask \cup N
      BY <1>3, <2>1 DEF Build!FuncAdd
    <3>2. \A s \in Strings \ N : Build!OwnersOf(s)' \subseteq Build!OwnersOf(s)
      BY <2>3
    <3>3. Build!OwnersOf(a) = {}
      BY <1>1, <2>1 DEF BuiltOwned, Build!Free
    <3>4. \A s \in N : \A o, p \in Build!OwnersOf(s)' : o = p
      BY <2>1, <2>3, <3>3
    <3> HIDE DEF N
    <3>5. BuiltOwned
      BY <1>1
    <3> QED BY <3>1, <3>2, <3>4, <3>5, OwnersGrow
  <2>5. builtCfg' = [builtCfg EXCEPT ![n] = d] /\ builtNum' = builtNum
    BY <1>3 DEF Build!FuncAdd, d
  <2> QED BY <2>2, <2>4, <2>5, ExactOther
<1>4. CASE builtCfg' = [builtCfg EXCEPT ![n] = Build!FuncFails(c)] /\ UNCHANGED builtMask
  <2> DEFINE d == Build!FuncFails(c)
  <2>1. /\ d.idx = c.idx /\ d.func = c.func /\ d.total = c.total /\ d.pipes = c.pipes
        /\ d \in BuiltCfgs
    <3>1. c \in BuiltCfgs /\ d = [c EXCEPT !.nFunc = c.nFunc + 1, !.whole = FALSE]
      BY <1>1 DEF Build!FuncFails
    <3>2. c.nFunc + 1 \in Nat
      BY <3>1 DEF BuiltCfgs
    <3> HIDE DEF c, d
    <3> QED BY <3>1, <3>2 DEF BuiltCfgs
  <2> HIDE DEF d
  <2>2. BuiltExact(d)
    BY <1>1, <2>1 DEF BuiltExact, Build!PipesOf, BuiltLen, BuiltIntfs, Build!HasIntf
  <2>3. builtCfg' = [builtCfg EXCEPT ![n] = d] /\ builtNum' = builtNum /\ builtStr' = builtStr
    BY <1>4 DEF Build!FuncAdd, d
  <2>4. ASSUME NEW s PROVE Build!OwnersOf(s)' \subseteq Build!OwnersOf(s)
    <3>1. OwnersIn(d, n, s) \subseteq OwnersIn(c, n, s) \cup {}
      BY <2>1 DEF OwnersIn
    <3> QED BY <2>3, <3>1, OwnersOther
  <2>5. BuiltOwned'
    BY <1>1, <1>4, <2>3, <2>4 DEF BuiltOwned
  <2> QED BY <2>2, <2>3, <2>5, ExactOther
<1> QED BY <1>3, <1>4 DEF Build!FuncAdd

\* Two interfaces, and three indices that differ.
LEMMA AssocAddStep ==
    ASSUME BuildParams, BuildInv, NEW n \in DOMAIN builtCfg, NEW i \in Intfs,
           Build!AssocAdd(n, i)
    PROVE  BuildInv'
<1> DEFINE F == Build!Free
           c == builtCfg[n]
           a == Build!Lowest(F)
           b == Build!Lowest(F \ {a})
           e == Build!Lowest(F \ {a, b})
           no == FALSE
           one == Build!FuncMade(c, i, no, b, a)
           d == Build!FuncMade(one, i + 1, no, e, 0)
<1>1. /\ i + 1 \in Intfs /\ ~Build!HasIntf(c, i) /\ ~Build!HasIntf(c, i + 1)
      /\ Cardinality(F) >= 3
      /\ builtCfg' = [builtCfg EXCEPT ![n] = d] /\ builtMask' = builtMask \cup {a, b, e}
      /\ builtNum' = builtNum /\ builtStr' = builtStr
  BY BuildSame DEF Build!AssocAdd
<1>2. BuiltExact(c) /\ c \in BuiltCfgs /\ BuiltOwned
  BY DEF BuildInv, BuiltExact
<1>3. F \subseteq Strings /\ F \subseteq Nat \ {0} /\ IsFiniteSet(F)
  BY FS_Subset DEF BuildParams, Build!Free
<1> HIDE DEF F
<1>4. a \in F /\ b \in F \ {a} /\ e \in F \ {a, b}
  <2>1. a \in F
    <3>1. F # {}
      BY <1>1, FS_EmptySet
    <3> QED BY <1>3, <3>1, LowestIn
  <2> HIDE DEF a
  <2>2. IsFiniteSet(F \ {a}) /\ Cardinality(F \ {a}) = Cardinality(F) - 1
    BY <1>3, <2>1, FS_RemoveElement, FS_Subset
  <2>3. Cardinality(F) \in Nat
    BY <1>3, FS_CardinalityType
  <2> DEFINE G == F \ {a}
  <2>4. G # {} /\ Cardinality(F) >= 3
    BY <1>1, <2>2, <2>3, FS_EmptySet
  <2>5. b \in G
    BY <1>3, <2>4, LowestIn
  <2> HIDE DEF b
  <2>6. Cardinality(G) = Cardinality(F) - 1 /\ IsFiniteSet(G)
    BY <2>2
  <2>7. F \ {a, b} = G \ {b}
    OBVIOUS
  <2> HIDE DEF G
  <2>8. F \ {a, b} # {}
    <3>1. Cardinality(G \ {b}) = Cardinality(G) - 1
      BY <2>5, <2>6, FS_RemoveElement
    <3>2. Cardinality(G \ {b}) # 0
      BY <2>3, <2>4, <2>6, <3>1
    <3> QED BY <2>7, <3>2, FS_EmptySet
  <2>9. e \in F \ {a, b}
    BY <1>3, <2>8, LowestIn
  <2> QED BY <2>1, <2>5, <2>9 DEF G
<1> DEFINE f == [idx |-> b, spec |-> no, nEp |-> 0, assoc |-> a]
           g == [idx |-> e, spec |-> no, nEp |-> 0, assoc |-> 0]
<1>no. no \in BOOLEAN
  OBVIOUS
<1> HIDE DEF a, b, e, c, no
<1>5. BuiltExact(one) /\ one.idx = c.idx /\ one.func = [c.func EXCEPT ![i] = f]
  <2>1. a \in Strings \cup {0} /\ b \in Strings
    BY <1>3, <1>4
  <2>2. BuiltExact(c) /\ ~Build!HasIntf(c, i)
    BY <1>1, <1>2
  <2> QED BY <1>no, <2>1, <2>2, FuncMadeExact
<1> HIDE DEF one
<1>6. DOMAIN c.func = Intfs /\ DOMAIN one.func = Intfs
  BY <1>2, <1>5 DEF BuiltCfgs
<1>7. ~Build!HasIntf(one, i + 1)
  <2>1. i \in Nat
    BY DEF BuildParams
  <2>2. one.func[i + 1] = c.func[i + 1]
    BY <1>1, <1>5, <1>6, <2>1
  <2> QED BY <1>1, <2>2 DEF Build!HasIntf
<1>8. BuiltExact(d) /\ d.idx = one.idx /\ d.func = [one.func EXCEPT ![i + 1] = g]
  <2>1. 0 \in Strings \cup {0} /\ e \in Strings /\ i + 1 \in Intfs
    BY <1>1, <1>3, <1>4
  <2>2. BuiltExact(one)
    BY <1>5
  <2> QED BY <1>no, <1>7, <2>1, <2>2, FuncMadeExact
<1> HIDE DEF d
<1> DEFINE E(s) == NewOwners(n, i, b, a, s) \cup NewOwners(n, i + 1, e, 0, s)
<1>9. \A s : Build!OwnersOf(s)' \subseteq Build!OwnersOf(s) \cup E(s)
  <2> SUFFICES ASSUME NEW s PROVE Build!OwnersOf(s)' \subseteq Build!OwnersOf(s) \cup E(s)
    OBVIOUS
  <2>1. f.idx = b /\ f.assoc = a /\ g.idx = e /\ g.assoc = 0
    OBVIOUS
  <2> HIDE DEF f, g
  <2>2. OwnersIn(one, n, s) \subseteq OwnersIn(c, n, s) \cup NewOwners(n, i, b, a, s)
    BY <1>5, <1>6, <2>1, FuncOwners
  <2>3. OwnersIn(d, n, s) \subseteq OwnersIn(one, n, s) \cup NewOwners(n, i + 1, e, 0, s)
    BY <1>1, <1>6, <1>8, <2>1, FuncOwners
  <2>4. OwnersIn(d, n, s) \subseteq OwnersIn(c, n, s) \cup E(s)
    BY <2>2, <2>3
  <2> HIDE DEF E
  <2> QED BY <1>1, <2>4, OwnersOther DEF c
<1>10. BuiltOwned'
  <2> DEFINE N == {a, b, e}
  <2>1. N \subseteq Build!Free /\ builtStr' = builtStr /\ builtMask' = builtMask \cup N
    BY <1>1, <1>4 DEF F
  <2>2. ASSUME NEW s \in Strings \ N PROVE Build!OwnersOf(s)' \subseteq Build!OwnersOf(s)
    <3>1. E(s) = {}
      BY <2>2 DEF NewOwners, BuildParams
    <3> QED BY <1>9, <3>1
  <2>3. ASSUME NEW s \in N PROVE \A o, p \in Build!OwnersOf(s)' : o = p
    <3>1. Build!OwnersOf(s) = {}
      BY <1>2, <2>1, <2>3 DEF BuiltOwned, Build!Free
    <3>2. s # 0 /\ a # 0 /\ b # 0 /\ e # 0 /\ a # b /\ a # e /\ b # e
      BY <1>3, <1>4, <2>3
    <3>3. \A o, p \in E(s) : o = p
      BY <2>3, <3>2 DEF NewOwners
    <3> QED BY <1>9, <3>1, <3>3
  <2> HIDE DEF N
  <2> QED BY <1>2, <2>1, <2>2, <2>3, OwnersGrow
<1> QED BY <1>1, <1>8, <1>10, ExactOther

\* A pipe takes no string.
LEMMA PipeChanges ==
    ASSUME BuildParams, BuildInv, NEW n \in DOMAIN builtCfg, NEW i \in Intfs,
           Build!HasIntf(builtCfg[n], i),
           NEW m \in Int, builtCfg[n].func[i].nEp + m \in Nat, NEW p \in Seq(BuiltPipes),
           \A x \in Intfs : Cardinality(BuiltAt(p, x))
                = Build!PipesOf(builtCfg[n], x) + (IF x = i THEN m ELSE 0),
           builtCfg' = [builtCfg EXCEPT ![n] = BuiltWith(builtCfg[n], i, m, p)],
           UNCHANGED <<builtMask, builtStr, builtNum>>
    PROVE  BuildInv'
<1> DEFINE c == builtCfg[n]
           d == BuiltWith(c, i, m, p)
<1>1. c \in BuiltCfgs /\ BuiltOwned /\ BuiltExact(c)
  BY DEF BuildInv, BuiltExact
<1>2. d.idx = c.idx /\ d.func = [c.func EXCEPT ![i].nEp = c.func[i].nEp + m]
  <2> HIDE DEF c
  <2> QED BY <1>1 DEF BuiltWith, BuiltCfgs
<1> HIDE DEF c, d
<1>3. \A j \in Intfs : d.func[j].idx = c.func[j].idx /\ d.func[j].assoc = c.func[j].assoc
  <2>1. c.func \in [Intfs -> BuiltFuncs \cup {Build!NoFunc}]
    BY <1>1 DEF BuiltCfgs
  <2>2. ASSUME NEW j \in Intfs, j # i PROVE d.func[j] = c.func[j]
    BY <1>2, <2>1, <2>2
  <2>3. d.func[i] = [c.func[i] EXCEPT !.nEp = c.func[i].nEp + m]
    BY <1>2, <2>1
  <2>4. c.func[i] \in BuiltFuncs \/ c.func[i] = Build!NoFunc
    BY <2>1
  <2>5. d.func[i].idx = c.func[i].idx /\ d.func[i].assoc = c.func[i].assoc
    BY <2>3, <2>4 DEF BuiltFuncs, Build!NoFunc
  <2> QED BY <2>2, <2>5
<1>4. builtCfg' = [builtCfg EXCEPT ![n] = d]
  BY DEF c, d
<1>5. ASSUME NEW s PROVE Build!OwnersOf(s)' \subseteq Build!OwnersOf(s)
  <2>1. OwnersIn(d, n, s) \subseteq OwnersIn(c, n, s) \cup {}
    BY <1>2, <1>3 DEF OwnersIn
  <2> QED BY <1>4, <2>1, OwnersOther DEF c
<1>6. BuiltOwned'
  BY <1>1, <1>5 DEF BuiltOwned
<1>7. BuiltExact(d)
  BY <1>1, PipesExact DEF c, d
<1> QED BY <1>4, <1>6, <1>7, ExactOther

LEMMA PipeAddStep ==
    ASSUME BuildParams, BuildInv, NEW n \in DOMAIN builtCfg, NEW i \in Intfs, NEW num,
           Build!PipeAdd(n, i, num)
    PROVE  BuildInv'
<1> DEFINE c == builtCfg[n]
<1>1. PICK ep \in EpNums : builtCfg' = [builtCfg EXCEPT ![n] = Build!WithPipe(c, i, ep)]
  BY DEF Build!PipeAdd
<1>2. /\ BuiltExact(c) /\ c \in BuiltCfgs /\ Build!HasIntf(c, i)
      /\ UNCHANGED <<builtMask, builtStr, builtNum>>
  BY DEF BuildInv, BuiltExact, Build!PipeAdd
<1> DEFINE e == [ep |-> ep, intf |-> i]
           p == Append(c.pipes, e)
<1>3. c.pipes \in Seq(BuiltPipes) /\ e \in BuiltPipes /\ e.intf = i
  BY <1>2 DEF BuiltCfgs, BuiltPipes
<1>4. builtCfg' = [builtCfg EXCEPT ![n] = BuiltWith(c, i, 1, p)]
  <2>1. Build!EpLen * 1 = Build!EpLen
    BY DEF Build!EpLen
  <2>2. Build!WithPipe(c, i, ep) = BuiltWith(c, i, 1, p)
    BY <2>1 DEF Build!WithPipe, BuiltWith
  <2> QED BY <1>1, <2>2
<1> HIDE DEF e
<1>5. p \in Seq(BuiltPipes)
  BY <1>3
<1>6. ASSUME NEW x \in Intfs
      PROVE  Cardinality(BuiltAt(p, x)) = Build!PipesOf(c, x) + (IF x = i THEN 1 ELSE 0)
  <2>1. Cardinality(BuiltAt(p, x)) = Cardinality(BuiltAt(c.pipes, x)) + (IF e.intf = x THEN 1 ELSE 0)
    BY <1>3, PipesAppend
  <2> QED BY <1>3, <2>1, BuiltAtIs
<1>7. c.func[i].nEp + 1 \in Nat
  BY <1>2, BuiltLenType
<1> DEFINE m == 1
<1>8. /\ m \in Int /\ c.func[i].nEp + m \in Nat
      /\ builtCfg' = [builtCfg EXCEPT ![n] = BuiltWith(c, i, m, p)]
      /\ \A x \in Intfs : Cardinality(BuiltAt(p, x))
                              = Build!PipesOf(c, x) + (IF x = i THEN m ELSE 0)
  BY <1>4, <1>6, <1>7
<1> HIDE DEF p, m
<1> QED BY <1>2, <1>5, <1>8, PipeChanges

\* One sequence after another.
LEMMA SeqConcat ==
    ASSUME NEW S, NEW a \in Seq(S), NEW b \in Seq(S)
    PROVE  /\ a \o b \in Seq(S) /\ Len(a \o b) = Len(a) + Len(b)
           /\ \A i \in 1 .. Len(a) : (a \o b)[i] = a[i]
           /\ \A i \in Len(a) + 1 .. Len(a) + Len(b) : (a \o b)[i] = b[i - Len(a)]
OBVIOUS

\* A pipe leaves the list: those after it move up by one.
LEMMA BuiltRemoved ==
    ASSUME NEW S, NEW s \in Seq(S), NEW k \in 1 .. Len(s)
    PROVE  LET r == Build!RemoveAt(s, k)
           IN /\ r \in Seq(S) /\ Len(r) = Len(s) - 1
              /\ \A i \in 1 .. Len(r) : r[i] = IF i < k THEN s[i] ELSE s[i + 1]
<1> DEFINE a == SubSeq(s, 1, k - 1)
           b == SubSeq(s, k + 1, Len(s))
<1>1. Len(s) \in Nat
  OBVIOUS
<1>2. a \in Seq(S) /\ Len(a) = k - 1 /\ \A i \in 1 .. k - 1 : a[i] = s[i]
  OBVIOUS
<1>3. /\ b \in Seq(S) /\ Len(b) = Len(s) - k
      /\ \A i \in 1 .. Len(s) - k : b[i] = s[k + i]
  OBVIOUS
<1>4. Build!RemoveAt(s, k) = a \o b
  BY DEF Build!RemoveAt
<1> HIDE DEF a, b
<1>5. /\ a \o b \in Seq(S) /\ Len(a \o b) = Len(a) + Len(b)
      /\ \A i \in 1 .. Len(a) : (a \o b)[i] = a[i]
      /\ \A i \in Len(a) + 1 .. Len(a) + Len(b) : (a \o b)[i] = b[i - Len(a)]
  BY <1>2, <1>3, SeqConcat
<1> DEFINE r == Build!RemoveAt(s, k)
<1>6. r \in Seq(S) /\ Len(r) = Len(s) - 1
  BY <1>1, <1>2, <1>3, <1>4, <1>5
<1>7. ASSUME NEW i \in 1 .. Len(r)
      PROVE  r[i] = IF i < k THEN s[i] ELSE s[i + 1]
  <2>1. CASE i < k
    BY <1>1, <1>2, <1>4, <1>5, <2>1
  <2>2. CASE ~(i < k)
    <3>1. /\ i \in Len(a) + 1 .. Len(a) + Len(b) /\ i - Len(a) \in 1 .. Len(s) - k
          /\ k + (i - Len(a)) = i + 1
      BY <1>1, <1>2, <1>3, <1>6, <2>2
    <3>2. r[i] = b[i - Len(a)]
      BY <1>4, <1>5, <3>1
    <3>3. b[i - Len(a)] = s[k + (i - Len(a))]
      BY <1>3, <3>1
    <3> QED BY <2>2, <3>1, <3>2, <3>3
  <2> QED BY <2>1, <2>2
<1> QED BY <1>6, <1>7

LEMMA PipeDelStep ==
    ASSUME BuildParams, BuildInv, NEW n \in DOMAIN builtCfg, NEW i \in Intfs, NEW ep,
           Build!PipeDel(n, i, ep)
    PROVE  BuildInv'
<1> DEFINE c == builtCfg[n]
<1>1. PICK k \in DOMAIN c.pipes :
          /\ c.pipes[k] = [ep |-> ep, intf |-> i]
          /\ builtCfg' = [builtCfg EXCEPT ![n].pipes = Build!RemoveAt(c.pipes, k),
                                          ![n].func[i].nEp = c.func[i].nEp - 1,
                                          ![n].total = c.total - Build!EpLen]
  BY DEF Build!PipeDel
<1>2. /\ BuiltExact(c) /\ c \in BuiltCfgs /\ Build!HasIntf(c, i)
      /\ UNCHANGED <<builtMask, builtStr, builtNum>>
  BY DEF BuildInv, BuiltExact, Build!PipeDel
<1> DEFINE p == Build!RemoveAt(c.pipes, k)
           m == -1
<1>3. m \in Int /\ c.func[i].nEp - 1 = c.func[i].nEp + m
      /\ c.total - Build!EpLen = c.total + Build!EpLen * m
  <2>1. c.total \in Int /\ c.func[i].nEp \in Nat
    BY <1>2, BuiltLenType DEF BuiltCfgs
  <2> HIDE DEF c
  <2> QED BY <2>1 DEF Build!EpLen
<1>4. builtCfg' = [builtCfg EXCEPT ![n] = BuiltWith(c, i, m, p)]
  <2> DEFINE q == c.func[i].nEp - 1
             t == c.total - Build!EpLen
  <2>1. builtCfg' = [builtCfg EXCEPT ![n] = [c EXCEPT !.pipes = p, !.func[i].nEp = q, !.total = t]]
    BY <1>1
  <2>2. BuiltWith(c, i, m, p) = [c EXCEPT !.pipes = p, !.func[i].nEp = q, !.total = t]
    <3> HIDE DEF c, m, p
    <3> QED BY <1>3 DEF BuiltWith
  <2> QED BY <2>1, <2>2
<1> HIDE DEF m
<1>5. c.pipes \in Seq(BuiltPipes) /\ k \in 1 .. Len(c.pipes) /\ c.pipes[k].intf = i
  BY <1>1, <1>2 DEF BuiltCfgs
<1>6. /\ p \in Seq(BuiltPipes) /\ Len(p) = Len(c.pipes) - 1
      /\ \A x \in 1 .. Len(p) : p[x] = IF x < k THEN c.pipes[x] ELSE c.pipes[x + 1]
  BY <1>5, BuiltRemoved
<1> HIDE DEF p
<1>7. \A x \in Intfs : Build!PipesOf(c, x) \in Nat /\ c.func[x].nEp = Build!PipesOf(c, x)
  BY <1>2, BuiltLenType DEF BuiltExact
<1>8. ASSUME NEW x \in Intfs
      PROVE  Cardinality(BuiltAt(p, x)) = Build!PipesOf(c, x) + (IF x = i THEN m ELSE 0)
  <2>1. Cardinality(BuiltAt(p, x))
            = Cardinality(BuiltAt(c.pipes, x)) - (IF c.pipes[k].intf = x THEN 1 ELSE 0)
    <3> DEFINE q == c.pipes
    <3>1. /\ q \in Seq(BuiltPipes) /\ k \in 1 .. Len(q) /\ p \in Seq(BuiltPipes)
          /\ Len(p) = Len(q) - 1
          /\ \A y \in 1 .. Len(p) : p[y] = IF y < k THEN q[y] ELSE q[y + 1]
      BY <1>5, <1>6
    <3> HIDE DEF q
    <3>2. Cardinality(BuiltAt(p, x)) = Cardinality(BuiltAt(q, x)) - (IF q[k].intf = x THEN 1 ELSE 0)
      BY ONLY <3>1, PipesRemove, SMTT(30)
    <3> QED BY <3>2 DEF q
  <2>2. Cardinality(BuiltAt(p, x)) = Build!PipesOf(c, x) - (IF x = i THEN 1 ELSE 0)
    BY <1>5, <2>1, BuiltAtIs
  <2>3. Build!PipesOf(c, x) \in Nat
    BY <1>7
  <2> QED BY <2>2, <2>3 DEF m
<1>9. c.func[i].nEp + m \in Nat
  <2>1. IsFiniteSet(BuiltAt(c.pipes, i)) /\ k \in BuiltAt(c.pipes, i)
    <3>1. IsFiniteSet(BuiltAt(c.pipes, i))
      BY <1>5, BuiltAtFinite
    <3>2. k \in BuiltAt(c.pipes, i)
      BY <1>5 DEF BuiltAt
    <3> QED BY <3>1, <3>2
  <2>2. Cardinality(BuiltAt(c.pipes, i)) \in Nat /\ Cardinality(BuiltAt(c.pipes, i)) # 0
    BY <2>1, FS_CardinalityType, FS_EmptySet
  <2>3. c.func[i].nEp = Cardinality(BuiltAt(c.pipes, i))
    BY <1>7, BuiltAtIs
  <2> QED BY <2>2, <2>3 DEF m
<1> QED BY <1>2, <1>3, <1>4, <1>6, <1>8, <1>9, PipeChanges

LEMMA CfgAddStep ==
    ASSUME BuildParams, BuildInv, Build!CfgAdd
    PROVE  BuildInv'
<1> DEFINE a == Build!Lowest(Build!Free)
           m == builtNum + 1
           d == Build!NewCfg(a)
<1>1. /\ Build!Free # {} /\ builtNum' = m /\ builtMask' = builtMask \cup {a}
      /\ builtStr' = builtStr
      /\ builtCfg' = [c \in DOMAIN builtCfg \cup {m} |-> IF c = m THEN d ELSE builtCfg[c]]
  BY DEF Build!CfgAdd
<1>2. builtNum \in Nat /\ DOMAIN builtCfg \subseteq 1 .. builtNum /\ BuiltOwned
  BY DEF BuildInv
<1>3. a \in Build!Free /\ a \in Strings
  <2>1. Build!Free \subseteq Nat
    BY DEF BuildParams, Build!Free
  <2> QED BY <1>1, <2>1, LowestIn DEF Build!Free
<1>4. m \in Nat /\ m \notin DOMAIN builtCfg /\ DOMAIN builtCfg' \subseteq 1 .. m
  BY <1>1, <1>2
<1> HIDE DEF a, m
<1>5. BuiltExact(d)
  <2>1. /\ d.idx = a /\ d.nFunc = 0 /\ d.total = Build!CfgLen /\ d.whole = TRUE
        /\ d.func = [i \in Intfs |-> Build!NoFunc] /\ d.pipes = <<>>
        /\ d = [idx |-> d.idx, nFunc |-> d.nFunc, total |-> d.total, whole |-> d.whole,
                func |-> d.func, pipes |-> d.pipes]
    BY DEF Build!NewCfg
  <2> HIDE DEF d
  <2>2. d \in BuiltCfgs
    <3>1. <<>> \in Seq(BuiltPipes)
      OBVIOUS
    <3>2. d.idx \in Strings /\ d.nFunc \in Nat /\ d.total \in Int
      BY <1>3, <2>1 DEF Build!CfgLen
    <3>3. d.whole \in BOOLEAN
      BY <2>1, Zenon
    <3>4. d.func \in [Intfs -> BuiltFuncs \cup {Build!NoFunc}] /\ d.pipes \in Seq(BuiltPipes)
      BY <2>1, <3>1
    <3> QED BY <2>1, <3>2, <3>3, <3>4 DEF BuiltCfgs
  <2>3. \A i \in Intfs : BuiltAt(d.pipes, i) = {} /\ d.func[i].nEp = 0 /\ ~Build!HasIntf(d, i)
    BY <2>1 DEF BuiltAt, Build!NoFunc, Build!HasIntf
  <2>4. BuiltIntfs(d) = {}
    BY <2>3 DEF BuiltIntfs
  <2>5. SumFunctionOnSet(BuiltLen(d), BuiltIntfs(d)) = 0
    BY <2>4, SumEmpty
  <2>6. \A i \in Intfs : Build!PipesOf(d, i) = 0
    BY <2>3, BuiltAtIs, FS_EmptySet
  <2>7. d.total = Build!CfgLen + SumFunctionOnSet(BuiltLen(d), BuiltIntfs(d))
    BY <2>1, <2>5 DEF Build!CfgLen
  <2> QED BY <2>2, <2>3, <2>6, <2>7 DEF BuiltExact
<1>6. ASSUME NEW s \in Strings
      PROVE  Build!OwnersOf(s)' \subseteq
                 Build!OwnersOf(s) \cup (IF s = a THEN {<<m, m, "cfg">>} ELSE {})
  <2>1. ASSUME NEW o \in Build!OwnersOf(s)'
        PROVE  o \in Build!OwnersOf(s) \cup (IF s = a THEN {<<m, m, "cfg">>} ELSE {})
    <3>1. PICK k \in DOMAIN builtCfg' : o \in OwnersIn(builtCfg'[k], k, s)
      BY <2>1, OwnerIs
    <3>2. CASE k = m
      <4>1. builtCfg'[k] = d
        BY <1>1, <3>2
      <4>2. \A j \in Intfs : d.func[j].idx = 0 /\ d.func[j].assoc = 0
        BY DEF Build!NewCfg, Build!NoFunc
      <4>3. d.idx = a
        BY DEF Build!NewCfg
      <4>4. s # 0
        BY DEF BuildParams
      <4> HIDE DEF d
      <4>5. o = <<m, m, "cfg">> /\ s = a
        BY <3>1, <3>2, <4>1, <4>2, <4>3, <4>4, OwnerIn
      <4> QED BY <4>5
    <3>3. CASE k # m
      BY <1>1, <3>1, <3>3, OwnerIs
    <3> QED BY <3>2, <3>3
  <2> QED BY <2>1
<1>7. BuiltOwned'
  <2> DEFINE N == {a}
  <2>1. N \subseteq Build!Free /\ builtMask' = builtMask \cup N
    BY <1>1, <1>3
  <2>2. \A s \in Strings \ N : Build!OwnersOf(s)' \subseteq Build!OwnersOf(s)
    BY <1>6
  <2>3. Build!OwnersOf(a) = {}
    BY <1>2, <1>3 DEF BuiltOwned, Build!Free
  <2>4. \A s \in N : \A o, p \in Build!OwnersOf(s)' : o = p
    BY <1>3, <1>6, <2>3
  <2> HIDE DEF N
  <2> QED BY <1>1, <1>2, <2>1, <2>2, <2>4, OwnersGrow
<1>8. ASSUME NEW k \in DOMAIN builtCfg' PROVE BuiltExact(builtCfg[k])'
  <2>1. BuiltExact(builtCfg'[k])
    <3>1. CASE k = m
      <4>1. builtCfg'[k] = d
        BY <1>1, <3>1
      <4> QED BY <1>5, <4>1
    <3>2. CASE k # m
      <4>1. builtCfg'[k] = builtCfg[k] /\ k \in DOMAIN builtCfg
        BY <1>1, <3>2
      <4> QED BY <4>1 DEF BuildInv
    <3> QED BY <3>1, <3>2
  <2> QED BY <2>1 DEF BuiltExact, BuiltIntfs, BuiltLen, Build!PipesOf, Build!HasIntf
<1> QED BY <1>1, <1>4, <1>7, <1>8 DEF BuildInv

\* Configurations that stay keep their counters.
LEMMA ExactLess ==
    ASSUME BuildInv, NEW G, builtCfg' = [c \in DOMAIN builtCfg \ G |-> builtCfg[c]],
           builtNum' = builtNum, BuiltOwned'
    PROVE  BuildInv'
<1>1. ASSUME NEW k \in DOMAIN builtCfg' PROVE BuiltExact(builtCfg[k])'
  <2>1. builtCfg'[k] = builtCfg[k] /\ k \in DOMAIN builtCfg
    OBVIOUS
  <2>2. BuiltExact(builtCfg'[k])
    BY <2>1 DEF BuildInv
  <2> QED BY <2>2 DEF BuiltExact, BuiltIntfs, BuiltLen, Build!PipesOf, Build!HasIntf
<1> QED BY <1>1 DEF BuildInv

\* No configuration is left, or there are none yet.
LEMMA BuiltNone ==
    ASSUME builtCfg' = <<>>, builtNum' = 0, builtMask' \subseteq Strings,
           builtStr' \subseteq builtMask'
    PROVE  BuildInv'
<1>1. DOMAIN builtCfg' = {}
  OBVIOUS
<1>2. \A s : Build!OwnersOf(s)' = {}
  BY <1>1, OwnerIs
<1> QED BY <1>1, <1>2 DEF BuildInv, BuiltOwned

LEMMA BuildStep ==
    ASSUME BuildParams, BuildInv, [Build!Next]_(Build!buildVars)
    PROVE  BuildInv'
<1>1. BuiltOwned /\ \A n \in DOMAIN builtCfg : DOMAIN builtCfg[n].func = Intfs
  BY DEF BuildInv, BuiltExact, BuiltCfgs
<1>2. CASE Build!DevCreate
  <2>1. PICK S \in SUBSET Build!Free : builtStr' = S /\ builtMask' = builtMask \cup S
    BY <1>2 DEF Build!DevCreate, Build!kSubset
  <2>2. builtMask' \subseteq Strings /\ builtStr' \subseteq builtMask'
    BY <1>1, <2>1 DEF BuiltOwned, Build!Free
  <2> QED BY <1>2, <2>2, BuiltNone DEF Build!DevCreate
<1>3. CASE Build!CfgAdd
  BY <1>3, CfgAddStep
<1>4. ASSUME NEW G \in SUBSET DOMAIN builtCfg,
             builtMask' = builtMask \ UNION {Build!CfgFreed(n) : n \in G},
             builtCfg' = [c \in DOMAIN builtCfg \ G |-> builtCfg[c]],
             builtStr' = builtStr, builtNum' = builtNum
      PROVE  BuildInv'
  <2>1. BuiltOwned'
    BY <1>1, <1>4, OwnersShrink
  <2> QED BY <1>4, <2>1, ExactLess
<1>5. CASE Build!DevDestroy
  <2> DEFINE gone == {n \in 1 .. builtNum : 1 .. n \subseteq DOMAIN builtCfg}
             mask == builtMask \ UNION {Build!CfgFreed(n) : n \in gone}
  <2>1. CASE /\ builtCfg' = <<>> /\ builtStr' = {} /\ builtNum' = 0
             /\ builtMask' = mask \ builtStr
    <3>1. builtMask' \subseteq Strings
      BY <1>1, <2>1 DEF BuiltOwned
    <3> QED BY <2>1, <3>1, BuiltNone
  <2>2. CASE /\ builtCfg' = [c \in DOMAIN builtCfg \ gone |-> builtCfg[c]]
             /\ builtMask' = mask /\ builtStr' = builtStr /\ builtNum' = builtNum
    <3>1. gone \in SUBSET DOMAIN builtCfg
      <4>1. builtNum \in Nat
        BY DEF BuildInv
      <4>2. ASSUME NEW n \in gone PROVE n \in DOMAIN builtCfg
        <5>1. n \in 1 .. n
          BY <4>1
        <5> QED BY <5>1
      <4> QED BY <4>2
    <3> QED BY <1>4, <2>2, <3>1
  <2> QED BY <1>5, <2>1, <2>2 DEF Build!DevDestroy
<1>6. ASSUME NEW n \in DOMAIN builtCfg, Build!CfgDel(n)
      PROVE  BuildInv'
  <2> DEFINE G == {n}
  <2>1. G \in SUBSET DOMAIN builtCfg /\ UNION {Build!CfgFreed(k) : k \in G} = Build!CfgFreed(n)
    OBVIOUS
  <2>2. builtCfg' = [c \in DOMAIN builtCfg \ G |-> builtCfg[c]]
        /\ builtMask' = builtMask \ UNION {Build!CfgFreed(k) : k \in G}
        /\ builtStr' = builtStr /\ builtNum' = builtNum
    BY <1>6, <2>1 DEF Build!CfgDel
  <2> HIDE DEF G
  <2> QED BY <1>4, <2>1, <2>2
<1>7. ASSUME UNCHANGED <<builtMask, builtStr, builtNum, builtCfg>>
      PROVE  BuildInv'
  <2>1. \A s : Build!OwnersOf(s)' = Build!OwnersOf(s)
    BY <1>7 DEF Build!OwnersOf
  <2>2. \A n : BuiltExact(builtCfg[n])' <=> BuiltExact(builtCfg[n])
    BY <1>7 DEF BuiltExact, BuiltIntfs, BuiltLen, Build!PipesOf, Build!HasIntf
  <2> QED BY <1>7, <2>1, <2>2 DEF BuildInv, BuiltOwned
<1>8. CASE Build!Start
  BY <1>7, <1>8 DEF Build!Start
<1>9. CASE UNCHANGED Build!buildVars
  BY <1>7, <1>9 DEF Build!buildVars
<1> QED BY <1>2, <1>3, <1>5, <1>6, <1>8, <1>9, AssocAddStep, FuncAddStep, PipeAddStep,
           PipeDelStep DEF Build!Next

\* The descriptor is what the counters say, and each string index has its owner.
LEMMA BuildHolds ==
    ASSUME BuildParams, BuildInv
    PROVE  Build!DescExact /\ Build!StrOwned
<1>1. ASSUME NEW n \in DOMAIN builtCfg,
             BuiltIntfs(builtCfg[n]) = {i \in Intfs : i < builtCfg[n].nFunc}
      PROVE  /\ builtCfg[n].total = Build!MadeLen(builtCfg[n])
             /\ \A i \in Intfs : builtCfg[n].func[i].nEp = Build!PipesOf(builtCfg[n], i)
  <2> DEFINE c == builtCfg[n]
             U == {i \in Intfs : i < c.nFunc}
             F == [i \in Intfs |-> Build!FillLen(c, i)
                                      + (IF c.func[i].assoc = 0 THEN 0 ELSE Build!AssocLen)]
  <2>1. BuiltExact(c)
    BY DEF BuildInv
  <2> HIDE DEF c
  <2>2. \A i \in Intfs : c.func[i].nEp = Build!PipesOf(c, i)
    BY <2>1 DEF BuiltExact
  <2>3. \A i \in Intfs : F[i] = BuiltLen(c)[i]
    BY <2>2 DEF BuiltLen, Build!FillLen
  <2>4. IsFiniteSet(U) /\ U \subseteq Intfs
    BY FS_Subset DEF BuildParams
  <2> HIDE DEF F, U
  <2>5. SumFunctionOnSet(F, U) = SumFunctionOnSet(BuiltLen(c), U)
    BY <2>3, <2>4, SumEqual
  <2>6. Build!MadeLen(c) = Build!CfgLen + SumFunctionOnSet(F, U)
    BY BuildSame DEF Build!MadeLen, F, U
  <2>7. c.total = Build!CfgLen + SumFunctionOnSet(BuiltLen(c), U)
    BY <1>1, <2>1 DEF BuiltExact, U, c
  <2>8. c.total = Build!MadeLen(c)
    BY <2>5, <2>6, <2>7
  <2> QED BY <2>2, <2>8 DEF c
<1>2. Build!DescExact
  BY <1>1 DEF Build!DescExact, BuiltIntfs
<1>3. ASSUME NEW s \in Strings
      PROVE  Cardinality(Build!OwnersOf(s)) + (IF s \in builtStr THEN 1 ELSE 0)
                 <= IF s \in builtMask THEN 1 ELSE 0
  <2> DEFINE O == Build!OwnersOf(s)
  <2>1. /\ \A o, p \in O : o = p
        /\ s \in builtStr \/ s \notin builtMask => O = {}
        /\ s \in builtStr => s \in builtMask
    BY DEF BuildInv, BuiltOwned
  <2> HIDE DEF O
  <2>2. CASE O = {}
    <3>1. Cardinality(O) = 0
      BY <2>2, FS_EmptySet
    <3> QED BY <2>1, <3>1 DEF O
  <2>3. CASE O # {}
    <3>1. PICK o \in O : O = {o}
      BY <2>1, <2>3
    <3>2. Cardinality(O) = 1
      BY <3>1, FS_Singleton
    <3>3. s \notin builtStr /\ s \in builtMask
      BY <2>1, <2>3
    <3> QED BY <3>2, <3>3 DEF O
  <2> QED BY <2>2, <2>3
<1>4. Build!StrOwned
  BY <1>3, BuildSame DEF Build!StrOwned
<1> QED BY <1>2, <1>4

\* The device an application builds (usbd_dev.c:280-1310), for any number of interfaces,
\* endpoints and string indices: whatever calls have failed, the length in the configuration
\* descriptor and the endpoints in an interface descriptor are those the device
\* then sends, and a string index in use has one owner.
THEOREM BuildExactly ==
    ASSUME BuildParams
    PROVE  Build!Spec => [](Build!DescExact /\ Build!StrOwned)
<1>1. Build!Init => BuildInv
  BY BuildInit
<1>2. BuildInv /\ [Build!Next]_(Build!buildVars) => BuildInv'
  BY BuildStep
<1>3. BuildInv => Build!DescExact /\ Build!StrOwned
  BY BuildHolds
<1> QED BY <1>1, <1>2, <1>3, PTL DEF Build!Spec
-----------------------------------------------------------------------------
(* The formats of a camera: what the two passes over the descriptors count *)

\* UvcParse
CONSTANTS ParseKinds, ParseCounts, MaxDescs
VARIABLES parseDescs, parseAt, parsePos, parseRoom, parseUsed, parseFormats, parseHeld,
          parseListed

Parsed == INSTANCE UvcParse WITH
    Kinds <- ParseKinds, Counts <- ParseCounts, descs <- parseDescs, at <- parseAt,
    pos <- parsePos, room <- parseRoom, used <- parseUsed, formats <- parseFormats,
    held <- parseHeld, listed <- parseListed

ParseParams ==
    /\ ParseKinds \subseteq {"fu", "fm", "fb", "fdv", "u", "m", "b", "still", "color", "other"}
    /\ ParseCounts \subseteq Nat /\ MaxDescs \in Nat

LEMMA ParseSame == \A f, S : Parsed!SumFunctionOnSet(f, S) = SumFunctionOnSet(f, S)
BY DEF Parsed!SumFunctionOnSet, Parsed!FoldFunctionOnSet, Parsed!MapThenFoldSet,
       SumFunctionOnSet, FoldFunctionOnSet, MapThenFoldSet

LEMMA ParseCard == \A S : Parsed!Cardinality(S) = Cardinality(S)
BY DEF Parsed!Cardinality, Parsed!IsFiniteSet, Cardinality, IsFiniteSet

\* What each descriptor counts for.
FormatW == [i \in DOMAIN parseDescs |-> Parsed!FormatsIn(parseDescs[i])]
FrameW == [i \in DOMAIN parseDescs |-> Parsed!FramesIn(parseDescs[i])]
IntervalW == [i \in DOMAIN parseDescs |-> Parsed!IntervalsIn(parseDescs[i])]

ParseUsed == [formats : Nat, frames : Nat, intervals : Nat]
ParseFormats == Seq([frames : SUBSET Nat, intervals : SUBSET Nat])

\* The formats lie below what has been used, apart from each other.
ParseApart ==
    /\ parseFormats \in ParseFormats /\ Len(parseFormats) = parseUsed.formats
    /\ \A j \in DOMAIN parseFormats :
        /\ parseFormats[j].frames \subseteq 1 .. parseUsed.frames
        /\ parseFormats[j].intervals \subseteq 1 .. parseUsed.intervals
    /\ \A i, j \in DOMAIN parseFormats : i # j =>
        /\ parseFormats[i].frames \cap parseFormats[j].frames = {}
        /\ parseFormats[i].intervals \cap parseFormats[j].intervals = {}

\* The second pass has used no more than the first counted for the descriptors it has
\* passed, and has filled their formats.
ParsePassed ==
    LET passed == 1 .. parsePos - 1
        all == 1 .. Len(parseDescs)
    IN /\ parseRoom = [formats |-> SumFunctionOnSet(FormatW, all),
                       frames |-> SumFunctionOnSet(FrameW, all),
                       intervals |-> SumFunctionOnSet(IntervalW, all)]
       /\ parseUsed.formats = SumFunctionOnSet(FormatW, passed)
       /\ parseUsed.frames <= SumFunctionOnSet(FrameW, passed)
       /\ parseUsed.intervals <= SumFunctionOnSet(IntervalW, passed)
       /\ "formats" \in parseHeld

ParseInv ==
    /\ parseDescs \in Seq(Parsed!Descs)
    /\ parsePos \in 1 .. Len(parseDescs) + 1
    /\ parseUsed \in ParseUsed
    /\ ParseApart
    /\ parseAt \in {"header", "count"} =>
        /\ parsePos = 1 /\ parseFormats = <<>>
        /\ parseUsed = [formats |-> 0, frames |-> 0, intervals |-> 0]
    /\ parseAt \in {"fill", "ready"} => ParsePassed
    /\ parseAt = "ready" => parsePos = Len(parseDescs) + 1

LEMMA WeightTypes ==
    ASSUME ParseParams, parseDescs \in Seq(Parsed!Descs)
    PROVE  /\ DOMAIN parseDescs = 1 .. Len(parseDescs) /\ Len(parseDescs) \in Nat
           /\ \A i \in 1 .. Len(parseDescs) :
                /\ parseDescs[i] \in Parsed!Descs
                /\ FormatW[i] = Parsed!FormatsIn(parseDescs[i]) /\ FormatW[i] \in {0, 1}
                /\ FrameW[i] = Parsed!FramesIn(parseDescs[i]) /\ FrameW[i] \in Nat
                /\ IntervalW[i] = Parsed!IntervalsIn(parseDescs[i]) /\ IntervalW[i] \in Nat
<1>1. DOMAIN parseDescs = 1 .. Len(parseDescs) /\ Len(parseDescs) \in Nat
  OBVIOUS
<1>2. ASSUME NEW i \in 1 .. Len(parseDescs)
      PROVE  /\ parseDescs[i] \in Parsed!Descs
             /\ FormatW[i] = Parsed!FormatsIn(parseDescs[i])
             /\ FrameW[i] = Parsed!FramesIn(parseDescs[i])
             /\ IntervalW[i] = Parsed!IntervalsIn(parseDescs[i])
  BY <1>1, <1>2 DEF FormatW, FrameW, IntervalW
<1>3. ASSUME NEW d \in Parsed!Descs
      PROVE  Parsed!FormatsIn(d) \in {0, 1} /\ Parsed!FramesIn(d) \in Nat
             /\ Parsed!IntervalsIn(d) \in Nat
  <2>1. d.n \in Nat
    BY <1>3 DEF Parsed!Descs, ParseParams
  <2>2. Parsed!FormatsIn(d) \in {0, 1} /\ Parsed!FramesIn(d) \in Nat
    BY DEF Parsed!FormatsIn, Parsed!FramesIn
  <2>3. Parsed!Intervals(d) \in Nat
    BY <2>1 DEF Parsed!Intervals
  <2>4. Parsed!IntervalsIn(d) \in Nat
    BY <2>3 DEF Parsed!IntervalsIn
  <2> QED BY <2>2, <2>4
<1> QED BY <1>1, <1>2, <1>3

\* The sums of what has been passed.
LEMMA PassedSums ==
    ASSUME ParseParams, parseDescs \in Seq(Parsed!Descs),
           NEW p \in Nat, NEW q \in Nat, p <= q, q <= Len(parseDescs)
    PROVE  /\ SumFunctionOnSet(FormatW, 1 .. p) \in Nat
           /\ SumFunctionOnSet(FrameW, 1 .. p) \in Nat
           /\ SumFunctionOnSet(IntervalW, 1 .. p) \in Nat
           /\ SumFunctionOnSet(FrameW, p + 1 .. q) \in Nat
           /\ SumFunctionOnSet(IntervalW, p + 1 .. q) \in Nat
           /\ SumFunctionOnSet(FormatW, p + 1 .. q) \in Nat
           /\ SumFunctionOnSet(FormatW, 1 .. q) =
                SumFunctionOnSet(FormatW, 1 .. p) + SumFunctionOnSet(FormatW, p + 1 .. q)
           /\ SumFunctionOnSet(FrameW, 1 .. q) =
                SumFunctionOnSet(FrameW, 1 .. p) + SumFunctionOnSet(FrameW, p + 1 .. q)
           /\ SumFunctionOnSet(IntervalW, 1 .. q) =
                SumFunctionOnSet(IntervalW, 1 .. p) + SumFunctionOnSet(IntervalW, p + 1 .. q)
<1> DEFINE A == 1 .. p
           B == p + 1 .. q
<1>1. A \cup B = 1 .. q /\ A \cap B = {} /\ A \cup B \subseteq 1 .. Len(parseDescs)
  <2>1. Len(parseDescs) \in Nat
    OBVIOUS
  <2> QED BY <2>1
<1>2. IsFiniteSet(A) /\ IsFiniteSet(B)
  <2>1. p \in Int /\ q \in Int /\ p + 1 \in Int
    OBVIOUS
  <2> DEFINE one == 1
  <2>2. one \in Int
    OBVIOUS
  <2> HIDE DEF one
  <2>3. IsFiniteSet(one .. p) /\ IsFiniteSet(p + 1 .. q)
    BY <2>1, <2>2, FS_Interval
  <2> QED BY <2>3 DEF one
<1>3. ASSUME NEW w, \A i \in 1 .. Len(parseDescs) : w[i] \in Nat
      PROVE  /\ SumFunctionOnSet(w, A) \in Nat /\ SumFunctionOnSet(w, B) \in Nat
             /\ SumFunctionOnSet(w, 1 .. q) = SumFunctionOnSet(w, A) + SumFunctionOnSet(w, B)
  <2> HIDE DEF A, B
  <2>1. \A x \in A \cup B : w[x] \in Nat /\ w[x] \in Int
    BY <1>1, <1>3
  <2>2. SumFunctionOnSet(w, A) \in Nat /\ SumFunctionOnSet(w, B) \in Nat
    BY <1>2, <2>1, SumType
  <2>3. SumFunctionOnSet(w, A \cup B) = SumFunctionOnSet(w, A) + SumFunctionOnSet(w, B)
    BY <1>1, <1>2, <2>1, SumUnion
  <2> QED BY <1>1, <2>2, <2>3
<1>4. \A i \in 1 .. Len(parseDescs) : FormatW[i] \in Nat /\ FrameW[i] \in Nat /\ IntervalW[i] \in Nat
  BY WeightTypes
<1> HIDE DEF A, B
<1>5. /\ SumFunctionOnSet(FormatW, A) \in Nat /\ SumFunctionOnSet(FormatW, B) \in Nat
      /\ SumFunctionOnSet(FormatW, 1 .. q) = SumFunctionOnSet(FormatW, A) + SumFunctionOnSet(FormatW, B)
  BY <1>3, <1>4
<1>6. /\ SumFunctionOnSet(FrameW, A) \in Nat /\ SumFunctionOnSet(FrameW, B) \in Nat
      /\ SumFunctionOnSet(FrameW, 1 .. q) = SumFunctionOnSet(FrameW, A) + SumFunctionOnSet(FrameW, B)
  BY <1>3, <1>4
<1>7. /\ SumFunctionOnSet(IntervalW, A) \in Nat /\ SumFunctionOnSet(IntervalW, B) \in Nat
      /\ SumFunctionOnSet(IntervalW, 1 .. q) = SumFunctionOnSet(IntervalW, A) + SumFunctionOnSet(IntervalW, B)
  BY <1>3, <1>4
<1> QED BY <1>5, <1>6, <1>7 DEF A, B

\* The frames of a format are the descriptors up to some other.
LEMMA OwnRun ==
    ASSUME ParseParams, parseDescs \in Seq(Parsed!Descs), NEW p \in 1 .. Len(parseDescs)
    PROVE  \E m \in p + 1 .. Len(parseDescs) + 1 :
              /\ Parsed!OwnFrames(p) = p + 1 .. m - 1
              /\ Cardinality(Parsed!OwnFrames(p)) = m - 1 - p
              /\ IsFiniteSet(Parsed!OwnFrames(p))
              /\ \A i \in p + 1 .. m - 1 : parseDescs[i].kind = Parsed!FrameKind(parseDescs[p])
<1> DEFINE kind == Parsed!FrameKind(parseDescs[p])
           N == Len(parseDescs)
           Ends == {q \in p + 1 .. N + 1 : q = N + 1 \/ parseDescs[q].kind # kind}
<1>1. N \in Nat /\ p \in Nat /\ p <= N
  OBVIOUS
<1> HIDE DEF N, kind
<1>2. Ends \subseteq Nat /\ Ends # {}
  <2>1. N + 1 \in Ends
    BY <1>1
  <2> QED BY <1>1, <2>1
<1>3. PICK m \in Ends : \A y \in Ends : m <= y
  BY <1>2, Least
<1>4. m \in p + 1 .. N + 1
  BY <1>3
<1>5. \A i \in p + 1 .. m - 1 : parseDescs[i].kind = kind
  <2> SUFFICES ASSUME NEW i \in p + 1 .. m - 1, parseDescs[i].kind # kind
               PROVE  FALSE
    OBVIOUS
  <2>1. i \in Ends
    BY <1>1, <1>4
  <2> HIDE DEF Ends
  <2>2. m <= i
    BY <1>3, <2>1
  <2> QED BY <1>1, <1>4, <2>2
<1>6. m = N + 1 \/ parseDescs[m].kind # kind
  BY <1>3
<1>7. Parsed!OwnFrames(p) = {q \in p + 1 .. N : \A i \in p + 1 .. q : parseDescs[i].kind = kind}
  BY DEF Parsed!OwnFrames, kind, N
<1> HIDE DEF Ends
<1>8. Parsed!OwnFrames(p) = p + 1 .. m - 1
  <2>1. ASSUME NEW q \in p + 1 .. N, \A i \in p + 1 .. q : parseDescs[i].kind = kind
        PROVE  q \in p + 1 .. m - 1
    <3>1. CASE m = N + 1
      BY <1>1, <3>1
    <3>2. CASE m \in p + 1 .. N /\ parseDescs[m].kind # kind
      <4>1. m \notin p + 1 .. q
        BY <2>1, <3>2
      <4> QED BY <1>1, <3>2, <4>1
    <3> QED BY <1>1, <1>4, <1>6, <3>1, <3>2
  <2>2. ASSUME NEW q \in p + 1 .. m - 1
        PROVE  q \in p + 1 .. N /\ \A i \in p + 1 .. q : parseDescs[i].kind = kind
    <3>1. \A i \in p + 1 .. q : i \in p + 1 .. m - 1
      BY <1>1, <1>4
    <3> QED BY <1>1, <1>4, <1>5, <3>1
  <2> QED BY <1>7, <2>1, <2>2
<1>9. IsFiniteSet(p + 1 .. m - 1) /\ Cardinality(p + 1 .. m - 1) = m - 1 - p
  <2>1. p + 1 \in Int /\ m - 1 \in Int
    BY <1>1, <1>4
  <2>2. /\ IsFiniteSet(p + 1 .. m - 1)
        /\ Cardinality(p + 1 .. m - 1) = IF p + 1 > m - 1 THEN 0 ELSE (m - 1) - (p + 1) + 1
    BY <2>1, FS_Interval
  <2> QED BY <1>1, <1>4, <2>2
<1> QED BY <1>4, <1>5, <1>8, <1>9 DEF N, kind

LEMMA ParseInit == ParseParams /\ Parsed!Init => ParseInv
<1> SUFFICES ASSUME ParseParams, Parsed!Init PROVE ParseInv
  OBVIOUS
<1>1. PICK k \in 0 .. MaxDescs : parseDescs \in [1 .. k -> Parsed!Descs]
  BY DEF Parsed!Init
<1>2. parseDescs \in Seq(Parsed!Descs) /\ Len(parseDescs) \in Nat
  BY <1>1 DEF ParseParams
<1>3. parseFormats = <<>> /\ parseUsed = [formats |-> 0, frames |-> 0, intervals |-> 0]
      /\ parsePos = 1 /\ parseAt = "header"
  BY DEF Parsed!Init
<1>4. ParseApart
  BY <1>3 DEF ParseApart, ParseFormats
<1> QED BY <1>2, <1>3, <1>4 DEF ParseInv, ParseUsed

\* The first pass.
LEMMA ParseFirst ==
    ASSUME ParseParams, ParseInv, Parsed!Count
    PROVE  ParseInv'
<1> DEFINE all == 1 .. Len(parseDescs)
<1>1. /\ parseAt = "count" /\ parsePos = 1 /\ parseFormats = <<>>
      /\ parseUsed = [formats |-> 0, frames |-> 0, intervals |-> 0]
      /\ UNCHANGED <<parseDescs, parsePos, parseUsed, parseFormats>>
      /\ parseAt' = "failed" \/ (parseAt' = "fill" /\ "formats" \in parseHeld')
  BY DEF Parsed!Count, Parsed!Fail, ParseInv
<1>2. parseRoom' = [formats |-> SumFunctionOnSet(FormatW, all),
                    frames |-> SumFunctionOnSet(FrameW, all),
                    intervals |-> SumFunctionOnSet(IntervalW, all)]
  <2>1. DOMAIN parseDescs = all
    BY DEF ParseInv
  <2>2. /\ Parsed!Total(Parsed!FormatsIn) = Parsed!SumFunctionOnSet(FormatW, DOMAIN parseDescs)
        /\ Parsed!Total(Parsed!FramesIn) = Parsed!SumFunctionOnSet(FrameW, DOMAIN parseDescs)
        /\ Parsed!Total(Parsed!IntervalsIn) = Parsed!SumFunctionOnSet(IntervalW, DOMAIN parseDescs)
    BY DEF Parsed!Total, Parsed!Sum, FormatW, FrameW, IntervalW
  <2> QED BY <2>1, <2>2, ParseSame DEF Parsed!Count
<1>3. FormatW' = FormatW /\ FrameW' = FrameW /\ IntervalW' = IntervalW
  BY <1>1 DEF FormatW, FrameW, IntervalW, Parsed!FormatsIn, Parsed!FramesIn,
              Parsed!IntervalsIn, Parsed!Intervals, Parsed!IsFormat, Parsed!IsFrame
<1>4. (parseAt = "fill")' => ParsePassed'
  <2>1. 1 .. parsePos - 1 = {}
    BY <1>1
  <2>2. SumFunctionOnSet(FormatW, {}) = 0 /\ SumFunctionOnSet(FrameW, {}) = 0
        /\ SumFunctionOnSet(IntervalW, {}) = 0
    BY SumEmpty
  <2> QED BY <1>1, <1>2, <1>3, <2>1, <2>2 DEF ParsePassed
<1>5. ParseApart'
  BY <1>1 DEF ParseInv, ParseApart
<1>6. /\ (parseDescs \in Seq(Parsed!Descs))' /\ (parsePos \in 1 .. Len(parseDescs) + 1)'
      /\ (parseUsed \in ParseUsed)'
  BY <1>1 DEF ParseInv, Parsed!Descs
<1> QED BY <1>1, <1>4, <1>5, <1>6 DEF ParseInv

\* A descriptor that is passed over counts for what it may; what is used stays.
LEMMA ParseSkips ==
    ASSUME ParseParams, ParseInv, Parsed!Skip
    PROVE  ParseInv'
<1>1. /\ parseAt = "fill" /\ parsePos \in 1 .. Len(parseDescs) /\ parsePos' = parsePos + 1
      /\ ~Parsed!IsFormat(parseDescs[parsePos])
      /\ UNCHANGED <<parseDescs, parseAt, parseRoom, parseUsed, parseFormats, parseHeld>>
      /\ parseDescs \in Seq(Parsed!Descs) /\ Len(parseDescs) \in Nat
      /\ ParsePassed /\ parseUsed \in ParseUsed
  BY DEF Parsed!Skip, ParseInv
<1>2. FormatW' = FormatW /\ FrameW' = FrameW /\ IntervalW' = IntervalW
  BY <1>1 DEF FormatW, FrameW, IntervalW, Parsed!FormatsIn, Parsed!FramesIn,
              Parsed!IntervalsIn, Parsed!Intervals, Parsed!IsFormat, Parsed!IsFrame
<1> DEFINE p == parsePos - 1
           q == parsePos
<1>3. /\ p \in Nat /\ q \in Nat /\ p <= q /\ q <= Len(parseDescs) /\ p + 1 .. q = {parsePos}
      /\ (parsePos - 1)' = q
  BY <1>1
<1> HIDE DEF p, q
<1>4. /\ SumFunctionOnSet(FormatW, 1 .. p) \in Nat
      /\ SumFunctionOnSet(FrameW, 1 .. p) \in Nat
      /\ SumFunctionOnSet(IntervalW, 1 .. p) \in Nat
      /\ SumFunctionOnSet(FrameW, p + 1 .. q) \in Nat
      /\ SumFunctionOnSet(IntervalW, p + 1 .. q) \in Nat
      /\ SumFunctionOnSet(FormatW, p + 1 .. q) \in Nat
      /\ SumFunctionOnSet(FormatW, 1 .. q) =
           SumFunctionOnSet(FormatW, 1 .. p) + SumFunctionOnSet(FormatW, p + 1 .. q)
      /\ SumFunctionOnSet(FrameW, 1 .. q) =
           SumFunctionOnSet(FrameW, 1 .. p) + SumFunctionOnSet(FrameW, p + 1 .. q)
      /\ SumFunctionOnSet(IntervalW, 1 .. q) =
           SumFunctionOnSet(IntervalW, 1 .. p) + SumFunctionOnSet(IntervalW, p + 1 .. q)
  BY <1>1, <1>3, PassedSums
<1>5. SumFunctionOnSet(FormatW, p + 1 .. q) = 0
  <2>1. FormatW[parsePos] = 0
    BY <1>1, WeightTypes DEF Parsed!FormatsIn
  <2>2. IsFiniteSet({}) /\ parsePos \notin {} /\ {} \cup {parsePos} = {parsePos}
    BY FS_EmptySet
  <2>3. SumFunctionOnSet(FormatW, {} \cup {parsePos}) = FormatW[parsePos] + SumFunctionOnSet(FormatW, {})
    BY <2>1, <2>2, SumAdd
  <2>4. SumFunctionOnSet(FormatW, {}) = 0
    BY SumEmpty
  <2>5. SumFunctionOnSet(FormatW, {parsePos}) = 0
    BY <2>1, <2>2, <2>3, <2>4
  <2> QED BY <1>3, <2>5
<1>6. /\ parseUsed.formats = SumFunctionOnSet(FormatW, 1 .. p)
      /\ parseUsed.frames <= SumFunctionOnSet(FrameW, 1 .. p)
      /\ parseUsed.intervals <= SumFunctionOnSet(IntervalW, 1 .. p)
      /\ parseUsed.frames \in Nat /\ parseUsed.intervals \in Nat
  BY <1>1 DEF ParsePassed, p, ParseUsed
<1>7. /\ parseUsed.formats = SumFunctionOnSet(FormatW, 1 .. q)
      /\ parseUsed.frames <= SumFunctionOnSet(FrameW, 1 .. q)
      /\ parseUsed.intervals <= SumFunctionOnSet(IntervalW, 1 .. q)
  BY <1>4, <1>5, <1>6
<1>8. ParsePassed'
  BY <1>1, <1>2, <1>3, <1>7 DEF ParsePassed
<1>9. ParseApart'
  BY <1>1 DEF ParseInv, ParseApart
<1>10. /\ (parseDescs \in Seq(Parsed!Descs))' /\ (parsePos \in 1 .. Len(parseDescs) + 1)'
       /\ (parseUsed \in ParseUsed)'
  BY <1>1 DEF Parsed!Descs
<1> QED BY <1>1, <1>8, <1>9, <1>10 DEF ParseInv

\* A format that is filled counts for its frames and their intervals.
LEMMA FormatFills ==
    ASSUME ParseParams, parseDescs \in Seq(Parsed!Descs), NEW p \in 1 .. Len(parseDescs),
           Parsed!IsFormat(parseDescs[p]),
           NEW m \in p + 1 .. Len(parseDescs) + 1,
           Parsed!OwnFrames(p) = p + 1 .. m - 1, IsFiniteSet(Parsed!OwnFrames(p)),
           \A i \in p + 1 .. m - 1 : parseDescs[i].kind = Parsed!FrameKind(parseDescs[p]),
           NEW dv, dv = IF parseDescs[p].kind = "fdv" THEN 1 ELSE 0
    PROVE  /\ SumFunctionOnSet(FrameW, p .. m - 1) = Cardinality(Parsed!OwnFrames(p)) + dv
           /\ SumFunctionOnSet(IntervalW, p .. m - 1) =
                Parsed!Sum(Parsed!Intervals, Parsed!OwnFrames(p)) + dv
           /\ SumFunctionOnSet(FormatW, p .. m - 1) = 1
<1> DEFINE own == Parsed!OwnFrames(p)
           IntervalsW == [i \in DOMAIN parseDescs |-> Parsed!Intervals(parseDescs[i])]
<1>1. Len(parseDescs) \in Nat /\ p \in Nat /\ m \in Nat /\ DOMAIN parseDescs = 1 .. Len(parseDescs)
  OBVIOUS
<1>2. p \notin own /\ own \cup {p} = p .. m - 1 /\ own \subseteq 1 .. Len(parseDescs)
  BY <1>1
<1>3. \A i \in own : /\ Parsed!IsFrame(parseDescs[i]) /\ ~Parsed!IsFormat(parseDescs[i])
                     /\ parseDescs[i].kind # "fdv"
  <2> SUFFICES ASSUME NEW i \in own
               PROVE  /\ Parsed!IsFrame(parseDescs[i]) /\ ~Parsed!IsFormat(parseDescs[i])
                      /\ parseDescs[i].kind # "fdv"
    OBVIOUS
  <2>1. parseDescs[i].kind = Parsed!FrameKind(parseDescs[p])
    OBVIOUS
  <2>2. parseDescs[i].kind \in ParseKinds
    <3>1. i \in 1 .. Len(parseDescs)
      BY <1>2
    <3>2. parseDescs[i] \in Parsed!Descs
      BY <3>1, WeightTypes
    <3> QED BY <3>2 DEF Parsed!Descs
  <2>3. parseDescs[p].kind \in {"fu", "fm", "fb", "fdv"}
    BY DEF Parsed!IsFormat
  <2>4. Parsed!FrameKind(parseDescs[p]) \in {"u", "m", "b", "none"}
    BY <2>3, Zenon DEF Parsed!FrameKind
  <2>5. parseDescs[i].kind \in {"u", "m", "b"}
    BY <2>1, <2>2, <2>4 DEF ParseParams
  <2> QED BY <2>5 DEF Parsed!IsFrame, Parsed!IsFormat
<1>4. \A i \in own : /\ FrameW[i] = 1 /\ FormatW[i] = 0
                     /\ IntervalW[i] = IntervalsW[i]
                     /\ FrameW[i] \in Int /\ FormatW[i] \in Int /\ IntervalW[i] \in Int
  <2> SUFFICES ASSUME NEW i \in own
               PROVE  /\ FrameW[i] = 1 /\ FormatW[i] = 0 /\ IntervalW[i] = IntervalsW[i]
                      /\ FrameW[i] \in Int /\ FormatW[i] \in Int /\ IntervalW[i] \in Int
    OBVIOUS
  <2>1. i \in DOMAIN parseDescs /\ i \in 1 .. Len(parseDescs)
    BY <1>1, <1>2
  <2>2. Parsed!IsFrame(parseDescs[i]) /\ ~Parsed!IsFormat(parseDescs[i]) /\ parseDescs[i].kind # "fdv"
    BY <1>3
  <2>3. FrameW[i] = Parsed!FramesIn(parseDescs[i]) /\ FormatW[i] = Parsed!FormatsIn(parseDescs[i])
        /\ IntervalW[i] = Parsed!IntervalsIn(parseDescs[i]) /\ IntervalW[i] \in Nat
    BY <2>1, WeightTypes
  <2>4. IntervalsW[i] = Parsed!Intervals(parseDescs[i])
    BY <2>1
  <2> QED BY <2>2, <2>3, <2>4 DEF Parsed!FramesIn, Parsed!FormatsIn, Parsed!IntervalsIn
<1>5. FrameW[p] = dv /\ FormatW[p] = 1 /\ IntervalW[p] = dv /\ dv \in Int
  <2>1. FrameW[p] = Parsed!FramesIn(parseDescs[p]) /\ FormatW[p] = Parsed!FormatsIn(parseDescs[p])
        /\ IntervalW[p] = Parsed!IntervalsIn(parseDescs[p])
    BY WeightTypes
  <2>2. parseDescs[p].kind \in {"fu", "fm", "fb", "fdv"}
    BY DEF Parsed!IsFormat
  <2> QED BY <2>1, <2>2 DEF Parsed!FramesIn, Parsed!FormatsIn, Parsed!IntervalsIn,
             Parsed!IsFormat, Parsed!IsFrame
<1>6. Parsed!Sum(Parsed!Intervals, own) = SumFunctionOnSet(IntervalsW, own)
  BY ParseSame DEF Parsed!Sum
<1> HIDE DEF own, IntervalsW
<1>7. IsFiniteSet(own)
  BY DEF own
<1>8. SumFunctionOnSet(FrameW, own) = Cardinality(own)
  BY <1>4, <1>7, SumOnes
<1>9. SumFunctionOnSet(IntervalW, own) = SumFunctionOnSet(IntervalsW, own)
  BY <1>4, <1>7, SumEqual
<1>10. SumFunctionOnSet(FormatW, own) = 0
  BY <1>4, <1>7, SumZeros
<1>11. /\ SumFunctionOnSet(FrameW, own \cup {p}) = FrameW[p] + SumFunctionOnSet(FrameW, own)
       /\ SumFunctionOnSet(FormatW, own \cup {p}) = FormatW[p] + SumFunctionOnSet(FormatW, own)
       /\ SumFunctionOnSet(IntervalW, own \cup {p}) = IntervalW[p] + SumFunctionOnSet(IntervalW, own)
  <2>1. FrameW[p] \in Int /\ FormatW[p] \in Int /\ IntervalW[p] \in Int
    BY <1>5
  <2> QED BY <1>2, <1>4, <1>7, <2>1, SumAdd
<1>12. /\ Cardinality(own) \in Int /\ SumFunctionOnSet(IntervalsW, own) \in Int
  <2>1. SumFunctionOnSet(IntervalW, own) \in Int
    BY <1>4, <1>7, SumType
  <2> QED BY <1>7, <1>9, <2>1, FS_CardinalityType
<1> DEFINE whole == own \cup {p}
<1>13. whole = p .. m - 1
  BY <1>2
<1> HIDE DEF whole
<1>14. SumFunctionOnSet(FrameW, whole) = Cardinality(own) + dv
  <2>1. SumFunctionOnSet(FrameW, whole) = dv + Cardinality(own)
    BY <1>5, <1>8, <1>11 DEF whole
  <2> QED BY <1>5, <1>12, <2>1
<1>15. SumFunctionOnSet(IntervalW, whole) = SumFunctionOnSet(IntervalsW, own) + dv
  <2>1. SumFunctionOnSet(IntervalW, whole) = dv + SumFunctionOnSet(IntervalsW, own)
    BY <1>5, <1>9, <1>11 DEF whole
  <2> QED BY <1>5, <1>12, <2>1
<1>16. SumFunctionOnSet(FormatW, whole) = 1
  BY <1>5, <1>10, <1>11 DEF whole
<1> QED BY <1>6, <1>13, <1>14, <1>15, <1>16 DEF own

LEMMA FormatApart ==
    ASSUME ParseApart, parseUsed \in ParseUsed, NEW frames \in Nat, NEW ints \in Nat,
           parseFormats' = Append(parseFormats,
             [frames |-> parseUsed.frames + 1 .. parseUsed.frames + frames,
              intervals |-> parseUsed.intervals + 1 .. parseUsed.intervals + ints]),
           parseUsed' = [formats |-> parseUsed.formats + 1, frames |-> parseUsed.frames + frames,
                         intervals |-> parseUsed.intervals + ints]
    PROVE  ParseApart'
<1> DEFINE new == [frames |-> parseUsed.frames + 1 .. parseUsed.frames + frames,
                   intervals |-> parseUsed.intervals + 1 .. parseUsed.intervals + ints]
           n == Len(parseFormats)
<1>1. /\ parseUsed.frames \in Nat /\ parseUsed.intervals \in Nat /\ parseUsed.formats = n /\ n \in Nat
      /\ parseUsed'.frames = parseUsed.frames + frames
      /\ parseUsed'.intervals = parseUsed.intervals + ints /\ parseUsed'.formats = n + 1
      /\ parseFormats \in ParseFormats /\ DOMAIN parseFormats = 1 .. n
  BY DEF ParseApart, ParseFormats, ParseUsed
<1>2. /\ new.frames = parseUsed.frames + 1 .. parseUsed'.frames
      /\ new.intervals = parseUsed.intervals + 1 .. parseUsed'.intervals
      /\ new \in [frames : SUBSET Nat, intervals : SUBSET Nat]
  BY <1>1
<1> HIDE DEF new
<1>3. /\ parseFormats' \in ParseFormats /\ Len(parseFormats') = n + 1
      /\ \A j \in 1 .. n : parseFormats'[j] = parseFormats[j]
      /\ parseFormats'[n + 1] = new /\ DOMAIN parseFormats' = 1 .. n + 1
  BY <1>1, <1>2 DEF ParseFormats, new
<1>4. \A j \in 1 .. n : /\ parseFormats[j].frames \subseteq 1 .. parseUsed.frames
                        /\ parseFormats[j].intervals \subseteq 1 .. parseUsed.intervals
  BY <1>1 DEF ParseApart
<1>5. \A i, j \in 1 .. n : i # j =>
        /\ parseFormats[i].frames \cap parseFormats[j].frames = {}
        /\ parseFormats[i].intervals \cap parseFormats[j].intervals = {}
  BY <1>1 DEF ParseApart
<1> HIDE DEF n
<1>6. \A j \in 1 .. n + 1 : /\ parseFormats'[j].frames \subseteq 1 .. parseUsed'.frames
                            /\ parseFormats'[j].intervals \subseteq 1 .. parseUsed'.intervals
  <2> SUFFICES ASSUME NEW j \in 1 .. n + 1
               PROVE  /\ parseFormats'[j].frames \subseteq 1 .. parseUsed'.frames
                      /\ parseFormats'[j].intervals \subseteq 1 .. parseUsed'.intervals
    OBVIOUS
  <2>1. CASE j = n + 1
    BY <1>1, <1>2, <1>3, <2>1
  <2>2. CASE j \in 1 .. n
    <3>1. 1 .. parseUsed.frames \subseteq 1 .. parseUsed'.frames
          /\ 1 .. parseUsed.intervals \subseteq 1 .. parseUsed'.intervals
      BY <1>1
    <3> QED BY <1>3, <1>4, <2>2, <3>1
  <2> QED BY <1>1, <2>1, <2>2
<1>7. \A j \in 1 .. n : /\ parseFormats'[j].frames \cap new.frames = {}
                        /\ parseFormats'[j].intervals \cap new.intervals = {}
  <2>1. 1 .. parseUsed.frames \cap new.frames = {} /\ 1 .. parseUsed.intervals \cap new.intervals = {}
    BY <1>1, <1>2
  <2> QED BY <1>3, <1>4, <2>1
<1>8. \A i, j \in 1 .. n + 1 : i # j =>
        /\ parseFormats'[i].frames \cap parseFormats'[j].frames = {}
        /\ parseFormats'[i].intervals \cap parseFormats'[j].intervals = {}
  <2> SUFFICES ASSUME NEW i \in 1 .. n + 1, NEW j \in 1 .. n + 1, i # j
               PROVE  /\ parseFormats'[i].frames \cap parseFormats'[j].frames = {}
                      /\ parseFormats'[i].intervals \cap parseFormats'[j].intervals = {}
    OBVIOUS
  <2>1. (i \in 1 .. n \/ i = n + 1) /\ (j \in 1 .. n \/ j = n + 1)
    BY <1>1
  <2>2. CASE i \in 1 .. n /\ j \in 1 .. n
    BY <1>3, <1>5, <2>2
  <2>3. CASE i \in 1 .. n /\ j = n + 1
    BY <1>3, <1>7, <2>3
  <2>4. CASE i = n + 1 /\ j \in 1 .. n
    BY <1>3, <1>7, <2>4
  <2> QED BY <2>1, <2>2, <2>3, <2>4
<1> QED BY <1>1, <1>3, <1>6, <1>8 DEF ParseApart

LEMMA MoreUsed ==
    ASSUME NEW u \in Nat, NEW s \in Nat, NEW n \in Nat, NEW r \in Nat, u <= s
    PROVE  u + n <= (s + n) + r
OBVIOUS

\* A format: what is filled is apart from what was, and has been counted.
LEMMA ParseFills ==
    ASSUME ParseParams, ParseInv, Parsed!Format
    PROVE  ParseInv'
<1> DEFINE own == Parsed!OwnFrames(parsePos)
           dv == IF parseDescs[parsePos].kind = "fdv" THEN 1 ELSE 0
           frames == Parsed!Cardinality(own) + dv
           ints == Parsed!Sum(Parsed!Intervals, own) + dv
           still == Parsed!Past(parsePos + Parsed!Cardinality(own) + 1, "still")
           end == Parsed!Past(still, "color")
           N == Len(parseDescs)
<1>1. /\ parseAt = "fill" /\ parsePos \in 1 .. N /\ N \in Nat
      /\ Parsed!IsFormat(parseDescs[parsePos])
      /\ UNCHANGED <<parseDescs, parseRoom>>
      /\ parseDescs \in Seq(Parsed!Descs)
      /\ ParsePassed /\ parseUsed \in ParseUsed /\ ParseApart
  BY DEF Parsed!Format, ParseInv
<1>2. \/ parseAt' = "failed" /\ UNCHANGED <<parsePos, parseUsed, parseFormats>>
      \/ /\ parseFormats' = Append(parseFormats,
                [frames |-> parseUsed.frames + 1 .. parseUsed.frames + frames,
                 intervals |-> parseUsed.intervals + 1 .. parseUsed.intervals + ints])
         /\ parseUsed' = [formats |-> parseUsed.formats + 1, frames |-> parseUsed.frames + frames,
                          intervals |-> parseUsed.intervals + ints]
         /\ parsePos' = end /\ UNCHANGED <<parseAt, parseHeld>>
  BY DEF Parsed!Format, Parsed!Fail
<1>3. CASE parseAt' = "failed" /\ UNCHANGED <<parsePos, parseUsed, parseFormats>>
  <2>1. ParseApart'
    BY <1>1, <1>3 DEF ParseApart
  <2> QED BY <1>1, <1>3, <2>1 DEF ParseInv, Parsed!Descs
<1>4. CASE /\ parseFormats' = Append(parseFormats,
                [frames |-> parseUsed.frames + 1 .. parseUsed.frames + frames,
                 intervals |-> parseUsed.intervals + 1 .. parseUsed.intervals + ints])
           /\ parseUsed' = [formats |-> parseUsed.formats + 1, frames |-> parseUsed.frames + frames,
                            intervals |-> parseUsed.intervals + ints]
           /\ parsePos' = end /\ UNCHANGED <<parseAt, parseHeld>>
  <2>1. PICK m \in parsePos + 1 .. N + 1 :
           /\ own = parsePos + 1 .. m - 1
           /\ Cardinality(own) = m - 1 - parsePos
           /\ IsFiniteSet(own)
           /\ \A i \in parsePos + 1 .. m - 1 :
                parseDescs[i].kind = Parsed!FrameKind(parseDescs[parsePos])
    BY <1>1, OwnRun
  <2>2. /\ SumFunctionOnSet(FrameW, parsePos .. m - 1) = frames
        /\ SumFunctionOnSet(IntervalW, parsePos .. m - 1) = ints
        /\ SumFunctionOnSet(FormatW, parsePos .. m - 1) = 1
    <3>1. dv = IF parseDescs[parsePos].kind = "fdv" THEN 1 ELSE 0
      OBVIOUS
    <3> HIDE DEF dv
    <3>2. /\ SumFunctionOnSet(FrameW, parsePos .. m - 1) = Cardinality(Parsed!OwnFrames(parsePos)) + dv
          /\ SumFunctionOnSet(IntervalW, parsePos .. m - 1) =
                Parsed!Sum(Parsed!Intervals, Parsed!OwnFrames(parsePos)) + dv
          /\ SumFunctionOnSet(FormatW, parsePos .. m - 1) = 1
      BY <1>1, <2>1, <3>1, FormatFills
    <3> QED BY <3>2, ParseCard
  <2>3. parsePos + Parsed!Cardinality(own) + 1 = m
    BY <1>1, <2>1, ParseCard
  <2>4. /\ end \in m .. N + 1
        /\ \A i \in m .. end - 1 : ~Parsed!IsFormat(parseDescs[i])
    <3>1. m \in Nat /\ m <= N + 1
      BY <1>1
    <3>2. still = IF m <= N /\ parseDescs[m].kind = "still" THEN m + 1 ELSE m
      BY <2>3 DEF Parsed!Past
    <3>3. end = IF still <= N /\ parseDescs[still].kind = "color" THEN still + 1 ELSE still
      BY DEF Parsed!Past
    <3> HIDE DEF still, end
    <3>4. still \in m .. N + 1 /\ \A i \in m .. still - 1 : parseDescs[i].kind = "still"
      BY <1>1, <3>1, <3>2
    <3>5. end \in still .. N + 1 /\ \A i \in still .. end - 1 : parseDescs[i].kind = "color"
      BY <1>1, <3>1, <3>3, <3>4
    <3>6. \A i \in m .. end - 1 : parseDescs[i].kind \in {"still", "color"}
      <4> SUFFICES ASSUME NEW i \in m .. end - 1
                   PROVE  parseDescs[i].kind \in {"still", "color"}
        OBVIOUS
      <4>1. i \in m .. still - 1 \/ i \in still .. end - 1
        BY <3>1, <3>4, <3>5
      <4> QED BY <3>4, <3>5, <4>1
    <3>7. end \in m .. N + 1
      BY <1>1, <3>1, <3>4, <3>5
    <3> QED BY <3>6, <3>7 DEF Parsed!IsFormat
  <2> DEFINE p == parsePos - 1
  <2> HIDE DEF own, dv, frames, ints, still, end, N, p
  <2>5. /\ p \in Nat /\ m - 1 \in Nat /\ end - 1 \in Nat /\ p <= m - 1 /\ m - 1 <= end - 1
        /\ end - 1 <= N /\ p + 1 = parsePos /\ (m - 1) + 1 = m /\ m - 1 <= N
    BY <1>1, <2>1, <2>4 DEF p
  <2> DEFINE a == m - 1
             b == end - 1
  <2>6. a \in Nat /\ b \in Nat /\ p <= a /\ a <= b /\ b <= N /\ a <= N /\ a + 1 = m
    BY <2>5
  <2> HIDE DEF a, b
  <2>7. /\ SumFunctionOnSet(FormatW, 1 .. p) \in Nat
        /\ SumFunctionOnSet(FrameW, 1 .. p) \in Nat
        /\ SumFunctionOnSet(IntervalW, 1 .. p) \in Nat
        /\ SumFunctionOnSet(FrameW, p + 1 .. a) \in Nat
        /\ SumFunctionOnSet(IntervalW, p + 1 .. a) \in Nat
        /\ SumFunctionOnSet(FormatW, 1 .. a) =
             SumFunctionOnSet(FormatW, 1 .. p) + SumFunctionOnSet(FormatW, p + 1 .. a)
        /\ SumFunctionOnSet(FrameW, 1 .. a) =
             SumFunctionOnSet(FrameW, 1 .. p) + SumFunctionOnSet(FrameW, p + 1 .. a)
        /\ SumFunctionOnSet(IntervalW, 1 .. a) =
             SumFunctionOnSet(IntervalW, 1 .. p) + SumFunctionOnSet(IntervalW, p + 1 .. a)
    BY <1>1, <2>5, <2>6, PassedSums DEF N
  <2>8. /\ SumFunctionOnSet(FormatW, 1 .. a) \in Nat
        /\ SumFunctionOnSet(FrameW, 1 .. a) \in Nat
        /\ SumFunctionOnSet(IntervalW, 1 .. a) \in Nat
        /\ SumFunctionOnSet(FrameW, a + 1 .. b) \in Nat
        /\ SumFunctionOnSet(IntervalW, a + 1 .. b) \in Nat
        /\ SumFunctionOnSet(FormatW, 1 .. b) =
             SumFunctionOnSet(FormatW, 1 .. a) + SumFunctionOnSet(FormatW, a + 1 .. b)
        /\ SumFunctionOnSet(FrameW, 1 .. b) =
             SumFunctionOnSet(FrameW, 1 .. a) + SumFunctionOnSet(FrameW, a + 1 .. b)
        /\ SumFunctionOnSet(IntervalW, 1 .. b) =
             SumFunctionOnSet(IntervalW, 1 .. a) + SumFunctionOnSet(IntervalW, a + 1 .. b)
    BY <1>1, <2>6, PassedSums DEF N
  <2>9. SumFunctionOnSet(FormatW, a + 1 .. b) = 0
    <3>1. IsFiniteSet(a + 1 .. b)
      BY <2>6, FS_Interval
    <3>2. \A i \in a + 1 .. b : FormatW[i] = 0
      <4> SUFFICES ASSUME NEW i \in a + 1 .. b
                   PROVE  FormatW[i] = 0
        OBVIOUS
      <4>1. i \in m .. end - 1 /\ i \in 1 .. N
        BY <1>1, <2>6 DEF b
      <4>2. ~Parsed!IsFormat(parseDescs[i])
        BY <2>4, <4>1
      <4> QED BY <1>1, <4>1, <4>2, WeightTypes DEF Parsed!FormatsIn, N
    <3> QED BY <3>1, <3>2, SumZeros
  <2>10. /\ SumFunctionOnSet(FrameW, p + 1 .. a) = frames
         /\ SumFunctionOnSet(IntervalW, p + 1 .. a) = ints
         /\ SumFunctionOnSet(FormatW, p + 1 .. a) = 1
    BY <2>2, <2>5 DEF a
  <2>11. frames \in Nat /\ ints \in Nat
    BY <2>7, <2>10
  <2>12. /\ parseUsed.formats = SumFunctionOnSet(FormatW, 1 .. p)
         /\ parseUsed.frames <= SumFunctionOnSet(FrameW, 1 .. p)
         /\ parseUsed.intervals <= SumFunctionOnSet(IntervalW, 1 .. p)
         /\ parseUsed.frames \in Nat /\ parseUsed.intervals \in Nat /\ parseUsed.formats \in Nat
    BY <1>1 DEF ParsePassed, p, ParseUsed
  <2>13. /\ parseUsed'.formats = SumFunctionOnSet(FormatW, 1 .. b)
         /\ parseUsed'.frames <= SumFunctionOnSet(FrameW, 1 .. b)
         /\ parseUsed'.intervals <= SumFunctionOnSet(IntervalW, 1 .. b)
    <3>1. parseUsed'.formats = parseUsed.formats + 1 /\ parseUsed'.frames = parseUsed.frames + frames
          /\ parseUsed'.intervals = parseUsed.intervals + ints
      BY <1>4
    <3>2. parseUsed'.formats = SumFunctionOnSet(FormatW, 1 .. b)
      BY <2>7, <2>8, <2>9, <2>10, <2>12, <3>1
    <3>3. parseUsed'.frames <= SumFunctionOnSet(FrameW, 1 .. b)
      <4>1. SumFunctionOnSet(FrameW, 1 .. b) =
              (SumFunctionOnSet(FrameW, 1 .. p) + frames) + SumFunctionOnSet(FrameW, a + 1 .. b)
        BY <2>7, <2>8, <2>10
      <4>2. parseUsed.frames + frames <=
              (SumFunctionOnSet(FrameW, 1 .. p) + frames) + SumFunctionOnSet(FrameW, a + 1 .. b)
        BY <2>7, <2>8, <2>11, <2>12, MoreUsed
      <4> QED BY <3>1, <4>1, <4>2
    <3>4. parseUsed'.intervals <= SumFunctionOnSet(IntervalW, 1 .. b)
      <4>1. SumFunctionOnSet(IntervalW, 1 .. b) =
              (SumFunctionOnSet(IntervalW, 1 .. p) + ints) + SumFunctionOnSet(IntervalW, a + 1 .. b)
        BY <2>7, <2>8, <2>10
      <4>2. parseUsed.intervals + ints <=
              (SumFunctionOnSet(IntervalW, 1 .. p) + ints) + SumFunctionOnSet(IntervalW, a + 1 .. b)
        BY <2>7, <2>8, <2>11, <2>12, MoreUsed
      <4> QED BY <3>1, <4>1, <4>2
    <3> QED BY <3>2, <3>3, <3>4
  <2>14. FormatW' = FormatW /\ FrameW' = FrameW /\ IntervalW' = IntervalW
    BY <1>1 DEF FormatW, FrameW, IntervalW, Parsed!FormatsIn, Parsed!FramesIn,
                Parsed!IntervalsIn, Parsed!Intervals, Parsed!IsFormat, Parsed!IsFrame
  <2>15. ParsePassed'
    <3>1. (parsePos - 1)' = b /\ (Len(parseDescs))' = Len(parseDescs) /\ parseHeld' = parseHeld
      BY <1>1, <1>4 DEF b
    <3> QED BY <1>1, <2>13, <2>14, <3>1 DEF ParsePassed
  <2>16. parseUsed' \in ParseUsed
    <3>1. parseUsed' = [formats |-> parseUsed.formats + 1, frames |-> parseUsed.frames + frames,
                        intervals |-> parseUsed.intervals + ints]
      BY <1>4
    <3>2. /\ parseUsed.formats + 1 \in Nat /\ parseUsed.frames + frames \in Nat
          /\ parseUsed.intervals + ints \in Nat
      BY <2>11, <2>12
    <3> QED BY <3>1, <3>2 DEF ParseUsed
  <2>17. ParseApart'
    BY <1>1, <1>4, <2>11, <2>12, FormatApart
  <2>18. (parsePos \in 1 .. Len(parseDescs) + 1)' /\ (parseDescs \in Seq(Parsed!Descs))'
    BY <1>1, <1>4, <2>1, <2>4 DEF N, Parsed!Descs
  <2> QED BY <1>1, <1>4, <2>15, <2>16, <2>17, <2>18 DEF ParseInv
<1> QED BY <1>2, <1>3, <1>4

LEMMA ParseStep ==
    ASSUME ParseParams, ParseInv, [Parsed!Next]_(Parsed!parseVars)
    PROVE  ParseInv'
<1>1. CASE Parsed!Header
  <2>1. UNCHANGED <<parseDescs, parsePos, parseUsed, parseFormats>> /\ parseAt = "header"
        /\ parseAt' \in {"count", "failed"}
    BY <1>1 DEF Parsed!Header
  <2>2. ParseApart'
    BY <2>1 DEF ParseInv, ParseApart
  <2> QED BY <2>1, <2>2 DEF ParseInv, Parsed!Descs
<1>2. CASE Parsed!Count
  BY <1>2, ParseFirst
<1>3. CASE Parsed!Format
  BY <1>3, ParseFills
<1>4. CASE Parsed!Skip
  BY <1>4, ParseSkips
<1>5. CASE Parsed!Listed \/ UNCHANGED Parsed!parseVars
  <2>1. /\ UNCHANGED <<parseDescs, parsePos, parseRoom, parseUsed, parseFormats, parseHeld>>
        /\ \/ parseAt' = parseAt
           \/ /\ parseAt = "fill" /\ parseAt' = "ready"
              /\ parsePos > Len(parseDescs)
    BY <1>5 DEF Parsed!Listed, Parsed!parseVars
  <2>2. ParseApart'
    BY <2>1 DEF ParseInv, ParseApart
  <2>3. FormatW' = FormatW /\ FrameW' = FrameW /\ IntervalW' = IntervalW
    BY <2>1 DEF FormatW, FrameW, IntervalW, Parsed!FormatsIn, Parsed!FramesIn,
                Parsed!IntervalsIn, Parsed!Intervals, Parsed!IsFormat, Parsed!IsFrame
  <2>4. ParsePassed => ParsePassed'
    BY <2>1, <2>3 DEF ParsePassed
  <2>5. (parseAt = "ready" => parsePos = Len(parseDescs) + 1)'
    BY <2>1 DEF ParseInv
  <2>6. /\ (parseDescs \in Seq(Parsed!Descs))' /\ (parsePos \in 1 .. Len(parseDescs) + 1)'
        /\ (parseUsed \in ParseUsed)'
    BY <2>1 DEF ParseInv, Parsed!Descs
  <2> QED BY <2>1, <2>2, <2>4, <2>5, <2>6 DEF ParseInv
<1> QED BY <1>1, <1>2, <1>3, <1>4, <1>5 DEF Parsed!Next

LEMMA ParseHolds ==
    ASSUME ParseParams, ParseInv
    PROVE  Parsed!FilledInRoom
<1>1. ASSUME parseAt \in {"fill", "ready"}
      PROVE  /\ parseUsed.frames <= parseRoom.frames
             /\ parseUsed.intervals <= parseRoom.intervals
             /\ parseUsed.formats <= parseRoom.formats
             /\ parsePos = Len(parseDescs) + 1 => parseUsed.formats = parseRoom.formats
  <2> DEFINE p == parsePos - 1
             q == Len(parseDescs)
  <2>1. /\ parseDescs \in Seq(Parsed!Descs) /\ parsePos \in 1 .. q + 1
        /\ parseUsed \in ParseUsed /\ ParsePassed
    BY <1>1 DEF ParseInv
  <2>2. /\ p \in Nat /\ q \in Nat /\ p <= q /\ (parsePos = q + 1 => p = q)
        /\ q <= Len(parseDescs)
    BY <2>1
  <2>3. /\ parseRoom.formats = SumFunctionOnSet(FormatW, 1 .. q)
        /\ parseRoom.frames = SumFunctionOnSet(FrameW, 1 .. q)
        /\ parseRoom.intervals = SumFunctionOnSet(IntervalW, 1 .. q)
        /\ parseUsed.formats = SumFunctionOnSet(FormatW, 1 .. p)
        /\ parseUsed.frames <= SumFunctionOnSet(FrameW, 1 .. p)
        /\ parseUsed.intervals <= SumFunctionOnSet(IntervalW, 1 .. p)
        /\ parseUsed.frames \in Nat /\ parseUsed.intervals \in Nat
    BY <2>1 DEF ParsePassed, ParseUsed
  <2> HIDE DEF p, q
  <2>4. /\ SumFunctionOnSet(FormatW, 1 .. p) \in Nat
        /\ SumFunctionOnSet(FrameW, 1 .. p) \in Nat
        /\ SumFunctionOnSet(IntervalW, 1 .. p) \in Nat
        /\ SumFunctionOnSet(FrameW, p + 1 .. q) \in Nat
        /\ SumFunctionOnSet(IntervalW, p + 1 .. q) \in Nat
        /\ SumFunctionOnSet(FormatW, p + 1 .. q) \in Nat
        /\ SumFunctionOnSet(FormatW, 1 .. q) =
             SumFunctionOnSet(FormatW, 1 .. p) + SumFunctionOnSet(FormatW, p + 1 .. q)
        /\ SumFunctionOnSet(FrameW, 1 .. q) =
             SumFunctionOnSet(FrameW, 1 .. p) + SumFunctionOnSet(FrameW, p + 1 .. q)
        /\ SumFunctionOnSet(IntervalW, 1 .. q) =
             SumFunctionOnSet(IntervalW, 1 .. p) + SumFunctionOnSet(IntervalW, p + 1 .. q)
    BY <2>1, <2>2, PassedSums
  <2>5. parseUsed.formats <= parseRoom.formats
    BY <2>3, <2>4
  <2>6. parseUsed.frames <= parseRoom.frames
    BY <2>3, <2>4
  <2>7. parseUsed.intervals <= parseRoom.intervals
    BY <2>3, <2>4
  <2> QED BY <2>2, <2>3, <2>5, <2>6, <2>7 DEF q
<1>2. parseAt = "ready" => Len(parseFormats) = parseRoom.formats /\ "formats" \in parseHeld
  BY <1>1 DEF ParseInv, ParseApart, ParsePassed
<1>3. \A i, j \in DOMAIN parseFormats : i # j =>
        /\ parseFormats[i].frames \cap parseFormats[j].frames = {}
        /\ parseFormats[i].intervals \cap parseFormats[j].intervals = {}
  BY DEF ParseInv, ParseApart
<1> QED BY <1>1, <1>2, <1>3 DEF Parsed!FilledInRoom

\* The formats of a camera (usbh_vc_stream.c:502-760), for any descriptors in any order:
\* what the second pass fills has been counted and allocated by the first, no frame or
\* interval is filled twice, and a stream that is listed has all its formats.
THEOREM ParseInRoom ==
    ASSUME ParseParams
    PROVE  Parsed!Spec => []Parsed!FilledInRoom
<1>1. Parsed!Init => ParseInv
  BY ParseInit
<1>2. ParseInv /\ [Parsed!Next]_(Parsed!parseVars) => ParseInv'
  BY ParseStep
<1>3. ParseInv => Parsed!FilledInRoom
  BY ParseHolds
<1> QED BY <1>1, <1>2, <1>3, PTL DEF Parsed!Spec
-----------------------------------------------------------------------------
(* Reports of HID: what is nested in the items                             *)

\* HidReport
CONSTANTS HidItems, MaxItems, StackSize, GlobalSize, MaxUsages, Contact, Blob
VARIABLES hidItems, hidPos, hidAt, hidGroup, hidStack, hidColls, hidGlobal, hidGlobals,
          hidLocal, hidReports, hidBroken

Hid == INSTANCE HidReport WITH
    Items <- HidItems, items <- hidItems, pos <- hidPos, at <- hidAt, group <- hidGroup,
    stack <- hidStack, collections <- hidColls, global <- hidGlobal, globals <- hidGlobals,
    local <- hidLocal, reports <- hidReports, broken <- hidBroken

HidParams ==
    /\ StackSize \in Nat /\ GlobalSize \in Nat /\ MaxUsages \in Nat /\ MaxItems \in Nat
    /\ \A it \in HidItems :
        /\ it.t \in {"open", "close", "field", "push", "pop", "page", "count", "delim",
                     "usage", "min", "upto", "long", "other"}
        /\ it.t = "delim" => it.v \in {0, 1}
        /\ it.t \in {"min", "upto"} => it.v \in Nat

LEMMA HidSame == \A S : Hid!Cardinality(S) = Cardinality(S)
BY DEF Hid!Cardinality, Hid!IsFiniteSet, Cardinality, IsFiniteSet

CountIn(P, a, b) == Cardinality((a .. b) \cap P)

\* The numbers from a to b with a property are finitely many; one more of them may be
\* one more with it.
LEMMA SomeOf ==
    ASSUME NEW a \in Nat, NEW b \in Nat, NEW P
    PROVE  /\ IsFiniteSet((a .. b) \cap P)
           /\ CountIn(P, a, b) \in Nat
           /\ b < a => CountIn(P, a, b) = 0
           /\ a <= b + 1 =>
                CountIn(P, a, b + 1) =
                  CountIn(P, a, b) + (IF b + 1 \in P THEN 1 ELSE 0)
<1> DEFINE S == (a .. b) \cap P
           T == (a .. b + 1) \cap P
<1>1. IsFiniteSet(a .. b) /\ S \subseteq a .. b
  BY FS_Interval
<1>2. IsFiniteSet(S) /\ Cardinality(S) \in Nat
  BY <1>1, FS_Subset, FS_CardinalityType
<1>3. ASSUME b < a PROVE Cardinality(S) = 0
  <2>1. S = {}
    BY <1>3
  <2> QED BY <2>1, FS_EmptySet
<1>4. ASSUME a <= b + 1
      PROVE  Cardinality(T) = Cardinality(S) + (IF b + 1 \in P THEN 1 ELSE 0)
  <2>1. CASE b + 1 \in P
    <3>1. T = S \cup {b + 1} /\ b + 1 \notin S
      BY <1>4, <2>1
    <3> HIDE DEF S, T
    <3>2. Cardinality(T) = Cardinality(S) + 1
      BY <1>2, <3>1, FS_AddElement
    <3> QED BY <2>1, <3>2
  <2>2. CASE b + 1 \notin P
    <3>1. T = S
      BY <2>2
    <3> HIDE DEF S, T
    <3> QED BY <1>2, <2>2, <3>1
  <2> QED BY <2>1, <2>2
<1> QED BY <1>2, <1>3, <1>4 DEF CountIn

LEMMA SomeNumber ==
    ASSUME NEW a \in Nat, NEW b \in Nat, NEW P
    PROVE  CountIn(P, a, b) \in Nat
BY SomeOf

LEMMA NoneOf ==
    ASSUME NEW a \in Nat, NEW b \in Nat, NEW P, b < a
    PROVE  CountIn(P, a, b) = 0
BY SomeOf

\* The items of a kind among those from a to b.
LEMMA NumStep ==
    ASSUME NEW a \in Nat, NEW b \in Nat, NEW type
    PROVE  /\ Hid!Num(type, a, b) \in Nat
           /\ b < a => Hid!Num(type, a, b) = 0
           /\ a <= b + 1 => Hid!Num(type, a, b + 1) =
                              Hid!Num(type, a, b) + (IF hidItems[b + 1].t = type THEN 1 ELSE 0)
<1> DEFINE P == {i \in Nat : hidItems[i].t = type}
<1>1. /\ {i \in a .. b : hidItems[i].t = type} = (a .. b) \cap P
      /\ {i \in a .. b + 1 : hidItems[i].t = type} = (a .. b + 1) \cap P
      /\ b + 1 \in P <=> hidItems[b + 1].t = type
  OBVIOUS
<1> HIDE DEF P
<1>2. /\ Hid!Num(type, a, b) = CountIn(P, a, b)
      /\ Hid!Num(type, a, b + 1) = CountIn(P, a, b + 1)
  BY <1>1, HidSame DEF Hid!Num, CountIn
<1>3. /\ CountIn(P, a, b) \in Nat
      /\ b < a => CountIn(P, a, b) = 0
      /\ a <= b + 1 => CountIn(P, a, b + 1) =
                         CountIn(P, a, b) + (IF b + 1 \in P THEN 1 ELSE 0)
  BY SomeOf
<1> QED BY <1>1, <1>2, <1>3

\* The greatest of a set of numbers, if one is.
LEMMA HidMax ==
    ASSUME NEW S, S \subseteq Int, NEW m \in S, \A x \in S : x <= m
    PROVE  Hid!Max(S) = m
<1>1. \E x \in S : \A y \in S : x >= y
  <2>1. \A y \in S : m >= y
    OBVIOUS
  <2> QED BY <2>1
<1>2. Hid!Max(S) \in S /\ \A y \in S : Hid!Max(S) >= y
  BY <1>1 DEF Hid!Max
<1> DEFINE n == Hid!Max(S)
<1>3. n \in Int /\ m \in Int /\ n >= m /\ n <= m
  BY <1>2
<1> HIDE DEF n
<1>4. n = m
  BY <1>3
<1> QED BY <1>4 DEF n

\* Where the locals of an item begin: after the last main item.
HidMain(i) == hidItems[i].t \in {"open", "close", "field"}

LEMMA StartStep ==
    ASSUME NEW i \in DOMAIN hidItems, DOMAIN hidItems \subseteq Nat
    PROVE  /\ HidMain(i) => Hid!Start(i + 1) = i + 1
           /\ ~HidMain(i) => Hid!Start(i + 1) = Hid!Start(i)
<1> DEFINE S == {0} \cup {j \in Hid!Mains : j < i}
           T == {0} \cup {j \in Hid!Mains : j < i + 1}
<1>1. Hid!Start(i + 1) = Hid!Max(T) + 1 /\ Hid!Start(i) = Hid!Max(S) + 1
  BY DEF Hid!Start
<1>2. Hid!Mains \subseteq Nat /\ (i \in Hid!Mains <=> HidMain(i)) /\ i \in Nat
  BY DEF Hid!Mains, HidMain
<1>3. ASSUME HidMain(i) PROVE Hid!Max(T) = i
  <2>1. i \in T /\ T \subseteq Int
    <3>1. i < i + 1 /\ i \in Hid!Mains
      BY <1>2, <1>3
    <3>2. i \in T
      BY <3>1
    <3>3. ASSUME NEW x \in T PROVE x \in Int
      BY <1>2, <3>3
    <3> QED BY <3>2, <3>3
  <2>2. \A x \in T : x <= i
    <3> SUFFICES ASSUME NEW x \in T PROVE x <= i
      OBVIOUS
    <3>1. x = 0 \/ (x \in Nat /\ x < i + 1)
      BY <1>2
    <3> QED BY <1>2, <3>1
  <2> HIDE DEF T
  <2> QED BY <2>1, <2>2, HidMax
<1>4. ASSUME ~HidMain(i) PROVE T = S
  <2>1. \A j \in Hid!Mains : j < i + 1 <=> j < i
    <3> SUFFICES ASSUME NEW j \in Hid!Mains PROVE j < i + 1 <=> j < i
      OBVIOUS
    <3>1. j \in Nat /\ j # i /\ i \in Nat
      BY <1>2, <1>4
    <3> QED BY <3>1
  <2> QED BY <2>1
<1> HIDE DEF S, T
<1> QED BY <1>1, <1>3, <1>4

LEMMA StartOne ==
    ASSUME DOMAIN hidItems \subseteq Nat \ {0}
    PROVE  Hid!Start(1) = 1
<1> DEFINE S == {0} \cup {j \in Hid!Mains : j < 1}
<1>1. 0 \in S /\ S \subseteq Int /\ \A x \in S : x <= 0
  BY DEF Hid!Mains
<1>2. Hid!Start(1) = Hid!Max(S) + 1
  BY DEF Hid!Start
<1> HIDE DEF S
<1> DEFINE no == 0
<1>3. no \in S /\ \A x \in S : x <= no
  BY <1>1
<1> HIDE DEF no
<1>4. Hid!Max(S) = no
  BY <1>1, <1>3, HidMax
<1> QED BY <1>2, <1>4 DEF no

\* The delimiters of the locals up to item i.
LEMMA DelimStep ==
    ASSUME NEW i \in DOMAIN hidItems, DOMAIN hidItems \subseteq Nat \ {0}, NEW v,
           Hid!Start(i) \in 1 .. i
    PROVE  /\ HidMain(i) => Hid!Delims(i, v) = 0
           /\ ~HidMain(i) =>
                /\ Hid!Delims(i, v) = Hid!Delims(i - 1, v)
                     + (IF hidItems[i].t = "delim" /\ hidItems[i].v = v THEN 1 ELSE 0)
                /\ Hid!Delims(i - 1, v) \in Nat
<1> DEFINE P == {k \in Nat : hidItems[k].t = "delim" /\ hidItems[k].v = v}
           a == Hid!Start(i)
           b == i - 1
<1>1. i \in Nat /\ a \in Nat /\ b \in Nat /\ b + 1 = i /\ a <= b + 1
  OBVIOUS
<1>2. \A x, y \in Nat : {k \in x .. y : hidItems[k].t = "delim" /\ hidItems[k].v = v} =
                        (x .. y) \cap P
  OBVIOUS
<1>3. i \in P <=> hidItems[i].t = "delim" /\ hidItems[i].v = v
  BY <1>1
<1>4. Hid!Start(i + 1) \in Nat
  BY <1>1, StartStep
<1> HIDE DEF P, b
<1>5. /\ Hid!Delims(i, v) = CountIn(P, Hid!Start(i + 1), i)
      /\ Hid!Delims(b, v) = CountIn(P, a, b)
  BY <1>1, <1>2, <1>4, HidSame DEF Hid!Delims, CountIn
<1>6. ASSUME HidMain(i) PROVE Hid!Delims(i, v) = 0
  <2>1. Hid!Start(i + 1) = i + 1 /\ i + 1 \in Nat /\ i < i + 1
    BY <1>1, <1>6, StartStep
  <2>2. CountIn(P, i + 1, i) = 0
    <3> DEFINE c == i + 1
    <3>1. c \in Nat /\ i < c
      BY <2>1
    <3> HIDE DEF c
    <3>2. CountIn(P, c, i) = 0
      BY <1>1, <3>1, NoneOf
    <3> QED BY <3>2 DEF c
  <2> QED BY <1>5, <2>1, <2>2
<1>7. ASSUME ~HidMain(i)
      PROVE  /\ Hid!Delims(i, v) = Hid!Delims(b, v) + (IF i \in P THEN 1 ELSE 0)
             /\ Hid!Delims(b, v) \in Nat
  <2>1. Hid!Start(i + 1) = a
    BY <1>7, StartStep
  <2>2. Hid!Delims(i, v) = CountIn(P, a, b + 1)
    BY <1>1, <1>5, <2>1
  <2> HIDE DEF a
  <2>3. /\ CountIn(P, a, b) \in Nat
        /\ CountIn(P, a, b + 1) =
             CountIn(P, a, b) + (IF b + 1 \in P THEN 1 ELSE 0)
    BY <1>1, SomeOf
  <2> QED BY <1>1, <1>5, <2>2, <2>3
<1> QED BY <1>3, <1>6, <1>7 DEF b

\* What the properties count, as functions of an item: the openings less the closings,
\* the globals kept less the ones brought back, the sets of usages open, the openings.
HidDepth == [i \in 0 .. Len(hidItems) |-> Hid!Num("open", 1, i) - Hid!Num("close", 1, i)]
HidKept == [i \in 0 .. Len(hidItems) |-> Hid!Num("push", 1, i) - Hid!Num("pop", 1, i)]
HidSets == [i \in 0 .. Len(hidItems) |-> Hid!Delims(i, 1) - Hid!Delims(i, 0)]
HidOpened == [i \in 0 .. Len(hidItems) |-> Hid!Num("open", 1, i)]
\* The openings less the closings from item i to item j; the openings open at item i.
HidWithin ==
    [i \in 1 .. Len(hidItems) |-> [j \in 0 .. Len(hidItems) |->
        Hid!Num("open", i, j) - Hid!Num("close", i, j)]]
HidOpen == [p \in 1 .. Len(hidItems) + 1 |-> Hid!OpenAt(p)]

HidType == hidItems \in Seq(HidItems)

LEMMA NumFromOne ==
    ASSUME NEW type, NEW i \in Nat \ {0}
    PROVE  /\ Hid!Num(type, 1, i) \in Nat /\ Hid!Num(type, 1, i - 1) \in Nat
           /\ Hid!Num(type, 1, i) =
                Hid!Num(type, 1, i - 1) + (IF hidItems[i].t = type THEN 1 ELSE 0)
<1> DEFINE one == 1
           b == i - 1
<1>1. one \in Nat /\ b \in Nat /\ one <= b + 1 /\ b + 1 = i
  OBVIOUS
<1> HIDE DEF one, b
<1>2. /\ Hid!Num(type, one, b) \in Nat /\ Hid!Num(type, one, b + 1) \in Nat
      /\ Hid!Num(type, one, b + 1) =
           Hid!Num(type, one, b) + (IF hidItems[b + 1].t = type THEN 1 ELSE 0)
  BY <1>1, NumStep
<1> QED BY <1>1, <1>2 DEF one, b

LEMMA NumFromNone ==
    ASSUME NEW type
    PROVE  Hid!Num(type, 1, 0) = 0
<1> DEFINE one == 1
           no == 0
<1>1. one \in Nat /\ no \in Nat /\ no < one
  OBVIOUS
<1> HIDE DEF one, no
<1>2. Hid!Num(type, one, no) = 0
  BY <1>1, NumStep
<1> QED BY <1>2 DEF one, no

LEMMA DepthStep ==
    ASSUME HidType, NEW i \in 1 .. Len(hidItems)
    PROVE  /\ HidDepth[0] = 0 /\ HidKept[0] = 0 /\ HidOpened[0] = 0
           /\ HidDepth[i] \in Int /\ HidDepth[i - 1] \in Int
           /\ HidKept[i] \in Int /\ HidKept[i - 1] \in Int
           /\ HidOpened[i] \in Nat /\ HidOpened[i - 1] \in Nat
           /\ HidDepth[i] = HidDepth[i - 1] + (IF hidItems[i].t = "open" THEN 1
                              ELSE IF hidItems[i].t = "close" THEN -1 ELSE 0)
           /\ HidKept[i] = HidKept[i - 1] + (IF hidItems[i].t = "push" THEN 1
                              ELSE IF hidItems[i].t = "pop" THEN -1 ELSE 0)
           /\ HidOpened[i] = HidOpened[i - 1] + (IF hidItems[i].t = "open" THEN 1 ELSE 0)
<1>1. Len(hidItems) \in Nat
  BY DEF HidType
<1>2. i \in Nat \ {0} /\ i - 1 \in 0 .. Len(hidItems) /\ i \in 0 .. Len(hidItems)
      /\ 0 \in 0 .. Len(hidItems)
  BY <1>1
<1>3. \A type : /\ Hid!Num(type, 1, i) \in Nat /\ Hid!Num(type, 1, i - 1) \in Nat
                /\ Hid!Num(type, 1, i) =
                     Hid!Num(type, 1, i - 1) + (IF hidItems[i].t = type THEN 1 ELSE 0)
                /\ Hid!Num(type, 1, 0) = 0
  BY <1>2, NumFromOne, NumFromNone
<1>4. \A j \in 0 .. Len(hidItems) :
        HidDepth[j] = Hid!Num("open", 1, j) - Hid!Num("close", 1, j)
  BY ZenonT(20) DEF HidDepth
<1>5. \A j \in 0 .. Len(hidItems) :
        HidKept[j] = Hid!Num("push", 1, j) - Hid!Num("pop", 1, j)
  BY ZenonT(20) DEF HidKept
<1>6. \A j \in 0 .. Len(hidItems) : HidOpened[j] = Hid!Num("open", 1, j)
  BY ZenonT(20) DEF HidOpened
<1>7. HidDepth[0] = 0 /\ HidKept[0] = 0 /\ HidOpened[0] = 0
  <2> DEFINE no == 0
  <2>1. \A type : Hid!Num(type, 1, no) = 0
    BY <1>3
  <2>2. no \in 0 .. Len(hidItems)
    BY <1>2
  <2> HIDE DEF no
  <2>3. /\ Hid!Num("open", 1, no) = 0 /\ Hid!Num("close", 1, no) = 0
        /\ Hid!Num("push", 1, no) = 0 /\ Hid!Num("pop", 1, no) = 0
    BY <2>1
  <2>4. HidDepth[no] = 0
    BY <1>4, <2>2, <2>3
  <2>5. HidKept[no] = 0
    BY <1>5, <2>2, <2>3
  <2>6. HidOpened[no] = 0
    BY <1>6, <2>2, <2>3
  <2> QED BY <2>4, <2>5, <2>6 DEF no
<1> DEFINE b == i - 1
           A(type) == /\ Hid!Num(type, 1, i) \in Nat /\ Hid!Num(type, 1, b) \in Nat
                      /\ Hid!Num(type, 1, i) =
                           Hid!Num(type, 1, b) + (IF hidItems[i].t = type THEN 1 ELSE 0)
<1>8. A("open") /\ A("close") /\ A("push") /\ A("pop")
  BY <1>3
<1>9. b \in 0 .. Len(hidItems)
  BY <1>2
<1> HIDE DEF b
<1>10. /\ HidDepth[i] = Hid!Num("open", 1, i) - Hid!Num("close", 1, i)
       /\ HidDepth[b] = Hid!Num("open", 1, b) - Hid!Num("close", 1, b)
  BY <1>2, <1>4, <1>9
<1>11. /\ HidKept[i] = Hid!Num("push", 1, i) - Hid!Num("pop", 1, i)
       /\ HidKept[b] = Hid!Num("push", 1, b) - Hid!Num("pop", 1, b)
  BY <1>2, <1>5, <1>9
<1>12. HidOpened[i] = Hid!Num("open", 1, i) /\ HidOpened[b] = Hid!Num("open", 1, b)
  BY <1>2, <1>6, <1>9
<1>13. /\ HidDepth[i] \in Int /\ HidDepth[b] \in Int
       /\ HidDepth[i] = HidDepth[b] + (IF hidItems[i].t = "open" THEN 1
                          ELSE IF hidItems[i].t = "close" THEN -1 ELSE 0)
  <2>1. CASE hidItems[i].t = "open"
    <3>1. /\ Hid!Num("open", 1, i) = Hid!Num("open", 1, b) + 1
          /\ Hid!Num("close", 1, i) = Hid!Num("close", 1, b)
      BY <1>8, <2>1
    <3> QED BY <1>8, <1>10, <2>1, <3>1
  <2>2. CASE hidItems[i].t = "close"
    <3>1. /\ Hid!Num("open", 1, i) = Hid!Num("open", 1, b)
          /\ Hid!Num("close", 1, i) = Hid!Num("close", 1, b) + 1
      BY <1>8, <2>2
    <3> QED BY <1>8, <1>10, <2>2, <3>1
  <2>3. CASE hidItems[i].t \notin {"open", "close"}
    <3>1. /\ Hid!Num("open", 1, i) = Hid!Num("open", 1, b)
          /\ Hid!Num("close", 1, i) = Hid!Num("close", 1, b)
      BY <1>8, <2>3
    <3> QED BY <1>8, <1>10, <2>3, <3>1
  <2> QED BY <2>1, <2>2, <2>3
<1>14. /\ HidKept[i] \in Int /\ HidKept[b] \in Int
       /\ HidKept[i] = HidKept[b] + (IF hidItems[i].t = "push" THEN 1
                          ELSE IF hidItems[i].t = "pop" THEN -1 ELSE 0)
  <2>1. CASE hidItems[i].t = "push"
    <3>1. /\ Hid!Num("push", 1, i) = Hid!Num("push", 1, b) + 1
          /\ Hid!Num("pop", 1, i) = Hid!Num("pop", 1, b)
      BY <1>8, <2>1
    <3> QED BY <1>8, <1>11, <2>1, <3>1
  <2>2. CASE hidItems[i].t = "pop"
    <3>1. /\ Hid!Num("push", 1, i) = Hid!Num("push", 1, b)
          /\ Hid!Num("pop", 1, i) = Hid!Num("pop", 1, b) + 1
      BY <1>8, <2>2
    <3> QED BY <1>8, <1>11, <2>2, <3>1
  <2>3. CASE hidItems[i].t \notin {"push", "pop"}
    <3>1. /\ Hid!Num("push", 1, i) = Hid!Num("push", 1, b)
          /\ Hid!Num("pop", 1, i) = Hid!Num("pop", 1, b)
      BY <1>8, <2>3
    <3> QED BY <1>8, <1>11, <2>3, <3>1
  <2> QED BY <2>1, <2>2, <2>3
<1>15. /\ HidOpened[i] \in Nat /\ HidOpened[b] \in Nat
       /\ HidOpened[i] = HidOpened[b] + (IF hidItems[i].t = "open" THEN 1 ELSE 0)
  BY <1>8, <1>12
<1> QED BY <1>7, <1>13, <1>14, <1>15 DEF b

\* The locals of an item begin at it or before it.
LEMMA StartIn ==
    ASSUME HidType, NEW i \in 1 .. Len(hidItems) + 1
    PROVE  Hid!Start(i) \in 1 .. i
<1> DEFINE S == {0} \cup {j \in Hid!Mains : j < i}
<1>1. Len(hidItems) \in Nat /\ DOMAIN hidItems = 1 .. Len(hidItems)
  BY DEF HidType
<1>2. Hid!Mains \subseteq 1 .. Len(hidItems)
  <2>1. Hid!Mains \subseteq DOMAIN hidItems
    BY DEF Hid!Mains
  <2> QED BY <1>1, <2>1
<1>3. S \subseteq 0 .. i - 1 /\ 0 \in S
  <2>1. ASSUME NEW j \in Hid!Mains, j < i PROVE j \in 0 .. i - 1
    <3>1. j \in 1 .. Len(hidItems)
      BY <1>2
    <3> QED BY <1>1, <2>1, <3>1
  <2>2. 0 \in 0 .. i - 1
    BY <1>1
  <2> QED BY <2>1, <2>2
<1>4. \E m \in S : \A x \in S : x <= m
  <2>1. SUFFICES ASSUME \A m \in S : \E x \in S : ~(x <= m) PROVE FALSE
    OBVIOUS
  <2> DEFINE T == {j \in Nat : \A x \in S : x <= j}
  <2>2. i - 1 \in Nat /\ i - 1 \in T
    BY <1>3
  <2>3. T \subseteq Nat /\ T # {}
    BY <2>2
  <2> HIDE DEF S
  <2>4. PICK n \in T : \A k \in T : n <= k
    BY <2>3, Least
  <2>5. n \notin S
    BY <2>1, <2>4
  <2>6. n # 0 /\ n \in Nat
    BY <1>3, <2>4, <2>5
  <2>7. n - 1 \in T
    <3>1. \A x \in S : x <= n /\ x # n /\ x \in Nat
      BY <1>3, <2>4, <2>5
    <3> QED BY <2>6, <3>1
  <2> QED BY <2>4, <2>6, <2>7
<1>5. PICK m \in S : \A x \in S : x <= m
  BY <1>4
<1>6. Hid!Start(i) = Hid!Max(S) + 1
  BY DEF Hid!Start
<1> HIDE DEF S
<1>7. Hid!Max(S) = m
  <2>1. S \subseteq Int /\ m \in S
    BY <1>3, <1>5
  <2> QED BY <1>5, <2>1, HidMax
<1> QED BY <1>3, <1>5, <1>6, <1>7

\* Delimiters are counted.
LEMMA DelimsCounted ==
    ASSUME HidType, NEW b \in 0 .. Len(hidItems), NEW v
    PROVE  Hid!Delims(b, v) \in Nat
<1> DEFINE P == {k \in Nat : hidItems[k].t = "delim" /\ hidItems[k].v = v}
           s == Hid!Start(b + 1)
<1>1. s \in Nat /\ b \in Nat
  <2>1. Len(hidItems) \in Nat
    BY DEF HidType
  <2>2. b + 1 \in 1 .. Len(hidItems) + 1 /\ b \in Nat
    BY <2>1
  <2>3. s \in 1 .. b + 1
    BY <2>2, StartIn
  <2> QED BY <2>2, <2>3
<1>2. {k \in s .. b : hidItems[k].t = "delim" /\ hidItems[k].v = v} = (s .. b) \cap P
  BY <1>1
<1> HIDE DEF P
<1>3. Hid!Delims(b, v) = CountIn(P, s, b)
  BY <1>2, HidSame DEF Hid!Delims, CountIn
<1> HIDE DEF s
<1>4. CountIn(P, s, b) \in Nat
  BY <1>1, SomeNumber
<1> QED BY <1>3, <1>4

\* The delimiters of an item are counted after the last main item.
LEMMA SetsStep ==
    ASSUME HidParams, HidType, NEW i \in 1 .. Len(hidItems)
    PROVE  /\ HidSets[0] = 0 /\ HidSets[i - 1] \in Int
           /\ HidMain(i) => HidSets[i] = 0
           /\ ~HidMain(i) =>
                HidSets[i] = HidSets[i - 1] +
                  (IF hidItems[i].t = "delim" THEN IF hidItems[i].v = 1 THEN 1 ELSE -1 ELSE 0)
<1>1. Len(hidItems) \in Nat /\ DOMAIN hidItems = 1 .. Len(hidItems) /\ i \in DOMAIN hidItems
      /\ hidItems[i] \in HidItems
  BY DEF HidType
<1>2. DOMAIN hidItems \subseteq Nat \ {0}
  BY <1>1
<1>3. \A j \in 0 .. Len(hidItems) : HidSets[j] = Hid!Delims(j, 1) - Hid!Delims(j, 0)
  BY ZenonT(20) DEF HidSets
<1> DEFINE b == i - 1
           one == 1
           no == 0
<1>4. b \in 0 .. Len(hidItems) /\ i \in 0 .. Len(hidItems) /\ no \in 0 .. Len(hidItems)
      /\ b + 1 = i
  BY <1>1
<1>5. Hid!Start(i) \in 1 .. i
  BY <1>1, StartIn
<1> HIDE DEF b, one, no
<1>6. \A v : Hid!Delims(b, v) \in Nat
  BY <1>4, DelimsCounted
<1>7. HidSets[no] = 0
  <2>0. Hid!Start(1) = 1
    BY <1>2, StartOne
  <2>1. \A v : Hid!Delims(no, v) = 0
    <3> SUFFICES ASSUME NEW v PROVE Hid!Delims(no, v) = 0
      OBVIOUS
    <3> DEFINE P == {k \in Nat : hidItems[k].t = "delim" /\ hidItems[k].v = v}
               s == Hid!Start(no + 1)
    <3>1. s = 1
      <4>1. no + 1 = 1
        BY DEF no
      <4> QED BY <2>0, <4>1
    <3>2. s \in Nat /\ no \in Nat /\ no < s
      BY <3>1 DEF no
    <3>3. {k \in s .. no : hidItems[k].t = "delim" /\ hidItems[k].v = v} = (s .. no) \cap P
      BY <3>2
    <3> HIDE DEF P
    <3>4. Hid!Delims(no, v) = CountIn(P, s, no)
      BY <3>3, HidSame DEF Hid!Delims, CountIn
    <3> HIDE DEF s
    <3> QED BY <3>2, <3>4, NoneOf
  <2>2. Hid!Delims(no, 1) = 0 /\ Hid!Delims(no, 0) = 0
    BY <2>1
  <2> QED BY <1>3, <1>4, <2>2
<1>8. \A v : /\ HidMain(i) => Hid!Delims(i, v) = 0
             /\ ~HidMain(i) =>
                  Hid!Delims(i, v) = Hid!Delims(b, v)
                    + (IF hidItems[i].t = "delim" /\ hidItems[i].v = v THEN 1 ELSE 0)
  BY <1>1, <1>2, <1>5, DelimStep DEF b
<1>9. /\ HidSets[i] = Hid!Delims(i, 1) - Hid!Delims(i, 0)
      /\ HidSets[b] = Hid!Delims(b, 1) - Hid!Delims(b, 0)
      /\ Hid!Delims(b, 1) \in Nat /\ Hid!Delims(b, 0) \in Nat
  BY <1>3, <1>4, <1>6
<1>10. ASSUME HidMain(i) PROVE HidSets[i] = 0
  <2>1. Hid!Delims(i, 1) = 0 /\ Hid!Delims(i, 0) = 0
    BY <1>8, <1>10
  <2> QED BY <1>9, <2>1
<1>11. ASSUME ~HidMain(i)
       PROVE  HidSets[i] = HidSets[b] +
                (IF hidItems[i].t = "delim" THEN IF hidItems[i].v = 1 THEN 1 ELSE -1 ELSE 0)
  <2>1. \A v : Hid!Delims(i, v) = Hid!Delims(b, v)
                 + (IF hidItems[i].t = "delim" /\ hidItems[i].v = v THEN 1 ELSE 0)
    BY <1>8, <1>11
  <2>2. CASE hidItems[i].t = "delim" /\ hidItems[i].v = 1
    <3>1. Hid!Delims(i, 1) = Hid!Delims(b, 1) + 1 /\ Hid!Delims(i, 0) = Hid!Delims(b, 0)
      BY <1>9, <2>1, <2>2
    <3> QED BY <1>9, <2>2, <3>1
  <2>3. CASE hidItems[i].t = "delim" /\ hidItems[i].v # 1
    <3>1. hidItems[i].v = 0
      BY <1>1, <2>3 DEF HidParams
    <3>2. Hid!Delims(i, 1) = Hid!Delims(b, 1) /\ Hid!Delims(i, 0) = Hid!Delims(b, 0) + 1
      BY <1>9, <2>1, <2>3, <3>1
    <3> QED BY <1>9, <2>3, <3>2
  <2>4. CASE hidItems[i].t # "delim"
    <3>1. Hid!Delims(i, 1) = Hid!Delims(b, 1) /\ Hid!Delims(i, 0) = Hid!Delims(b, 0)
      BY <1>9, <2>1, <2>4
    <3> QED BY <1>9, <2>4, <3>1
  <2> QED BY <2>2, <2>3, <2>4
<1>12. HidSets[b] \in Int
  BY <1>9
<1> QED BY <1>7, <1>10, <1>11, <1>12 DEF b, no

\* The openings that are open at an item.
LEMMA WithinStep ==
    ASSUME HidType, NEW i \in 1 .. Len(hidItems), NEW j \in i .. Len(hidItems)
    PROVE  /\ HidWithin[i][i - 1] = 0
           /\ HidWithin[i][j] \in Int /\ HidWithin[i][j - 1] \in Int
           /\ HidWithin[i][j] = HidWithin[i][j - 1] + (IF hidItems[j].t = "open" THEN 1
                              ELSE IF hidItems[j].t = "close" THEN -1 ELSE 0)
<1>1. Len(hidItems) \in Nat
  BY DEF HidType
<1> DEFINE a == i - 1
           b == j - 1
<1>2. i \in Nat /\ j \in Nat /\ a \in Nat /\ b \in Nat /\ b + 1 = j /\ i <= b + 1 /\ a < i
      /\ a \in 0 .. Len(hidItems) /\ b \in 0 .. Len(hidItems) /\ j \in 0 .. Len(hidItems)
  BY <1>1
<1> HIDE DEF a, b
<1>3. \A k \in 0 .. Len(hidItems) :
        HidWithin[i][k] = Hid!Num("open", i, k) - Hid!Num("close", i, k)
  BY ZenonT(20) DEF HidWithin
<1>4. \A type : /\ Hid!Num(type, i, a) = 0
                /\ Hid!Num(type, i, b) \in Nat
                /\ Hid!Num(type, i, b + 1) =
                     Hid!Num(type, i, b) + (IF hidItems[b + 1].t = type THEN 1 ELSE 0)
  BY <1>2, NumStep
<1>5. HidWithin[i][a] = 0
  <2>1. Hid!Num("open", i, a) = 0 /\ Hid!Num("close", i, a) = 0
    BY <1>4
  <2>2. HidWithin[i][a] = Hid!Num("open", i, a) - Hid!Num("close", i, a)
    BY <1>2, <1>3
  <2> QED BY <2>1, <2>2
<1> DEFINE A(type) == /\ Hid!Num(type, i, b) \in Nat
                      /\ Hid!Num(type, i, j) =
                           Hid!Num(type, i, b) + (IF hidItems[j].t = type THEN 1 ELSE 0)
<1>6. A("open") /\ A("close")
  BY <1>2, <1>4
<1>7. /\ HidWithin[i][j] = Hid!Num("open", i, j) - Hid!Num("close", i, j)
      /\ HidWithin[i][b] = Hid!Num("open", i, b) - Hid!Num("close", i, b)
  BY <1>2, <1>3
<1>8. /\ HidWithin[i][j] \in Int /\ HidWithin[i][b] \in Int
      /\ HidWithin[i][j] = HidWithin[i][b] + (IF hidItems[j].t = "open" THEN 1
                              ELSE IF hidItems[j].t = "close" THEN -1 ELSE 0)
  <2>1. CASE hidItems[j].t = "open"
    <3>1. /\ Hid!Num("open", i, j) = Hid!Num("open", i, b) + 1
          /\ Hid!Num("close", i, j) = Hid!Num("close", i, b)
      BY <1>6, <2>1
    <3> QED BY <1>6, <1>7, <2>1, <3>1
  <2>2. CASE hidItems[j].t = "close"
    <3>1. /\ Hid!Num("open", i, j) = Hid!Num("open", i, b)
          /\ Hid!Num("close", i, j) = Hid!Num("close", i, b) + 1
      BY <1>6, <2>2
    <3> QED BY <1>6, <1>7, <2>2, <3>1
  <2>3. CASE hidItems[j].t \notin {"open", "close"}
    <3>1. /\ Hid!Num("open", i, j) = Hid!Num("open", i, b)
          /\ Hid!Num("close", i, j) = Hid!Num("close", i, b)
      BY <1>6, <2>3
    <3> QED BY <1>6, <1>7, <2>3, <3>1
  <2> QED BY <2>1, <2>2, <2>3
<1> QED BY <1>5, <1>8 DEF a, b

\* What is open at an item, by the item before.
LEMMA OpenStep ==
    ASSUME HidType, NEW p \in 1 .. Len(hidItems)
    PROVE  /\ HidOpen[1] = {}
           /\ \A i \in HidOpen[p] : i \in 1 .. p - 1 /\ hidItems[i].t = "open"
           /\ \A i : i \in HidOpen[p + 1] <=>
                \/ i \in HidOpen[p] /\ HidWithin[i][p] > 0
                \/ i = p /\ hidItems[p].t = "open"
<1>1. Len(hidItems) \in Nat
  BY DEF HidType
<1>2. p \in Nat /\ 1 \in 1 .. Len(hidItems) + 1 /\ p \in 1 .. Len(hidItems) + 1
      /\ p + 1 \in 1 .. Len(hidItems) + 1 /\ (p + 1) - 1 = p
  BY <1>1
<1> DEFINE O(q) == {i \in 1 .. q - 1 : hidItems[i].t = "open" /\
                      \A j \in i .. q - 1 : HidWithin[i][j] > 0}
<1>3. \A i \in 1 .. Len(hidItems) : \A j \in i .. Len(hidItems) :
        /\ HidWithin[i][j] = Hid!Num("open", i, j) - Hid!Num("close", i, j)
        /\ Hid!Num("open", i, j) \in Nat /\ Hid!Num("close", i, j) \in Nat
  <2> SUFFICES ASSUME NEW i \in 1 .. Len(hidItems), NEW j \in i .. Len(hidItems)
               PROVE  /\ HidWithin[i][j] = Hid!Num("open", i, j) - Hid!Num("close", i, j)
                      /\ Hid!Num("open", i, j) \in Nat /\ Hid!Num("close", i, j) \in Nat
    OBVIOUS
  <2>1. i \in Nat /\ j \in Nat /\ j \in 0 .. Len(hidItems)
    BY <1>1
  <2>2. HidWithin[i][j] = Hid!Num("open", i, j) - Hid!Num("close", i, j)
    BY <2>1, ZenonT(20) DEF HidWithin
  <2>3. \A type : Hid!Num(type, i, j) \in Nat
    BY <2>1, NumStep
  <2> QED BY <2>2, <2>3
<1>4. ASSUME NEW q \in 1 .. Len(hidItems) + 1
      PROVE  HidOpen[q] = O(q)
  <2>1. HidOpen[q] = {i \in 1 .. q - 1 : hidItems[i].t = "open" /\
                        \A j \in i .. q - 1 : Hid!Num("open", i, j) > Hid!Num("close", i, j)}
    BY DEF HidOpen, Hid!OpenAt
  <2>2. \A i \in 1 .. q - 1 : \A j \in i .. q - 1 :
          HidWithin[i][j] > 0 <=> Hid!Num("open", i, j) > Hid!Num("close", i, j)
    <3> SUFFICES ASSUME NEW i \in 1 .. q - 1, NEW j \in i .. q - 1
                 PROVE  HidWithin[i][j] > 0 <=> Hid!Num("open", i, j) > Hid!Num("close", i, j)
      OBVIOUS
    <3>1. i \in 1 .. Len(hidItems) /\ j \in i .. Len(hidItems)
      BY <1>1
    <3> QED BY <1>3, <3>1
  <2> QED BY <2>1, <2>2
<1>5. HidOpen[1] = {}
  <2>1. HidOpen[1] = O(1)
    BY <1>2, <1>4
  <2> QED BY <2>1
<1>6. HidOpen[p] = O(p) /\ HidOpen[p + 1] = O(p + 1)
  BY <1>2, <1>4
<1>7. \A i \in 1 .. Len(hidItems) : \A j \in i .. Len(hidItems) : HidWithin[i][j] \in Int
  BY WithinStep
<1>8. HidWithin[p][p] = IF hidItems[p].t = "open" THEN 1
                        ELSE IF hidItems[p].t = "close" THEN -1 ELSE 0
  BY <1>1, WithinStep
<1>9. ASSUME NEW i
      PROVE  i \in O(p + 1) <=> \/ i \in O(p) /\ HidWithin[i][p] > 0
                                \/ i = p /\ hidItems[p].t = "open"
  <2>1. i \in 1 .. p <=> i \in 1 .. p - 1 \/ i = p
    BY <1>2
  <2>2. ASSUME i \in 1 .. p - 1
        PROVE  (\A j \in i .. p : HidWithin[i][j] > 0) <=>
               (\A j \in i .. p - 1 : HidWithin[i][j] > 0) /\ HidWithin[i][p] > 0
    <3>1. \A j : j \in i .. p <=> j \in i .. p - 1 \/ j = p
      BY <1>2, <2>2
    <3> QED BY <3>1
  <2>3. ASSUME i = p
        PROVE  (\A j \in i .. p : HidWithin[i][j] > 0) <=> HidWithin[p][p] > 0
    <3>1. \A j : j \in i .. p <=> j = p
      BY <1>2, <2>3
    <3> QED BY <2>3, <3>1
  <2>4. i \in O(p + 1) <=> i \in 1 .. p /\ hidItems[i].t = "open" /\
                             \A j \in i .. p : HidWithin[i][j] > 0
    BY <1>2
  <2>5. p \notin 1 .. p - 1
    BY <1>2
  <2>6. hidItems[p].t = "open" => HidWithin[p][p] > 0
    BY <1>8
  <2> QED BY <2>1, <2>2, <2>3, <2>4, <2>5, <2>6
<1> QED BY <1>5, <1>6, <1>9

\* The number of the innermost opening that is open at item p, and how many are open at
\* the one with number k.
HidInner ==
    [p \in 1 .. Len(hidItems) + 1 |->
        IF Hid!OpenAt(p) = {} THEN 0 ELSE Hid!Num("open", 1, Hid!Max(Hid!OpenAt(p)))]
HidLevel ==
    [k \in Nat |-> Hid!Cardinality(Hid!OpenAt(
        CHOOSE i \in DOMAIN hidItems : hidItems[i].t = "open" /\ Hid!Num("open", 1, i) = k))]

\* The stack s at item p has the numbers of the openings that are open, f, in order; so
\* far all from the one at k are closed but those above it.
HidStacks(f, p, s) ==
    /\ f \in [1 .. Len(s) -> 1 .. p - 1]
    /\ \A k, l \in 1 .. Len(s) : k < l => f[k] < f[l]
    /\ \A i : i \in HidOpen[p] <=> \E k \in 1 .. Len(s) : f[k] = i
    /\ \A k \in 1 .. Len(s) : s[k] = HidOpened[f[k]]
    /\ \A k \in 1 .. Len(s) : HidWithin[f[k]][p - 1] = Len(s) - k + 1

LEMMA WithinAt ==
    ASSUME HidType, NEW p \in 1 .. Len(hidItems), NEW i \in 1 .. p - 1
    PROVE  /\ HidWithin[i][p] \in Int /\ HidWithin[i][p - 1] \in Int
           /\ HidWithin[i][p] = HidWithin[i][p - 1] + (IF hidItems[p].t = "open" THEN 1
                              ELSE IF hidItems[p].t = "close" THEN -1 ELSE 0)
<1>1. Len(hidItems) \in Nat
  BY DEF HidType
<1>2. i \in 1 .. Len(hidItems) /\ p \in i .. Len(hidItems)
  BY <1>1
<1> QED BY <1>2, WithinStep

LEMMA StacksOpen ==
    ASSUME HidType, NEW p \in 1 .. Len(hidItems), NEW s \in Seq(Nat), NEW f,
           HidStacks(f, p, s), hidItems[p].t = "open"
    PROVE  \E g : HidStacks(g, p + 1, Append(s, HidOpened[p]))
<1> DEFINE n == Len(s)
           t == Append(s, HidOpened[p])
           g == [k \in 1 .. n + 1 |-> IF k = n + 1 THEN p ELSE f[k]]
<1>1. Len(hidItems) \in Nat /\ n \in Nat /\ p \in Nat /\ HidOpened[p] \in Nat
  BY DepthStep DEF HidType
<1>2. Len(t) = n + 1 /\ t[n + 1] = HidOpened[p] /\ \A k \in 1 .. n : t[k] = s[k]
  BY <1>1
<1>3. /\ f \in [1 .. n -> 1 .. p - 1]
      /\ \A k, l \in 1 .. n : k < l => f[k] < f[l]
      /\ \A i : i \in HidOpen[p] <=> \E k \in 1 .. n : f[k] = i
      /\ \A k \in 1 .. n : s[k] = HidOpened[f[k]]
      /\ \A k \in 1 .. n : HidWithin[f[k]][p - 1] = n - k + 1
  BY DEF HidStacks
<1>4. /\ \A k \in 1 .. n : g[k] = f[k] /\ g[k] \in 1 .. p - 1
      /\ g[n + 1] = p
      /\ \A k : k \in 1 .. n + 1 <=> k \in 1 .. n \/ k = n + 1
      /\ n + 1 \notin 1 .. n
  <2>1. \A k : k \in 1 .. n + 1 <=> k \in 1 .. n \/ k = n + 1
    BY <1>1
  <2>2. n + 1 \notin 1 .. n /\ n + 1 \in 1 .. n + 1
    BY <1>1
  <2> HIDE DEF n
  <2>3. \A k \in 1 .. n : g[k] = f[k]
    BY <2>1, <2>2
  <2>4. g[n + 1] = p
    BY <2>2
  <2>5. \A k \in 1 .. n : f[k] \in 1 .. p - 1
    BY <1>3
  <2> HIDE DEF g
  <2> QED BY <2>1, <2>2, <2>3, <2>4, <2>5
<1>5. \A k \in 1 .. n : HidWithin[f[k]][p] = HidWithin[f[k]][p - 1] + 1
  <2> SUFFICES ASSUME NEW k \in 1 .. n
               PROVE  HidWithin[f[k]][p] = HidWithin[f[k]][p - 1] + 1
    OBVIOUS
  <2>1. f[k] \in 1 .. p - 1
    BY <1>3
  <2> QED BY <2>1, WithinAt
<1>6. HidWithin[p][p] = 1
  <2>1. p \in p .. Len(hidItems)
    BY <1>1
  <2>2. HidWithin[p][p - 1] = 0
        /\ HidWithin[p][p] = HidWithin[p][p - 1] + (IF hidItems[p].t = "open" THEN 1
                              ELSE IF hidItems[p].t = "close" THEN -1 ELSE 0)
    BY <2>1, WithinStep
  <2> QED BY <2>2
<1>7. \A k \in 1 .. n + 1 : HidWithin[g[k]][p] = (n + 1) - k + 1
  <2> SUFFICES ASSUME NEW k \in 1 .. n + 1
               PROVE  HidWithin[g[k]][p] = (n + 1) - k + 1
    OBVIOUS
  <2>1. CASE k = n + 1
    <3>1. (n + 1) - k + 1 = 1
      BY <1>1, <2>1
    <3> QED BY <1>4, <1>6, <2>1, <3>1
  <2>2. CASE k \in 1 .. n
    <3>1. HidWithin[f[k]][p] = (n - k + 1) + 1 /\ g[k] = f[k]
      BY <1>3, <1>4, <1>5, <2>2
    <3>2. (n + 1) - k + 1 = (n - k + 1) + 1
      BY <1>1
    <3> QED BY <3>1, <3>2
  <2> QED BY <1>4, <2>1, <2>2
<1>8. \A k \in 1 .. n + 1 : t[k] = HidOpened[g[k]]
  BY <1>2, <1>3, <1>4
<1>9. \A i : i \in HidOpen[p + 1] <=> \E k \in 1 .. n + 1 : g[k] = i
  <2> SUFFICES ASSUME NEW i
               PROVE  i \in HidOpen[p + 1] <=> \E k \in 1 .. n + 1 : g[k] = i
    OBVIOUS
  <2>1. i \in HidOpen[p + 1] <=> (i \in HidOpen[p] /\ HidWithin[i][p] > 0) \/ i = p
    BY OpenStep
  <2>2. i \in HidOpen[p] => HidWithin[i][p] > 0
    <3> SUFFICES ASSUME i \in HidOpen[p] PROVE HidWithin[i][p] > 0
      OBVIOUS
    <3>1. PICK k \in 1 .. n : f[k] = i
      BY <1>3
    <3>2. HidWithin[i][p] = (n - k + 1) + 1
      BY <1>3, <1>5, <3>1
    <3> QED BY <1>1, <3>2
  <2>3. i \in HidOpen[p + 1] <=> i \in HidOpen[p] \/ i = p
    BY <2>1, <2>2
  <2>4. (\E k \in 1 .. n + 1 : g[k] = i) <=> (\E k \in 1 .. n : f[k] = i) \/ i = p
    <3> HIDE DEF g
    <3> QED BY <1>4
  <2> QED BY <1>3, <2>3, <2>4
<1>10. \A k, l \in 1 .. n + 1 : k < l => g[k] < g[l]
  <2> SUFFICES ASSUME NEW k \in 1 .. n + 1, NEW l \in 1 .. n + 1, k < l
               PROVE  g[k] < g[l]
    OBVIOUS
  <2>1. k \in 1 .. n
    BY <1>1
  <2>2. CASE l = n + 1
    <3>1. g[k] \in 1 .. p - 1 /\ g[l] = p
      BY <1>4, <2>1, <2>2
    <3> HIDE DEF g
    <3> QED BY <1>1, <3>1
  <2>3. CASE l \in 1 .. n
    BY <1>3, <1>4, <2>1, <2>3
  <2> QED BY <1>4, <2>2, <2>3
<1>11. g \in [1 .. n + 1 -> 1 .. p]
  <2>1. \A k \in 1 .. n + 1 : g[k] \in 1 .. p
    <3> HIDE DEF g
    <3>1. \A x \in 1 .. p - 1 : x \in 1 .. p
      BY <1>1
    <3>2. p \in 1 .. p
      BY <1>1
    <3> QED BY <1>4, <3>1, <3>2
  <2>2. g = [k \in 1 .. n + 1 |-> g[k]]
    OBVIOUS
  <2> HIDE DEF g
  <2> QED BY <2>1, <2>2
<1>12. (p + 1) - 1 = p
  BY <1>1
<1> HIDE DEF g, t, n
<1>13. HidStacks(g, p + 1, t)
  BY <1>2, <1>7, <1>8, <1>9, <1>10, <1>11, <1>12 DEF HidStacks
<1> QED BY <1>13 DEF t

LEMMA StacksClose ==
    ASSUME HidType, NEW p \in 1 .. Len(hidItems), NEW s \in Seq(Nat), NEW f,
           HidStacks(f, p, s), hidItems[p].t = "close", s # <<>>
    PROVE  \E g : HidStacks(g, p + 1, Hid!Front(s))
<1> DEFINE n == Len(s) - 1
           t == Hid!Front(s)
           g == [k \in 1 .. n |-> f[k]]
<1>1. Len(hidItems) \in Nat /\ n \in Nat /\ p \in Nat /\ Len(s) = n + 1
  BY DEF HidType
<1>2. Len(t) = n /\ \A k \in 1 .. n : t[k] = s[k]
  BY <1>1 DEF Hid!Front
<1>3. /\ f \in [1 .. n + 1 -> 1 .. p - 1]
      /\ \A k, l \in 1 .. n + 1 : k < l => f[k] < f[l]
      /\ \A i : i \in HidOpen[p] <=> \E k \in 1 .. n + 1 : f[k] = i
      /\ \A k \in 1 .. n + 1 : s[k] = HidOpened[f[k]]
      /\ \A k \in 1 .. n + 1 : HidWithin[f[k]][p - 1] = (n + 1) - k + 1
  BY <1>1 DEF HidStacks
<1>4. \A k : k \in 1 .. n + 1 <=> k \in 1 .. n \/ k = n + 1
  BY <1>1
<1>5. \A k \in 1 .. n + 1 : HidWithin[f[k]][p] = (n + 1) - k
  <2> SUFFICES ASSUME NEW k \in 1 .. n + 1
               PROVE  HidWithin[f[k]][p] = (n + 1) - k
    OBVIOUS
  <2>1. f[k] \in 1 .. p - 1
    BY <1>3
  <2>2. HidWithin[f[k]][p - 1] \in Int
        /\ HidWithin[f[k]][p] = HidWithin[f[k]][p - 1] + (IF hidItems[p].t = "open" THEN 1
                              ELSE IF hidItems[p].t = "close" THEN -1 ELSE 0)
    BY <2>1, WithinAt
  <2>3. HidWithin[f[k]][p] = ((n + 1) - k + 1) - 1
    BY <1>3, <2>2
  <2> QED BY <1>1, <2>3
<1> HIDE DEF n, t
<1>6. \A k \in 1 .. n : k \in 1 .. n + 1 /\ HidWithin[f[k]][p] = n - k + 1 /\ g[k] = f[k]
  <2> SUFFICES ASSUME NEW k \in 1 .. n
               PROVE  k \in 1 .. n + 1 /\ HidWithin[f[k]][p] = n - k + 1
    OBVIOUS
  <2>1. k \in 1 .. n + 1 /\ (n + 1) - k = n - k + 1
    BY <1>1
  <2> QED BY <1>5, <2>1
<1>7. \A i : i \in HidOpen[p + 1] <=> \E k \in 1 .. n : f[k] = i
  <2> SUFFICES ASSUME NEW i
               PROVE  i \in HidOpen[p + 1] <=> \E k \in 1 .. n : f[k] = i
    OBVIOUS
  <2>1. i \in HidOpen[p + 1] <=> i \in HidOpen[p] /\ HidWithin[i][p] > 0
    BY OpenStep
  <2>2. ASSUME NEW k \in 1 .. n + 1 PROVE HidWithin[f[k]][p] > 0 <=> k \in 1 .. n
    <3>1. HidWithin[f[k]][p] = (n + 1) - k
      BY <1>5
    <3>2. (n + 1) - k > 0 <=> k \in 1 .. n
      BY <1>1
    <3> QED BY <3>1, <3>2
  <2> QED BY <1>3, <1>4, <2>1, <2>2
<1>8. g \in [1 .. n -> 1 .. p]
  <2>1. \A k \in 1 .. n : f[k] \in 1 .. p
    <3> SUFFICES ASSUME NEW k \in 1 .. n PROVE f[k] \in 1 .. p
      OBVIOUS
    <3>1. f[k] \in 1 .. p - 1
      BY <1>3, <1>6
    <3> QED BY <1>1, <3>1
  <2> QED BY <2>1
<1>9. \A k, l \in 1 .. n : k < l => g[k] < g[l]
  BY <1>3, <1>6
<1>10. \A k \in 1 .. n : t[k] = HidOpened[g[k]]
  BY <1>2, <1>3, <1>6
<1>11. (p + 1) - 1 = p
  BY <1>1
<1>12. \A k \in 1 .. n : HidWithin[g[k]][p] = n - k + 1
  BY <1>6
<1>13. \A i : i \in HidOpen[p + 1] <=> \E k \in 1 .. n : g[k] = i
  BY <1>6, <1>7
<1> HIDE DEF g
<1>14. HidStacks(g, p + 1, t)
  BY <1>2, <1>8, <1>9, <1>10, <1>11, <1>12, <1>13 DEF HidStacks
<1> QED BY <1>14 DEF t

LEMMA StacksSame ==
    ASSUME HidType, NEW p \in 1 .. Len(hidItems), NEW s \in Seq(Nat), NEW f,
           HidStacks(f, p, s), hidItems[p].t \notin {"open", "close"}
    PROVE  HidStacks(f, p + 1, s)
<1> DEFINE n == Len(s)
<1>1. Len(hidItems) \in Nat /\ n \in Nat /\ p \in Nat
  BY DEF HidType
<1>2. /\ f \in [1 .. n -> 1 .. p - 1]
      /\ \A k, l \in 1 .. n : k < l => f[k] < f[l]
      /\ \A i : i \in HidOpen[p] <=> \E k \in 1 .. n : f[k] = i
      /\ \A k \in 1 .. n : s[k] = HidOpened[f[k]]
      /\ \A k \in 1 .. n : HidWithin[f[k]][p - 1] = n - k + 1
  BY DEF HidStacks
<1>3. \A k \in 1 .. n : HidWithin[f[k]][p] = n - k + 1
  <2> SUFFICES ASSUME NEW k \in 1 .. n
               PROVE  HidWithin[f[k]][p] = n - k + 1
    OBVIOUS
  <2>1. f[k] \in 1 .. p - 1
    BY <1>2
  <2>2. HidWithin[f[k]][p - 1] \in Int
        /\ HidWithin[f[k]][p] = HidWithin[f[k]][p - 1] + (IF hidItems[p].t = "open" THEN 1
                              ELSE IF hidItems[p].t = "close" THEN -1 ELSE 0)
    BY <2>1, WithinAt
  <2>3. HidWithin[f[k]][p] = HidWithin[f[k]][p - 1]
    BY <2>2
  <2> QED BY <1>2, <2>3
<1>4. \A i : i \in HidOpen[p + 1] <=> \E k \in 1 .. n : f[k] = i
  <2> SUFFICES ASSUME NEW i
               PROVE  i \in HidOpen[p + 1] <=> \E k \in 1 .. n : f[k] = i
    OBVIOUS
  <2>1. i \in HidOpen[p + 1] <=> i \in HidOpen[p] /\ HidWithin[i][p] > 0
    BY OpenStep
  <2>2. ASSUME NEW k \in 1 .. n PROVE HidWithin[f[k]][p] > 0
    <3>1. HidWithin[f[k]][p] = n - k + 1
      BY <1>3
    <3>2. n - k + 1 > 0
      BY <1>1
    <3> QED BY <3>1, <3>2
  <2> QED BY <1>2, <2>1, <2>2
<1>5. f \in [1 .. n -> 1 .. p]
  <2>1. \A k \in 1 .. n : f[k] \in 1 .. p
    <3> SUFFICES ASSUME NEW k \in 1 .. n PROVE f[k] \in 1 .. p
      OBVIOUS
    <3>1. f[k] \in 1 .. p - 1
      BY <1>2
    <3> QED BY <1>1, <3>1
  <2> QED BY <1>2, <2>1
<1>6. (p + 1) - 1 = p
  BY <1>1
<1> QED BY <1>2, <1>3, <1>4, <1>5, <1>6 DEF HidStacks

\* The collection in which an item is, and how many it is in, by the stack.
LEMMA StacksTell ==
    ASSUME HidType, NEW p \in 1 .. Len(hidItems) + 1, NEW s \in Seq(Nat), NEW f,
           HidStacks(f, p, s)
    PROVE  /\ HidInner[p] = IF s = <<>> THEN 0 ELSE s[Len(s)]
           /\ Hid!Cardinality(HidOpen[p]) = Len(s)
<1> DEFINE n == Len(s)
           O == HidOpen[p]
<1>1. n \in Nat /\ Len(hidItems) \in Nat
  BY DEF HidType
<1>2. /\ f \in [1 .. n -> 1 .. p - 1]
      /\ \A k, l \in 1 .. n : k < l => f[k] < f[l]
      /\ \A i : i \in O <=> \E k \in 1 .. n : f[k] = i
      /\ \A k \in 1 .. n : s[k] = HidOpened[f[k]]
  BY DEF HidStacks
<1>3. O = Hid!OpenAt(p)
  BY DEF HidOpen
<1>4. HidInner[p] = IF O = {} THEN 0 ELSE Hid!Num("open", 1, Hid!Max(O))
  BY <1>3 DEF HidInner
<1>5. s = <<>> <=> n = 0
  OBVIOUS
<1> HIDE DEF n, O
<1>6. ASSUME n = 0 PROVE O = {}
  BY <1>2, <1>6
<1>7. ASSUME n # 0
      PROVE  O # {} /\ Hid!Num("open", 1, Hid!Max(O)) = s[n]
  <2>1. n \in 1 .. n /\ \A k \in 1 .. n : k = n \/ k < n
    BY <1>1, <1>7
  <2>2. f[n] \in O /\ f[n] \in 1 .. p - 1
    BY <1>2, <2>1
  <2>3. \A k \in 1 .. n : f[k] \in Int
    BY <1>2
  <2>4. \A i \in O : i \in Int /\ i <= f[n]
    <3> SUFFICES ASSUME NEW i \in O PROVE i \in Int /\ i <= f[n]
      OBVIOUS
    <3>1. PICK k \in 1 .. n : f[k] = i
      BY <1>2
    <3>2. CASE k = n
      BY <2>3, <3>1, <3>2
    <3>3. CASE k < n
      <4>1. f[k] < f[n] /\ f[k] \in Int /\ f[n] \in Int
        BY <1>2, <2>1, <2>3, <3>3
      <4> QED BY <3>1, <4>1
    <3> QED BY <2>1, <3>2, <3>3
  <2> DEFINE m == f[n]
  <2>5. m \in O /\ O \subseteq Int /\ \A i \in O : i <= m
    BY <2>2, <2>4
  <2> HIDE DEF m
  <2>6. Hid!Max(O) = m
    BY <2>5, HidMax
  <2>7. HidOpened[m] = Hid!Num("open", 1, m)
    <3>1. m \in 0 .. Len(hidItems)
      BY <1>1, <2>2 DEF m
    <3> QED BY <3>1, ZenonT(20) DEF HidOpened
  <2>8. s[n] = HidOpened[m]
    BY <1>2, <2>1 DEF m
  <2> QED BY <2>5, <2>6, <2>7, <2>8
<1>8. f \in Bijection(1 .. n, O)
  <2>1. f \in [1 .. n -> O]
    <3>1. \A k \in 1 .. n : f[k] \in O
      BY <1>2
    <3> QED BY <1>2, <3>1
  <2>2. \A k, l \in 1 .. n : f[k] = f[l] => k = l
    <3> SUFFICES ASSUME NEW k \in 1 .. n, NEW l \in 1 .. n, f[k] = f[l], k # l PROVE FALSE
      OBVIOUS
    <3>1. k < l \/ l < k
      BY <1>1
    <3>2. f[k] < f[l] \/ f[l] < f[k]
      BY <1>2, <3>1
    <3>3. f[k] \in Int /\ f[l] \in Int
      BY <1>2
    <3> QED BY <3>2, <3>3
  <2>3. \A i \in O : \E k \in 1 .. n : f[k] = i
    BY <1>2
  <2> QED BY <2>1, <2>2, <2>3, Fun_IsBij
<1>9. Cardinality(O) = n
  <2>1. ExistsBijection(1 .. n, O)
    BY <1>8 DEF ExistsBijection
  <2> QED BY <1>1, <2>1, FS_CountingElements
<1>10. Hid!Cardinality(O) = n
  BY <1>9, HidSame
<1>11. HidInner[p] = IF s = <<>> THEN 0 ELSE s[n]
  BY <1>4, <1>5, <1>6, <1>7
<1> QED BY <1>10, <1>11 DEF n, O

\* Openings have different numbers, so the one with its number is the one.
LEMMA LevelAt ==
    ASSUME HidType, NEW p \in 1 .. Len(hidItems), hidItems[p].t = "open"
    PROVE  HidLevel[HidOpened[p]] = Hid!Cardinality(HidOpen[p])
<1>1. Len(hidItems) \in Nat /\ DOMAIN hidItems = 1 .. Len(hidItems)
  BY DEF HidType
<1>2. \A i \in 0 .. Len(hidItems) : HidOpened[i] = Hid!Num("open", 1, i)
  BY ZenonT(20) DEF HidOpened
<1>3. ASSUME NEW i \in 1 .. Len(hidItems), NEW j \in 1 .. Len(hidItems), i < j,
             hidItems[j].t = "open"
      PROVE  HidOpened[i] # HidOpened[j]
  <2> DEFINE c == j - 1
             A == {k \in 1 .. i : hidItems[k].t = "open"}
             B == {k \in 1 .. c : hidItems[k].t = "open"}
  <2>1. c \in Nat /\ i <= c /\ c \in 0 .. Len(hidItems) /\ i \in 0 .. Len(hidItems)
    BY <1>1, <1>3
  <2>2. IsFiniteSet(1 .. c)
    BY <2>1, FS_Interval
  <2>3. B \subseteq 1 .. c /\ A \subseteq B
    <3>1. \A k \in 1 .. i : k \in 1 .. c
      BY <1>1, <2>1
    <3> QED BY <3>1
  <2>4. IsFiniteSet(B)
    BY <2>2, <2>3, FS_Subset
  <2>5. HidOpened[i] = Cardinality(A) /\ HidOpened[c] = Cardinality(B)
    <3>1. Hid!Num("open", 1, i) = Hid!Cardinality(A)
          /\ Hid!Num("open", 1, c) = Hid!Cardinality(B)
      BY DEF Hid!Num
    <3> QED BY <1>2, <2>1, <3>1, HidSame
  <2>6. HidOpened[i] <= HidOpened[c]
    <3> HIDE DEF A, B
    <3> QED BY <2>3, <2>4, <2>5, FS_Subset
  <2>7. HidOpened[j] = HidOpened[c] + 1 /\ HidOpened[c] \in Nat /\ HidOpened[i] \in Nat
    BY <1>3, DepthStep
  <2> HIDE DEF c
  <2> QED BY <2>6, <2>7
<1>4. \A i \in DOMAIN hidItems :
        hidItems[i].t = "open" /\ Hid!Num("open", 1, i) = HidOpened[p] <=> i = p
  <2> SUFFICES ASSUME NEW i \in 1 .. Len(hidItems)
               PROVE  hidItems[i].t = "open" /\ Hid!Num("open", 1, i) = HidOpened[p] <=> i = p
    BY <1>1
  <2>1. i \in 0 .. Len(hidItems)
    BY <1>1
  <2>2. Hid!Num("open", 1, i) = HidOpened[i]
    BY <1>2, <2>1
  <2>3. i < p \/ p < i \/ i = p
    BY <1>1
  <2> QED BY <1>3, <2>2, <2>3
<1>5. (CHOOSE i \in DOMAIN hidItems :
         hidItems[i].t = "open" /\ Hid!Num("open", 1, i) = HidOpened[p]) = p
  BY <1>1, <1>4
<1>6. HidOpened[p] \in Nat
  BY DepthStep
<1>7. HidOpen[p] = Hid!OpenAt(p)
  <2>1. p \in 1 .. Len(hidItems) + 1
    BY <1>1
  <2> QED BY <2>1 DEF HidOpen
<1> QED BY <1>5, <1>6, <1>7 DEF HidLevel

HidVals == Nat \cup {it.v : it \in HidItems}
HidGlobs == [page : HidVals, count : HidVals]
HidUses == [id : HidVals, page : HidVals, in : Nat, pos : Nat]
HidLocals == [usages : Seq(HidUses), min : Nat, depth : {0, 1}, branch : Nat]
HidCollections == [level : Nat, usage : HidVals]

HidGood(i) ==
    /\ HidDepth[i] \in 0 .. StackSize /\ HidKept[i] \in 0 .. GlobalSize
    /\ HidSets[i] \in {0, 1} /\ hidItems[i].t \notin {"field", "long"}
\* What may be wrong with a descriptor that is refused.
HidBad ==
    \/ \E i \in 1 .. Len(hidItems) : ~HidGood(i) \/ hidItems[i].t \in {"usage", "upto", "count"}
    \/ HidDepth[Len(hidItems)] # 0 \/ HidSets[Len(hidItems)] # 0

HidUsed(us) ==
    \A k \in 1 .. Len(us) : us[k].pos \in 1 .. Len(hidItems) + 1 /\ us[k].in = HidInner[us[k].pos]
HidLevelled(cs) == \A k \in 1 .. Len(cs) : cs[k].level = HidLevel[k]

\* The state of the parser at item p: the stacks are as deep as the items before nest.
HidState(p, s, gs, l, cs) ==
    /\ p \in 1 .. Len(hidItems) + 1
    /\ s \in Seq(Nat) /\ Len(s) = HidDepth[p - 1] /\ Len(s) <= StackSize
    /\ gs \in Seq(HidGlobs) /\ Len(gs) = HidKept[p - 1] /\ Len(gs) <= GlobalSize
    /\ l \in HidLocals /\ l.depth = HidSets[p - 1]
    /\ cs \in Seq(HidCollections) /\ Len(cs) = HidOpened[p - 1]
    /\ \A i \in 1 .. p - 1 : HidGood(i)
    /\ \E f : HidStacks(f, p, s)
    /\ HidUsed(l.usages)
    /\ HidLevelled(cs)

HidInv ==
    /\ HidType /\ hidGlobal \in HidGlobs
    /\ HidState(hidPos, hidStack, hidGlobals, hidLocal, hidColls)
    /\ hidAt = "ok" => /\ \A i \in 1 .. Len(hidItems) : HidGood(i)
                       /\ HidDepth[Len(hidItems)] = 0 /\ HidSets[Len(hidItems)] = 0
    /\ hidAt = "failed" => hidBroken \/ HidBad

HidAfter ==
    /\ hidItems' = hidItems /\ hidGlobal' \in HidGlobs
    /\ HidState(hidPos', hidStack', hidGlobals', hidLocal', hidColls')
    /\ hidAt' \in {"parse", "failed"}
    /\ hidAt' = "failed" => hidBroken' \/ HidBad

\* An item that is taken, with what is on the stacks after it.
LEMMA HidAdvance ==
    ASSUME HidParams, HidType, NEW p \in 1 .. Len(hidItems),
           NEW s, NEW gs, NEW l, NEW cs, HidState(p, s, gs, l, cs),
           NEW t \in Seq(Nat), Len(t) = HidDepth[p], Len(t) <= StackSize,
           NEW ht \in Seq(HidGlobs), Len(ht) = HidKept[p], Len(ht) <= GlobalSize,
           NEW m \in HidLocals, m.depth = HidSets[p],
           NEW ct \in Seq(HidCollections), Len(ct) = HidOpened[p],
           hidItems[p].t \notin {"field", "long"},
           NEW f, HidStacks(f, p + 1, t), HidUsed(m.usages), HidLevelled(ct)
    PROVE  HidState(p + 1, t, ht, m, ct)
<1>1. Len(hidItems) \in Nat /\ StackSize \in Nat /\ GlobalSize \in Nat
  BY DEF HidType, HidParams
<1>2. p \in Nat /\ p + 1 \in 1 .. Len(hidItems) + 1 /\ (p + 1) - 1 = p
  BY <1>1
<1>3. HidGood(p)
  <2>1. Len(t) \in Nat /\ Len(ht) \in Nat /\ m.depth \in {0, 1}
    BY DEF HidLocals
  <2> QED BY <1>1, <2>1 DEF HidGood
<1>4. \A i \in 1 .. p - 1 : HidGood(i)
  BY DEF HidState
<1>5. \A i \in 1 .. p : HidGood(i)
  <2>1. \A i \in 1 .. p : i \in 1 .. p - 1 \/ i = p
    BY <1>2
  <2> QED BY <1>3, <1>4, <2>1
<1> QED BY <1>2, <1>5 DEF HidState

\* An item that is no main item: the collections stay.
LEMMA HidKeeps ==
    ASSUME HidParams, HidType, NEW p \in 1 .. Len(hidItems),
           NEW s, NEW gs, NEW l, NEW cs, HidState(p, s, gs, l, cs),
           NEW ht \in Seq(HidGlobs), Len(ht) = HidKept[p], Len(ht) <= GlobalSize,
           NEW m \in HidLocals, m.depth = HidSets[p], HidUsed(m.usages),
           hidItems[p].t \notin {"open", "close", "field", "long"}
    PROVE  HidState(p + 1, s, ht, m, cs)
<1>1. s \in Seq(Nat) /\ Len(s) = HidDepth[p - 1] /\ Len(s) <= StackSize
      /\ cs \in Seq(HidCollections) /\ Len(cs) = HidOpened[p - 1] /\ HidLevelled(cs)
  BY DEF HidState
<1>2. PICK f : HidStacks(f, p, s)
  BY DEF HidState
<1>3. HidStacks(f, p + 1, s)
  BY <1>1, <1>2, StacksSame
<1>4. Len(s) = HidDepth[p] /\ Len(cs) = HidOpened[p]
  BY <1>1, DepthStep
<1> QED BY <1>1, <1>3, <1>4, HidAdvance

\* The counts at an item that is taken or refused.
LEMMA HidCounts ==
    ASSUME HidParams, HidType, NEW p \in 1 .. Len(hidItems),
           NEW s, NEW gs, NEW l, NEW cs, HidState(p, s, gs, l, cs)
    PROVE  /\ Len(s) \in Nat /\ Len(gs) \in Nat /\ l.depth \in {0, 1}
           /\ HidDepth[p] = Len(s) + (IF hidItems[p].t = "open" THEN 1
                              ELSE IF hidItems[p].t = "close" THEN -1 ELSE 0)
           /\ HidKept[p] = Len(gs) + (IF hidItems[p].t = "push" THEN 1
                              ELSE IF hidItems[p].t = "pop" THEN -1 ELSE 0)
           /\ HidMain(p) => HidSets[p] = 0
           /\ ~HidMain(p) => HidSets[p] = l.depth +
                  (IF hidItems[p].t = "delim" THEN IF hidItems[p].v = 1 THEN 1 ELSE -1 ELSE 0)
           /\ hidItems[p] \in HidItems
<1>1. /\ s \in Seq(Nat) /\ Len(s) = HidDepth[p - 1]
      /\ gs \in Seq(HidGlobs) /\ Len(gs) = HidKept[p - 1]
      /\ l \in HidLocals /\ l.depth = HidSets[p - 1]
  BY DEF HidState
<1>2. Len(s) \in Nat /\ Len(gs) \in Nat /\ l.depth \in {0, 1}
  BY <1>1 DEF HidLocals
<1>3. hidItems[p] \in HidItems
  BY DEF HidType
<1>4. HidDepth[p] = Len(s) + (IF hidItems[p].t = "open" THEN 1
                              ELSE IF hidItems[p].t = "close" THEN -1 ELSE 0)
  BY <1>1, DepthStep
<1>5. HidKept[p] = Len(gs) + (IF hidItems[p].t = "push" THEN 1
                              ELSE IF hidItems[p].t = "pop" THEN -1 ELSE 0)
  BY <1>1, DepthStep
<1>6. /\ HidMain(p) => HidSets[p] = 0
      /\ ~HidMain(p) => HidSets[p] = l.depth +
                  (IF hidItems[p].t = "delim" THEN IF hidItems[p].v = 1 THEN 1 ELSE -1 ELSE 0)
  BY <1>1, SetsStep
<1> QED BY <1>2, <1>3, <1>4, <1>5, <1>6

\* A step over an item that is refused.
LEMMA HidFails ==
    ASSUME HidInv, hidItems' = hidItems, Hid!Fail, HidBad
    PROVE  HidAfter
<1>1. UNCHANGED <<hidPos, hidStack, hidGlobals, hidLocal, hidColls, hidGlobal>> /\ hidAt' = "failed"
  BY DEF Hid!Fail
<1>2. HidState(hidPos', hidStack', hidGlobals', hidLocal', hidColls')
  BY <1>1 DEF HidInv
<1> QED BY <1>1, <1>2 DEF HidAfter, HidInv

LEMMA HidWrong ==
    ASSUME NEW p \in 1 .. Len(hidItems), ~HidGood(p)
    PROVE  HidBad
BY DEF HidBad

\* The locals after a main item.
LEMMA NoneLocal ==
    /\ Hid!NoLocal \in HidLocals /\ Hid!NoLocal.depth = 0
    /\ HidUsed(Hid!NoLocal.usages)
<1>1. Hid!NoLocal = [usages |-> <<>>, min |-> 0, depth |-> 0, branch |-> 0]
  BY DEF Hid!NoLocal
<1>2. <<>> \in Seq(HidUses) /\ Len(<<>>) = 0
  OBVIOUS
<1>3. HidUsed(<<>>)
  BY <1>2 DEF HidUsed
<1>4. Hid!NoLocal \in HidLocals
  BY <1>1, <1>2 DEF HidLocals
<1> QED BY <1>1, <1>3, <1>4

\* The item in turn and what the invariant says of it.
HidTurn == hidAt = "parse" /\ ~Hid!Done /\ hidItems' = hidItems

LEMMA HidThis ==
    ASSUME HidParams, HidInv, HidTurn
    PROVE  /\ HidType /\ hidPos \in 1 .. Len(hidItems) /\ hidGlobal \in HidGlobs
           /\ HidState(hidPos, hidStack, hidGlobals, hidLocal, hidColls)
           /\ hidStack \in Seq(Nat) /\ hidGlobals \in Seq(HidGlobs) /\ hidLocal \in HidLocals
           /\ hidColls \in Seq(HidCollections)
           /\ Len(hidStack) \in Nat /\ Len(hidStack) <= StackSize
           /\ Len(hidGlobals) \in Nat /\ Len(hidGlobals) <= GlobalSize
           /\ HidUsed(hidLocal.usages) /\ HidLevelled(hidColls)
           /\ Hid!It = hidItems[hidPos] /\ Hid!It \in HidItems /\ Hid!It.v \in HidVals
<1>1. HidType /\ HidState(hidPos, hidStack, hidGlobals, hidLocal, hidColls)
      /\ hidGlobal \in HidGlobs
  BY DEF HidInv
<1>2. /\ hidPos \in 1 .. Len(hidItems) + 1 /\ hidStack \in Seq(Nat)
      /\ hidGlobals \in Seq(HidGlobs) /\ hidLocal \in HidLocals
      /\ hidColls \in Seq(HidCollections)
      /\ Len(hidStack) <= StackSize /\ Len(hidGlobals) <= GlobalSize
      /\ HidUsed(hidLocal.usages) /\ HidLevelled(hidColls)
  BY <1>1 DEF HidState
<1>3. Len(hidItems) \in Nat /\ ~(hidPos > Len(hidItems))
  BY <1>1 DEF HidType, HidTurn, Hid!Done
<1>4. hidPos \in 1 .. Len(hidItems)
  BY <1>2, <1>3
<1>5. Hid!It = hidItems[hidPos] /\ Hid!It \in HidItems
  BY <1>1, <1>4 DEF HidType, Hid!It
<1>6. Hid!It.v \in HidVals
  BY <1>5 DEF HidVals
<1>7. Len(hidStack) \in Nat /\ Len(hidGlobals) \in Nat
  BY <1>2
<1> QED BY <1>1, <1>2, <1>4, <1>5, <1>6, <1>7

\* A main item that is no field ends the locals and moves one collection.
LEMMA HidOpens ==
    ASSUME HidParams, HidInv, HidTurn, Hid!Open
    PROVE  HidAfter
<1>1. Hid!It.t = "open" /\ hidItems[hidPos].t = "open" /\ hidItems' = hidItems
  BY HidThis DEF Hid!Open, HidTurn
<1>2. HidDepth[hidPos] = Len(hidStack) + 1 /\ HidKept[hidPos] = Len(hidGlobals)
      /\ HidSets[hidPos] = 0
  BY <1>1, HidThis, HidCounts DEF HidMain
<1>3. CASE Len(hidStack) = StackSize
  <2>1. Hid!Fail
    BY <1>3 DEF Hid!Open
  <2>2. ~HidGood(hidPos)
    <3>1. StackSize \in Nat /\ HidDepth[hidPos] = StackSize + 1
      BY <1>2, <1>3 DEF HidParams
    <3> QED BY <3>1 DEF HidGood
  <2> QED BY <1>1, <2>1, <2>2, HidThis, HidWrong, HidFails
<1>4. CASE hidAt' = "failed" /\ hidBroken' = TRUE /\
           UNCHANGED <<hidPos, hidStack, hidColls, hidGlobal, hidGlobals, hidLocal, hidReports>>
  <2>1. HidState(hidPos', hidStack', hidGlobals', hidLocal', hidColls')
    BY <1>4, HidThis
  <2>2. hidGlobal' \in HidGlobs
    BY <1>4, HidThis
  <2>3. hidBroken' \/ HidBad
    BY <1>4
  <2> QED BY <1>1, <1>4, <2>1, <2>2, <2>3 DEF HidAfter
<1> DEFINE u == IF hidLocal.usages = <<>> THEN 0 ELSE hidLocal.usages[1].id
           c == [level |-> Len(hidStack), usage |-> u]
           s == Append(hidStack, Len(hidColls) + 1)
           cs == Append(hidColls, c)
<1>5. CASE /\ Len(hidStack) # StackSize
           /\ hidStack' = s /\ hidColls' = cs /\ Hid!MainTaken
           /\ UNCHANGED <<hidGlobal, hidGlobals, hidReports>>
  <2>1. /\ hidPos' = hidPos + 1 /\ hidAt' = hidAt /\ hidLocal' = Hid!NoLocal
        /\ hidBroken' = hidBroken
    BY <1>5 DEF Hid!MainTaken, Hid!Taken
  <2>2. Len(hidColls) = HidOpened[hidPos - 1] /\ Len(hidColls) \in Nat
        /\ HidOpened[hidPos] = Len(hidColls) + 1
    <3>1. Len(hidColls) = HidOpened[hidPos - 1]
      BY HidThis DEF HidState
    <3>2. HidOpened[hidPos] = HidOpened[hidPos - 1] + 1
      BY <1>1, HidThis, DepthStep
    <3>3. Len(hidColls) \in Nat
      BY HidThis
    <3> QED BY <3>1, <3>2, <3>3
  <2>3. PICK f : HidStacks(f, hidPos, hidStack)
    BY HidThis DEF HidState
  <2>4. PICK g : HidStacks(g, hidPos + 1, Append(hidStack, HidOpened[hidPos]))
    BY <1>1, <2>3, HidThis, StacksOpen
  <2>5. HidStacks(g, hidPos + 1, s)
    BY <2>2, <2>4
  <2>6. u \in HidVals
    <3>1. hidLocal.usages \in Seq(HidUses)
      BY HidThis DEF HidLocals
    <3>2. CASE hidLocal.usages # <<>>
      <4>1. hidLocal.usages[1] \in HidUses
        BY <3>1, <3>2
      <4> QED BY <3>2, <4>1 DEF HidUses
    <3> QED BY <3>2 DEF HidVals
  <2> HIDE DEF u
  <2>7. c \in HidCollections
    BY <2>6, HidThis DEF HidCollections
  <2>8. Hid!Cardinality(HidOpen[hidPos]) = Len(hidStack)
    <3>1. hidPos \in 1 .. Len(hidItems) + 1
      BY HidThis DEF HidState
    <3> QED BY <2>3, <3>1, HidThis, StacksTell
  <2>9. c.level = HidLevel[HidOpened[hidPos]]
    BY <1>1, <2>8, HidThis, LevelAt
  <2> HIDE DEF c
  <2>10. /\ cs \in Seq(HidCollections) /\ Len(cs) = Len(hidColls) + 1
         /\ cs[Len(hidColls) + 1] = c
         /\ \A k \in 1 .. Len(hidColls) : cs[k] = hidColls[k]
    BY <2>7, HidThis
  <2>11. HidLevelled(cs)
    <3> HIDE DEF cs
    <3> SUFFICES ASSUME NEW k \in 1 .. Len(cs) PROVE cs[k].level = HidLevel[k]
      BY DEF HidLevelled
    <3>1. CASE k = Len(hidColls) + 1
      BY <2>2, <2>9, <2>10, <3>1
    <3>2. CASE k \in 1 .. Len(hidColls)
      BY <2>10, <3>2, HidThis DEF HidLevelled
    <3> QED BY <2>2, <2>10, <3>1, <3>2
  <2>12. s \in Seq(Nat) /\ Len(s) = Len(hidStack) + 1 /\ Len(s) <= StackSize
    <3>1. s \in Seq(Nat) /\ Len(s) = Len(hidStack) + 1
      BY <2>2, HidThis
    <3>2. Len(hidStack) + 1 <= StackSize
      BY <1>5, HidThis DEF HidParams
    <3> QED BY <3>1, <3>2
  <2> HIDE DEF s, cs
  <2>13. HidState(hidPos + 1, s, hidGlobals, Hid!NoLocal, cs)
    <3>1. hidItems[hidPos].t \notin {"field", "long"}
      BY <1>1
    <3>2. Len(s) = HidDepth[hidPos] /\ Len(hidGlobals) = HidKept[hidPos]
          /\ Hid!NoLocal.depth = HidSets[hidPos] /\ Len(cs) = HidOpened[hidPos]
      BY <1>2, <2>2, <2>10, <2>12, NoneLocal
    <3> QED BY <2>5, <2>10, <2>11, <2>12, <3>1, <3>2, HidThis, NoneLocal, HidAdvance
  <2> QED BY <1>1, <1>5, <2>1, <2>13, HidThis DEF HidAfter, HidTurn
<1> QED BY <1>3, <1>4, <1>5 DEF Hid!Open

\* What is left of a stack is a stack.
LEMMA FrontOf ==
    ASSUME NEW S, NEW q \in Seq(S), q # <<>>
    PROVE  Hid!Front(q) \in Seq(S) /\ Len(Hid!Front(q)) = Len(q) - 1
<1> DEFINE n == Len(q) - 1
           one == 1
<1>1. n \in Nat /\ one \in Int /\ n \in Int /\ Len(q) = n + 1
  OBVIOUS
<1>2. \A i \in one .. n : q[i] \in S
  BY <1>1
<1>3. Hid!Front(q) = SubSeq(q, one, n)
  BY DEF Hid!Front
<1>4. n - one + 1 = n /\ (one <= n \/ n = 0) /\ (n = 0 => ~(one <= n))
  BY <1>1
<1> HIDE DEF one, n
<1>5. SubSeq(q, one, n) \in Seq(S) /\ Len(SubSeq(q, one, n)) = IF one <= n THEN n - one + 1 ELSE 0
  BY <1>1, <1>2, SubSeqProperties
<1>6. Len(SubSeq(q, one, n)) = n
  BY <1>4, <1>5
<1> QED BY <1>3, <1>5, <1>6 DEF n

LEMMA HidCloses ==
    ASSUME HidParams, HidInv, HidTurn, Hid!Close
    PROVE  HidAfter
<1>1. Hid!It.t = "close" /\ hidItems[hidPos].t = "close" /\ hidItems' = hidItems
  BY HidThis DEF Hid!Close, HidTurn
<1>2. HidDepth[hidPos] = Len(hidStack) - 1 /\ HidKept[hidPos] = Len(hidGlobals)
      /\ HidSets[hidPos] = 0
  BY <1>1, HidThis, HidCounts DEF HidMain
<1>3. CASE hidStack = <<>>
  <2>1. Hid!Fail
    BY <1>3 DEF Hid!Close
  <2>2. ~HidGood(hidPos)
    <3>1. Len(hidStack) = 0 /\ StackSize \in Nat
      BY <1>3 DEF HidParams
    <3>2. HidDepth[hidPos] = -1
      BY <1>2, <3>1
    <3> QED BY <3>1, <3>2 DEF HidGood
  <2> QED BY <1>1, <2>1, <2>2, HidThis, HidWrong, HidFails
<1> DEFINE s == Hid!Front(hidStack)
<1>4. CASE hidStack # <<>>
  <2>1. /\ hidStack' = s /\ hidPos' = hidPos + 1 /\ hidAt' = hidAt /\ hidLocal' = Hid!NoLocal
        /\ hidBroken' = hidBroken /\ UNCHANGED <<hidColls, hidGlobal, hidGlobals>>
    BY <1>4 DEF Hid!Close, Hid!MainTaken, Hid!Taken
  <2>2. PICK f : HidStacks(f, hidPos, hidStack)
    BY HidThis DEF HidState
  <2>3. PICK g : HidStacks(g, hidPos + 1, s)
    BY <1>1, <1>4, <2>2, HidThis, StacksClose
  <2>4. s \in Seq(Nat) /\ Len(s) = Len(hidStack) - 1 /\ Len(s) <= StackSize
    <3>1. hidStack \in Seq(Nat) /\ Len(hidStack) \in Nat /\ Len(hidStack) # 0
      BY <1>4, HidThis
    <3>2. s \in Seq(Nat) /\ Len(s) = Len(hidStack) - 1
      BY <3>1, FrontOf
    <3>3. Len(hidStack) - 1 <= StackSize
      BY <3>1, HidThis DEF HidParams
    <3> QED BY <3>2, <3>3
  <2> HIDE DEF s
  <2>5. Len(hidColls) = HidOpened[hidPos]
    <3>1. Len(hidColls) = HidOpened[hidPos - 1]
      BY HidThis DEF HidState
    <3>2. HidOpened[hidPos] = HidOpened[hidPos - 1] + 0 /\ HidOpened[hidPos - 1] \in Nat
      BY <1>1, HidThis, DepthStep
    <3> QED BY <3>1, <3>2
  <2>6. HidState(hidPos + 1, s, hidGlobals, Hid!NoLocal, hidColls)
    <3>1. hidItems[hidPos].t \notin {"field", "long"}
      BY <1>1
    <3>2. Len(s) = HidDepth[hidPos] /\ Len(hidGlobals) = HidKept[hidPos]
          /\ Hid!NoLocal.depth = HidSets[hidPos]
      BY <1>2, <2>4, NoneLocal
    <3> QED BY <2>3, <2>4, <2>5, <3>1, <3>2, HidThis, NoneLocal, HidAdvance
  <2> QED BY <1>1, <2>1, <2>6, HidThis DEF HidAfter, HidTurn
<1> QED BY <1>3, <1>4

LEMMA HidHere ==
    ASSUME HidParams, HidInv, HidTurn, ~HidMain(hidPos)
    PROVE  /\ hidLocal.depth \in {0, 1} /\ hidLocal.branch \in Nat
           /\ HidKept[hidPos] = Len(hidGlobals) + (IF hidItems[hidPos].t = "push" THEN 1
                              ELSE IF hidItems[hidPos].t = "pop" THEN -1 ELSE 0)
           /\ hidItems[hidPos].t # "delim" => HidSets[hidPos] = hidLocal.depth
           /\ hidItems[hidPos].t = "delim" => HidSets[hidPos] =
                hidLocal.depth + (IF hidItems[hidPos].v = 1 THEN 1 ELSE -1)
<1>1. /\ hidLocal.depth \in {0, 1}
      /\ HidKept[hidPos] = Len(hidGlobals) + (IF hidItems[hidPos].t = "push" THEN 1
                              ELSE IF hidItems[hidPos].t = "pop" THEN -1 ELSE 0)
      /\ HidSets[hidPos] = hidLocal.depth +
            (IF hidItems[hidPos].t = "delim" THEN IF hidItems[hidPos].v = 1 THEN 1 ELSE -1 ELSE 0)
  BY HidThis, HidCounts
<1>2. hidLocal.branch \in Nat
  BY HidThis DEF HidLocals
<1> QED BY <1>1, <1>2

\* Globals.
LEMMA HidGlobalItem ==
    ASSUME HidParams, HidInv, HidTurn,
           Hid!Push \/ Hid!Pop \/ Hid!Page \/ Hid!Count
    PROVE  HidAfter
<1> DEFINE p == hidPos
<1>1. hidItems' = hidItems /\ GlobalSize \in Nat
  BY DEF HidTurn, HidParams
<1>2. CASE Hid!Push
  <2>1. hidItems[p].t = "push"
    BY <1>2, HidThis DEF Hid!Push
  <2>2. HidKept[p] = Len(hidGlobals) + 1 /\ HidSets[p] = hidLocal.depth
    BY <2>1, HidThis, HidHere DEF HidMain
  <2>3. CASE Len(hidGlobals) = GlobalSize
    <3>1. Hid!Fail
      BY <1>2, <2>3 DEF Hid!Push
    <3>2. HidKept[p] = GlobalSize + 1
      BY <2>2, <2>3
    <3>3. ~HidGood(p)
      BY <1>1, <3>2 DEF HidGood
    <3> QED BY <1>1, <3>1, <3>3, HidThis, HidWrong, HidFails
  <2> DEFINE gs == Append(hidGlobals, hidGlobal)
  <2>4. CASE Len(hidGlobals) # GlobalSize
    <3>1. /\ hidGlobals' = gs /\ hidPos' = p + 1 /\ hidAt' = hidAt /\ hidLocal' = hidLocal
          /\ UNCHANGED <<hidStack, hidColls, hidGlobal>>
      BY <1>2, <2>4 DEF Hid!Push, Hid!Taken
    <3>2. gs \in Seq(HidGlobs) /\ Len(gs) = Len(hidGlobals) + 1
      BY HidThis
    <3>3. Len(gs) <= GlobalSize
      BY <1>1, <2>4, <3>2, HidThis
    <3> HIDE DEF gs
    <3>4. HidState(p + 1, hidStack, gs, hidLocal, hidColls)
      <4>1. hidItems[p].t \notin {"open", "close", "field", "long"}
        BY <2>1
      <4> QED BY <2>2, <3>2, <3>3, <4>1, HidThis, HidKeeps
    <3> QED BY <1>1, <3>1, <3>4, HidThis DEF HidAfter, HidTurn
  <2> QED BY <2>3, <2>4
<1>3. CASE Hid!Pop
  <2>1. hidItems[p].t = "pop"
    BY <1>3, HidThis DEF Hid!Pop
  <2>2. HidKept[p] = Len(hidGlobals) - 1 /\ HidSets[p] = hidLocal.depth
    BY <2>1, HidThis, HidHere DEF HidMain
  <2>3. CASE hidGlobals = <<>>
    <3>1. Hid!Fail
      BY <1>3, <2>3 DEF Hid!Pop
    <3>2. HidKept[p] = -1
      <4>1. Len(hidGlobals) = 0
        BY <2>3
      <4> QED BY <2>2, <4>1
    <3>3. ~HidGood(p)
      BY <1>1, <3>2 DEF HidGood
    <3> QED BY <1>1, <3>1, <3>3, HidThis, HidWrong, HidFails
  <2> DEFINE gs == Hid!Front(hidGlobals)
  <2>4. CASE hidGlobals # <<>>
    <3>1. /\ hidGlobals' = gs /\ hidPos' = p + 1 /\ hidAt' = hidAt /\ hidLocal' = hidLocal
          /\ UNCHANGED <<hidStack, hidColls>> /\ hidGlobal' = Hid!Last(hidGlobals)
      BY <1>3, <2>4 DEF Hid!Pop, Hid!Taken
    <3>2. gs \in Seq(HidGlobs) /\ Len(gs) = Len(hidGlobals) - 1
      BY <2>4, HidThis, FrontOf
    <3>3. Len(gs) <= GlobalSize
      BY <1>1, <3>2, HidThis
    <3>4. Hid!Last(hidGlobals) \in HidGlobs
      <4>1. Hid!Last(hidGlobals) = hidGlobals[Len(hidGlobals)]
        BY DEF Hid!Last
      <4>2. Len(hidGlobals) \in 1 .. Len(hidGlobals)
        BY <2>4, HidThis
      <4> QED BY <4>1, <4>2, HidThis
    <3> HIDE DEF gs
    <3>5. HidState(p + 1, hidStack, gs, hidLocal, hidColls)
      <4>1. hidItems[p].t \notin {"open", "close", "field", "long"}
        BY <2>1
      <4> QED BY <2>2, <3>2, <3>3, <4>1, HidThis, HidKeeps
    <3> QED BY <1>1, <3>1, <3>4, <3>5, HidThis DEF HidAfter, HidTurn
  <2> QED BY <2>3, <2>4
<1>4. CASE Hid!Page \/ Hid!Count
  <2>1. hidItems[p].t \in {"page", "count"}
    BY <1>4, HidThis DEF Hid!Page, Hid!Count
  <2>2. HidKept[p] = Len(hidGlobals) /\ HidSets[p] = hidLocal.depth
    BY <2>1, HidThis, HidHere DEF HidMain
  <2>3. CASE Hid!Count /\ Hid!Fail
    <3>1. hidItems[p].t = "count"
      BY <2>3, HidThis DEF Hid!Count
    <3>2. HidBad
      BY <3>1, HidThis DEF HidBad
    <3> QED BY <1>1, <2>3, <3>2, HidFails
  <2>4. CASE /\ hidPos' = p + 1 /\ hidAt' = hidAt /\ hidLocal' = hidLocal
             /\ UNCHANGED <<hidStack, hidColls, hidGlobals>>
             /\ \/ hidGlobal' = [hidGlobal EXCEPT !.page = Hid!It.v]
                \/ hidGlobal' = [hidGlobal EXCEPT !.count = Hid!It.v]
    <3>1. hidGlobal' \in HidGlobs
      BY <2>4, HidThis DEF HidGlobs
    <3>2. HidState(p + 1, hidStack, hidGlobals, hidLocal, hidColls)
      <4>1. hidItems[p].t \notin {"open", "close", "field", "long"}
        BY <2>1
      <4> QED BY <2>2, <4>1, HidThis, HidKeeps
    <3> QED BY <1>1, <2>4, <3>1, <3>2, HidThis DEF HidAfter, HidTurn
  <2>5. Hid!Page => Hid!Taken(hidLocal) /\ UNCHANGED <<hidStack, hidColls, hidGlobals>>
                    /\ hidGlobal' = [hidGlobal EXCEPT !.page = Hid!It.v]
    BY DEF Hid!Page
  <2>6. Hid!Count => \/ Hid!Count /\ Hid!Fail
                     \/ Hid!Taken(hidLocal) /\ UNCHANGED <<hidStack, hidColls, hidGlobals>>
                        /\ hidGlobal' = [hidGlobal EXCEPT !.count = Hid!It.v]
    BY DEF Hid!Count
  <2> QED BY <1>4, <2>3, <2>4, <2>5, <2>6 DEF Hid!Taken
<1> QED BY <1>2, <1>3, <1>4

\* Locals that are kept with new usages.
LEMMA HidLocalTaken ==
    ASSUME HidParams, HidInv, HidTurn, NEW l \in HidLocals, Hid!Taken(l),
           UNCHANGED <<hidStack, hidColls, hidGlobal, hidGlobals>>,
           l.depth = HidSets[hidPos], HidUsed(l.usages),
           hidItems[hidPos].t \in {"delim", "usage", "min", "upto", "other"}
    PROVE  HidAfter
<1>1. hidItems' = hidItems /\ hidPos' = hidPos + 1 /\ hidAt' = hidAt /\ hidLocal' = l
  BY DEF HidTurn, Hid!Taken
<1>2. HidKept[hidPos] = Len(hidGlobals)
  BY HidThis, HidCounts
<1>3. hidItems[hidPos].t \notin {"open", "close", "field", "long"}
  OBVIOUS
<1>4. HidState(hidPos + 1, hidStack, hidGlobals, l, hidColls)
  BY <1>2, <1>3, HidThis, HidKeeps
<1> QED BY <1>1, <1>4, HidThis DEF HidAfter, HidTurn

LEMMA HidDelims ==
    ASSUME HidParams, HidInv, HidTurn, Hid!Delim
    PROVE  HidAfter
<1> DEFINE p == hidPos
           v == hidItems[p].v
           d == hidLocal.depth + (IF v = 1 THEN 1 ELSE -1)
           l == [hidLocal EXCEPT !.depth = @ + (IF Hid!It.v = 1 THEN 1 ELSE -1),
                                 !.branch = @ + Hid!It.v]
<1>1. hidItems[p].t = "delim" /\ hidItems' = hidItems /\ Hid!It.v = v /\ v \in {0, 1}
  BY HidThis DEF Hid!Delim, HidTurn, HidParams
<1>2. HidSets[p] = d /\ hidLocal.depth \in {0, 1} /\ hidLocal.branch \in Nat
  BY <1>1, HidHere DEF HidMain
<1>3. CASE Hid!Fail /\ ((v = 1 /\ hidLocal.depth # 0) \/ (v = 0 /\ hidLocal.depth < 1))
  <2>1. d \notin {0, 1}
    BY <1>1, <1>2, <1>3
  <2>2. ~HidGood(p)
    BY <1>2, <2>1 DEF HidGood
  <2> QED BY <1>1, <1>3, <2>2, HidThis, HidWrong, HidFails
<1>4. CASE /\ ~((v = 1 /\ hidLocal.depth # 0) \/ (v = 0 /\ hidLocal.depth < 1))
           /\ Hid!Taken(l) /\ UNCHANGED <<hidStack, hidColls, hidGlobal, hidGlobals>>
  <2>1. d \in {0, 1}
    BY <1>1, <1>2, <1>4
  <2>2. hidLocal.branch + v \in Nat
    BY <1>1, <1>2
  <2>3. l = [hidLocal EXCEPT !.depth = d, !.branch = hidLocal.branch + v]
    BY <1>1
  <2> HIDE DEF d, l, v
  <2>4. l \in HidLocals /\ l.depth = d /\ l.usages = hidLocal.usages
    <3> DEFINE b == hidLocal.branch + v
    <3>1. b \in Nat /\ l = [hidLocal EXCEPT !.depth = d, !.branch = b]
      BY <2>2, <2>3
    <3> HIDE DEF b
    <3> QED BY <2>1, <3>1, HidThis DEF HidLocals
  <2>5. hidItems[hidPos].t \in {"delim", "usage", "min", "upto", "other"}
    BY <1>1
  <2> QED BY <1>2, <1>4, <2>4, <2>5, HidThis, HidLocalTaken
<1> QED BY <1>1, <1>3, <1>4 DEF Hid!Delim

\* Usages that are added belong to the innermost collection.
LEMMA HidAdded ==
    ASSUME HidParams, HidInv, HidTurn, NEW n \in Nat, NEW ids \in [1 .. n -> HidVals],
           NEW l, l = [hidLocal EXCEPT !.usages = Hid!Added(hidLocal.usages, ids)]
    PROVE  l \in HidLocals /\ l.depth = hidLocal.depth /\ HidUsed(l.usages)
<1> DEFINE us == hidLocal.usages
           new == [i \in DOMAIN ids |-> [id |-> ids[i], page |-> hidGlobal.page,
                                         in |-> Hid!Innermost, pos |-> hidPos]]
           u == Hid!Added(us, ids)
<1>1. u = us \o new /\ us \in Seq(HidUses) /\ DOMAIN ids = 1 .. n
  BY HidThis DEF Hid!Added, HidLocals
<1>2. Hid!Innermost = HidInner[hidPos] /\ Hid!Innermost \in Nat
  <2>1. Hid!Innermost = IF hidStack = <<>> THEN 0 ELSE hidStack[Len(hidStack)]
    BY DEF Hid!Innermost, Hid!Last
  <2>2. HidInner[hidPos] = IF hidStack = <<>> THEN 0 ELSE hidStack[Len(hidStack)]
    <3>1. PICK f : HidStacks(f, hidPos, hidStack)
      BY HidThis DEF HidState
    <3>2. hidPos \in 1 .. Len(hidItems) + 1
      BY HidThis DEF HidState
    <3> QED BY <3>1, <3>2, HidThis, StacksTell
  <2>3. hidStack # <<>> => hidStack[Len(hidStack)] \in Nat
    BY HidThis
  <2> QED BY <2>1, <2>2, <2>3
<1>3. hidPos \in 1 .. Len(hidItems) + 1 /\ hidPos \in Nat /\ hidGlobal.page \in HidVals
  BY HidThis DEF HidState, HidGlobs
<1>4. \A i \in 1 .. n : new[i] \in HidUses /\ new[i].pos = hidPos /\ new[i].in = Hid!Innermost
  BY <1>1, <1>2, <1>3 DEF HidUses
<1>5. new \in [1 .. n -> HidUses]
  <2>1. new = [i \in 1 .. n |-> new[i]]
    BY <1>1
  <2> HIDE DEF new
  <2> QED BY <1>4, <2>1
<1> HIDE DEF new, u
<1>6. new \in Seq(HidUses) /\ Len(new) = n
  BY <1>5
<1>7. u \in Seq(HidUses)
  BY <1>1, <1>6
<1>8. \A k \in 1 .. Len(u) :
        u[k].pos \in 1 .. Len(hidItems) + 1 /\ u[k].in = HidInner[u[k].pos]
  <2> SUFFICES ASSUME NEW k \in 1 .. Len(u)
               PROVE  u[k].pos \in 1 .. Len(hidItems) + 1 /\ u[k].in = HidInner[u[k].pos]
    OBVIOUS
  <2>1. Len(us) \in Nat /\ Len(u) = Len(us) + n
    BY <1>1, <1>6
  <2>2. CASE k \in 1 .. Len(us)
    <3>1. u[k] = us[k]
      BY <1>1, <1>6, <2>2
    <3> QED BY <2>2, <3>1, HidThis DEF HidUsed
  <2>3. CASE k > Len(us)
    <3>1. k - Len(us) \in 1 .. n /\ u[k] = new[k - Len(us)]
      BY <1>1, <1>6, <2>1, <2>3
    <3> QED BY <1>2, <1>3, <1>4, <3>1
  <2> QED BY <2>1, <2>2, <2>3
<1>9. HidUsed(u)
  BY <1>8 DEF HidUsed
<1>10. l = [hidLocal EXCEPT !.usages = u]
  BY DEF u
<1> HIDE DEF us
<1>11. l \in HidLocals /\ l.depth = hidLocal.depth /\ l.usages = u
  BY <1>7, <1>10, HidThis DEF HidLocals
<1> QED BY <1>9, <1>11

LEMMA HidUsages ==
    ASSUME HidParams, HidInv, HidTurn,
           Hid!Usage \/ Hid!UsageMin \/ Hid!UsageUpTo \/ Hid!Rest
    PROVE  HidAfter
<1> DEFINE p == hidPos
<1>1. hidItems' = hidItems /\ Hid!It = hidItems[p]
  BY HidThis DEF HidTurn
<1>2. hidItems[p].t \in {"usage", "min", "upto", "other", "long"}
  BY <1>1 DEF Hid!Usage, Hid!UsageMin, Hid!UsageUpTo, Hid!Rest
<1>3. HidSets[p] = hidLocal.depth /\ hidLocal.depth \in {0, 1}
  BY <1>2, HidHere DEF HidMain
<1>4. HidUsed(hidLocal.usages) /\ hidLocal \in HidLocals /\ p \in 1 .. Len(hidItems)
  BY HidThis
<1>5. CASE /\ hidItems[p].t # "long" /\ UNCHANGED <<hidStack, hidColls, hidGlobal, hidGlobals>>
           /\ \E l \in HidLocals : Hid!Taken(l) /\ l.depth = hidLocal.depth /\ HidUsed(l.usages)
  <2>1. PICK l \in HidLocals : Hid!Taken(l) /\ l.depth = hidLocal.depth /\ HidUsed(l.usages)
    BY <1>5
  <2>2. hidItems[p].t \in {"delim", "usage", "min", "upto", "other"}
    BY <1>2, <1>5
  <2> QED BY <1>3, <1>5, <2>1, <2>2, HidLocalTaken
<1>6. CASE Hid!Fail /\ hidItems[p].t \in {"usage", "upto", "count", "long"}
  <2>1. HidBad
    BY <1>4, <1>6 DEF HidBad, HidGood
  <2> QED BY <1>1, <1>6, <2>1, HidFails
<1>7. CASE Hid!Usage
  <2> DEFINE l == [hidLocal EXCEPT !.usages = Hid!Added(@, <<Hid!It.v>>)]
  <2>1. l \in HidLocals /\ l.depth = hidLocal.depth /\ HidUsed(l.usages)
    <3> DEFINE ids == <<Hid!It.v>>
               one == 1
    <3>1. one \in Nat /\ ids \in [1 .. one -> HidVals]
      BY HidThis
    <3>2. l = [hidLocal EXCEPT !.usages = Hid!Added(hidLocal.usages, ids)]
      OBVIOUS
    <3> HIDE DEF ids, one, l
    <3> QED BY <3>1, <3>2, HidAdded
  <2>2. \/ Hid!Taken(hidLocal) /\ UNCHANGED <<hidStack, hidColls, hidGlobal, hidGlobals>>
        \/ Hid!Fail
        \/ Hid!Taken(l) /\ UNCHANGED <<hidStack, hidColls, hidGlobal, hidGlobals>>
    BY <1>7 DEF Hid!Usage
  <2>3. hidItems[p].t = "usage"
    BY <1>1, <1>7 DEF Hid!Usage
  <2> HIDE DEF l
  <2> QED BY <1>4, <1>5, <1>6, <2>1, <2>2, <2>3
<1>8. CASE Hid!UsageMin
  <2> DEFINE l == [hidLocal EXCEPT !.min = Hid!It.v]
  <2>1. hidItems[p].t = "min"
    BY <1>1, <1>8 DEF Hid!UsageMin
  <2>2. Hid!It.v \in Nat
    BY <1>1, <2>1, HidThis DEF HidParams
  <2>3. l \in HidLocals /\ l.depth = hidLocal.depth /\ HidUsed(l.usages)
    <3>1. l.usages = hidLocal.usages /\ l.depth = hidLocal.depth /\ l \in HidLocals
      BY <1>4, <2>2 DEF HidLocals
    <3> QED BY <1>4, <3>1
  <2>4. /\ Hid!Taken(hidLocal) \/ Hid!Taken(l)
        /\ UNCHANGED <<hidStack, hidColls, hidGlobal, hidGlobals>>
    BY <1>8 DEF Hid!UsageMin
  <2> HIDE DEF l
  <2> QED BY <1>4, <1>5, <2>1, <2>3, <2>4
<1>9. CASE Hid!UsageUpTo
  <2> DEFINE n == IF hidLocal.branch > 1 \/ Hid!It.v < hidLocal.min THEN 0
                  ELSE Hid!It.v - hidLocal.min + 1
             ids == [i \in 1 .. n |-> hidLocal.min + i - 1]
             l == [hidLocal EXCEPT !.usages = Hid!Added(@, ids)]
  <2>1. hidItems[p].t = "upto"
    BY <1>1, <1>9 DEF Hid!UsageUpTo
  <2>2. Hid!It.v \in Nat /\ hidLocal.min \in Nat
    BY <1>1, <1>4, <2>1, HidThis DEF HidParams, HidLocals
  <2>3. n \in Nat
    BY <2>2
  <2>4. \/ Hid!Fail
        \/ Hid!Taken(l) /\ UNCHANGED <<hidStack, hidColls, hidGlobal, hidGlobals>>
    BY <1>9 DEF Hid!UsageUpTo
  <2> HIDE DEF n
  <2>5. ids \in [1 .. n -> HidVals]
    <3>1. \A i \in 1 .. n : hidLocal.min + i - 1 \in Nat
      BY <2>2, <2>3
    <3> QED BY <3>1 DEF HidVals
  <2>6. l = [hidLocal EXCEPT !.usages = Hid!Added(hidLocal.usages, ids)]
    OBVIOUS
  <2> HIDE DEF ids, l
  <2>7. l \in HidLocals /\ l.depth = hidLocal.depth /\ HidUsed(l.usages)
    BY <2>3, <2>5, <2>6, HidAdded
  <2> QED BY <1>5, <1>6, <2>1, <2>4, <2>7
<1>10. CASE Hid!Rest
  BY <1>1, <1>4, <1>5, <1>6, <1>10 DEF Hid!Rest
<1> QED BY <1>7, <1>8, <1>9, <1>10

\* A field is refused, and so is the descriptor that has it.
LEMMA HidField ==
    ASSUME HidParams, HidInv, HidTurn, Hid!Field
    PROVE  HidAfter
<1>1. hidItems' = hidItems /\ Hid!It = hidItems[hidPos] /\ hidItems[hidPos].t = "field"
  BY HidThis DEF HidTurn, Hid!Field
<1>2. HidBad
  BY <1>1, HidThis, HidWrong DEF HidGood
<1>3. UNCHANGED <<hidPos, hidStack, hidGlobals, hidLocal, hidColls, hidGlobal>> /\ hidAt' = "failed"
  BY DEF Hid!Field
<1>4. HidState(hidPos', hidStack', hidGlobals', hidLocal', hidColls')
  BY <1>3 DEF HidInv
<1> QED BY <1>1, <1>2, <1>3, <1>4, HidThis DEF HidAfter

\* What is counted is of the descriptor, which stays.
LEMMA HidStill ==
    ASSUME hidItems' = hidItems
    PROVE  /\ HidDepth' = HidDepth /\ HidKept' = HidKept /\ HidSets' = HidSets
           /\ HidOpened' = HidOpened /\ HidWithin' = HidWithin /\ HidOpen' = HidOpen
           /\ HidInner' = HidInner /\ HidLevel' = HidLevel
           /\ (Len(hidItems))' = Len(hidItems)
<1>1. HidDepth' = HidDepth /\ HidKept' = HidKept /\ HidOpened' = HidOpened
      /\ HidWithin' = HidWithin
  BY DEF HidDepth, HidKept, HidOpened, HidWithin, Hid!Num
<1>2. HidOpen' = HidOpen
  BY DEF HidOpen, Hid!OpenAt, Hid!Num
<1>3. HidInner' = HidInner
  BY DEF HidInner, Hid!OpenAt, Hid!Num
<1>4. HidLevel' = HidLevel
  BY DEF HidLevel, Hid!OpenAt, Hid!Num
<1>5. HidSets' = HidSets
  BY DEF HidSets, Hid!Delims, Hid!Start, Hid!Mains
<1> QED BY <1>1, <1>2, <1>3, <1>4, <1>5

LEMMA StateStill ==
    ASSUME hidItems' = hidItems,
           HidState(hidPos', hidStack', hidGlobals', hidLocal', hidColls')
    PROVE  HidState(hidPos, hidStack, hidGlobals, hidLocal, hidColls)'
<1>1. /\ HidDepth' = HidDepth /\ HidKept' = HidKept /\ HidSets' = HidSets
      /\ HidOpened' = HidOpened /\ HidWithin' = HidWithin /\ HidOpen' = HidOpen
      /\ HidInner' = HidInner /\ HidLevel' = HidLevel
  BY HidStill
<1>2. (/\ hidPos \in 1 .. Len(hidItems) + 1
       /\ hidStack \in Seq(Nat) /\ Len(hidStack) = HidDepth[hidPos - 1]
       /\ Len(hidStack) <= StackSize
       /\ hidGlobals \in Seq(HidGlobs) /\ Len(hidGlobals) = HidKept[hidPos - 1]
       /\ Len(hidGlobals) <= GlobalSize
       /\ hidLocal \in HidLocals /\ hidLocal.depth = HidSets[hidPos - 1]
       /\ hidColls \in Seq(HidCollections) /\ Len(hidColls) = HidOpened[hidPos - 1])'
  BY <1>1 DEF HidState
<1>3. (\A i \in 1 .. hidPos - 1 : HidGood(i))'
  BY <1>1 DEF HidState, HidGood
<1>4. (\E f : HidStacks(f, hidPos, hidStack))'
  BY <1>1 DEF HidState, HidStacks
<1>5. HidUsed(hidLocal.usages)'
  BY <1>1 DEF HidState, HidUsed
<1>6. HidLevelled(hidColls)'
  BY <1>1 DEF HidState, HidLevelled
<1> QED BY <1>2, <1>3, <1>4, <1>5, <1>6 DEF HidState

LEMMA HidNext ==
    ASSUME HidAfter, HidType
    PROVE  HidInv'
<1>1. /\ hidItems' = hidItems /\ hidGlobal' \in HidGlobs
      /\ HidState(hidPos', hidStack', hidGlobals', hidLocal', hidColls')
      /\ hidAt' # "ok"
      /\ hidAt' = "failed" => hidBroken' \/ HidBad
  BY DEF HidAfter
<1>2. HidType'
  BY <1>1 DEF HidType
<1>3. HidState(hidPos, hidStack, hidGlobals, hidLocal, hidColls)'
  BY <1>1, StateStill
<1>4. (hidAt = "failed" => hidBroken \/ HidBad)'
  BY <1>1, HidStill DEF HidBad, HidGood
<1> QED BY <1>1, <1>2, <1>3, <1>4 DEF HidInv

LEMMA HidStep ==
    ASSUME HidParams, HidInv, [Hid!Next]_(Hid!hidVars)
    PROVE  HidInv'
<1>1. CASE Hid!Item
  <2>1. HidTurn
    BY <1>1 DEF Hid!Item, HidTurn
  <2>2. HidAfter
    BY <1>1, <2>1, HidOpens, HidCloses, HidField, HidGlobalItem, HidDelims, HidUsages
       DEF Hid!Item
  <2>3. HidType
    BY DEF HidInv
  <2> QED BY <2>2, <2>3, HidNext
<1>2. CASE Hid!Scan \/ Hid!End \/ UNCHANGED Hid!hidVars
  <2>1. /\ UNCHANGED <<hidItems, hidPos, hidStack, hidColls, hidGlobal, hidGlobals, hidLocal,
                       hidBroken>>
        /\ \/ hidAt' = hidAt
           \/ hidAt' = "parse"
           \/ Hid!End
    BY <1>2 DEF Hid!Scan, Hid!End, Hid!hidVars
  <2>2. HidType' /\ (hidGlobal \in HidGlobs)'
    BY <2>1 DEF HidInv, HidType
  <2>3. HidState(hidPos, hidStack, hidGlobals, hidLocal, hidColls)'
    <3>1. HidState(hidPos', hidStack', hidGlobals', hidLocal', hidColls')
      BY <2>1 DEF HidInv
    <3> QED BY <2>1, <3>1, StateStill
  <2> DEFINE N == Len(hidItems)
  <2>4. ASSUME hidAt' = "ok"
        PROVE  (\A i \in 1 .. N : HidGood(i)) /\ HidDepth[N] = 0 /\ HidSets[N] = 0
    <3>1. CASE hidAt = "ok"
      BY <3>1 DEF HidInv
    <3>2. CASE Hid!End /\ hidStack = <<>> /\ hidLocal.depth = 0
      <4>1. hidPos > N /\ hidPos \in 1 .. N + 1 /\ N \in Nat
        BY <3>2 DEF Hid!End, Hid!Done, HidInv, HidState, HidType
      <4>2. hidPos - 1 = N
        BY <4>1
      <4>3. Len(hidStack) = 0
        BY <3>2
      <4> QED BY <3>2, <4>2, <4>3 DEF HidInv, HidState
    <3> QED BY <2>1, <2>4, <3>1, <3>2 DEF Hid!End
  <2>5. ASSUME hidAt' = "failed" PROVE hidBroken \/ HidBad
    <3>1. CASE hidAt = "failed"
      BY <3>1 DEF HidInv
    <3>2. CASE Hid!End /\ (hidStack # <<>> \/ hidLocal.depth # 0)
      <4>1. hidPos > N /\ hidPos \in 1 .. N + 1 /\ N \in Nat /\ hidStack \in Seq(Nat)
        BY <3>2 DEF Hid!End, Hid!Done, HidInv, HidState, HidType
      <4>2. hidPos - 1 = N
        BY <4>1
      <4>3. hidStack # <<>> => Len(hidStack) # 0
        BY <4>1
      <4>4. HidDepth[N] # 0 \/ HidSets[N] # 0
        BY <3>2, <4>2, <4>3 DEF HidInv, HidState
      <4> QED BY <4>4 DEF HidBad
    <3> QED BY <2>1, <2>5, <3>1, <3>2 DEF Hid!End
  <2>6. (hidAt = "ok" => /\ \A i \in 1 .. Len(hidItems) : HidGood(i)
                         /\ HidDepth[Len(hidItems)] = 0 /\ HidSets[Len(hidItems)] = 0)'
    BY <2>1, <2>4, HidStill DEF HidGood
  <2>7. (hidAt = "failed" => hidBroken \/ HidBad)'
    BY <2>1, <2>5, HidStill DEF HidBad, HidGood
  <2> QED BY <2>2, <2>3, <2>6, <2>7 DEF HidInv
<1> QED BY <1>1, <1>2 DEF Hid!Next

LEMMA HidFirst ==
    ASSUME HidParams, Hid!Init
    PROVE  HidInv
<1>1. hidItems \in Seq(HidItems) /\ Len(hidItems) \in Nat \ {0}
  <2>1. PICK k \in 1 .. MaxItems : hidItems \in [1 .. k -> HidItems]
    BY DEF Hid!Init
  <2>2. k \in Nat /\ k # 0
    BY DEF HidParams
  <2> QED BY <2>1, <2>2
<1>2. HidType /\ 1 \in 1 .. Len(hidItems)
  BY <1>1 DEF HidType
<1>3. /\ hidPos = 1 /\ hidAt = "scan" /\ hidStack = <<>> /\ hidColls = <<>>
      /\ hidGlobals = <<>> /\ hidLocal = Hid!NoLocal
      /\ hidGlobal = [page |-> 0, count |-> 0]
  BY DEF Hid!Init
<1>4. hidGlobal \in HidGlobs
  BY <1>3 DEF HidGlobs, HidVals
<1>5. HidDepth[0] = 0 /\ HidKept[0] = 0 /\ HidOpened[0] = 0 /\ HidSets[0] = 0 /\ HidOpen[1] = {}
  BY <1>2, DepthStep, SetsStep, OpenStep
<1> DEFINE none == <<>>
<1>6. \A S : none \in Seq(S)
  OBVIOUS
<1>7. Len(none) = 0 /\ 1 .. Len(none) = {}
  OBVIOUS
<1> HIDE DEF none
<1>8. HidStacks([k \in {} |-> 0], 1, none)
  <2>1. [k \in {} |-> 0] \in [{} -> 1 .. 1 - 1]
    OBVIOUS
  <2> QED BY <1>5, <1>7, <2>1 DEF HidStacks
<1>9. HidLevelled(none)
  BY <1>7 DEF HidLevelled
<1>10. HidState(1, none, none, Hid!NoLocal, none)
  <2>1. 1 - 1 = 0 /\ 1 .. 1 - 1 = {} /\ 1 \in 1 .. Len(hidItems) + 1 /\ 1 .. 0 = {}
    BY <1>1
  <2>2. Len(none) <= StackSize /\ Len(none) <= GlobalSize
    BY <1>7 DEF HidParams
  <2> QED BY <1>5, <1>6, <1>7, <1>8, <1>9, <2>1, <2>2, NoneLocal DEF HidState
<1> QED BY <1>2, <1>3, <1>4, <1>10 DEF HidInv, none

LEMMA HidHolds ==
    ASSUME HidParams, HidInv
    PROVE  Hid!AcceptedNested /\ Hid!UsageOwned
<1> DEFINE N == Len(hidItems)
<1>1. HidType /\ N \in Nat /\ DOMAIN hidItems = 1 .. N
  BY DEF HidInv, HidType
<1>2. \A i \in 0 .. N : /\ HidDepth[i] = Hid!Num("open", 1, i) - Hid!Num("close", 1, i)
                        /\ HidKept[i] = Hid!Num("push", 1, i) - Hid!Num("pop", 1, i)
                        /\ HidSets[i] = Hid!Delims(i, 1) - Hid!Delims(i, 0)
  BY ZenonT(20) DEF HidDepth, HidKept, HidSets
<1>3. \A i \in 1 .. N : HidGood(i) <=>
        /\ Hid!Num("open", 1, i) - Hid!Num("close", 1, i) \in 0 .. StackSize
        /\ Hid!Num("push", 1, i) - Hid!Num("pop", 1, i) \in 0 .. GlobalSize
        /\ Hid!Delims(i, 1) - Hid!Delims(i, 0) \in {0, 1}
        /\ hidItems[i].t \notin {"field", "long"}
  <2> SUFFICES ASSUME NEW i \in 1 .. N
               PROVE  HidGood(i) <=>
        /\ Hid!Num("open", 1, i) - Hid!Num("close", 1, i) \in 0 .. StackSize
        /\ Hid!Num("push", 1, i) - Hid!Num("pop", 1, i) \in 0 .. GlobalSize
        /\ Hid!Delims(i, 1) - Hid!Delims(i, 0) \in {0, 1}
        /\ hidItems[i].t \notin {"field", "long"}
    OBVIOUS
  <2>1. i \in 0 .. N
    BY <1>1
  <2> HIDE DEF N
  <2> QED BY <1>2, <2>1, ZenonT(20) DEF HidGood
<1>4. 0 .. 1 = {0, 1}
  OBVIOUS
<1>5. /\ Hid!Num("open", 1, N) \in Nat /\ Hid!Num("close", 1, N) \in Nat
      /\ Hid!Delims(N, 1) \in Nat /\ Hid!Delims(N, 0) \in Nat
  <2> DEFINE one == 1
  <2>1. one \in Nat
    OBVIOUS
  <2> HIDE DEF one, N
  <2>2. \A type : Hid!Num(type, one, N) \in Nat
    BY <1>1, <2>1, NumStep
  <2>3. \A v : Hid!Delims(N, v) \in Nat
    BY <1>1, DelimsCounted DEF N
  <2> QED BY <2>2, <2>3 DEF one
<1>6. HidDepth[N] = 0 <=> Hid!Num("open", 1, N) = Hid!Num("close", 1, N)
  <2>1. HidDepth[N] = Hid!Num("open", 1, N) - Hid!Num("close", 1, N)
    BY <1>1, <1>2
  <2> QED BY <1>5, <2>1
<1>7. HidSets[N] = 0 <=> Hid!Delims(N, 1) = Hid!Delims(N, 0)
  <2>1. HidSets[N] = Hid!Delims(N, 1) - Hid!Delims(N, 0)
    BY <1>1, <1>2
  <2> QED BY <1>5, <2>1
<1> HIDE DEF N
<1>8. ASSUME hidAt = "ok" PROVE Hid!Nested /\ ~Hid!Refused
  <2>1. (\A i \in 1 .. N : HidGood(i)) /\ HidDepth[N] = 0 /\ HidSets[N] = 0
    BY <1>8 DEF HidInv, N
  <2>2. ~Hid!Refused
    BY <1>1, <1>3, <2>1 DEF Hid!Refused
  <2>3. Hid!Nested
    BY <1>1, <1>3, <1>4, <1>6, <1>7, <2>1 DEF Hid!Nested, N
  <2> QED BY <2>2, <2>3
<1>9. ASSUME hidAt = "failed", Hid!Nested, ~hidBroken
      PROVE  Hid!Refused \/ \E i \in DOMAIN hidItems : hidItems[i].t \in {"usage", "upto", "count"}
  <2>1. HidBad
    BY <1>9 DEF HidInv
  <2>2. HidDepth[N] = 0 /\ HidSets[N] = 0
    BY <1>6, <1>7, <1>9 DEF Hid!Nested, N
  <2>3. PICK i \in 1 .. N : ~HidGood(i) \/ hidItems[i].t \in {"usage", "upto", "count"}
    BY <2>1, <2>2 DEF HidBad, N
  <2>4. /\ Hid!Num("open", 1, i) - Hid!Num("close", 1, i) \in 0 .. StackSize
        /\ Hid!Num("push", 1, i) - Hid!Num("pop", 1, i) \in 0 .. GlobalSize
        /\ Hid!Delims(i, 1) - Hid!Delims(i, 0) \in {0, 1}
    BY <1>1, <1>4, <1>9 DEF Hid!Nested
  <2>5. hidItems[i].t \in {"usage", "upto", "count", "field", "long"}
    BY <1>3, <2>3, <2>4
  <2> QED BY <1>1, <2>5 DEF Hid!Refused
<1>10. Hid!UsageOwned
  <2>1. /\ hidLocal \in HidLocals /\ hidColls \in Seq(HidCollections)
        /\ HidUsed(hidLocal.usages) /\ HidLevelled(hidColls)
    BY DEF HidInv, HidState
  <2>2. hidLocal.usages \in Seq(HidUses)
    BY <2>1 DEF HidLocals
  <2>3. ASSUME NEW k \in DOMAIN hidLocal.usages
        PROVE  hidLocal.usages[k].in = IF Hid!OpenAt(hidLocal.usages[k].pos) = {} THEN 0
                 ELSE Hid!Num("open", 1, Hid!Max(Hid!OpenAt(hidLocal.usages[k].pos)))
    <3>1. k \in 1 .. Len(hidLocal.usages)
      BY <2>2
    <3> DEFINE q == hidLocal.usages[k].pos
    <3>2. q \in 1 .. Len(hidItems) + 1 /\ hidLocal.usages[k].in = HidInner[q]
      BY <2>1, <3>1 DEF HidUsed
    <3> QED BY <3>2 DEF HidInner
  <2>4. ASSUME NEW k \in DOMAIN hidColls
        PROVE  hidColls[k].level = Hid!Cardinality(Hid!OpenAt(
                 CHOOSE i \in DOMAIN hidItems : hidItems[i].t = "open" /\ Hid!Num("open", 1, i) = k))
    <3>1. k \in 1 .. Len(hidColls) /\ k \in Nat
      BY <2>1
    <3>2. hidColls[k].level = HidLevel[k]
      BY <2>1, <3>1 DEF HidLevelled
    <3> QED BY <3>1, <3>2 DEF HidLevel
  <2> QED BY <2>3, <2>4 DEF Hid!UsageOwned
<1> QED BY <1>8, <1>9, <1>10 DEF Hid!AcceptedNested

\* A report descriptor (usbh_hid_report.c), for any items in any order: it is accepted
\* only if its collections, its globals and its sets of usages are nested, it is refused
\* only if they are not, for what the parser does not take or for memory, and a usage is
\* put in the collection that is open at its item.
THEOREM HidNested ==
    ASSUME HidParams
    PROVE  Hid!Spec => [](Hid!AcceptedNested /\ Hid!UsageOwned)
<1>1. Hid!Init => HidInv
  BY HidFirst
<1>2. HidInv /\ [Hid!Next]_(Hid!hidVars) => HidInv'
  BY HidStep
<1>3. HidInv => Hid!AcceptedNested /\ Hid!UsageOwned
  BY HidHolds
<1> QED BY <1>1, <1>2, <1>3, PTL DEF Hid!Spec
-----------------------------------------------------------------------------
(* The configuration on the host: its interfaces and its endpoints         *)

\* HostCfg
CONSTANTS Configs, MaxEps, Addrs, NoEp
VARIABLES hcCfg, hcAt, hcPos, hcEps, hcList, hcAssoc, hcFuns, hcTable, hcEnabled, hcLeft

Conf == INSTANCE HostCfg WITH
    None <- NoEp, cfg <- hcCfg, at <- hcAt, pos <- hcPos, eps <- hcEps, list <- hcList,
    n_assoc <- hcAssoc, funs <- hcFuns, table <- hcTable, enabled <- hcEnabled,
    left <- hcLeft

ConfDescs ==
    [k : {"assoc"}, first : Nat, n : Nat] \cup [k : {"intf"}, num : Nat, alt : Nat, eps : Nat]
    \cup [k : {"ep"}, addr : Addrs] \cup [k : {"other"}]
ConfParams ==
    /\ MaxEps \in Nat /\ NoEp \notin Nat \ {0}
    /\ \A c \in Configs : c.num \in 0 .. 255 /\ c.desc \in Seq(ConfDescs)

ConfN == Len(hcCfg.desc)
\* The interfaces in the functions.
ConfTaken == UNION {hcFuns[j].intfs : j \in DOMAIN hcFuns}

ConfType ==
    /\ hcCfg \in Configs
    /\ hcPos \in 1 .. ConfN + 1
    /\ hcLeft \in BOOLEAN /\ hcAssoc \in Int
    /\ \A p \in DOMAIN hcEps : p \in Conf!Intfs
    /\ \A p \in DOMAIN hcEps : \A q \in hcEps[p] : q \in 1 .. ConfN
    /\ hcFuns \in Seq([first : Nat, n : Nat, intfs : SUBSET Nat])
    /\ hcList \subseteq Conf!Intfs

\* The interfaces that are allocated are listed, or in a function, unless some are lost.
ConfHeld ==
    /\ hcAt = "read" => hcEps = <<>> /\ hcList = {} /\ hcFuns = <<>> /\ hcAssoc = 0 /\ hcPos = 1
    /\ hcAt = "intfs" => /\ hcFuns = <<>>
                         /\ DOMAIN hcEps = {p \in Conf!Intfs : p < hcPos}
                         /\ hcList = DOMAIN hcEps
    /\ hcAt \in {"assoc", "rest", "ready"} => DOMAIN hcEps = Conf!Intfs
    /\ hcAt = "assoc" => \A j \in DOMAIN hcFuns : j > Conf!Assocs => hcFuns[j].intfs = {}
    /\ hcAt = "failed" => hcLeft
    /\ hcAt \in {"assoc", "rest"} /\ ~hcLeft => \A p \in DOMAIN hcEps : p \in hcList \/ p \in ConfTaken
    /\ hcAt \in {"ready", "release"} /\ ~hcLeft => \A p \in DOMAIN hcEps : p \in ConfTaken
    /\ hcAt \in {"destroy", "gone"} /\ ~hcLeft => DOMAIN hcEps = {}

ConfInv == ConfType /\ ConfHeld /\ Conf!TableAlive

LEMMA ConfBasics ==
    ASSUME ConfParams, hcCfg \in Configs
    PROVE  /\ ConfN \in Nat /\ hcCfg.num \in 0 .. 255 /\ hcCfg.desc \in Seq(ConfDescs)
           /\ Conf!Intfs = {p \in 1 .. ConfN : hcCfg.desc[p].k = "intf"}
           /\ Conf!Intfs \subseteq Nat \ {0}
           /\ \A p \in Conf!Intfs : hcCfg.desc[p].num \in Nat /\ hcCfg.desc[p].k = "intf"
           /\ \A p, k : Conf!Is(p, k) <=> p <= ConfN /\ hcCfg.desc[p].k = k
           /\ \A p : Conf!D(p) = hcCfg.desc[p]
           /\ Conf!Len0 = ConfN
<1>1. hcCfg.desc \in Seq(ConfDescs) /\ hcCfg.num \in 0 .. 255
  BY DEF ConfParams
<1>2. ConfN \in Nat /\ Conf!Len0 = ConfN
  BY <1>1 DEF ConfN, Conf!Len0
<1>3. /\ \A p, k : Conf!Is(p, k) <=> p <= ConfN /\ hcCfg.desc[p].k = k
      /\ \A p : Conf!D(p) = hcCfg.desc[p]
  BY DEF Conf!Is, Conf!D, Conf!Len0, ConfN
<1>4. Conf!Intfs = {p \in 1 .. ConfN : hcCfg.desc[p].k = "intf"}
  <2>1. \A p \in 1 .. ConfN : p <= ConfN
    BY <1>2
  <2> QED BY <1>2, <1>3, <2>1 DEF Conf!Intfs
<1>5. \A p \in 1 .. ConfN : hcCfg.desc[p] \in ConfDescs
  BY <1>1 DEF ConfN
<1>6. \A p \in Conf!Intfs : hcCfg.desc[p].num \in Nat /\ hcCfg.desc[p].k = "intf"
  BY <1>4, <1>5 DEF ConfDescs
<1>7. Conf!Intfs \subseteq Nat \ {0}
  BY <1>2, <1>4
<1> QED BY <1>1, <1>2, <1>3, <1>4, <1>6, <1>7

\* The greatest and the least of finitely many numbers.
LEMMA ConfMost ==
    ASSUME NEW S, NEW n \in Nat, S \subseteq 0 .. n, S # {}
    PROVE  /\ Conf!Max(S) \in S /\ \A x \in S : x <= Conf!Max(S)
           /\ Conf!Min(S) \in S /\ \A x \in S : Conf!Min(S) <= x
<1> DEFINE T == {j \in Nat : \A x \in S : x <= j}
<1>1. n \in T /\ T \subseteq Nat
  OBVIOUS
<1>2. \A x \in S : x \in Nat
  OBVIOUS
<1>3. \E m \in S : \A x \in S : m >= x
  <2>1. T # {}
    BY <1>1
  <2> HIDE DEF T
  <2>2. PICK m \in T : \A k \in T : m <= k
    BY <1>1, <2>1, Least
  <2> USE DEF T
  <2>3. m \in S
    <3>1. SUFFICES ASSUME m \notin S PROVE FALSE
      OBVIOUS
    <3>2. m \in Nat /\ \A x \in S : x <= m /\ x # m /\ x \in Nat
      BY <1>2, <2>2, <3>1
    <3>3. PICK y \in S : TRUE
      OBVIOUS
    <3>4. m # 0
      BY <3>2, <3>3
    <3>5. m - 1 \in T
      BY <3>2, <3>4
    <3> QED BY <2>2, <3>2, <3>5
  <2>4. \A x \in S : m >= x
    BY <1>2, <2>2
  <2> QED BY <2>3, <2>4
<1>4. \E m \in S : \A x \in S : m <= x
  BY <1>2, Least
<1>5. Conf!Max(S) \in S /\ \A x \in S : Conf!Max(S) >= x
  BY <1>3 DEF Conf!Max
<1>6. Conf!Min(S) \in S /\ \A x \in S : Conf!Min(S) <= x
  BY <1>4 DEF Conf!Min
<1>7. \A x \in S : x <= Conf!Max(S)
  BY <1>2, <1>5
<1> QED BY <1>5, <1>6, <1>7

\* The endpoint that LastOf finds is one of the interfaces, at that address.
LEMMA LastFound ==
    ASSUME ConfParams, hcCfg \in Configs, NEW a, NEW S \in SUBSET DOMAIN hcEps,
           \A p \in DOMAIN hcEps : \A q \in hcEps[p] : q \in 1 .. ConfN
    PROVE  /\ Conf!LastOf(a, S) # NoEp =>
                /\ hcCfg.desc[Conf!LastOf(a, S)].addr = a
                /\ \E p \in S : Conf!LastOf(a, S) \in hcEps[p]
           /\ Conf!LastOf(a, S) = NoEp =>
                \A p \in S : \A q \in hcEps[p] : hcCfg.desc[q].addr # a
<1> DEFINE c == {q \in UNION {hcEps[p] : p \in S} : hcCfg.desc[q].addr = a}
<1>1. Conf!LastOf(a, S) = IF c = {} THEN NoEp ELSE Conf!Max(c)
  BY DEF Conf!LastOf, Conf!D
<1>2. c \subseteq 0 .. ConfN /\ ConfN \in Nat /\ c \subseteq 1 .. ConfN
  <2>1. ConfN \in Nat
    BY ConfBasics
  <2>2. ASSUME NEW q \in c PROVE q \in 1 .. ConfN
    <3>1. PICK p \in S : q \in hcEps[p]
      BY <2>2
    <3>2. p \in DOMAIN hcEps
      OBVIOUS
    <3> QED BY <3>1, <3>2
  <2> HIDE DEF c
  <2> QED BY <2>1, <2>2
<1>3. CASE c = {}
  BY <1>1, <1>3
<1>4. CASE c # {}
  <2>1. \E q \in UNION {hcEps[p] : p \in S} : hcCfg.desc[q].addr = a
    BY <1>4
  <2> DEFINE m == Conf!Max(c)
  <2>2. m \in c
    <3> HIDE DEF c
    <3> QED BY <1>2, <1>4, ConfMost
  <2>3. m \in 1 .. ConfN
    BY <1>2, <2>2
  <2>4. m # NoEp
    BY <1>2, <2>3 DEF ConfParams
  <2>5. Conf!LastOf(a, S) = m
    BY <1>1, <1>4
  <2>6. hcCfg.desc[m].addr = a /\ \E p \in S : m \in hcEps[p]
    BY <2>2
  <2> HIDE DEF m
  <2> QED BY <2>4, <2>5, <2>6
<1> QED BY <1>3, <1>4

\* TableAlive without the operators of the model.
LEMMA TableIs ==
    Conf!TableAlive <=>
        \A a \in DOMAIN hcTable : hcTable[a] # NoEp =>
            /\ hcCfg.desc[hcTable[a]].addr = a
            /\ \E p \in DOMAIN hcEps : hcTable[a] \in hcEps[p]
BY DEF Conf!TableAlive, Conf!D, Conf!Live

\* The parts of the invariant that a step leaves.
LEMMA ConfStill ==
    ASSUME hcCfg' = hcCfg
    PROVE  Conf!Intfs' = Conf!Intfs /\ (ConfN)' = ConfN
BY DEF Conf!Intfs, Conf!Is, Conf!Len0, Conf!D, ConfN

LEMMA ConfFirst ==
    ASSUME ConfParams, Conf!Init
    PROVE  ConfInv
<1>1. /\ hcCfg \in Configs /\ hcAt = "read" /\ hcPos = 1 /\ hcEps = <<>> /\ hcList = {}
      /\ hcAssoc = 0 /\ hcFuns = <<>> /\ hcLeft = FALSE
      /\ hcTable = [a \in Addrs \ {0} |-> NoEp]
  BY DEF Conf!Init
<1>2. ConfN \in Nat
  BY <1>1, ConfBasics
<1>3. DOMAIN hcEps = {}
  BY <1>1
<1>4. ConfType
  <2>1. \A S : <<>> \in Seq(S)
    OBVIOUS
  <2>2. hcPos \in 1 .. ConfN + 1
    BY <1>1, <1>2
  <2>3. hcAssoc \in Int
    BY <1>1
  <2>4. hcFuns \in Seq([first : Nat, n : Nat, intfs : SUBSET Nat])
    BY <1>1, <2>1
  <2>5. hcLeft \in BOOLEAN /\ hcList \subseteq Conf!Intfs
    BY <1>1
  <2> QED BY <1>1, <1>3, <2>2, <2>3, <2>4, <2>5 DEF ConfType
<1>5. ConfHeld
  BY <1>1, <1>3 DEF ConfHeld
<1>6. Conf!TableAlive
  BY <1>1, TableIs
<1> QED BY <1>4, <1>5, <1>6 DEF ConfInv

\* The interfaces one by one.
LEMMA ConfParses ==
    ASSUME ConfParams, ConfInv, Conf!CfgInit \/ Conf!IntfInit \/ Conf!Other
    PROVE  ConfInv'
<1>1. hcCfg' = hcCfg /\ hcCfg \in Configs /\ hcFuns' = hcFuns /\ hcTable' = hcTable
  BY DEF Conf!CfgInit, Conf!IntfInit, Conf!Other, ConfInv, ConfType
<1>2. Conf!Intfs' = Conf!Intfs /\ (ConfN)' = ConfN /\ ConfN \in Nat
  BY <1>1, ConfStill, ConfBasics
<1>3. ConfType /\ ConfHeld /\ Conf!TableAlive
  BY DEF ConfInv
<1>4. CASE Conf!CfgInit
  <2>1. /\ hcAt = "read" /\ UNCHANGED <<hcPos, hcEps, hcList, hcAssoc>>
        /\ \/ hcAt' = "intfs" /\ hcLeft' = hcLeft
           \/ hcAt' = "failed" /\ hcLeft' = TRUE
    BY <1>4 DEF Conf!CfgInit
  <2>2. hcEps = <<>> /\ hcList = {} /\ hcFuns = <<>> /\ hcPos = 1
    BY <1>3, <2>1 DEF ConfHeld
  <2>3. DOMAIN hcEps = {} /\ {p \in Conf!Intfs : p < 1} = {}
    <3>1. \A p \in Conf!Intfs : p \in Nat /\ p # 0
      BY <1>1, ConfBasics
    <3> QED BY <2>2, <3>1
  <2>4. ConfType'
    BY <1>1, <1>2, <1>3, <2>1 DEF ConfType
  <2>5. ConfHeld'
    BY <1>1, <1>2, <2>1, <2>2, <2>3 DEF ConfHeld
  <2>6. Conf!TableAlive'
    BY <1>1, <1>3, <2>1 DEF Conf!TableAlive, Conf!D, Conf!Live
  <2> QED BY <2>4, <2>5, <2>6 DEF ConfInv
<1>5. CASE Conf!Other
  <2>1. /\ hcAt = "intfs" /\ hcAt' = "intfs" /\ UNCHANGED <<hcEps, hcList, hcLeft>>
        /\ hcPos' = hcPos + 1 /\ hcPos <= ConfN /\ hcCfg.desc[hcPos].k # "intf"
    BY <1>1, <1>5, ConfBasics DEF Conf!Other
  <2>2. hcFuns = <<>> /\ DOMAIN hcEps = {p \in Conf!Intfs : p < hcPos} /\ hcList = DOMAIN hcEps
    BY <1>3, <2>1 DEF ConfHeld
  <2>3. hcPos \in 1 .. ConfN /\ hcPos + 1 \in 1 .. ConfN + 1 /\ hcPos \in Nat
    BY <1>2, <1>3, <2>1 DEF ConfType
  <2>4. hcPos \notin Conf!Intfs /\ Conf!Intfs \subseteq Nat
    BY <1>1, <2>1, ConfBasics
  <2>5. {p \in Conf!Intfs : p < hcPos} = {p \in Conf!Intfs : p < hcPos + 1}
    <3>1. \A p \in Conf!Intfs : p < hcPos <=> p < hcPos + 1
      BY <2>3, <2>4
    <3> QED BY <3>1
  <2>6. ConfType'
    <3>1. hcAssoc' = (IF Conf!Is(hcPos, "assoc") THEN hcAssoc + hcCfg.desc[hcPos].n - 1 ELSE hcAssoc)
      BY <1>5 DEF Conf!Other, Conf!D
    <3>2. hcCfg.desc[hcPos] \in ConfDescs
      BY <1>1, <2>3 DEF ConfParams, ConfN
    <3>3. hcCfg.desc[hcPos].k = "assoc" => hcCfg.desc[hcPos].n \in Int
      BY <3>2 DEF ConfDescs
    <3>4. Conf!Is(hcPos, "assoc") => hcCfg.desc[hcPos].k = "assoc"
      BY DEF Conf!Is, Conf!D
    <3>5. hcAssoc' \in Int
      BY <1>3, <3>1, <3>3, <3>4 DEF ConfType
    <3> QED BY <1>1, <1>2, <1>3, <2>1, <2>3, <3>5 DEF ConfType
  <2>7. ConfHeld'
    BY <1>1, <1>2, <2>1, <2>2, <2>5 DEF ConfHeld
  <2>8. Conf!TableAlive'
    BY <1>1, <1>3, <2>1 DEF Conf!TableAlive, Conf!D, Conf!Live
  <2> QED BY <2>6, <2>7, <2>8 DEF ConfInv
<1>6. CASE Conf!IntfInit
  <2>1. /\ hcAt = "intfs" /\ hcPos <= ConfN /\ hcCfg.desc[hcPos].k = "intf"
        /\ \/ /\ hcEps' = [p \in DOMAIN hcEps \cup {hcPos} |->
                            IF p = hcPos THEN Conf!OwnEps(hcPos) ELSE hcEps[p]]
              /\ hcList' = hcList \cup {hcPos} /\ hcPos' = hcPos + 1
              /\ hcAt' = hcAt /\ hcLeft' = hcLeft
           \/ hcAt' = "failed" /\ hcLeft' = TRUE /\ UNCHANGED <<hcEps, hcList, hcPos>>
    BY <1>1, <1>6, ConfBasics DEF Conf!IntfInit, Conf!Live
  <2>2. hcFuns = <<>> /\ DOMAIN hcEps = {p \in Conf!Intfs : p < hcPos} /\ hcList = DOMAIN hcEps
    BY <1>3, <2>1 DEF ConfHeld
  <2>3. hcPos \in 1 .. ConfN /\ hcPos + 1 \in 1 .. ConfN + 1 /\ hcPos \in Nat
    BY <1>2, <1>3, <2>1 DEF ConfType
  <2>4. hcPos \in Conf!Intfs /\ Conf!Intfs \subseteq Nat
    BY <1>1, <2>1, <2>3, ConfBasics
  <2>5. CASE hcAt' = "failed" /\ hcLeft' = TRUE /\ UNCHANGED <<hcEps, hcList, hcPos>>
    <3>1. ConfType'
      BY <1>1, <1>2, <1>3, <1>6, <2>5 DEF ConfType, Conf!IntfInit
    <3>2. ConfHeld'
      BY <2>5 DEF ConfHeld
    <3>3. Conf!TableAlive'
      BY <1>1, <1>3, <2>5 DEF Conf!TableAlive, Conf!D, Conf!Live
    <3> QED BY <3>1, <3>2, <3>3 DEF ConfInv
  <2>6. CASE /\ hcEps' = [p \in DOMAIN hcEps \cup {hcPos} |->
                            IF p = hcPos THEN Conf!OwnEps(hcPos) ELSE hcEps[p]]
             /\ hcList' = hcList \cup {hcPos} /\ hcPos' = hcPos + 1
             /\ hcAt' = hcAt /\ hcLeft' = hcLeft
    <3>1. DOMAIN hcEps' = DOMAIN hcEps \cup {hcPos} /\ hcPos \notin DOMAIN hcEps
      <4>1. ~(hcPos < hcPos)
        BY <2>3
      <4> QED BY <2>2, <2>6, <4>1
    <3>2. hcEps'[hcPos] = Conf!OwnEps(hcPos) /\ \A p \in DOMAIN hcEps : hcEps'[p] = hcEps[p]
      BY <2>6, <3>1
    <3>3. \A q \in Conf!OwnEps(hcPos) : q \in 1 .. ConfN
      <4>1. \A q \in Conf!OwnEps(hcPos) : q \in hcPos + 1 .. Conf!Len0
        BY DEF Conf!OwnEps
      <4>2. Conf!Len0 = ConfN
        BY <1>1, ConfBasics
      <4> QED BY <1>2, <2>3, <4>1, <4>2
    <3>4. \A p \in DOMAIN hcEps' : p \in Conf!Intfs /\ \A q \in hcEps'[p] : q \in 1 .. ConfN
      BY <1>3, <2>4, <3>1, <3>2, <3>3 DEF ConfType
    <3>5. DOMAIN hcEps' = {p \in Conf!Intfs : p < hcPos + 1}
      <4>1. \A p \in Conf!Intfs : p < hcPos + 1 <=> p < hcPos \/ p = hcPos
        BY <2>3, <2>4
      <4> QED BY <2>2, <2>4, <3>1, <4>1
    <3>6. ConfType'
      <4>1. hcList' \subseteq Conf!Intfs
        BY <1>3, <2>4, <2>6 DEF ConfType
      <4>2. hcAssoc' = hcAssoc
        BY <1>6 DEF Conf!IntfInit
      <4> QED BY <1>1, <1>2, <1>3, <2>3, <2>6, <3>4, <4>1, <4>2 DEF ConfType
    <3>7. ConfHeld'
      <4>1. hcList' = DOMAIN hcEps'
        BY <2>2, <2>6, <3>1
      <4> QED BY <1>1, <1>2, <2>1, <2>2, <2>6, <3>5, <4>1 DEF ConfHeld
    <3>8. Conf!TableAlive'
      <4>1. \A q : (\E p \in DOMAIN hcEps : q \in hcEps[p]) => \E p \in DOMAIN hcEps' : q \in hcEps'[p]
        BY <3>1, <3>2
      <4>2. \A a \in DOMAIN hcTable : hcTable[a] # NoEp =>
              /\ hcCfg.desc[hcTable[a]].addr = a
              /\ \E p \in DOMAIN hcEps : hcTable[a] \in hcEps[p]
        BY <1>3, TableIs
      <4> QED BY <1>1, <4>1, <4>2 DEF Conf!TableAlive, Conf!D, Conf!Live
    <3> QED BY <3>6, <3>7, <3>8 DEF ConfInv
  <2> QED BY <2>1, <2>5, <2>6
<1> QED BY <1>4, <1>5, <1>6

\* The associations before a descriptor, and how many they are.
AsSet(c, p) == {q \in 1 .. p - 1 : q <= Len(c.desc) /\ c.desc[q].k = "assoc"}

LEMMA AssocsAre ==
    /\ Conf!Assocs = Cardinality(AsSet(hcCfg, hcPos))
    /\ Conf!Assocs' = Cardinality(AsSet(hcCfg, hcPos)')
<1>1. \A S : Conf!Cardinality(S) = Cardinality(S)
  BY DEF Conf!Cardinality, Conf!IsFiniteSet, Cardinality, IsFiniteSet
<1>2. Conf!Assocs = Conf!Cardinality(AsSet(hcCfg, hcPos))
  BY DEF Conf!Assocs, AsSet, Conf!Is, Conf!Len0, Conf!D
<1>3. Conf!Assocs' = Conf!Cardinality(AsSet(hcCfg, hcPos)')
  BY DEF Conf!Assocs, AsSet, Conf!Is, Conf!Len0, Conf!D
<1> QED BY <1>1, <1>2, <1>3

LEMMA AsStep ==
    ASSUME NEW c, NEW p \in Nat, p # 0
    PROVE  /\ IsFiniteSet(AsSet(c, p)) /\ Cardinality(AsSet(c, p)) \in Nat
           /\ AsSet(c, p) \subseteq 1 .. p - 1
           /\ p <= Len(c.desc) /\ c.desc[p].k = "assoc" =>
                /\ p \notin AsSet(c, p)
                /\ AsSet(c, p + 1) = AsSet(c, p) \cup {p}
                /\ Cardinality(AsSet(c, p + 1)) = Cardinality(AsSet(c, p)) + 1
           /\ ~(p <= Len(c.desc) /\ c.desc[p].k = "assoc") => AsSet(c, p + 1) = AsSet(c, p)
<1>1. 1 .. p = (1 .. p - 1) \cup {p} /\ p \notin 1 .. p - 1
  OBVIOUS
<1>2. IsFiniteSet(AsSet(c, p)) /\ Cardinality(AsSet(c, p)) \in Nat
  <2>1. IsFiniteSet(1 .. p - 1)
    BY FS_Interval
  <2>2. AsSet(c, p) \subseteq 1 .. p - 1
    BY DEF AsSet
  <2> QED BY <2>1, <2>2, FS_Subset, FS_CardinalityType
<1>3. AsSet(c, p) \subseteq 1 .. p - 1
  BY DEF AsSet
<1>4. (p + 1) - 1 = p
  OBVIOUS
<1>5. AsSet(c, p + 1) = {q \in 1 .. p : q <= Len(c.desc) /\ c.desc[q].k = "assoc"}
  BY <1>4 DEF AsSet
<1>6. CASE p <= Len(c.desc) /\ c.desc[p].k = "assoc"
  <2>1. p \notin AsSet(c, p)
    BY <1>1, <1>3
  <2>2. AsSet(c, p + 1) = AsSet(c, p) \cup {p}
    BY <1>1, <1>5, <1>6 DEF AsSet
  <2>3. Cardinality(AsSet(c, p) \cup {p}) = Cardinality(AsSet(c, p)) + 1
    BY <1>2, <2>1, FS_AddElement
  <2> QED BY <1>2, <1>3, <1>6, <2>1, <2>2, <2>3
<1>7. CASE ~(p <= Len(c.desc) /\ c.desc[p].k = "assoc")
  <2>1. AsSet(c, p + 1) = AsSet(c, p)
    BY <1>1, <1>5, <1>7 DEF AsSet
  <2> QED BY <1>2, <1>3, <1>7, <2>1
<1> QED BY <1>6, <1>7

\* The step from the interfaces to the functions.
LEMMA ConfFuns ==
    ASSUME ConfParams, ConfInv, Conf!Funs
    PROVE  ConfInv'
<1>1. /\ hcCfg' = hcCfg /\ hcEps' = hcEps /\ hcList' = hcList /\ hcAssoc' = hcAssoc
      /\ hcAt = "intfs" /\ hcPos > ConfN
  BY DEF Conf!Funs, Conf!Len0, ConfN
<1>2. Conf!Intfs' = Conf!Intfs /\ (ConfN)' = ConfN /\ ConfN \in Nat
  BY <1>1, ConfStill, ConfBasics DEF ConfInv, ConfType
<1>3. ConfType /\ ConfHeld /\ Conf!TableAlive
  BY DEF ConfInv
<1>4. hcFuns = <<>> /\ DOMAIN hcEps = {p \in Conf!Intfs : p < hcPos} /\ hcList = DOMAIN hcEps
  BY <1>1, <1>3 DEF ConfHeld
<1>5. DOMAIN hcEps = Conf!Intfs
  <2>1. Conf!Intfs \subseteq 1 .. ConfN
    BY <1>3, ConfBasics DEF ConfType
  <2>2. \A p \in 1 .. ConfN : p < hcPos
    <3>1. hcPos \in 1 .. ConfN + 1
      BY <1>3 DEF ConfType
    <3>2. ConfN \in Nat /\ hcPos > ConfN
      BY <1>1, <1>2
    <3> QED BY <3>1, <3>2
  <2> QED BY <1>4, <2>1, <2>2
<1>6. Conf!TableAlive'
  <2> DEFINE S == {p \in DOMAIN hcEps : hcCfg.desc[p].alt = 0}
  <2>1. hcTable' = [a \in DOMAIN hcTable |-> Conf!LastOf(a, S)]
    BY DEF Conf!Funs, Conf!Live, Conf!D
  <2>2. S \in SUBSET DOMAIN hcEps
    OBVIOUS
  <2> HIDE DEF S
  <2>3. ASSUME NEW a \in DOMAIN hcTable, Conf!LastOf(a, S) # NoEp
        PROVE  /\ hcCfg.desc[Conf!LastOf(a, S)].addr = a
               /\ \E p \in DOMAIN hcEps : Conf!LastOf(a, S) \in hcEps[p]
    BY <1>3, <2>2, <2>3, LastFound DEF ConfType
  <2> QED BY <1>1, <2>1, <2>3 DEF Conf!TableAlive, Conf!D, Conf!Live
<1>7. CASE hcAt' = "failed" /\ hcLeft' = TRUE /\ UNCHANGED <<hcFuns, hcPos>>
  <2>1. ConfType'
    BY <1>1, <1>2, <1>3, <1>7 DEF ConfType
  <2>2. ConfHeld'
    BY <1>7 DEF ConfHeld
  <2> QED BY <1>6, <2>1, <2>2 DEF ConfInv
<1> DEFINE new == [first |-> 0, n |-> 0, intfs |-> {}]
           m == (hcCfg.num - hcAssoc) % 256
<1>8. CASE hcFuns' = [i \in 1 .. m |-> new] /\ hcAt' = "assoc" /\ hcPos' = 1 /\ hcLeft' = hcLeft
  <2>1. m \in Nat
    <3>1. hcCfg.num - hcAssoc \in Int
      <4>1. hcAssoc \in Int /\ hcCfg.num \in 0 .. 255
        BY <1>3, ConfBasics DEF ConfType
      <4> QED BY <4>1
    <3>2. \A x \in Int : x % 256 \in Nat
      OBVIOUS
    <3> QED BY <3>1, <3>2
  <2>2. new \in [first : Nat, n : Nat, intfs : SUBSET Nat] /\ new.intfs = {}
    OBVIOUS
  <2> HIDE DEF m, new
  <2>3. /\ hcFuns' \in Seq([first : Nat, n : Nat, intfs : SUBSET Nat])
        /\ \A j \in DOMAIN hcFuns' : hcFuns'[j].intfs = {}
    BY <1>8, <2>1, <2>2
  <2>4. ConfType'
    BY <1>1, <1>2, <1>3, <1>8, <2>3 DEF ConfType
  <2>5. ConfHeld'
    BY <1>1, <1>2, <1>4, <1>5, <1>8, <2>3 DEF ConfHeld
  <2> QED BY <1>6, <2>4, <2>5 DEF ConfInv
<1> QED BY <1>7, <1>8 DEF Conf!Funs

\* A function that gets other interfaces keeps the type of the table.
LEMMA FunsTyped ==
    ASSUME NEW f \in Seq([first : Nat, n : Nat, intfs : SUBSET Nat]), NEW j \in DOMAIN f,
           NEW x \in Nat, NEW y \in Nat, NEW s \in SUBSET Nat
    PROVE  LET g == [f EXCEPT ![j] = [first |-> x, n |-> y, intfs |-> s]]
           IN  /\ g \in Seq([first : Nat, n : Nat, intfs : SUBSET Nat])
               /\ DOMAIN g = DOMAIN f /\ Len(g) = Len(f)
               /\ g[j].intfs = s /\ g[j].first = x
               /\ \A i \in DOMAIN f : i # j => g[i] = f[i]
<1> DEFINE new == [first |-> x, n |-> y, intfs |-> s]
           T == [first : Nat, n : Nat, intfs : SUBSET Nat]
           h == [f EXCEPT ![j] = new]
<1>1. new \in T /\ new.intfs = s /\ new.first = x /\ f \in Seq(T)
  OBVIOUS
<1> HIDE DEF new, T
<1>2. h \in Seq(T) /\ DOMAIN h = DOMAIN f /\ Len(h) = Len(f)
  BY <1>1
<1>3. h[j] = new /\ \A i \in DOMAIN f : i # j => h[i] = f[i]
  OBVIOUS
<1> HIDE DEF h
<1>4. h[j].intfs = s /\ h[j].first = x
  BY <1>1, <1>3
<1> QED BY <1>2, <1>3, <1>4 DEF h, new, T

\* What a descriptor of a configuration has.
LEMMA DescHas ==
    ASSUME ConfParams, NEW c \in Configs, NEW p \in 1 .. Len(c.desc)
    PROVE  /\ Len(c.desc) \in Nat
           /\ c.desc[p].k = "assoc" => c.desc[p].first \in Nat /\ c.desc[p].n \in Nat
           /\ c.desc[p].k = "intf" => c.desc[p].num \in Nat
<1>1. c.desc \in Seq(ConfDescs)
  BY DEF ConfParams
<1>2. c.desc[p] \in ConfDescs /\ Len(c.desc) \in Nat
  BY <1>1
<1>3. c.desc[p].k = "assoc" => c.desc[p].first \in Nat /\ c.desc[p].n \in Nat
  BY <1>2 DEF ConfDescs
<1>4. c.desc[p].k = "intf" => c.desc[p].num \in Nat
  BY <1>2 DEF ConfDescs
<1> QED BY <1>2, <1>3, <1>4

\* One association, or the end of them.
LEMMA AssocIs ==
    ASSUME ConfParams, ConfInv, Conf!Assoc
    PROVE  /\ hcAt = "assoc" /\ hcPos \in Nat /\ hcPos # 0
           /\ UNCHANGED <<hcCfg, hcEps, hcAssoc, hcTable, hcEnabled, hcLeft>>
           /\ \/ /\ hcAt' = "rest" /\ UNCHANGED <<hcPos, hcFuns, hcList>>
                 /\ hcPos > ConfN \/ Conf!Assocs >= Len(hcFuns)
              \/ /\ hcAt' = "assoc" /\ hcPos' = hcPos + 1 /\ hcPos <= ConfN
                 /\ hcCfg.desc[hcPos].k # "assoc" /\ UNCHANGED <<hcFuns, hcList>>
              \/ /\ hcAt' = "assoc" /\ hcPos' = hcPos + 1 /\ hcPos <= ConfN
                 /\ hcCfg.desc[hcPos].k = "assoc"
                 /\ Conf!Assocs + 1 \in DOMAIN hcFuns
                 /\ hcFuns' = [hcFuns EXCEPT ![Conf!Assocs + 1] =
                                [first |-> hcCfg.desc[hcPos].first, n |-> hcCfg.desc[hcPos].n,
                                 intfs |-> Conf!Taken(hcCfg.desc[hcPos])]]
                 /\ hcList' = hcList \ Conf!Taken(hcCfg.desc[hcPos])
<1>1. hcPos \in Nat /\ hcPos # 0
  <2>1. hcPos \in 1 .. ConfN + 1
    BY DEF ConfInv, ConfType
  <2> QED BY <2>1
<1>2. /\ ConfN \in Nat /\ Conf!Len0 = ConfN
      /\ \A k : Conf!Is(hcPos, k) <=> hcPos <= ConfN /\ hcCfg.desc[hcPos].k = k
      /\ Conf!D(hcPos) = hcCfg.desc[hcPos]
  BY ConfBasics DEF ConfInv, ConfType
<1>3. Conf!Assocs \in Nat
  BY <1>1, AssocsAre, AsStep
<1>4. Len(hcFuns) \in Nat /\ DOMAIN hcFuns = 1 .. Len(hcFuns)
  <2>1. hcFuns \in Seq([first : Nat, n : Nat, intfs : SUBSET Nat])
    BY DEF ConfInv, ConfType
  <2> QED BY <2>1
<1>5. hcAt = "assoc" /\ UNCHANGED <<hcCfg, hcEps, hcAssoc, hcTable, hcEnabled, hcLeft>>
  BY DEF Conf!Assoc
<1>6. CASE hcPos > ConfN \/ Conf!Assocs >= Len(hcFuns)
  BY <1>1, <1>2, <1>5, <1>6 DEF Conf!Assoc
<1>7. CASE ~(hcPos > ConfN \/ Conf!Assocs >= Len(hcFuns))
  <2>1. hcPos <= ConfN /\ Conf!Assocs + 1 \in DOMAIN hcFuns
    BY <1>1, <1>2, <1>3, <1>4, <1>7
  <2>2. /\ hcPos' = hcPos + 1 /\ hcAt' = hcAt
        /\ IF ~Conf!Is(hcPos, "assoc") THEN UNCHANGED <<hcFuns, hcList>>
           ELSE /\ hcFuns' = [hcFuns EXCEPT ![Conf!Assocs + 1] =
                                [first |-> hcCfg.desc[hcPos].first, n |-> hcCfg.desc[hcPos].n,
                                 intfs |-> Conf!Taken(hcCfg.desc[hcPos])]]
                /\ hcList' = hcList \ Conf!Taken(hcCfg.desc[hcPos])
    BY <1>2, <1>7 DEF Conf!Assoc
  <2> QED BY <1>1, <1>2, <1>5, <2>1, <2>2
<1> QED BY <1>6, <1>7

LEMMA TakenIs ==
    ASSUME NEW d
    PROVE  Conf!Taken(d) = {p \in hcList : /\ hcCfg.desc[p].num >= d.first
                                           /\ hcCfg.desc[p].num < d.first + d.n}
BY DEF Conf!Taken, Conf!D

LEMMA ConfAssocKeeps ==
    ASSUME ConfParams, ConfInv, Conf!Assoc
    PROVE  ConfInv'
<1>1. /\ hcAt = "assoc" /\ hcPos \in Nat /\ hcPos # 0
      /\ UNCHANGED <<hcCfg, hcEps, hcAssoc, hcTable, hcLeft>>
  BY AssocIs
<1>2. Conf!Intfs' = Conf!Intfs /\ (ConfN)' = ConfN /\ ConfN \in Nat
  BY <1>1, ConfStill, ConfBasics DEF ConfInv, ConfType
<1>3. ConfType /\ ConfHeld /\ Conf!TableAlive
  BY DEF ConfInv
<1>4. Conf!TableAlive'
  BY <1>1, <1>3 DEF Conf!TableAlive, Conf!D, Conf!Live
<1>5. /\ DOMAIN hcEps = Conf!Intfs
      /\ \A j \in DOMAIN hcFuns : j > Conf!Assocs => hcFuns[j].intfs = {}
      /\ ~hcLeft => \A p \in DOMAIN hcEps : p \in hcList \/ p \in ConfTaken
  BY <1>1, <1>3 DEF ConfHeld
<1>6. /\ hcFuns \in Seq([first : Nat, n : Nat, intfs : SUBSET Nat])
      /\ hcList \subseteq Conf!Intfs /\ Conf!Intfs \subseteq Nat
  BY <1>3, ConfBasics DEF ConfType
<1>7. Conf!Assocs \in Nat /\ Conf!Assocs' = Cardinality(AsSet(hcCfg, hcPos'))
  BY <1>1, AssocsAre, AsStep
<1>8. CASE hcAt' = "rest" /\ UNCHANGED <<hcPos, hcFuns, hcList>>
  <2>1. ConfType'
    BY <1>1, <1>2, <1>3, <1>8 DEF ConfType
  <2>2. ConfHeld'
    BY <1>1, <1>2, <1>5, <1>8 DEF ConfHeld, ConfTaken
  <2> QED BY <1>4, <2>1, <2>2 DEF ConfInv
<1>9. CASE /\ hcAt' = "assoc" /\ hcPos' = hcPos + 1 /\ hcPos <= ConfN
           /\ hcCfg.desc[hcPos].k # "assoc" /\ UNCHANGED <<hcFuns, hcList>>
  <2>1. hcPos' \in 1 .. ConfN + 1
    BY <1>1, <1>2, <1>9
  <2>2. ConfType'
    BY <1>1, <1>2, <1>3, <1>9, <2>1 DEF ConfType
  <2>3. Conf!Assocs' = Conf!Assocs
    BY <1>1, <1>7, <1>9, AssocsAre, AsStep
  <2>4. ConfHeld'
    BY <1>1, <1>2, <1>5, <1>9, <2>3 DEF ConfHeld, ConfTaken
  <2> QED BY <1>4, <2>2, <2>4 DEF ConfInv
<1>10. CASE /\ hcAt' = "assoc" /\ hcPos' = hcPos + 1 /\ hcPos <= ConfN
            /\ hcCfg.desc[hcPos].k = "assoc"
            /\ Conf!Assocs + 1 \in DOMAIN hcFuns
            /\ hcFuns' = [hcFuns EXCEPT ![Conf!Assocs + 1] =
                           [first |-> hcCfg.desc[hcPos].first, n |-> hcCfg.desc[hcPos].n,
                            intfs |-> Conf!Taken(hcCfg.desc[hcPos])]]
            /\ hcList' = hcList \ Conf!Taken(hcCfg.desc[hcPos])
  <2> DEFINE tk == Conf!Taken(hcCfg.desc[hcPos])
             x == hcCfg.desc[hcPos].first
             y == hcCfg.desc[hcPos].n
             j == Conf!Assocs + 1
  <2>1. tk \subseteq hcList /\ tk \in SUBSET Nat
    <3>1. tk \subseteq hcList
      BY TakenIs
    <3> HIDE DEF tk
    <3> QED BY <1>6, <3>1
  <2>2. hcPos' \in 1 .. ConfN + 1 /\ hcPos \in 1 .. ConfN
    BY <1>1, <1>2, <1>10
  <2>3. x \in Nat /\ y \in Nat
    BY <1>3, <1>10, <2>2, DescHas DEF ConfType, ConfN
  <2>4. j \in DOMAIN hcFuns /\ hcFuns' = [hcFuns EXCEPT ![j] = [first |-> x, n |-> y, intfs |-> tk]]
        /\ hcList' = hcList \ tk
    BY <1>10
  <2>5. Conf!Assocs' = j
    <3>1. hcPos <= Len(hcCfg.desc)
      BY <1>10 DEF ConfN
    <3>2. Cardinality(AsSet(hcCfg, hcPos + 1)) = Cardinality(AsSet(hcCfg, hcPos)) + 1
      BY <1>1, <1>10, <3>1, AsStep
    <3> QED BY <1>7, <1>10, <3>2, AssocsAre
  <2>6. j \in Nat /\ j > Conf!Assocs
    BY <1>7
  <2> HIDE DEF tk, x, y, j
  <2>7. /\ hcFuns' \in Seq([first : Nat, n : Nat, intfs : SUBSET Nat])
        /\ DOMAIN hcFuns' = DOMAIN hcFuns /\ hcFuns'[j].intfs = tk
        /\ \A i \in DOMAIN hcFuns : i # j => hcFuns'[i] = hcFuns[i]
    BY <1>6, <2>1, <2>3, <2>4, FunsTyped
  <2>8. hcList' \subseteq Conf!Intfs
    BY <1>6, <2>4
  <2>9. ConfType'
    BY <1>1, <1>2, <1>3, <2>2, <2>7, <2>8 DEF ConfType
  <2>10. ASSUME NEW i \in DOMAIN hcFuns', i > Conf!Assocs'
         PROVE  hcFuns'[i].intfs = {}
    <3>1. i \in Nat
      BY <1>6, <2>7
    <3>2. i # j /\ i > Conf!Assocs
      BY <2>5, <2>6, <2>10, <3>1, <1>7
    <3> QED BY <1>5, <2>7, <3>2
  <2>11. ASSUME NEW p \in DOMAIN hcEps, ~hcLeft
         PROVE  p \in hcList' \/ p \in (ConfTaken)'
    <3>1. p \in hcList \/ p \in ConfTaken
      BY <1>5, <2>11
    <3>2. CASE p \in hcList
      <4>1. p \in tk => p \in (ConfTaken)'
        BY <2>4, <2>7 DEF ConfTaken
      <4> QED BY <2>4, <3>2, <4>1
    <3>3. CASE p \in ConfTaken
      <4>1. PICK i \in DOMAIN hcFuns : p \in hcFuns[i].intfs
        BY <3>3 DEF ConfTaken
      <4>2. i # j
        BY <1>5, <2>4, <2>6, <4>1
      <4> QED BY <2>7, <4>1, <4>2 DEF ConfTaken
    <3> QED BY <3>1, <3>2, <3>3
  <2>12. ConfHeld'
    BY <1>1, <1>2, <1>5, <1>10, <2>10, <2>11 DEF ConfHeld
  <2> QED BY <1>4, <2>9, <2>12 DEF ConfInv
<1> QED BY <1>8, <1>9, <1>10, AssocIs

\* The functions that an interface may join.
MayJoin(f, a, x) == {j \in a + 1 .. Len(f) : f[j].intfs = {} \/ f[j].first = x}

\* An interface that is in no association.
LEMMA RestIs ==
    ASSUME ConfParams, ConfInv, Conf!Rest
    PROVE  /\ hcAt = "rest"
           /\ UNCHANGED <<hcCfg, hcPos, hcEps, hcAssoc, hcTable, hcEnabled>>
           /\ \/ hcList = {} /\ hcAt' = "ready" /\ UNCHANGED <<hcFuns, hcList, hcLeft>>
              \/ \E p \in hcList :
                   /\ hcAt' = "rest" /\ hcList' = hcList \ {p}
                   /\ \/ /\ MayJoin(hcFuns, Conf!Assocs, hcCfg.desc[p].num) = {}
                         /\ hcFuns' = hcFuns /\ hcLeft' = TRUE
                      \/ \E j \in MayJoin(hcFuns, Conf!Assocs, hcCfg.desc[p].num) :
                           /\ \A i \in MayJoin(hcFuns, Conf!Assocs, hcCfg.desc[p].num) : j <= i
                           /\ j \in DOMAIN hcFuns /\ hcLeft' = hcLeft
                           /\ hcFuns' = [hcFuns EXCEPT ![j] =
                                [first |-> hcCfg.desc[p].num, n |-> 1,
                                 intfs |-> hcFuns[j].intfs \cup {p}]]
<1>1. hcAt = "rest" /\ UNCHANGED <<hcCfg, hcPos, hcEps, hcAssoc, hcTable, hcEnabled>>
  BY DEF Conf!Rest
<1>2. CASE hcList = {}
  <2>1. hcAt' = "ready" /\ UNCHANGED <<hcFuns, hcList, hcLeft>>
    BY <1>2 DEF Conf!Rest
  <2> QED BY <1>1, <1>2, <2>1
<1>3. CASE hcList # {}
  <2> DEFINE p == Conf!Min(hcList)
             may == MayJoin(hcFuns, Conf!Assocs, hcCfg.desc[p].num)
  <2>1. p \in hcList
    <3>1. hcList \subseteq Conf!Intfs /\ Conf!Intfs \subseteq 1 .. ConfN /\ ConfN \in Nat
      BY ConfBasics DEF ConfInv, ConfType
    <3>2. hcList \subseteq 0 .. ConfN
      <4>1. \A q \in 1 .. ConfN : q \in 0 .. ConfN
        BY <3>1
      <4> QED BY <3>1, <4>1
    <3> QED BY <1>3, <3>1, <3>2, ConfMost
  <2>2. may = {j \in Conf!Assocs + 1 .. Len(hcFuns) :
                 hcFuns[j].intfs = {} \/ hcFuns[j].first = Conf!D(p).num}
    BY DEF MayJoin, Conf!D
  <2>3. /\ hcFuns' = IF may = {} THEN hcFuns
                     ELSE [hcFuns EXCEPT ![Conf!Min(may)] =
                            [first |-> Conf!D(p).num, n |-> 1, intfs |-> @.intfs \cup {p}]]
        /\ hcLeft' = (hcLeft \/ may = {})
        /\ hcList' = hcList \ {p} /\ hcAt' = hcAt
    BY <1>3, <2>2 DEF Conf!Rest
  <2>4. CASE may = {}
    <3>1. hcLeft' = TRUE
      BY <2>3, <2>4
    <3>2. hcFuns' = hcFuns /\ hcList' = hcList \ {p} /\ hcAt' = "rest"
      BY <1>1, <2>3, <2>4
    <3> HIDE DEF p
    <3> QED BY <1>1, <2>1, <2>4, <3>1, <3>2
  <2>5. CASE may # {}
    <3> DEFINE j == Conf!Min(may)
    <3>1. hcFuns \in Seq([first : Nat, n : Nat, intfs : SUBSET Nat])
      BY DEF ConfInv, ConfType
    <3>2. Conf!Assocs \in Nat
      <4>1. hcPos \in 1 .. ConfN + 1
        BY DEF ConfInv, ConfType
      <4>2. hcPos \in Nat /\ hcPos # 0
        BY <4>1
      <4> QED BY <4>2, AssocsAre, AsStep
    <3>3. DOMAIN hcFuns = 1 .. Len(hcFuns) /\ Len(hcFuns) \in Nat
      BY <3>1
    <3>4. may \subseteq 0 .. Len(hcFuns) /\ may \subseteq DOMAIN hcFuns
      <4>1. \A i \in Conf!Assocs + 1 .. Len(hcFuns) : i \in 0 .. Len(hcFuns) /\ i \in 1 .. Len(hcFuns)
        BY <3>2, <3>3
      <4>2. may \subseteq Conf!Assocs + 1 .. Len(hcFuns)
        BY DEF MayJoin
      <4> QED BY <3>3, <4>1, <4>2
    <3> HIDE DEF may
    <3>5. j \in may /\ \A i \in may : j <= i
      BY <2>5, <3>3, <3>4, ConfMost
    <3>6. hcLeft' = hcLeft
      BY <2>3, <2>5 DEF ConfInv, ConfType
    <3>7. hcFuns' = [hcFuns EXCEPT ![j] = [first |-> hcCfg.desc[p].num, n |-> 1,
                                           intfs |-> hcFuns[j].intfs \cup {p}]]
      <4>1. hcFuns' = [hcFuns EXCEPT ![j] = [first |-> Conf!D(p).num, n |-> 1,
                                             intfs |-> @.intfs \cup {p}]]
        BY <2>3, <2>5
      <4>2. Conf!D(p) = hcCfg.desc[p]
        BY DEF Conf!D
      <4> HIDE DEF j, p
      <4> QED BY <3>4, <3>5, <4>1, <4>2
    <3>8. j \in DOMAIN hcFuns
      BY <3>4, <3>5
    <3> HIDE DEF j
    <3>9. \E i \in may : /\ \A k \in may : i <= k
                         /\ i \in DOMAIN hcFuns /\ hcLeft' = hcLeft
                         /\ hcFuns' = [hcFuns EXCEPT ![i] =
                                [first |-> hcCfg.desc[p].num, n |-> 1,
                                 intfs |-> hcFuns[i].intfs \cup {p}]]
      BY <3>5, <3>6, <3>7, <3>8
    <3> USE DEF may
    <3>10. hcAt' = "rest" /\ hcList' = hcList \ {p}
      BY <1>1, <2>3
    <3> HIDE DEF p
    <3> QED BY <1>1, <2>1, <3>9, <3>10
  <2> QED BY <2>4, <2>5
<1> QED BY <1>2, <1>3

LEMMA ConfRestKeeps ==
    ASSUME ConfParams, ConfInv, Conf!Rest
    PROVE  ConfInv'
<1>1. hcAt = "rest" /\ UNCHANGED <<hcCfg, hcPos, hcEps, hcAssoc, hcTable>>
  BY RestIs
<1>2. Conf!Intfs' = Conf!Intfs /\ (ConfN)' = ConfN /\ ConfN \in Nat
  BY <1>1, ConfStill, ConfBasics DEF ConfInv, ConfType
<1>3. ConfType /\ ConfHeld /\ Conf!TableAlive
  BY DEF ConfInv
<1>4. Conf!TableAlive'
  BY <1>1, <1>3 DEF Conf!TableAlive, Conf!D, Conf!Live
<1>5. /\ DOMAIN hcEps = Conf!Intfs
      /\ ~hcLeft => \A p \in DOMAIN hcEps : p \in hcList \/ p \in ConfTaken
  BY <1>1, <1>3 DEF ConfHeld
<1>6. /\ hcFuns \in Seq([first : Nat, n : Nat, intfs : SUBSET Nat])
      /\ hcList \subseteq Conf!Intfs /\ Conf!Intfs \subseteq Nat
      /\ \A p \in Conf!Intfs : hcCfg.desc[p].num \in Nat
  BY <1>3, ConfBasics DEF ConfType
<1>7. CASE hcList = {} /\ hcAt' = "ready" /\ UNCHANGED <<hcFuns, hcList, hcLeft>>
  <2>1. ConfType'
    BY <1>1, <1>2, <1>3, <1>7 DEF ConfType
  <2>2. ConfHeld'
    BY <1>1, <1>2, <1>5, <1>7 DEF ConfHeld, ConfTaken
  <2> QED BY <1>4, <2>1, <2>2 DEF ConfInv
<1>8. ASSUME NEW p \in hcList, hcAt' = "rest", hcList' = hcList \ {p},
             MayJoin(hcFuns, Conf!Assocs, hcCfg.desc[p].num) = {}, hcFuns' = hcFuns, hcLeft' = TRUE
      PROVE  ConfInv'
  <2>1. hcList' \subseteq Conf!Intfs
    BY <1>6, <1>8
  <2>2. hcLeft' \in BOOLEAN
    BY <1>8
  <2>3. ConfType'
    BY <1>1, <1>2, <1>3, <1>8, <2>1, <2>2 DEF ConfType
  <2>4. ConfHeld'
    <3>1. hcLeft' /\ hcAt' = "rest"
      BY <1>8
    <3>2. DOMAIN hcEps' = Conf!Intfs'
      BY <1>1, <1>2, <1>5
    <3> QED BY <3>1, <3>2 DEF ConfHeld
  <2> QED BY <1>4, <2>3, <2>4 DEF ConfInv
<1>9. ASSUME NEW p \in hcList, hcAt' = "rest", hcList' = hcList \ {p},
             NEW j \in DOMAIN hcFuns, hcLeft' = hcLeft,
             hcFuns' = [hcFuns EXCEPT ![j] = [first |-> hcCfg.desc[p].num, n |-> 1,
                                              intfs |-> hcFuns[j].intfs \cup {p}]]
      PROVE  ConfInv'
  <2> DEFINE x == hcCfg.desc[p].num
             one == 1
             s == hcFuns[j].intfs \cup {p}
  <2>1. x \in Nat /\ one \in Nat /\ s \in SUBSET Nat
    <3>1. hcFuns[j] \in [first : Nat, n : Nat, intfs : SUBSET Nat]
      <4>1. \A T : hcFuns \in Seq(T) => hcFuns[j] \in T
        OBVIOUS
      <4> QED BY <1>6, <4>1
    <3>2. hcFuns[j].intfs \in SUBSET Nat
      BY <3>1
    <3>3. p \in Nat /\ x \in Nat
      BY <1>6
    <3>4. one \in Nat
      OBVIOUS
    <3> HIDE DEF x, one
    <3> QED BY <3>2, <3>3, <3>4
  <2>2. hcFuns' = [hcFuns EXCEPT ![j] = [first |-> x, n |-> one, intfs |-> s]]
    BY <1>9
  <2>3. p \in s /\ hcFuns[j].intfs \subseteq s
    OBVIOUS
  <2> HIDE DEF x, one, s
  <2>4. /\ hcFuns' \in Seq([first : Nat, n : Nat, intfs : SUBSET Nat])
        /\ DOMAIN hcFuns' = DOMAIN hcFuns /\ hcFuns'[j].intfs = s
        /\ \A i \in DOMAIN hcFuns : i # j => hcFuns'[i] = hcFuns[i]
    BY <1>6, <2>1, <2>2, FunsTyped
  <2>5. hcList' \subseteq Conf!Intfs
    BY <1>6, <1>9
  <2>6. ConfType'
    BY <1>1, <1>2, <1>3, <1>9, <2>4, <2>5 DEF ConfType
  <2>7. ASSUME NEW o \in DOMAIN hcEps, ~hcLeft
        PROVE  o \in hcList' \/ o \in (ConfTaken)'
    <3>1. o \in hcList \/ o \in ConfTaken
      BY <1>5, <2>7
    <3>2. o = p => o \in (ConfTaken)'
      BY <2>3, <2>4 DEF ConfTaken
    <3>3. o \in ConfTaken => o \in (ConfTaken)'
      <4>1. SUFFICES ASSUME NEW i \in DOMAIN hcFuns, o \in hcFuns[i].intfs PROVE o \in (ConfTaken)'
        BY DEF ConfTaken
      <4>2. o \in hcFuns'[i].intfs
        BY <2>3, <2>4, <4>1
      <4> QED BY <2>4, <4>2 DEF ConfTaken
    <3> QED BY <1>9, <3>1, <3>2, <3>3
  <2>8. ConfHeld'
    BY <1>1, <1>2, <1>5, <1>9, <2>7 DEF ConfHeld
  <2> QED BY <1>4, <2>6, <2>8 DEF ConfInv
<1> QED BY <1>7, <1>8, <1>9, RestIs

\* What leaves the configuration, the functions and the interfaces.
LEMMA ConfQuiet ==
    ASSUME ConfParams, ConfInv, Conf!IntfSet \/ Conf!Submit \/ Conf!Reset \/ Conf!Release
    PROVE  ConfInv'
<1>1. /\ UNCHANGED <<hcCfg, hcPos, hcEps, hcList, hcAssoc, hcFuns, hcLeft>>
      /\ \/ hcAt = "ready" /\ hcAt' = "ready"
         \/ hcAt \in {"ready", "failed"} /\ hcAt' = "release" /\ hcTable' = hcTable
  BY DEF Conf!IntfSet, Conf!Submit, Conf!Reset, Conf!Release
<1>2. Conf!Intfs' = Conf!Intfs /\ (ConfN)' = ConfN
  BY <1>1, ConfStill
<1>3. ConfType /\ ConfHeld /\ Conf!TableAlive
  BY DEF ConfInv
<1>4. ConfType'
  BY <1>1, <1>2, <1>3 DEF ConfType
<1>5. ConfHeld'
  <2>1. (ConfTaken)' = ConfTaken
    BY <1>1 DEF ConfTaken
  <2>2. CASE hcAt = "ready" /\ hcAt' = "ready"
    BY <1>1, <1>2, <1>3, <2>1, <2>2 DEF ConfHeld
  <2>3. CASE hcAt = "ready" /\ hcAt' = "release"
    BY <1>1, <1>2, <1>3, <2>1, <2>3 DEF ConfHeld
  <2>4. CASE hcAt = "failed" /\ hcAt' = "release"
    BY <1>1, <1>3, <2>4 DEF ConfHeld
  <2> QED BY <1>1, <2>2, <2>3, <2>4
<1>6. Conf!TableAlive'
  <2>1. CASE Conf!IntfSet
    <3>1. PICK p \in DOMAIN hcEps :
            hcTable' = [a \in DOMAIN hcTable |->
                          IF Conf!LastOf(a, {p}) = NoEp THEN hcTable[a] ELSE Conf!LastOf(a, {p})]
      BY <2>1 DEF Conf!IntfSet, Conf!Live
    <3> DEFINE S == {p}
    <3>2. S \in SUBSET DOMAIN hcEps
      OBVIOUS
    <3>3. hcTable' = [a \in DOMAIN hcTable |->
                       IF Conf!LastOf(a, S) = NoEp THEN hcTable[a] ELSE Conf!LastOf(a, S)]
      BY <3>1
    <3> HIDE DEF S
    <3>4. ASSUME NEW a \in DOMAIN hcTable, Conf!LastOf(a, S) # NoEp
          PROVE  /\ hcCfg.desc[Conf!LastOf(a, S)].addr = a
                 /\ \E o \in DOMAIN hcEps : Conf!LastOf(a, S) \in hcEps[o]
      BY <1>3, <3>2, <3>4, LastFound DEF ConfType
    <3>5. ASSUME NEW a \in DOMAIN hcTable, hcTable[a] # NoEp
          PROVE  /\ hcCfg.desc[hcTable[a]].addr = a
                 /\ \E o \in DOMAIN hcEps : hcTable[a] \in hcEps[o]
      BY <1>3, <3>5, TableIs
    <3>6. \A a \in DOMAIN hcTable' : hcTable'[a] # NoEp =>
            /\ hcCfg.desc[hcTable'[a]].addr = a
            /\ \E o \in DOMAIN hcEps : hcTable'[a] \in hcEps[o]
      BY <3>3, <3>4, <3>5
    <3> QED BY <1>1, <3>6 DEF Conf!TableAlive, Conf!D, Conf!Live
  <2>2. CASE hcTable' = hcTable
    BY <1>1, <1>3, <2>2 DEF Conf!TableAlive, Conf!D, Conf!Live
  <2>3. Conf!IntfSet \/ hcTable' = hcTable
    BY DEF Conf!Submit, Conf!Reset, Conf!Release
  <2> QED BY <2>1, <2>2, <2>3
<1> QED BY <1>4, <1>5, <1>6 DEF ConfInv

\* The device released and freed.
LEMMA ConfFrees ==
    ASSUME ConfParams, ConfInv, Conf!Unenumerate
    PROVE  ConfInv'
<1>1. hcAt = "release" /\ UNCHANGED <<hcCfg, hcPos, hcList, hcAssoc, hcFuns>>
  BY DEF Conf!Unenumerate
<1>2. Conf!Intfs' = Conf!Intfs /\ (ConfN)' = ConfN
  BY <1>1, ConfStill
<1>3. ConfType /\ ConfHeld /\ Conf!TableAlive
  BY DEF ConfInv
<1>4. ~hcLeft => \A p \in DOMAIN hcEps : p \in ConfTaken
  BY <1>1, <1>3 DEF ConfHeld
<1>5. \A a \in DOMAIN hcTable : hcTable[a] # NoEp =>
        hcCfg.desc[hcTable[a]].addr = a /\ \E p \in DOMAIN hcEps : hcTable[a] \in hcEps[p]
  BY <1>3, TableIs
<1>6. CASE Conf!Members = {} /\ hcAt' = "destroy" /\ UNCHANGED <<hcTable, hcEps, hcLeft>>
  <2>1. ConfType'
    BY <1>1, <1>2, <1>3, <1>6 DEF ConfType
  <2>2. ~hcLeft => DOMAIN hcEps = {}
    <3>1. ConfTaken \cap DOMAIN hcEps = {}
      BY <1>6 DEF Conf!Members, Conf!Live, ConfTaken
    <3> QED BY <1>4, <3>1
  <2>3. ConfHeld'
    BY <1>6, <2>2 DEF ConfHeld
  <2>4. Conf!TableAlive'
    BY <1>1, <1>3, <1>6 DEF Conf!TableAlive, Conf!D, Conf!Live
  <2> QED BY <2>1, <2>3, <2>4 DEF ConfInv
<1>7. CASE Conf!IntfFreed
  <2> DEFINE t == Conf!InTurn
             S == {t}
  <2>1. /\ hcTable' = [a \in DOMAIN hcTable |->
                         IF Conf!LastOf(a, S) = NoEp THEN hcTable[a] ELSE NoEp]
        /\ hcEps' = [p \in DOMAIN hcEps \ {t} |-> hcEps[p]]
        /\ hcAt' = hcAt /\ hcLeft' = hcLeft
    BY <1>7 DEF Conf!IntfFreed, Conf!Cleared, Conf!Live, Conf!Restrict
  <2>2. t \in DOMAIN hcEps => S \in SUBSET DOMAIN hcEps
    OBVIOUS
  <2>3. S = {t}
    OBVIOUS
  <2> HIDE DEF S, t
  <2>4. /\ DOMAIN hcEps' = DOMAIN hcEps \ {t}
        /\ \A p \in DOMAIN hcEps \ {t} : hcEps'[p] = hcEps[p]
    BY <2>1
  <2>5. ConfType'
    <3>1. \A p \in DOMAIN hcEps' : p \in Conf!Intfs /\ \A q \in hcEps'[p] : q \in 1 .. ConfN
      BY <1>3, <2>4 DEF ConfType
    <3> QED BY <1>1, <1>2, <1>3, <2>1, <3>1 DEF ConfType
  <2>6. ConfHeld'
    <3>1. hcAt' = "release" /\ hcLeft' = hcLeft
      BY <1>1, <2>1
    <3>2. ~hcLeft => \A p \in DOMAIN hcEps' : p \in (ConfTaken)'
      BY <1>1, <1>4, <2>4 DEF ConfTaken
    <3> QED BY <3>1, <3>2 DEF ConfHeld
  <2>7. ASSUME NEW a \in DOMAIN hcTable, hcTable'[a] # NoEp
        PROVE  /\ hcCfg.desc[hcTable'[a]].addr = a
               /\ \E p \in DOMAIN hcEps' : hcTable'[a] \in hcEps'[p]
    <3>1. hcTable'[a] = hcTable[a] /\ Conf!LastOf(a, S) = NoEp
      BY <2>1, <2>7
    <3>2. hcCfg.desc[hcTable[a]].addr = a
      BY <1>5, <2>7, <3>1
    <3>3. PICK p \in DOMAIN hcEps : hcTable[a] \in hcEps[p]
      BY <1>5, <2>7, <3>1
    <3>4. p # t
      <4>1. SUFFICES ASSUME p = t PROVE FALSE
        OBVIOUS
      <4>2. S \in SUBSET DOMAIN hcEps /\ p \in S
        BY <2>2, <2>3, <4>1
      <4>3. \A o \in S : \A q \in hcEps[o] : hcCfg.desc[q].addr # a
        BY <1>3, <3>1, <4>2, LastFound DEF ConfType
      <4> QED BY <3>2, <3>3, <4>2, <4>3
    <3> QED BY <2>4, <3>1, <3>2, <3>3, <3>4
  <2>8. Conf!TableAlive'
    BY <1>1, <2>1, <2>7 DEF Conf!TableAlive, Conf!D, Conf!Live
  <2> QED BY <2>5, <2>6, <2>8 DEF ConfInv
<1>8. ASSUME NEW q, hcAt' = "destroy", hcLeft' = TRUE, hcEps' = hcEps,
             hcTable' = [a \in DOMAIN hcTable |->
                IF \E i \in hcEps[Conf!InTurn] : i <= q /\ Conf!D(i).addr = a THEN NoEp
                ELSE hcTable[a]]
      PROVE  ConfInv'
  <2>1. ConfType'
    BY <1>1, <1>2, <1>3, <1>8 DEF ConfType
  <2>2. ConfHeld'
    BY <1>8 DEF ConfHeld
  <2>3. \A a \in DOMAIN hcTable' : a \in DOMAIN hcTable /\
          (hcTable'[a] # NoEp => hcTable'[a] = hcTable[a])
    BY <1>8
  <2>4. Conf!TableAlive'
    BY <1>1, <1>5, <1>8, <2>3 DEF Conf!TableAlive, Conf!D, Conf!Live
  <2> QED BY <2>1, <2>2, <2>4 DEF ConfInv
<1>9. \/ Conf!Members = {} /\ hcAt' = "destroy" /\ UNCHANGED <<hcTable, hcEps, hcLeft>>
      \/ Conf!IntfFreed
      \/ \E q \in hcEps[Conf!InTurn] :
           /\ hcTable' = [a \in DOMAIN hcTable |->
                IF \E i \in hcEps[Conf!InTurn] : i <= q /\ Conf!D(i).addr = a THEN NoEp
                ELSE hcTable[a]]
           /\ hcAt' = "destroy" /\ hcLeft' = TRUE /\ hcEps' = hcEps
  BY DEF Conf!Unenumerate
<1> QED BY <1>6, <1>7, <1>8, <1>9

LEMMA ConfDestroys ==
    ASSUME ConfInv, Conf!DevDestroy
    PROVE  ConfInv'
<1>1. /\ hcAt = "destroy" /\ hcAt' = "gone"
      /\ UNCHANGED <<hcCfg, hcPos, hcEps, hcList, hcAssoc, hcFuns, hcLeft>>
      /\ hcTable' = [a \in DOMAIN hcTable |-> NoEp]
  BY DEF Conf!DevDestroy
<1>2. Conf!Intfs' = Conf!Intfs /\ (ConfN)' = ConfN
  BY <1>1, ConfStill
<1>3. ConfType'
  BY <1>1, <1>2 DEF ConfInv, ConfType
<1>4. ConfHeld'
  BY <1>1 DEF ConfInv, ConfHeld
<1>5. Conf!TableAlive'
  BY <1>1 DEF Conf!TableAlive
<1> QED BY <1>3, <1>4, <1>5 DEF ConfInv

LEMMA ConfNext ==
    ASSUME ConfParams, ConfInv, [Conf!Next]_(Conf!cfgVars)
    PROVE  ConfInv'
<1>1. CASE UNCHANGED Conf!cfgVars
  <2>1. UNCHANGED <<hcCfg, hcAt, hcPos, hcEps, hcList, hcAssoc, hcFuns, hcTable, hcLeft>>
    BY <1>1 DEF Conf!cfgVars
  <2>2. Conf!Intfs' = Conf!Intfs /\ (ConfN)' = ConfN /\ (ConfTaken)' = ConfTaken
    BY <2>1, ConfStill DEF ConfTaken
  <2>3. Conf!Assocs' = Conf!Assocs
    BY <2>1, AssocsAre
  <2>4. ConfType'
    BY <2>1, <2>2 DEF ConfInv, ConfType
  <2>5. ConfHeld'
    BY <2>1, <2>2, <2>3 DEF ConfInv, ConfHeld
  <2>6. Conf!TableAlive'
    BY <2>1 DEF ConfInv, Conf!TableAlive, Conf!D, Conf!Live
  <2> QED BY <2>4, <2>5, <2>6 DEF ConfInv
<1>2. CASE Conf!Next
  BY <1>2, ConfParses, ConfFuns, ConfAssocKeeps, ConfRestKeeps, ConfQuiet, ConfFrees, ConfDestroys
     DEF Conf!Next
<1> QED BY <1>1, <1>2

LEMMA ConfTells ==
    ASSUME ConfInv
    PROVE  Conf!TableAlive /\ Conf!CfgFreed
BY DEF ConfInv, ConfHeld, Conf!CfgFreed, Conf!Live
-----------------------------------------------------------------------------
(* The configuration on the host: its functions                            *)

\* A configuration c and its associations, by their descriptors.
DescIntfs(c) == {p \in 1 .. Len(c.desc) : c.desc[p].k = "intf"}
AllAs(c) == AsSet(c, Len(c.desc) + 1)
\* The numbers and the interfaces of an association.
NumsOf(c, q) == c.desc[q].first .. c.desc[q].first + c.desc[q].n - 1
OfAs(c, q) == {p \in DescIntfs(c) : c.desc[p].num \in NumsOf(c, q)}
\* The numbers and the interfaces of the associations before p, and the others.
Covered(c, p) == UNION {NumsOf(c, q) : q \in AsSet(c, p)}
InAs(c, p) == UNION {OfAs(c, q) : q \in AsSet(c, p)}
InNone(c, p) == DescIntfs(c) \ InAs(c, p)
Alone(c) == (0 .. c.num - 1) \ Covered(c, Len(c.desc) + 1)

CWell(c) ==
    /\ {c.desc[p].num : p \in DescIntfs(c)} = 0 .. c.num - 1
    /\ \A p \in DescIntfs(c) : \A q, r \in AllAs(c) : p \in OfAs(c, q) /\ p \in OfAs(c, r) => q = r
    /\ \A q \in AllAs(c) : c.desc[q].n > 0 /\
         \A i \in NumsOf(c, q) : \E p \in DescIntfs(c) : c.desc[p].num = i

LEMMA AtMostOne ==
    ASSUME NEW S, IsFiniteSet(S), Cardinality(S) <= 1, NEW x \in S, NEW y \in S
    PROVE  x = y
<1> SUFFICES ASSUME x # y PROVE FALSE
  OBVIOUS
<1> DEFINE T == S \ {x}
<1>1. IsFiniteSet(T) /\ Cardinality(T) = Cardinality(S) - 1 /\ y \in T
  BY FS_RemoveElement
<1>2. Cardinality(T) \in Nat /\ Cardinality(T) # 0 /\ Cardinality(S) \in Nat
  <2>1. Cardinality(T) \in Nat /\ Cardinality(S) \in Nat
    BY <1>1, FS_CardinalityType
  <2>2. Cardinality(T) # 0
    BY <1>1, FS_EmptySet
  <2> QED BY <2>1, <2>2
<1> HIDE DEF T
<1> QED BY <1>1, <1>2

LEMMA AsMem ==
    ASSUME ConfParams, NEW c \in Configs
    PROVE  /\ Len(c.desc) \in Nat /\ c.num \in 0 .. 255
           /\ AllAs(c) = {q \in 1 .. Len(c.desc) : c.desc[q].k = "assoc"}
           /\ \A p : AsSet(c, p) \subseteq AllAs(c)
           /\ \A q \in AllAs(c) : c.desc[q].first \in Nat /\ c.desc[q].n \in Nat
           /\ \A p \in DescIntfs(c) : c.desc[p].num \in Nat /\ p \in Nat /\ p # 0
<1>1. Len(c.desc) \in Nat /\ c.num \in 0 .. 255
  <2>1. c.desc \in Seq(ConfDescs) /\ c.num \in 0 .. 255
    BY DEF ConfParams
  <2> QED BY <2>1
<1>2. 1 .. (Len(c.desc) + 1) - 1 = 1 .. Len(c.desc)
  BY <1>1
<1>3. \A q \in 1 .. Len(c.desc) : q <= Len(c.desc)
  BY <1>1
<1>4. AllAs(c) = {q \in 1 .. Len(c.desc) : c.desc[q].k = "assoc"}
  BY <1>2, <1>3 DEF AllAs, AsSet
<1>5. ASSUME NEW p, NEW q \in AsSet(c, p) PROVE q \in AllAs(c)
  <2>1. q \in 1 .. p - 1 /\ q <= Len(c.desc) /\ c.desc[q].k = "assoc"
    BY DEF AsSet
  <2>2. q \in Int /\ q >= 1
    BY <2>1
  <2>3. q \in 1 .. Len(c.desc)
    BY <1>1, <2>1, <2>2
  <2> QED BY <1>4, <2>1, <2>3
<1>6. \A q \in AllAs(c) : c.desc[q].first \in Nat /\ c.desc[q].n \in Nat
  BY <1>4, DescHas
<1>7. \A p \in DescIntfs(c) : c.desc[p].num \in Nat /\ p \in Nat /\ p # 0
  BY <1>1, DescHas DEF DescIntfs
<1> QED BY <1>1, <1>4, <1>5, <1>6, <1>7

LEMMA WellIs ==
    ASSUME ConfParams, hcCfg \in Configs, Conf!WellFormed
    PROVE  CWell(hcCfg)
<1> DEFINE c == hcCfg
<1>1. /\ ConfN \in Nat /\ Conf!Intfs = DescIntfs(c) /\ Conf!Len0 = ConfN
      /\ \A p : Conf!D(p) = c.desc[p]
      /\ \A p, k : Conf!Is(p, k) <=> p <= ConfN /\ c.desc[p].k = k
  BY ConfBasics DEF DescIntfs, ConfN
<1>2. AllAs(c) = {q \in 1 .. ConfN : c.desc[q].k = "assoc"}
  BY AsMem DEF ConfN
<1>3. \A q \in AllAs(c) : Conf!Is(q, "assoc")
  BY <1>1, <1>2
<1>4. ASSUME NEW p \in DescIntfs(c), NEW q \in AllAs(c), p \in OfAs(c, q)
      PROVE  q \in Conf!AssocsOf(p)
  <2>1. Conf!InAssoc(p, q)
    BY <1>1, <1>3, <1>4 DEF Conf!InAssoc, OfAs, NumsOf
  <2> QED BY <1>1, <1>2, <2>1 DEF Conf!AssocsOf
<1>5. ASSUME NEW p \in DescIntfs(c), NEW q \in AllAs(c), NEW r \in AllAs(c),
             p \in OfAs(c, q), p \in OfAs(c, r)
      PROVE  q = r
  <2> DEFINE S == Conf!AssocsOf(p)
  <2>1. Cardinality(S) <= 1
    <3>1. Conf!Cardinality(S) <= 1
      BY <1>1 DEF Conf!WellFormed
    <3>2. Conf!Cardinality(S) = Cardinality(S)
      BY DEF Conf!Cardinality, Conf!IsFiniteSet, Cardinality, IsFiniteSet
    <3> QED BY <3>1, <3>2
  <2>2. IsFiniteSet(S)
    <3>1. S \subseteq 1 .. ConfN
      BY <1>1 DEF Conf!AssocsOf
    <3>2. IsFiniteSet(1 .. ConfN)
      BY <1>1, FS_Interval
    <3> QED BY <3>1, <3>2, FS_Subset
  <2>3. q \in S /\ r \in S
    BY <1>4, <1>5
  <2> HIDE DEF S
  <2> QED BY <2>1, <2>2, <2>3, AtMostOne
<1>6. {c.desc[p].num : p \in DescIntfs(c)} = 0 .. c.num - 1
  BY <1>1 DEF Conf!WellFormed
<1>7. ASSUME NEW q \in AllAs(c)
      PROVE  c.desc[q].n > 0 /\ \A i \in NumsOf(c, q) : \E p \in DescIntfs(c) : c.desc[p].num = i
  <2>1. q \in 1 .. Conf!Len0 /\ Conf!Is(q, "assoc")
    BY <1>1, <1>2, <1>3
  <2> QED BY <1>1, <2>1 DEF Conf!WellFormed, NumsOf
<1> HIDE DEF c
<1>8. CWell(c)
  BY <1>5, <1>6, <1>7 DEF CWell
<1> QED BY <1>8 DEF c

LEMMA UpTo ==
    ASSUME NEW m \in Nat
    PROVE  IsFiniteSet(0 .. m - 1) /\ Cardinality(0 .. m - 1) = m
<1> DEFINE z == 0
           b == m - 1
<1>1. z \in Int /\ b \in Int /\ (z > b <=> m = 0) /\ b - z + 1 = m
  OBVIOUS
<1>2. IsFiniteSet(z .. b) /\ Cardinality(z .. b) = IF z > b THEN 0 ELSE b - z + 1
  <2> HIDE DEF z, b
  <2> QED BY <1>1, FS_Interval
<1>3. Cardinality(z .. b) = m
  <2> HIDE DEF z, b
  <2> QED BY <1>1, <1>2
<1> QED BY <1>2, <1>3

LEMMA CoveredIn ==
    ASSUME ConfParams, NEW c \in Configs, CWell(c), NEW p
    PROVE  /\ Covered(c, p) \subseteq 0 .. c.num - 1
           /\ IsFiniteSet(Covered(c, p)) /\ Cardinality(Covered(c, p)) \in Nat
           /\ \A o \in DescIntfs(c) : o \in InAs(c, p) <=> c.desc[o].num \in Covered(c, p)
<1>1. ASSUME NEW i \in Covered(c, p) PROVE i \in 0 .. c.num - 1
  <2>1. PICK q \in AsSet(c, p) : i \in NumsOf(c, q)
    BY DEF Covered
  <2>2. q \in AllAs(c)
    BY AsMem
  <2>3. PICK o \in DescIntfs(c) : c.desc[o].num = i
    BY <2>1, <2>2 DEF CWell
  <2> QED BY <2>3 DEF CWell
<1>2. IsFiniteSet(0 .. c.num - 1)
  <2> DEFINE m == c.num
  <2>1. m \in 0 .. 255
    BY AsMem
  <2> HIDE DEF m
  <2>2. m \in Nat
    BY <2>1
  <2> QED BY <2>2, UpTo DEF m
<1>3. IsFiniteSet(Covered(c, p)) /\ Cardinality(Covered(c, p)) \in Nat
  BY <1>1, <1>2, FS_Subset, FS_CardinalityType
<1>4. \A o \in DescIntfs(c) : o \in InAs(c, p) <=> c.desc[o].num \in Covered(c, p)
  BY DEF InAs, OfAs, Covered
<1> QED BY <1>1, <1>3, <1>4

LEMMA NumsApart ==
    ASSUME NEW c, CWell(c), NEW q \in AllAs(c), NEW r \in AllAs(c), q # r
    PROVE  NumsOf(c, q) \cap NumsOf(c, r) = {} /\ OfAs(c, q) \cap OfAs(c, r) = {}
<1>1. OfAs(c, q) \cap OfAs(c, r) = {}
  BY DEF CWell, OfAs
<1>2. ASSUME NEW i \in NumsOf(c, q) \cap NumsOf(c, r) PROVE FALSE
  <2>1. PICK p \in DescIntfs(c) : c.desc[p].num = i
    BY DEF CWell
  <2>2. p \in OfAs(c, q) /\ p \in OfAs(c, r)
    BY <2>1 DEF OfAs
  <2> QED BY <1>1, <2>2
<1> QED BY <1>1, <1>2

LEMMA OfAsSome ==
    ASSUME ConfParams, NEW c \in Configs, CWell(c), NEW q \in AllAs(c)
    PROVE  OfAs(c, q) # {}
<1>1. c.desc[q].first \in Nat /\ c.desc[q].n \in Nat /\ c.desc[q].n > 0
  BY AsMem DEF CWell
<1>2. c.desc[q].first \in NumsOf(c, q)
  BY <1>1 DEF NumsOf
<1>3. PICK p \in DescIntfs(c) : c.desc[p].num = c.desc[q].first
  BY <1>2 DEF CWell
<1> QED BY <1>2, <1>3 DEF OfAs

\* One association more.
LEMMA CoverStep ==
    ASSUME ConfParams, NEW c \in Configs, CWell(c), NEW p \in 1 .. Len(c.desc),
           c.desc[p].k = "assoc"
    PROVE  /\ p \in AllAs(c) /\ AsSet(c, p + 1) = AsSet(c, p) \cup {p} /\ p \notin AsSet(c, p)
           /\ Cardinality(AsSet(c, p + 1)) = Cardinality(AsSet(c, p)) + 1
           /\ Cardinality(Covered(c, p + 1)) = Cardinality(Covered(c, p)) + c.desc[p].n
           /\ NumsOf(c, p) \cap Covered(c, p) = {}
           /\ InAs(c, p + 1) = InAs(c, p) \cup OfAs(c, p)
           /\ OfAs(c, p) \subseteq InNone(c, p)
<1>1. p \in Nat /\ p # 0 /\ p <= Len(c.desc)
  BY AsMem
<1>2. /\ AsSet(c, p + 1) = AsSet(c, p) \cup {p} /\ p \notin AsSet(c, p)
      /\ Cardinality(AsSet(c, p + 1)) = Cardinality(AsSet(c, p)) + 1
  BY <1>1, AsStep
<1>3. p \in AllAs(c) /\ AsSet(c, p) \subseteq AllAs(c)
  BY AsMem
<1>4. NumsOf(c, p) \cap Covered(c, p) = {}
  BY <1>2, <1>3, NumsApart DEF Covered
<1>5. Covered(c, p + 1) = Covered(c, p) \cup NumsOf(c, p)
  BY <1>2 DEF Covered
<1>6. IsFiniteSet(NumsOf(c, p)) /\ Cardinality(NumsOf(c, p)) = c.desc[p].n
  <2> DEFINE a == c.desc[p].first
             n == c.desc[p].n
  <2>1. a \in Nat /\ n \in Nat
    BY <1>3, AsMem
  <2> HIDE DEF a, n
  <2>2. IsFiniteSet(a .. a + n - 1) /\ Cardinality(a .. a + n - 1) = n
    <3> DEFINE b == a + n - 1
    <3>1. b \in Int /\ (a > b <=> n = 0) /\ b - a + 1 = n
      BY <2>1
    <3> HIDE DEF b
    <3>2. IsFiniteSet(a .. b) /\ Cardinality(a .. b) = IF a > b THEN 0 ELSE b - a + 1
      BY <2>1, <3>1, FS_Interval
    <3>3. Cardinality(a .. b) = n
      BY <2>1, <3>1, <3>2
    <3> QED BY <3>2, <3>3 DEF b
  <2> QED BY <2>2 DEF NumsOf, a, n
<1>7. Cardinality(Covered(c, p + 1)) = Cardinality(Covered(c, p)) + c.desc[p].n
  <2> DEFINE A == Covered(c, p)
             B == NumsOf(c, p)
  <2>1. IsFiniteSet(A) /\ Cardinality(A) \in Nat /\ IsFiniteSet(B) /\ A \cap B = {}
    BY <1>4, <1>6, CoveredIn
  <2>2. Cardinality(B) \in Nat
    BY <2>1, FS_CardinalityType
  <2> HIDE DEF A, B
  <2>3. Cardinality(A \cap B) = 0
    BY <2>1, FS_EmptySet
  <2>4. Cardinality(A \cup B) = Cardinality(A) + Cardinality(B) - Cardinality(A \cap B)
    BY <2>1, FS_Union
  <2>5. Cardinality(A \cup B) = Cardinality(A) + Cardinality(B)
    BY <2>1, <2>2, <2>3, <2>4
  <2> QED BY <1>5, <1>6, <2>5 DEF A, B
<1>8. InAs(c, p + 1) = InAs(c, p) \cup OfAs(c, p)
  BY <1>2 DEF InAs
<1>9. OfAs(c, p) \subseteq InNone(c, p)
  <2>1. \A q \in AsSet(c, p) : OfAs(c, p) \cap OfAs(c, q) = {}
    BY <1>2, <1>3, NumsApart
  <2>2. OfAs(c, p) \subseteq DescIntfs(c)
    BY DEF OfAs
  <2> QED BY <2>1, <2>2 DEF InNone, InAs
<1> QED BY <1>2, <1>3, <1>4, <1>7, <1>8, <1>9

\* There are as many functions as associations and interface numbers in none.
LEMMA TableSize ==
    ASSUME ConfParams, NEW c \in Configs, CWell(c), NEW n \in Nat,
           n + Cardinality(AllAs(c)) = Cardinality(Covered(c, Len(c.desc) + 1))
    PROVE  /\ IsFiniteSet(Alone(c)) /\ Cardinality(Alone(c)) \in Nat
           /\ Cardinality(AllAs(c)) \in Nat
           /\ (c.num - n) % 256 = Cardinality(Alone(c)) + Cardinality(AllAs(c))
<1> DEFINE U == 0 .. c.num - 1
           V == Covered(c, Len(c.desc) + 1)
           a == Cardinality(AllAs(c))
           m == c.num
<1>1. m \in 0 .. 255 /\ Len(c.desc) \in Nat
  BY AsMem
<1>2. V \subseteq U /\ IsFiniteSet(V) /\ Cardinality(V) \in Nat
  BY CoveredIn
<1>3. IsFiniteSet(U) /\ Cardinality(U) = m
  <2> HIDE DEF m
  <2>1. m \in Nat
    BY <1>1
  <2>2. IsFiniteSet(0 .. m - 1) /\ Cardinality(0 .. m - 1) = m
    BY <2>1, UpTo
  <2> QED BY <2>2 DEF m
<1>4. a \in Nat
  <2>1. Len(c.desc) + 1 \in Nat /\ Len(c.desc) + 1 # 0
    BY <1>1
  <2> QED BY <2>1, AsStep DEF AllAs
<1>5. Alone(c) = U \ V
  BY DEF Alone
<1> HIDE DEF U, V, a, m
<1>6. IsFiniteSet(U \ V) /\ Cardinality(U \ V) \in Nat
  BY <1>3, FS_Difference, FS_CardinalityType
<1>7. Cardinality(U \ V) = m - Cardinality(V)
  <2>1. Cardinality(U \ V) = Cardinality(U) - Cardinality(U \cap V)
    BY <1>3, FS_Difference
  <2>2. U \cap V = V
    BY <1>2
  <2> QED BY <1>3, <2>1, <2>2
<1>8. n + a = Cardinality(V)
  BY DEF V, a
<1>9. (m - n) % 256 = Cardinality(U \ V) + a
  <2> DEFINE u == Cardinality(U \ V)
             v == Cardinality(V)
  <2>1. u \in Nat /\ v \in Nat /\ u = m - v /\ n + a = v
    BY <1>2, <1>6, <1>7, <1>8
  <2> HIDE DEF u, v
  <2>2. m - n = u + a /\ m - n \in 0 .. 255
    BY <1>1, <1>4, <2>1
  <2>3. \A x \in 0 .. 255 : x % 256 = x
    OBVIOUS
  <2> QED BY <2>2, <2>3 DEF u
<1> QED BY <1>4, <1>5, <1>6, <1>9 DEF a, m

\* The functions f up to m are in use when the associations before p have theirs: one
\* for each of them, with its interfaces, and one for each number of an interface in
\* none that was taken from the list l.
TableOf(c, f, l, p, m, a) ==
    /\ f \in Seq([first : Nat, n : Nat, intfs : SUBSET Nat])
    /\ Len(f) = Cardinality(Alone(c)) + Cardinality(AllAs(c))
    /\ m \in a .. Len(f)
    /\ \A q \in AsSet(c, p) : \E j \in 1 .. a : f[j].intfs = OfAs(c, q)
    /\ \A j \in 1 .. a : \E q \in AsSet(c, p) : f[j].intfs = OfAs(c, q)
    /\ \A i, j \in 1 .. a : i # j => f[i].intfs \cap f[j].intfs = {}
    /\ \A j \in a + 1 .. m : /\ f[j].intfs # {}
                             /\ f[j].intfs = {o \in InNone(c, p) \ l : c.desc[o].num = f[j].first}
    /\ \A i, j \in a + 1 .. m : f[i].first = f[j].first => i = j
    /\ \A j \in m + 1 .. Len(f) : f[j].intfs = {}
    /\ \A o \in InNone(c, p) \ l : \E j \in a + 1 .. m : f[j].first = c.desc[o].num
    /\ l \subseteq InNone(c, p)
OneTable(c, f, l, p, m) == TableOf(c, f, l, p, m, Cardinality(AsSet(c, p)))

LEMMA Sizes ==
    ASSUME ConfParams, NEW c \in Configs, CWell(c), NEW p \in Nat, p # 0
    PROVE  /\ IsFiniteSet(Alone(c)) /\ Cardinality(Alone(c)) \in Nat
           /\ IsFiniteSet(AllAs(c)) /\ Cardinality(AllAs(c)) \in Nat
           /\ Cardinality(AsSet(c, p)) \in Nat
           /\ Cardinality(AsSet(c, p)) <= Cardinality(AllAs(c))
           /\ Cardinality(AsSet(c, p)) = Cardinality(AllAs(c)) => AsSet(c, p) = AllAs(c)
<1>1. IsFiniteSet(Alone(c)) /\ Cardinality(Alone(c)) \in Nat
  <2> DEFINE m == c.num
  <2>1. m \in 0 .. 255
    BY AsMem
  <2> HIDE DEF m
  <2>2. IsFiniteSet(0 .. m - 1)
    <3>1. m \in Nat
      BY <2>1
    <3> QED BY <3>1, UpTo
  <2>3. Alone(c) \subseteq 0 .. m - 1
    BY DEF Alone, m
  <2> QED BY <2>2, <2>3, FS_Subset, FS_CardinalityType
<1>2. IsFiniteSet(AllAs(c)) /\ Cardinality(AllAs(c)) \in Nat
  <2>1. Len(c.desc) + 1 \in Nat /\ Len(c.desc) + 1 # 0
    <3>1. Len(c.desc) \in Nat
      BY AsMem
    <3> QED BY <3>1
  <2> QED BY <2>1, AsStep DEF AllAs
<1>3. Cardinality(AsSet(c, p)) \in Nat
  BY AsStep
<1>4. AsSet(c, p) \in SUBSET AllAs(c)
  BY AsMem
<1> QED BY <1>1, <1>2, <1>3, <1>4, FS_Subset

\* Before the first association no function is in use.
LEMMA TableFirst ==
    ASSUME ConfParams, NEW c \in Configs, CWell(c), NEW m \in Nat, NEW f,
           m = Cardinality(Alone(c)) + Cardinality(AllAs(c)),
           f = [i \in 1 .. m |-> [first |-> 0, n |-> 0, intfs |-> {}]]
    PROVE  OneTable(c, f, DescIntfs(c), 1, 0) /\ DescIntfs(c) = InNone(c, 1)
<1>1. AsSet(c, 1) = {}
  <2>1. \A q : q \notin 1 .. 1 - 1
    OBVIOUS
  <2> QED BY <2>1 DEF AsSet
<1>2. Cardinality(AsSet(c, 1)) = 0
  BY <1>1, FS_EmptySet
<1>3. InNone(c, 1) = DescIntfs(c)
  BY <1>1 DEF InNone, InAs
<1> DEFINE new == [first |-> 0, n |-> 0, intfs |-> {}]
<1>4. new \in [first : Nat, n : Nat, intfs : SUBSET Nat] /\ new.intfs = {}
  OBVIOUS
<1>5. f = [i \in 1 .. m |-> new]
  OBVIOUS
<1> HIDE DEF new
<1>6. /\ f \in Seq([first : Nat, n : Nat, intfs : SUBSET Nat]) /\ Len(f) = m
      /\ \A j \in 1 .. m : f[j].intfs = {}
  <2>1. f \in Seq([first : Nat, n : Nat, intfs : SUBSET Nat])
    <3> DEFINE T == [first : Nat, n : Nat, intfs : SUBSET Nat]
    <3>1. new \in T
      BY <1>4
    <3> HIDE DEF T
    <3>2. f \in [1 .. m -> T]
      BY <1>5, <3>1
    <3>3. \A h : h \in [1 .. m -> T] => h \in Seq(T)
      OBVIOUS
    <3> QED BY <3>2, <3>3 DEF T
  <2>2. DOMAIN f = 1 .. m /\ \A j \in 1 .. m : f[j].intfs = {}
    BY <1>4, <1>5
  <2>3. Len(f) = m
    <3>1. \A T : f \in Seq(T) => Len(f) \in Nat /\ DOMAIN f = 1 .. Len(f)
      OBVIOUS
    <3>2. Len(f) \in Nat /\ 1 .. Len(f) = 1 .. m
      BY <2>1, <2>2, <3>1
    <3> QED BY <3>2
  <2> QED BY <2>1, <2>2, <2>3
<1>7. OneTable(c, f, DescIntfs(c), 1, 0)
  <2>1. DescIntfs(c) \ DescIntfs(c) = {}
    OBVIOUS
  <2>2. \A j : j \notin 1 .. 0 /\ j \notin 0 + 1 .. 0
    OBVIOUS
  <2>3. 0 \in 0 .. m /\ 0 + 1 .. m = 1 .. m
    OBVIOUS
  <2> QED BY <1>1, <1>2, <1>3, <1>6, <2>1, <2>2, <2>3 DEF OneTable, TableOf
<1> QED BY <1>3, <1>7

\* The numbers up to a and the one after it, of n.
LEMMA UpToNext ==
    ASSUME NEW a \in Nat, NEW n \in Nat, a + 1 \in 1 .. n
    PROVE  /\ \A j \in 1 .. a : j \in 1 .. n /\ j # a + 1 /\ j \in 1 .. a + 1
           /\ a + 1 \in 1 .. a + 1 /\ a + 1 \in Nat /\ a + 1 \in a + 1 .. n
           /\ \A j \in 1 .. a + 1 : j = a + 1 \/ j \in 1 .. a
           /\ \A j \in a + 1 + 1 .. n : j \in a + 1 .. n /\ j \in 1 .. n /\ j # a + 1
           /\ \A j : j \notin a + 1 + 1 .. a + 1
<1>1. \A j \in 1 .. a : j \in 1 .. n /\ j # a + 1 /\ j \in 1 .. a + 1
  OBVIOUS
<1>2. a + 1 \in 1 .. a + 1 /\ a + 1 \in Nat /\ a + 1 \in a + 1 .. n
  OBVIOUS
<1>3. \A j \in 1 .. a + 1 : j = a + 1 \/ j \in 1 .. a
  OBVIOUS
<1>4. \A j \in a + 1 + 1 .. n : j \in a + 1 .. n /\ j \in 1 .. n /\ j # a + 1
  OBVIOUS
<1>5. \A j : j \notin a + 1 + 1 .. a + 1
  OBVIOUS
<1> QED BY <1>1, <1>2, <1>3, <1>4, <1>5

\* An association has the next function.
LEMMA TableAssoc ==
    ASSUME ConfParams, NEW c \in Configs, CWell(c), NEW p \in 1 .. Len(c.desc),
           c.desc[p].k = "assoc", NEW f, NEW a, a = Cardinality(AsSet(c, p)),
           OneTable(c, f, InNone(c, p), p, a),
           NEW g \in Seq([first : Nat, n : Nat, intfs : SUBSET Nat]), Len(g) = Len(f),
           a + 1 \in 1 .. Len(f), g[a + 1].intfs = OfAs(c, p),
           \A i \in 1 .. Len(f) : i # a + 1 => g[i] = f[i]
    PROVE  /\ OneTable(c, g, InNone(c, p + 1), p + 1, a + 1)
           /\ a + 1 = Cardinality(AsSet(c, p + 1))
           /\ InNone(c, p + 1) = InNone(c, p) \ OfAs(c, p)
<1>1. /\ p \in AllAs(c) /\ AsSet(c, p + 1) = AsSet(c, p) \cup {p} /\ p \notin AsSet(c, p)
      /\ Cardinality(AsSet(c, p + 1)) = a + 1
      /\ InAs(c, p + 1) = InAs(c, p) \cup OfAs(c, p) /\ OfAs(c, p) \subseteq InNone(c, p)
  BY CoverStep
<1>2. a \in Nat /\ Len(f) \in Nat
  <2>1. p \in Nat /\ p # 0
    BY AsMem
  <2>2. a \in Nat
    BY <2>1, Sizes
  <2>3. f \in Seq([first : Nat, n : Nat, intfs : SUBSET Nat])
    BY DEF OneTable, TableOf
  <2> QED BY <2>2, <2>3
<1>3. InNone(c, p + 1) = InNone(c, p) \ OfAs(c, p)
  BY <1>1 DEF InNone
<1>4. /\ Len(f) = Cardinality(Alone(c)) + Cardinality(AllAs(c))
      /\ \A q \in AsSet(c, p) : \E j \in 1 .. a : f[j].intfs = OfAs(c, q)
      /\ \A j \in 1 .. a : \E q \in AsSet(c, p) : f[j].intfs = OfAs(c, q)
      /\ \A i, j \in 1 .. a : i # j => f[i].intfs \cap f[j].intfs = {}
      /\ \A j \in a + 1 .. Len(f) : f[j].intfs = {}
  BY DEF OneTable, TableOf
<1> DEFINE b == a + 1
<1>5. /\ \A j \in 1 .. a : j \in 1 .. Len(f) /\ j # b /\ j \in 1 .. b
      /\ b \in 1 .. b /\ b \in Nat /\ b \in b .. Len(f)
      /\ \A j \in 1 .. b : j = b \/ j \in 1 .. a
      /\ \A j \in b + 1 .. Len(f) : j \in a + 1 .. Len(f) /\ j \in 1 .. Len(f) /\ j # b
      /\ \A j : j \notin b + 1 .. b
  BY <1>2, UpToNext
<1>6. g[b].intfs = OfAs(c, p) /\ \A i \in 1 .. Len(f) : i # b => g[i] = f[i]
  OBVIOUS
<1>7. Cardinality(AsSet(c, p + 1)) = b
  BY <1>1
<1> HIDE DEF b
<1>8. \A q \in AsSet(c, p + 1) : \E j \in 1 .. b : g[j].intfs = OfAs(c, q)
  BY <1>1, <1>4, <1>5, <1>6
<1>9. \A j \in 1 .. b : \E q \in AsSet(c, p + 1) : g[j].intfs = OfAs(c, q)
  <2> SUFFICES ASSUME NEW j \in 1 .. b PROVE \E q \in AsSet(c, p + 1) : g[j].intfs = OfAs(c, q)
    OBVIOUS
  <2>1. CASE j = b
    BY <1>1, <1>6, <2>1
  <2>2. CASE j \in 1 .. a
    <3>1. PICK q \in AsSet(c, p) : f[j].intfs = OfAs(c, q)
      BY <1>4, <2>2
    <3>2. g[j] = f[j] /\ q \in AsSet(c, p + 1)
      BY <1>1, <1>5, <1>6, <2>2
    <3> QED BY <3>1, <3>2
  <2> QED BY <1>5, <2>1, <2>2
<1>10. ASSUME NEW i \in 1 .. a PROVE g[i].intfs \cap g[b].intfs = {}
  <2>1. PICK q \in AsSet(c, p) : f[i].intfs = OfAs(c, q)
    BY <1>4
  <2>2. q \in AllAs(c) /\ q # p
    BY <1>1, AsMem
  <2>3. OfAs(c, q) \cap OfAs(c, p) = {}
    BY <1>1, <2>2, NumsApart
  <2> QED BY <1>5, <1>6, <2>1, <2>3
<1>11. \A i, j \in 1 .. b : i # j => g[i].intfs \cap g[j].intfs = {}
  <2> SUFFICES ASSUME NEW i \in 1 .. b, NEW j \in 1 .. b, i # j
               PROVE  g[i].intfs \cap g[j].intfs = {}
    OBVIOUS
  <2>1. CASE i \in 1 .. a /\ j \in 1 .. a
    BY <1>4, <1>5, <1>6, <2>1
  <2>2. CASE i = b /\ j \in 1 .. a
    BY <1>10, <2>2
  <2>3. CASE j = b /\ i \in 1 .. a
    BY <1>10, <2>3
  <2> QED BY <1>5, <2>1, <2>2, <2>3
<1>12. \A j \in b + 1 .. Len(g) : g[j].intfs = {}
  BY <1>4, <1>5, <1>6
<1>13. InNone(c, p + 1) \ InNone(c, p + 1) = {}
  OBVIOUS
<1>14. OneTable(c, g, InNone(c, p + 1), p + 1, b)
  BY <1>4, <1>5, <1>7, <1>8, <1>9, <1>11, <1>12, <1>13 DEF OneTable, TableOf
<1> QED BY <1>3, <1>7, <1>14 DEF b

\* Different numbers from a to m have different values in T, which has as many.
LEMMA ApartBound ==
    ASSUME NEW a \in Nat, NEW m \in Nat, a <= m, NEW T, IsFiniteSet(T), NEW v,
           \A j \in a + 1 .. m : v[j] \in T,
           \A i, j \in a + 1 .. m : v[i] = v[j] => i = j
    PROVE  m - a <= Cardinality(T)
<1> DEFINE S == a + 1 .. m
           g == [j \in S |-> v[j]]
<1>1. g \in Injection(S, T)
  BY DEF Injection, IsInjective
<1>2. Cardinality(S) = m - a
  <2> DEFINE b == a + 1
  <2>1. b \in Int /\ (b > m <=> m - a = 0) /\ m - b + 1 = m - a
    OBVIOUS
  <2> HIDE DEF b
  <2>2. Cardinality(b .. m) = IF b > m THEN 0 ELSE m - b + 1
    BY <2>1, FS_Interval
  <2>3. Cardinality(b .. m) = m - a
    BY <2>1, <2>2
  <2> QED BY <2>3 DEF b
<1> HIDE DEF S, g
<1>3. Cardinality(S) <= Cardinality(T)
  BY <1>1, FS_Injection
<1> QED BY <1>2, <1>3

\* As many numbers as T has, if each of T is the value of one.
LEMMA OntoBound ==
    ASSUME NEW a \in Nat, NEW m \in Nat, a <= m, NEW T, IsFiniteSet(T), NEW v,
           \A x \in T : \E j \in a + 1 .. m : v[j] = x
    PROVE  Cardinality(T) <= m - a
<1> DEFINE S == a + 1 .. m
           g == [x \in T |-> CHOOSE j \in S : v[j] = x]
<1>1. \A x \in T : g[x] \in S /\ v[g[x]] = x
  OBVIOUS
<1>2. Cardinality(S) = m - a /\ IsFiniteSet(S)
  <2> DEFINE b == a + 1
  <2>1. b \in Int /\ (b > m <=> m - a = 0) /\ m - b + 1 = m - a
    OBVIOUS
  <2> HIDE DEF b
  <2>2. IsFiniteSet(b .. m) /\ Cardinality(b .. m) = IF b > m THEN 0 ELSE m - b + 1
    BY <2>1, FS_Interval
  <2>3. Cardinality(b .. m) = m - a
    BY <2>1, <2>2
  <2> QED BY <2>2, <2>3 DEF b
<1>3. g \in [T -> S]
  BY <1>1
<1> HIDE DEF S, g
<1>4. g \in Injection(T, S)
  <2>1. \A x, y \in T : g[x] = g[y] => x = y
    BY <1>1
  <2>2. DOMAIN g = T
    BY <1>3
  <2> QED BY <1>3, <2>1, <2>2 DEF Injection, IsInjective
<1>5. Cardinality(T) <= Cardinality(S)
  BY <1>2, <1>4, FS_Injection
<1> QED BY <1>2, <1>5

\* What the table has when the associations are done.
LEMMA TableHas ==
    ASSUME ConfParams, NEW c \in Configs, CWell(c), NEW e, e = Len(c.desc) + 1,
           NEW a, a = Cardinality(AllAs(c)), NEW f, NEW l, NEW m, OneTable(c, f, l, e, m)
    PROVE  /\ a \in Nat /\ m \in Nat /\ Len(f) \in Nat /\ a <= m /\ m <= Len(f)
           /\ e \in Nat /\ e # 0 /\ AsSet(c, e) = AllAs(c)
           /\ IsFiniteSet(Alone(c)) /\ Cardinality(Alone(c)) \in Nat
           /\ Len(f) = Cardinality(Alone(c)) + a
           /\ \A j \in a + 1 .. m : f[j].first \in Alone(c)
           /\ \A o \in InNone(c, e) : c.desc[o].num \in Alone(c)
           /\ \A x \in Alone(c) : \E o \in InNone(c, e) : c.desc[o].num = x
<1>1. e \in Nat /\ e # 0 /\ AsSet(c, e) = AllAs(c)
  <2>1. Len(c.desc) \in Nat
    BY AsMem
  <2> QED BY <2>1 DEF AllAs
<1>2. a \in Nat /\ IsFiniteSet(Alone(c)) /\ Cardinality(Alone(c)) \in Nat
  BY <1>1, Sizes
<1>3. /\ m \in a .. Len(f) /\ Len(f) = Cardinality(Alone(c)) + a
      /\ \A j \in a + 1 .. m : /\ f[j].intfs # {}
                               /\ f[j].intfs = {o \in InNone(c, e) \ l : c.desc[o].num = f[j].first}
  BY <1>1 DEF OneTable, TableOf
<1>4. m \in Nat /\ Len(f) \in Nat /\ a <= m /\ m <= Len(f)
  BY <1>2, <1>3
<1>5. \A o \in InNone(c, e) : c.desc[o].num \in Alone(c)
  <2> SUFFICES ASSUME NEW o \in InNone(c, e) PROVE c.desc[o].num \in Alone(c)
    OBVIOUS
  <2>1. o \in DescIntfs(c) /\ o \notin InAs(c, e)
    BY DEF InNone
  <2>2. c.desc[o].num \notin Covered(c, e)
    BY <2>1, CoveredIn
  <2>3. c.desc[o].num \in 0 .. c.num - 1
    BY <2>1 DEF CWell
  <2> QED BY <2>2, <2>3 DEF Alone
<1>6. \A j \in a + 1 .. m : f[j].first \in Alone(c)
  BY <1>3, <1>5
<1>7. \A x \in Alone(c) : \E o \in InNone(c, e) : c.desc[o].num = x
  <2> SUFFICES ASSUME NEW x \in Alone(c) PROVE \E o \in InNone(c, e) : c.desc[o].num = x
    OBVIOUS
  <2>1. x \in 0 .. c.num - 1 /\ x \notin Covered(c, e)
    BY DEF Alone
  <2>2. PICK o \in DescIntfs(c) : c.desc[o].num = x
    BY <2>1 DEF CWell
  <2>3. o \notin InAs(c, e)
    BY <2>1, <2>2, CoveredIn
  <2> QED BY <2>2, <2>3 DEF InNone
<1> QED BY <1>1, <1>2, <1>3, <1>4, <1>5, <1>6, <1>7

\* The function that an interface with the number x joins: the one of that number, or the
\* next.
RestFinds(f, a, x, m) ==
    /\ MayJoin(f, a, x) # {}
    /\ \A j \in MayJoin(f, a, x) :
         (\A i \in MayJoin(f, a, x) : j <= i) =>
         /\ j \in a + 1 .. Len(f)
         /\ \/ j \in a + 1 .. m /\ f[j].first = x
            \/ /\ j = m + 1 /\ f[j].intfs = {}
               /\ \A i \in a + 1 .. m : f[i].first # x

\* An interface that is in no association joins the function of its number, or has the
\* next one: there is one.
LEMMA TableRest ==
    ASSUME ConfParams, NEW c \in Configs, CWell(c), NEW e, e = Len(c.desc) + 1,
           NEW a, a = Cardinality(AllAs(c)), NEW f, NEW l, NEW m, OneTable(c, f, l, e, m),
           NEW o \in l, NEW x, x = c.desc[o].num
    PROVE  RestFinds(f, a, x, m)
<1>1. /\ a \in Nat /\ m \in Nat /\ Len(f) \in Nat /\ a <= m /\ m <= Len(f)
      /\ AsSet(c, e) = AllAs(c)
      /\ IsFiniteSet(Alone(c)) /\ Cardinality(Alone(c)) \in Nat
      /\ Len(f) = Cardinality(Alone(c)) + a
      /\ \A j \in a + 1 .. m : f[j].first \in Alone(c)
      /\ \A q \in InNone(c, e) : c.desc[q].num \in Alone(c)
  BY TableHas
<1>2. /\ \A j \in a + 1 .. m : f[j].intfs # {}
      /\ \A i, j \in a + 1 .. m : f[i].first = f[j].first => i = j
      /\ \A j \in m + 1 .. Len(f) : f[j].intfs = {}
      /\ l \subseteq InNone(c, e)
  BY <1>1 DEF OneTable, TableOf
<1>3. x \in Alone(c)
  BY <1>1, <1>2
<1> DEFINE may == MayJoin(f, a, x)
<1>4. \A j \in may : j \in a + 1 .. Len(f) /\ (f[j].intfs = {} \/ f[j].first = x)
  BY DEF MayJoin
<1>5. \A j \in a + 1 .. Len(f) : f[j].intfs = {} \/ f[j].first = x => j \in may
  BY DEF MayJoin
<1> HIDE DEF may
<1>6. CASE \E k \in a + 1 .. m : f[k].first = x
  <2>1. PICK k \in a + 1 .. m : f[k].first = x
    BY <1>6
  <2>2. k \in a + 1 .. Len(f)
    BY <1>1
  <2>3. k \in may
    BY <1>5, <2>1, <2>2
  <2>4. ASSUME NEW j \in may, \A i \in may : j <= i
        PROVE  j \in a + 1 .. m /\ f[j].first = x /\ j \in a + 1 .. Len(f)
    <3>1. j <= k /\ j \in a + 1 .. Len(f)
      BY <1>4, <2>3, <2>4
    <3>2. j \in a + 1 .. m
      BY <1>1, <3>1
    <3> QED BY <1>2, <1>4, <3>1, <3>2
  <2> QED BY <2>3, <2>4 DEF may, RestFinds
<1>7. CASE \A k \in a + 1 .. m : f[k].first # x
  <2>1. m + 1 \in a + 1 .. Len(f) /\ m + 1 \in m + 1 .. Len(f)
    <3> DEFINE T == Alone(c) \ {x}
               v == [k \in a + 1 .. m |-> f[k].first]
               s == Cardinality(Alone(c))
               t == Cardinality(T)
    <3>1. IsFiniteSet(T) /\ t = s - 1
      BY <1>1, <1>3, FS_RemoveElement
    <3>2. \A k \in a + 1 .. m : v[k] \in T
      BY <1>1, <1>7
    <3>3. \A i, j \in a + 1 .. m : v[i] = v[j] => i = j
      BY <1>2
    <3>4. m - a <= t
      <4> HIDE DEF v, T
      <4> QED BY <1>1, <3>1, <3>2, <3>3, ApartBound
    <3>5. s \in Nat /\ Len(f) = s + a
      BY <1>1
    <3> HIDE DEF t, s, T
    <3> QED BY <1>1, <3>1, <3>4, <3>5
  <2>2. f[m + 1].intfs = {} /\ m + 1 \in may
    BY <1>2, <1>5, <2>1
  <2>3. ASSUME NEW j \in may, \A i \in may : j <= i
        PROVE  j = m + 1 /\ j \in a + 1 .. Len(f)
    <3>1. j <= m + 1 /\ j \in a + 1 .. Len(f)
      BY <1>4, <2>2, <2>3
    <3>2. j \notin a + 1 .. m
      BY <1>2, <1>4, <1>7
    <3> QED BY <1>1, <3>1, <3>2
  <2>4. \A j \in may : (\A i \in may : j <= i) =>
          j \in a + 1 .. Len(f) /\ j = m + 1 /\ f[j].intfs = {}
    BY <2>2, <2>3
  <2> QED BY <1>7, <2>2, <2>4 DEF may, RestFinds
<1> QED BY <1>6, <1>7

\* The functions g are f when the interface o with the number x joined the j-th.
Joined(f, g, m, a, o, x, j) ==
    /\ j \in a + 1 .. Len(f)
    /\ \/ j \in a + 1 .. m /\ f[j].first = x
       \/ j = m + 1 /\ f[j].intfs = {} /\ \A i \in a + 1 .. m : f[i].first # x
    /\ g \in Seq([first : Nat, n : Nat, intfs : SUBSET Nat]) /\ Len(g) = Len(f)
    /\ g[j].intfs = f[j].intfs \cup {o} /\ g[j].first = x
    /\ \A i \in 1 .. Len(f) : i # j => g[i] = f[i]

LEMMA TableJoins ==
    ASSUME ConfParams, NEW c \in Configs, CWell(c), NEW e, e = Len(c.desc) + 1,
           NEW a, a = Cardinality(AllAs(c)), NEW f, NEW l, NEW m, OneTable(c, f, l, e, m),
           NEW o \in l, NEW x, x = c.desc[o].num,
           NEW g, NEW j, Joined(f, g, m, a, o, x, j)
    PROVE  \E k : OneTable(c, g, l \ {o}, e, k)
<1>0. /\ j \in a + 1 .. Len(f)
      /\ \/ j \in a + 1 .. m /\ f[j].first = x
         \/ j = m + 1 /\ f[j].intfs = {} /\ \A i \in a + 1 .. m : f[i].first # x
      /\ g \in Seq([first : Nat, n : Nat, intfs : SUBSET Nat]) /\ Len(g) = Len(f)
      /\ g[j].intfs = f[j].intfs \cup {o} /\ g[j].first = x
      /\ \A i \in 1 .. Len(f) : i # j => g[i] = f[i]
  BY DEF Joined
<1> DEFINE fs == InNone(c, e)
<1>1. /\ a \in Nat /\ m \in Nat /\ Len(f) \in Nat /\ a <= m /\ m <= Len(f)
      /\ AsSet(c, e) = AllAs(c)
  BY TableHas
<1>5. \A i \in 1 .. a : i \in 1 .. Len(f) /\ i # j
  <2>1. j \in Int /\ j >= a + 1
    BY <1>0, <1>1
  <2> QED BY <1>1, <2>1
<1> USE <1>0
<1>2. /\ Len(f) = Cardinality(Alone(c)) + Cardinality(AllAs(c))
      /\ \A q \in AsSet(c, e) : \E i \in 1 .. a : f[i].intfs = OfAs(c, q)
      /\ \A i \in 1 .. a : \E q \in AsSet(c, e) : f[i].intfs = OfAs(c, q)
      /\ \A i, k \in 1 .. a : i # k => f[i].intfs \cap f[k].intfs = {}
  BY <1>1 DEF OneTable, TableOf
<1>3. /\ \A i \in a + 1 .. m : f[i].intfs # {}
      /\ \A i \in a + 1 .. m : f[i].intfs = {u \in fs \ l : c.desc[u].num = f[i].first}
      /\ \A i, k \in a + 1 .. m : f[i].first = f[k].first => i = k
      /\ \A i \in m + 1 .. Len(f) : f[i].intfs = {}
      /\ \A u \in fs \ l : \E i \in a + 1 .. m : f[i].first = c.desc[u].num
      /\ l \subseteq fs
  BY <1>1 DEF OneTable, TableOf
<1> HIDE DEF fs
<1>4. fs \ (l \ {o}) = (fs \ l) \cup {o} /\ l \ {o} \subseteq fs
  BY <1>3
<1>6. /\ \A q \in AsSet(c, e) : \E i \in 1 .. a : g[i].intfs = OfAs(c, q)
      /\ \A i \in 1 .. a : \E q \in AsSet(c, e) : g[i].intfs = OfAs(c, q)
      /\ \A i, k \in 1 .. a : i # k => g[i].intfs \cap g[k].intfs = {}
  <2>1. \A i \in 1 .. a : g[i] = f[i]
    BY <1>5
  <2>2. ASSUME NEW q \in AsSet(c, e) PROVE \E i \in 1 .. a : g[i].intfs = OfAs(c, q)
    <3>1. PICK i \in 1 .. a : f[i].intfs = OfAs(c, q)
      BY <1>2
    <3> QED BY <2>1, <3>1
  <2>3. ASSUME NEW i \in 1 .. a PROVE \E q \in AsSet(c, e) : g[i].intfs = OfAs(c, q)
    <3>1. PICK q \in AsSet(c, e) : f[i].intfs = OfAs(c, q)
      BY <1>2
    <3> QED BY <2>1, <3>1
  <2>4. \A i, k \in 1 .. a : i # k => g[i].intfs \cap g[k].intfs = {}
    BY <1>2, <2>1
  <2> QED BY <2>2, <2>3, <2>4
<1>7. g[j].intfs # {} /\ j \in 1 .. Len(f) /\ j \in Nat
  BY <1>1
<1>8. CASE j \in a + 1 .. m /\ f[j].first = x
  <2>1. \A i \in a + 1 .. m : i \in 1 .. Len(f)
    BY <1>1
  <2>2. \A i \in a + 1 .. m : g[i].first = f[i].first
    BY <1>8, <2>1
  <2>3. ASSUME NEW i \in a + 1 .. m
        PROVE  g[i].intfs # {} /\
               g[i].intfs = {u \in fs \ (l \ {o}) : c.desc[u].num = g[i].first}
    <3>1. CASE i = j
      <4>1. f[j].intfs = {u \in fs \ l : c.desc[u].num = x}
        BY <1>3, <1>8
      <4>2. g[j].intfs = {u \in (fs \ l) \cup {o} : c.desc[u].num = x}
        BY <4>1
      <4>3. g[j].intfs = {u \in fs \ (l \ {o}) : c.desc[u].num = g[j].first}
        BY <1>4, <4>2
      <4> QED BY <1>7, <3>1, <4>3
    <3>2. CASE i # j
      <4>1. f[i].first # x
        BY <1>3, <1>8, <3>2
      <4>2. g[i] = f[i]
        BY <2>1, <3>2
      <4>3. f[i].intfs = {u \in fs \ l : c.desc[u].num = f[i].first} /\ f[i].intfs # {}
        BY <1>3
      <4>4. g[i].intfs = {u \in (fs \ l) \cup {o} : c.desc[u].num = g[i].first}
        BY <4>1, <4>2, <4>3
      <4> QED BY <1>4, <4>2, <4>3, <4>4
    <3> QED BY <3>1, <3>2
  <2>4. \A i \in m + 1 .. Len(g) : g[i].intfs = {}
    <3>1. \A i \in m + 1 .. Len(f) : i # j /\ i \in 1 .. Len(f)
      BY <1>1, <1>8
    <3> QED BY <1>3, <3>1
  <2>5. \A u \in fs \ (l \ {o}) : \E i \in a + 1 .. m : g[i].first = c.desc[u].num
    <3>1. \A u \in fs \ l : \E i \in a + 1 .. m : g[i].first = c.desc[u].num
      BY <1>3, <2>2
    <3>2. g[j].first = c.desc[o].num /\ j \in a + 1 .. m
      BY <1>8
    <3> QED BY <1>4, <3>1, <3>2
  <2>6. \A i, k \in a + 1 .. m : g[i].first = g[k].first => i = k
    BY <1>3, <2>2
  <2>7. m \in a .. Len(g)
    BY <1>1
  <2>8. OneTable(c, g, l \ {o}, e, m)
    <3>1. Cardinality(AsSet(c, e)) = a /\ Len(g) = Cardinality(Alone(c)) + Cardinality(AllAs(c))
      BY <1>1, <1>2
    <3>2. TableOf(c, g, l \ {o}, e, m, a)
      BY <1>4, <1>6, <2>3, <2>4, <2>5, <2>6, <2>7, <3>1 DEF TableOf, fs
    <3> QED BY <3>1, <3>2 DEF OneTable
  <2> QED BY <2>8
<1>9. CASE j = m + 1 /\ f[j].intfs = {} /\ \A i \in a + 1 .. m : f[i].first # x
  <2> DEFINE k == m + 1
  <2>1. /\ \A i \in a + 1 .. m : i \in 1 .. Len(f) /\ i # j /\ i \in a + 1 .. k
        /\ \A i \in a + 1 .. k : i = j \/ i \in a + 1 .. m
        /\ k = j
    <3>1. k = j /\ k = m + 1
      BY <1>9
    <3>2. \A i \in a + 1 .. m : i \in 1 .. Len(f) /\ i # k /\ i \in a + 1 .. k
      BY <1>1
    <3>3. \A i \in a + 1 .. k : i = k \/ i \in a + 1 .. m
      BY <1>1
    <3> QED BY <3>1, <3>2, <3>3
  <2>2. k \in a .. Len(g) /\ j \in a + 1 .. k
    BY <1>1, <1>9
  <2>3. \A i \in k + 1 .. Len(g) : i # j /\ i \in 1 .. Len(f) /\ i \in m + 1 .. Len(f)
    BY <1>1, <1>9
  <2> HIDE DEF k
  <2>4. \A i \in a + 1 .. m : g[i] = f[i]
    BY <2>1
  <2>5. ASSUME NEW i \in a + 1 .. k
        PROVE  g[i].intfs # {} /\
               g[i].intfs = {u \in fs \ (l \ {o}) : c.desc[u].num = g[i].first}
    <3>1. CASE i = j
      <4>1. \A u \in fs \ l : c.desc[u].num # x
        BY <1>3, <1>9
      <4>2. g[j].intfs = {o}
        BY <1>9
      <4>3. {u \in (fs \ l) \cup {o} : c.desc[u].num = x} = {o}
        BY <4>1
      <4> QED BY <1>4, <3>1, <4>2, <4>3
    <3>2. CASE i \in a + 1 .. m
      <4>1. f[i].first # x
        BY <1>9, <3>2
      <4>2. g[i] = f[i]
        BY <2>4, <3>2
      <4>3. f[i].intfs = {u \in fs \ l : c.desc[u].num = f[i].first} /\ f[i].intfs # {}
        BY <1>3, <3>2
      <4>4. g[i].intfs = {u \in (fs \ l) \cup {o} : c.desc[u].num = g[i].first}
        BY <4>1, <4>2, <4>3
      <4> QED BY <1>4, <4>2, <4>3, <4>4
    <3> QED BY <2>1, <3>1, <3>2
  <2>6. \A i \in k + 1 .. Len(g) : g[i].intfs = {}
    BY <1>3, <2>3
  <2>7. \A u \in fs \ (l \ {o}) : \E i \in a + 1 .. k : g[i].first = c.desc[u].num
    <3>1. ASSUME NEW u \in fs \ l PROVE \E i \in a + 1 .. k : g[i].first = c.desc[u].num
      <4>1. PICK i \in a + 1 .. m : f[i].first = c.desc[u].num
        BY <1>3
      <4>2. g[i] = f[i] /\ i \in a + 1 .. k
        BY <2>1, <2>4
      <4> QED BY <4>1, <4>2
    <3> QED BY <1>4, <2>2, <3>1
  <2>8. \A i, h \in a + 1 .. k : g[i].first = g[h].first => i = h
    <3> SUFFICES ASSUME NEW i \in a + 1 .. k, NEW h \in a + 1 .. k, g[i].first = g[h].first
                 PROVE  i = h
      OBVIOUS
    <3>1. \A q \in a + 1 .. m : g[q].first # x
      BY <1>9, <2>4
    <3>2. CASE i \in a + 1 .. m /\ h \in a + 1 .. m
      BY <1>3, <2>4, <3>2
    <3>3. CASE i = j \/ h = j
      BY <2>1, <3>1, <3>3
    <3> QED BY <2>1, <3>2, <3>3
  <2>9. OneTable(c, g, l \ {o}, e, k)
    <3>1. Cardinality(AsSet(c, e)) = a /\ Len(g) = Cardinality(Alone(c)) + Cardinality(AllAs(c))
      BY <1>1, <1>2
    <3>2. TableOf(c, g, l \ {o}, e, k, a)
      BY <1>4, <1>6, <2>2, <2>5, <2>6, <2>7, <2>8, <3>1 DEF TableOf, fs
    <3> QED BY <3>1, <3>2 DEF OneTable
  <2> QED BY <2>9
<1> QED BY <1>8, <1>9

\* Every interface has one function, and every function has its interfaces.
Apart(c, f) ==
    /\ \A j \in 1 .. Len(f) : f[j].intfs # {}
    /\ \A i, j \in 1 .. Len(f) : i # j => f[i].intfs \cap f[j].intfs = {}
    /\ \A o \in DescIntfs(c) : \E j \in 1 .. Len(f) : o \in f[j].intfs
    /\ \A j \in 1 .. Len(f) : \A o \in f[j].intfs : \A u \in DescIntfs(c) :
         u \in f[j].intfs <=>
           c.desc[o].num = c.desc[u].num \/ \E q \in AllAs(c) : o \in OfAs(c, q) /\ u \in OfAs(c, q)

LEMMA TableDone ==
    ASSUME ConfParams, NEW c \in Configs, CWell(c), NEW e, e = Len(c.desc) + 1,
           NEW f, NEW m, OneTable(c, f, {}, e, m)
    PROVE  Apart(c, f)
<1> DEFINE a == Cardinality(AllAs(c))
           fs == InNone(c, e)
<1>1. /\ a \in Nat /\ m \in Nat /\ Len(f) \in Nat /\ a <= m /\ m <= Len(f)
      /\ AsSet(c, e) = AllAs(c)
      /\ IsFiniteSet(Alone(c)) /\ Cardinality(Alone(c)) \in Nat
      /\ Len(f) = Cardinality(Alone(c)) + a
      /\ \A x \in Alone(c) : \E o \in InNone(c, e) : c.desc[o].num = x
  BY TableHas
<1>2. /\ \A q \in AllAs(c) : \E i \in 1 .. a : f[i].intfs = OfAs(c, q)
      /\ \A i \in 1 .. a : \E q \in AllAs(c) : f[i].intfs = OfAs(c, q)
      /\ \A i, k \in 1 .. a : i # k => f[i].intfs \cap f[k].intfs = {}
  <2>1. TableOf(c, f, {}, e, m, a)
    BY <1>1 DEF OneTable
  <2> HIDE DEF a
  <2> QED BY <1>1, <2>1 DEF TableOf
<1>3. /\ \A i \in a + 1 .. m : f[i].intfs # {}
      /\ \A i \in a + 1 .. m : f[i].intfs = {u \in fs : c.desc[u].num = f[i].first}
      /\ \A i, k \in a + 1 .. m : f[i].first = f[k].first => i = k
      /\ \A u \in fs : \E i \in a + 1 .. m : f[i].first = c.desc[u].num
  <2>1. TableOf(c, f, {}, e, m, a)
    BY <1>1 DEF OneTable
  <2>2. fs \ {} = fs
    OBVIOUS
  <2> HIDE DEF a
  <2> QED BY <2>1, <2>2 DEF TableOf
<1>4. fs \subseteq DescIntfs(c) /\ fs = DescIntfs(c) \ InAs(c, e)
  BY DEF InNone
<1>5. \A q \in AllAs(c) : OfAs(c, q) \subseteq DescIntfs(c) /\ OfAs(c, q) \cap fs = {}
  BY <1>1 DEF OfAs, InNone, InAs
<1> HIDE DEF a, fs
<1>6. m = Len(f)
  <2> DEFINE T == Alone(c)
             v == [j \in a + 1 .. m |-> f[j].first]
             s == Cardinality(T)
  <2>1. \A x \in T : \E j \in a + 1 .. m : v[j] = x
    <3> SUFFICES ASSUME NEW x \in T PROVE \E j \in a + 1 .. m : v[j] = x
      OBVIOUS
    <3>1. PICK o \in fs : c.desc[o].num = x
      BY <1>1 DEF fs
    <3>2. PICK j \in a + 1 .. m : f[j].first = x
      BY <1>3, <3>1
    <3> QED BY <3>2
  <2>2. IsFiniteSet(T) /\ s \in Nat /\ Len(f) = s + a
    BY <1>1
  <2>3. s <= m - a
    <3> HIDE DEF T, v
    <3> QED BY <1>1, <2>1, <2>2, OntoBound
  <2> HIDE DEF T, v, s
  <2> QED BY <1>1, <2>2, <2>3
<1>7. \A j \in 1 .. Len(f) : j \in 1 .. a \/ j \in a + 1 .. m
  BY <1>1, <1>6
<1>8. \A j \in 1 .. a : j \in 1 .. Len(f)
  BY <1>1
<1>9. \A j \in a + 1 .. m : j \in 1 .. Len(f)
  BY <1>1
<1>10. ASSUME NEW j \in 1 .. Len(f) PROVE f[j].intfs # {}
  <2>1. CASE j \in 1 .. a
    BY <1>2, <2>1, OfAsSome
  <2> QED BY <1>3, <1>7, <2>1
<1>11. ASSUME NEW i \in 1 .. a, NEW j \in a + 1 .. m
       PROVE  f[i].intfs \cap f[j].intfs = {}
  <2>1. PICK q \in AllAs(c) : f[i].intfs = OfAs(c, q)
    BY <1>2
  <2>2. f[j].intfs \subseteq fs
    BY <1>3
  <2> QED BY <1>5, <2>1, <2>2
<1>12. ASSUME NEW i \in a + 1 .. m, NEW j \in a + 1 .. m, i # j
       PROVE  f[i].intfs \cap f[j].intfs = {}
  <2>1. f[i].first # f[j].first
    BY <1>3, <1>12
  <2>2. /\ f[i].intfs = {u \in fs : c.desc[u].num = f[i].first}
        /\ f[j].intfs = {u \in fs : c.desc[u].num = f[j].first}
    BY <1>3
  <2> QED BY <2>1, <2>2
<1>13. ASSUME NEW i \in 1 .. Len(f), NEW j \in 1 .. Len(f), i # j
       PROVE  f[i].intfs \cap f[j].intfs = {}
  <2>1. CASE i \in 1 .. a /\ j \in 1 .. a
    BY <1>2, <1>13, <2>1
  <2>2. CASE i \in a + 1 .. m /\ j \in a + 1 .. m
    BY <1>12, <1>13, <2>2
  <2>3. CASE i \in 1 .. a /\ j \in a + 1 .. m
    BY <1>11, <2>3
  <2>4. CASE j \in 1 .. a /\ i \in a + 1 .. m
    BY <1>11, <2>4
  <2> QED BY <1>7, <2>1, <2>2, <2>3, <2>4
<1>14. ASSUME NEW o \in DescIntfs(c) PROVE \E j \in 1 .. Len(f) : o \in f[j].intfs
  <2>1. CASE o \in fs
    <3>1. PICK j \in a + 1 .. m : f[j].first = c.desc[o].num
      BY <1>3, <2>1
    <3>2. o \in f[j].intfs
      BY <1>3, <2>1, <3>1
    <3> QED BY <1>9, <3>2
  <2>2. CASE o \notin fs
    <3>1. PICK q \in AllAs(c) : o \in OfAs(c, q)
      BY <1>1, <1>4, <2>2 DEF InAs
    <3>2. PICK j \in 1 .. a : f[j].intfs = OfAs(c, q)
      BY <1>2
    <3> QED BY <1>8, <3>1, <3>2
  <2> QED BY <2>1, <2>2
<1>15. ASSUME NEW j \in 1 .. Len(f), NEW o \in f[j].intfs, NEW u \in DescIntfs(c)
       PROVE  u \in f[j].intfs <=>
                c.desc[o].num = c.desc[u].num \/ \E q \in AllAs(c) : o \in OfAs(c, q) /\ u \in OfAs(c, q)
  <2>1. CASE j \in 1 .. a
    <3>1. PICK q \in AllAs(c) : f[j].intfs = OfAs(c, q)
      BY <1>2, <2>1
    <3>2. c.desc[o].num = c.desc[u].num => u \in OfAs(c, q)
      BY <3>1 DEF OfAs
    <3>3. \A r \in AllAs(c) : o \in OfAs(c, r) => r = q
      BY <3>1, NumsApart
    <3> QED BY <3>1, <3>2, <3>3
  <2>2. CASE j \in a + 1 .. m
    <3>1. f[j].intfs = {w \in fs : c.desc[w].num = f[j].first}
      BY <1>3, <2>2
    <3>2. o \in fs /\ c.desc[o].num = f[j].first
      BY <3>1
    <3>3. \A q \in AllAs(c) : o \notin OfAs(c, q)
      BY <1>5, <3>2
    <3>4. c.desc[o].num = c.desc[u].num => u \in fs
      <4>1. o \notin InAs(c, e)
        BY <1>4, <3>2
      <4>2. c.desc[o].num = c.desc[u].num => u \notin InAs(c, e)
        BY <1>4, <3>2, <4>1, CoveredIn
      <4> QED BY <1>4, <4>2
    <3> QED BY <3>1, <3>2, <3>3, <3>4
  <2> QED BY <1>7, <2>1, <2>2
<1> QED BY <1>10, <1>13, <1>14, <1>15 DEF Apart

\* The functions of a configuration that is as it should be, step by step.
ConfOne ==
    CWell(hcCfg) =>
        /\ hcAt \in {"read", "intfs"} =>
             /\ hcAssoc \in Nat
             /\ hcAssoc + Cardinality(AsSet(hcCfg, hcPos)) = Cardinality(Covered(hcCfg, hcPos))
        /\ hcAt = "assoc" =>
             /\ OneTable(hcCfg, hcFuns, hcList, hcPos, Cardinality(AsSet(hcCfg, hcPos)))
             /\ hcList = InNone(hcCfg, hcPos)
        /\ hcAt = "rest" =>
             /\ AsSet(hcCfg, hcPos) = AllAs(hcCfg)
             /\ \E m : OneTable(hcCfg, hcFuns, hcList, Len(hcCfg.desc) + 1, m)
        /\ hcAt = "ready" => Apart(hcCfg, hcFuns)

LEMMA OneFirst ==
    ASSUME Conf!Init
    PROVE  ConfOne
<1>1. hcAt = "read" /\ hcPos = 1 /\ hcAssoc = 0
  BY DEF Conf!Init
<1>2. AsSet(hcCfg, 1) = {}
  <2>1. \A q : q \notin 1 .. 1 - 1
    OBVIOUS
  <2> QED BY <2>1 DEF AsSet
<1>3. Covered(hcCfg, 1) = {} /\ Cardinality(AsSet(hcCfg, 1)) = 0 /\ Cardinality(Covered(hcCfg, 1)) = 0
  <2>1. Covered(hcCfg, 1) = {}
    BY <1>2 DEF Covered
  <2> QED BY <1>2, <2>1, FS_EmptySet
<1>4. /\ hcAssoc \in Nat
      /\ hcAssoc + Cardinality(AsSet(hcCfg, hcPos)) = Cardinality(Covered(hcCfg, hcPos))
  BY <1>1, <1>3
<1> QED BY <1>1, <1>4 DEF ConfOne

LEMMA OneParses ==
    ASSUME ConfParams, ConfInv, ConfOne, Conf!CfgInit \/ Conf!IntfInit \/ Conf!Other
    PROVE  ConfOne'
<1> DEFINE c == hcCfg
<1>1. c' = c /\ c \in Configs /\ hcAt \in {"read", "intfs"} /\ hcAt' \in {"intfs", "failed"}
  BY DEF Conf!CfgInit, Conf!IntfInit, Conf!Other, ConfInv, ConfType
<1> SUFFICES ASSUME CWell(c), hcAt' = "intfs"
             PROVE  /\ hcAssoc' \in Nat
                    /\ hcAssoc' + Cardinality(AsSet(c, hcPos')) = Cardinality(Covered(c, hcPos'))
  BY <1>1 DEF ConfOne
<1>2. hcAssoc \in Nat /\ hcAssoc + Cardinality(AsSet(c, hcPos)) = Cardinality(Covered(c, hcPos))
  BY <1>1 DEF ConfOne
<1>3. CASE hcAssoc' = hcAssoc /\ hcPos' = hcPos
  BY <1>2, <1>3
<1>4. hcPos \in Nat /\ hcPos # 0 /\ ConfN \in Nat
  <2>1. hcPos \in 1 .. ConfN + 1 /\ ConfN \in Nat
    BY <1>1, ConfBasics DEF ConfInv, ConfType
  <2> QED BY <2>1
<1>5. CASE hcPos' = hcPos + 1 /\ hcPos <= ConfN /\ c.desc[hcPos].k # "assoc" /\ hcAssoc' = hcAssoc
  <2>1. AsSet(c, hcPos + 1) = AsSet(c, hcPos)
    BY <1>4, <1>5, AsStep
  <2>2. Covered(c, hcPos + 1) = Covered(c, hcPos)
    BY <2>1 DEF Covered
  <2> QED BY <1>2, <1>5, <2>1, <2>2
<1>6. CASE /\ hcPos' = hcPos + 1 /\ hcPos <= ConfN /\ c.desc[hcPos].k = "assoc"
           /\ hcAssoc' = hcAssoc + c.desc[hcPos].n - 1
  <2> DEFINE n == c.desc[hcPos].n
             x == Cardinality(AsSet(c, hcPos))
             y == Cardinality(Covered(c, hcPos))
  <2>1. hcPos \in 1 .. Len(c.desc)
    BY <1>4, <1>6 DEF ConfN
  <2>2. /\ hcPos \in AllAs(c) /\ Cardinality(AsSet(c, hcPos + 1)) = x + 1
        /\ Cardinality(Covered(c, hcPos + 1)) = y + n
    BY <1>1, <1>6, <2>1, CoverStep
  <2>3. n \in Nat /\ n > 0
    BY <1>1, <2>2, AsMem DEF CWell
  <2>4. x \in Nat /\ y \in Nat
    <3>1. x \in Nat
      BY <1>4, AsStep
    <3>2. y \in Nat
      BY <1>1, CoveredIn
    <3> QED BY <3>1, <3>2
  <2>5. hcAssoc' = hcAssoc + n - 1 /\ hcAssoc + x = y
    BY <1>2, <1>6
  <2> HIDE DEF n, x, y
  <2>6. hcAssoc' \in Nat /\ hcAssoc' + (x + 1) = y + n
    BY <1>2, <2>3, <2>4, <2>5
  <2> QED BY <1>6, <2>2, <2>6
<1>7. \A k : Conf!Is(hcPos, k) <=> hcPos <= ConfN /\ c.desc[hcPos].k = k
  BY <1>1, ConfBasics
<1>8. CASE Conf!CfgInit
  BY <1>3, <1>8 DEF Conf!CfgInit
<1>9. CASE Conf!IntfInit
  <2>1. hcPos <= ConfN /\ c.desc[hcPos].k # "assoc" /\ hcAssoc' = hcAssoc
    BY <1>7, <1>9 DEF Conf!IntfInit
  <2>2. hcPos' = hcPos + 1
    BY <1>9 DEF Conf!IntfInit
  <2> QED BY <1>5, <2>1, <2>2
<1>10. CASE Conf!Other
  <2>1. hcPos' = hcPos + 1 /\ hcPos <= ConfN
        /\ hcAssoc' = IF c.desc[hcPos].k = "assoc" THEN hcAssoc + c.desc[hcPos].n - 1 ELSE hcAssoc
    <3>1. Conf!Len0 = ConfN /\ Conf!D(hcPos) = c.desc[hcPos]
      BY <1>1, ConfBasics
    <3> QED BY <1>7, <1>10, <3>1 DEF Conf!Other
  <2> QED BY <1>5, <1>6, <2>1
<1> QED BY <1>8, <1>9, <1>10

LEMMA OneFuns ==
    ASSUME ConfParams, ConfInv, ConfOne, Conf!Funs
    PROVE  ConfOne'
<1> DEFINE c == hcCfg
<1>1. /\ c' = c /\ c \in Configs /\ hcAt = "intfs" /\ hcAt' \in {"assoc", "failed"}
      /\ hcPos > ConfN /\ hcList' = hcList
  BY DEF Conf!Funs, ConfInv, ConfType, Conf!Len0, ConfN
<1> SUFFICES ASSUME CWell(c), hcAt' = "assoc"
             PROVE  /\ OneTable(c, hcFuns', hcList', hcPos', Cardinality(AsSet(c, hcPos')))
                    /\ hcList' = InNone(c, hcPos')
  BY <1>1 DEF ConfOne
<1>2. hcAssoc \in Nat /\ hcAssoc + Cardinality(AsSet(c, hcPos)) = Cardinality(Covered(c, hcPos))
  BY <1>1 DEF ConfOne
<1>3. hcPos = Len(c.desc) + 1
  <2>1. hcPos \in 1 .. ConfN + 1 /\ ConfN \in Nat
    BY <1>1, ConfBasics DEF ConfInv, ConfType
  <2>2. hcPos = ConfN + 1
    BY <1>1, <2>1
  <2> QED BY <2>2 DEF ConfN
<1> DEFINE n == hcAssoc
           m == (c.num - n) % 256
<1>4. /\ hcFuns' = [i \in 1 .. m |-> [first |-> 0, n |-> 0, intfs |-> {}]] /\ hcPos' = 1
  BY <1>1 DEF Conf!Funs
<1>5. /\ Cardinality(Alone(c)) \in Nat /\ Cardinality(AllAs(c)) \in Nat
      /\ m = Cardinality(Alone(c)) + Cardinality(AllAs(c))
  <2>1. n \in Nat /\ n + Cardinality(AllAs(c)) = Cardinality(Covered(c, Len(c.desc) + 1))
    BY <1>2, <1>3 DEF AllAs
  <2> HIDE DEF n
  <2> QED BY <1>1, <2>1, TableSize
<1>6. m \in Nat
  <2> DEFINE x == Cardinality(Alone(c))
             y == Cardinality(AllAs(c))
  <2>1. x \in Nat /\ y \in Nat /\ m = x + y
    BY <1>5
  <2> HIDE DEF m, x, y
  <2> QED BY <2>1
<1>7. hcList = DescIntfs(c)
  <2>1. hcList = {p \in DescIntfs(c) : p < hcPos}
    <3>1. Conf!Intfs = DescIntfs(c)
      BY <1>1, ConfBasics DEF DescIntfs, ConfN
    <3> QED BY <1>1, <3>1 DEF ConfInv, ConfHeld
  <2>2. \A p \in 1 .. Len(c.desc) : p < hcPos
    BY <1>1, <1>3, AsMem
  <2> QED BY <2>1, <2>2 DEF DescIntfs
<1>8. OneTable(c, hcFuns', DescIntfs(c), 1, 0) /\ DescIntfs(c) = InNone(c, 1)
  <2> HIDE DEF m
  <2> QED BY <1>1, <1>4, <1>5, <1>6, TableFirst
<1>9. Cardinality(AsSet(c, 1)) = 0
  <2>1. \A q : q \notin 1 .. 1 - 1
    OBVIOUS
  <2>2. AsSet(c, 1) = {}
    BY <2>1 DEF AsSet
  <2> QED BY <2>2, FS_EmptySet
<1> HIDE DEF m, n, c
<1>10. hcList' = DescIntfs(c)
  BY <1>1, <1>7
<1> QED BY <1>4, <1>8, <1>9, <1>10

LEMMA OneAssoc ==
    ASSUME ConfParams, ConfInv, ConfOne, Conf!Assoc
    PROVE  ConfOne'
<1> DEFINE c == hcCfg
           a == Cardinality(AsSet(c, hcPos))
<1>1. c' = c /\ c \in Configs /\ hcAt = "assoc" /\ hcAt' \in {"assoc", "rest"}
      /\ hcPos \in Nat /\ hcPos # 0
  BY AssocIs DEF ConfInv, ConfType
<1> SUFFICES ASSUME CWell(c)
             PROVE  /\ hcAt' = "assoc" =>
                         /\ OneTable(c, hcFuns', hcList', hcPos', Cardinality(AsSet(c, hcPos')))
                         /\ hcList' = InNone(c, hcPos')
                    /\ hcAt' = "rest" =>
                         /\ AsSet(c, hcPos') = AllAs(c)
                         /\ \E m : OneTable(c, hcFuns', hcList', Len(c.desc) + 1, m)
  BY <1>1 DEF ConfOne
<1>2. OneTable(c, hcFuns, hcList, hcPos, a) /\ hcList = InNone(c, hcPos)
  BY <1>1 DEF ConfOne
<1>3. Conf!Assocs = a
  BY AssocsAre
<1>4. ConfN \in Nat /\ hcPos \in 1 .. ConfN + 1 /\ ConfN = Len(c.desc)
  BY <1>1, ConfBasics DEF ConfInv, ConfType, ConfN
<1>5. CASE /\ hcAt' = "rest" /\ UNCHANGED <<hcPos, hcFuns, hcList>>
           /\ hcPos > ConfN \/ Conf!Assocs >= Len(hcFuns)
  <2>1. AsSet(c, hcPos) = AllAs(c)
    <3>1. CASE hcPos > ConfN
      <4>1. hcPos = Len(c.desc) + 1
        BY <1>4, <3>1
      <4> QED BY <4>1 DEF AllAs
    <3>2. CASE a >= Len(hcFuns)
      <4> DEFINE u == Cardinality(Alone(c))
                 v == Cardinality(AllAs(c))
                 n == Len(hcFuns)
      <4>1. u \in Nat /\ v \in Nat /\ a \in Nat /\ a <= v /\ (a = v => AsSet(c, hcPos) = AllAs(c))
        BY <1>1, Sizes
      <4>2. n = u + v
        BY <1>2 DEF OneTable, TableOf
      <4> HIDE DEF u, v, a, n
      <4>3. a = v
        BY <3>2, <4>1, <4>2 DEF n
      <4> QED BY <4>1, <4>3
    <3> QED BY <1>3, <1>5, <3>1, <3>2
  <2>2. AsSet(c, Len(c.desc) + 1) = AsSet(c, hcPos)
    BY <2>1 DEF AllAs
  <2>3. InNone(c, Len(c.desc) + 1) = InNone(c, hcPos)
    BY <2>2 DEF InNone, InAs
  <2>4. OneTable(c, hcFuns, hcList, Len(c.desc) + 1, a)
    BY <1>2, <2>2, <2>3 DEF OneTable, TableOf
  <2> QED BY <1>5, <2>1, <2>4
<1>6. CASE /\ hcAt' = "assoc" /\ hcPos' = hcPos + 1 /\ hcPos <= ConfN
           /\ c.desc[hcPos].k # "assoc" /\ UNCHANGED <<hcFuns, hcList>>
  <2>1. AsSet(c, hcPos + 1) = AsSet(c, hcPos)
    BY <1>1, <1>6, AsStep
  <2>2. InNone(c, hcPos + 1) = InNone(c, hcPos)
    BY <2>1 DEF InNone, InAs
  <2>3. OneTable(c, hcFuns, hcList, hcPos + 1, a)
    BY <1>2, <2>1, <2>2 DEF OneTable, TableOf
  <2> QED BY <1>2, <1>6, <2>1, <2>2, <2>3
<1>7. CASE /\ hcAt' = "assoc" /\ hcPos' = hcPos + 1 /\ hcPos <= ConfN
           /\ c.desc[hcPos].k = "assoc" /\ Conf!Assocs + 1 \in DOMAIN hcFuns
           /\ hcFuns' = [hcFuns EXCEPT ![Conf!Assocs + 1] =
                          [first |-> c.desc[hcPos].first, n |-> c.desc[hcPos].n,
                           intfs |-> Conf!Taken(c.desc[hcPos])]]
           /\ hcList' = hcList \ Conf!Taken(c.desc[hcPos])
  <2> DEFINE tk == Conf!Taken(c.desc[hcPos])
             x == c.desc[hcPos].first
             y == c.desc[hcPos].n
             f == hcFuns
             g == hcFuns'
             p == hcPos
             j == a + 1
  <2>1. p \in 1 .. Len(c.desc)
    BY <1>4, <1>7
  <2>2. x \in Nat /\ y \in Nat
    BY <1>1, <1>7, <2>1, DescHas
  <2>3. tk = OfAs(c, p)
    <3>1. tk = {o \in InNone(c, p) : c.desc[o].num >= x /\ c.desc[o].num < x + y}
      BY <1>2, TakenIs
    <3>2. \A o \in DescIntfs(c) : c.desc[o].num \in Nat
      BY <1>1, AsMem
    <3>3. OfAs(c, p) \subseteq InNone(c, p)
      BY <1>1, <1>7, <2>1, CoverStep
    <3>4. OfAs(c, p) = {o \in DescIntfs(c) : c.desc[o].num >= x /\ c.desc[o].num < x + y}
      <4>1. NumsOf(c, p) = x .. x + y - 1
        BY DEF NumsOf
      <4> HIDE DEF x, y
      <4>2. \A i \in Nat : i \in x .. x + y - 1 <=> i >= x /\ i < x + y
        BY <2>2
      <4> QED BY <3>2, <4>1, <4>2 DEF OfAs
    <3>5. InNone(c, p) \subseteq DescIntfs(c)
      BY DEF InNone
    <3> QED BY <3>1, <3>3, <3>4, <3>5
  <2>4. tk \in SUBSET Nat
    <3>1. OfAs(c, p) \subseteq Nat
      BY <1>1, AsMem DEF OfAs
    <3> QED BY <2>3, <3>1
  <2>5. f \in Seq([first : Nat, n : Nat, intfs : SUBSET Nat])
    BY DEF ConfInv, ConfType
  <2>6. DOMAIN f = 1 .. Len(f)
    BY <2>5
  <2>7. j \in DOMAIN f /\ g = [f EXCEPT ![j] = [first |-> x, n |-> y, intfs |-> tk]]
    BY <1>3, <1>7
  <2>8. hcList' = InNone(c, p) \ tk /\ hcPos' = p + 1
    BY <1>2, <1>7
  <2>9. c.desc[p].k = "assoc" /\ a = Cardinality(AsSet(c, p)) /\ OneTable(c, f, InNone(c, p), p, a)
    BY <1>2, <1>7
  <2> HIDE DEF tk, x, y, f, g, p, j, c, a
  <2>10. /\ g \in Seq([first : Nat, n : Nat, intfs : SUBSET Nat]) /\ Len(g) = Len(f)
         /\ g[j].intfs = tk /\ \A i \in DOMAIN f : i # j => g[i] = f[i]
    BY <2>2, <2>4, <2>5, <2>7, FunsTyped
  <2>11. g[a + 1].intfs = OfAs(c, p) /\ a + 1 \in 1 .. Len(f)
         /\ \A i \in 1 .. Len(f) : i # a + 1 => g[i] = f[i]
    BY <2>3, <2>6, <2>7, <2>10 DEF j
  <2>12. /\ OneTable(c, g, InNone(c, p + 1), p + 1, a + 1)
         /\ a + 1 = Cardinality(AsSet(c, p + 1))
         /\ InNone(c, p + 1) = InNone(c, p) \ OfAs(c, p)
    <3>1. /\ c \in Configs /\ CWell(c) /\ p \in 1 .. Len(c.desc) /\ c.desc[p].k = "assoc"
          /\ a = Cardinality(AsSet(c, p)) /\ OneTable(c, f, InNone(c, p), p, a)
      BY <1>1, <2>1, <2>9
    <3>2. g \in Seq([first : Nat, n : Nat, intfs : SUBSET Nat]) /\ Len(g) = Len(f)
      BY <2>10
    <3> QED BY <2>11, <3>1, <3>2, TableAssoc
  <2> QED BY <1>7, <2>3, <2>8, <2>12 DEF g
<1> QED BY <1>5, <1>6, <1>7, AssocIs

LEMMA OneRest ==
    ASSUME ConfParams, ConfInv, ConfOne, Conf!Rest
    PROVE  ConfOne'
<1> DEFINE c == hcCfg
           e == Len(c.desc) + 1
           a == Cardinality(AllAs(c))
           f == hcFuns
           l == hcList
<1>1. c' = c /\ c \in Configs /\ hcPos' = hcPos /\ hcAt = "rest"
  BY RestIs DEF ConfInv, ConfType
<1>2. f \in Seq([first : Nat, n : Nat, intfs : SUBSET Nat]) /\ l \subseteq DescIntfs(c)
  <2>1. Conf!Intfs = DescIntfs(c)
    BY <1>1, ConfBasics DEF DescIntfs, ConfN
  <2> QED BY <2>1 DEF ConfInv, ConfType
<1>3. DOMAIN f = 1 .. Len(f) /\ Len(f) \in Nat
  BY <1>2
<1>4. CASE ~CWell(c)
  BY <1>1, <1>4 DEF ConfOne
<1>5. CASE CWell(c)
  <2>1. PICK m : AsSet(c, hcPos) = AllAs(c) /\ OneTable(c, f, l, e, m)
    BY <1>1, <1>5 DEF ConfOne
  <2>2. Conf!Assocs = a
    BY <2>1, AssocsAre
  <2>3. CASE hcList = {} /\ hcAt' = "ready" /\ UNCHANGED <<hcFuns, hcList, hcLeft>>
    <3>1. Apart(c, f)
      <4>1. OneTable(c, f, {}, e, m)
        BY <2>1, <2>3
      <4> HIDE DEF f
      <4> QED BY <1>1, <1>5, <4>1, TableDone
    <3> QED BY <1>1, <2>3, <3>1 DEF ConfOne
  <2>4. ASSUME NEW o \in hcList, hcAt' = "rest", hcList' = hcList \ {o}
        PROVE  ConfOne'
    <3> DEFINE x == c.desc[o].num
               g == hcFuns'
    <3>1. RestFinds(f, a, x, m)
      <4>1. OneTable(c, f, l, e, m) /\ o \in l
        BY <2>1, <2>4
      <4>2. c \in Configs /\ CWell(c) /\ e = Len(c.desc) + 1 /\ a = Cardinality(AllAs(c))
            /\ x = c.desc[o].num
        BY <1>1, <1>5
      <4> HIDE DEF f, l, c, e, a, x
      <4> QED BY <4>1, <4>2, TableRest
    <3>2. PICK j \in MayJoin(f, a, x) :
            /\ \A i \in MayJoin(f, a, x) : j <= i
            /\ j \in DOMAIN f
            /\ g = [f EXCEPT ![j] = [first |-> x, n |-> 1, intfs |-> f[j].intfs \cup {o}]]
      <4>1. o \in hcList /\ \E p \in hcList : hcList' = hcList \ {p} /\
              (MayJoin(f, a, c.desc[p].num) = {} \/
               \E j \in MayJoin(f, a, c.desc[p].num) :
                 /\ \A i \in MayJoin(f, a, c.desc[p].num) : j <= i
                 /\ j \in DOMAIN f
                 /\ g = [f EXCEPT ![j] = [first |-> c.desc[p].num, n |-> 1,
                                          intfs |-> f[j].intfs \cup {p}]])
        BY <2>2, <2>4, RestIs
      <4>2. PICK p \in hcList : hcList' = hcList \ {p} /\
              (MayJoin(f, a, c.desc[p].num) = {} \/
               \E j \in MayJoin(f, a, c.desc[p].num) :
                 /\ \A i \in MayJoin(f, a, c.desc[p].num) : j <= i
                 /\ j \in DOMAIN f
                 /\ g = [f EXCEPT ![j] = [first |-> c.desc[p].num, n |-> 1,
                                          intfs |-> f[j].intfs \cup {p}]])
        BY <4>1
      <4>3. p = o
        BY <2>4, <4>2
      <4> HIDE DEF f, g
      <4> QED BY <3>1, <4>2, <4>3 DEF RestFinds
    <3> DEFINE one == 1
               s == f[j].intfs \cup {o}
    <3>3. x \in Nat /\ one \in Nat /\ s \in SUBSET Nat
      <4>1. o \in Nat /\ x \in Nat
        BY <1>1, <1>2, <2>4, AsMem
      <4>2. f[j] \in [first : Nat, n : Nat, intfs : SUBSET Nat]
        <5>1. \A T : f \in Seq(T) => f[j] \in T
          BY <3>2
        <5> QED BY <1>2, <5>1
      <4>3. f[j].intfs \in SUBSET Nat /\ one \in Nat
        BY <4>2
      <4> HIDE DEF x, f, one
      <4> QED BY <4>1, <4>3
    <3>4. g = [f EXCEPT ![j] = [first |-> x, n |-> one, intfs |-> s]]
      BY <3>2
    <3>5. s = f[j].intfs \cup {o} /\ x = c.desc[o].num /\ o \in l
      BY <2>4
    <3>12. j \in DOMAIN f
      BY <3>2
    <3> HIDE DEF s, x, one, f, g, l
    <3>6. /\ g \in Seq([first : Nat, n : Nat, intfs : SUBSET Nat])
          /\ DOMAIN g = DOMAIN f /\ Len(g) = Len(f)
          /\ g[j].intfs = s /\ g[j].first = x
          /\ \A i \in DOMAIN f : i # j => g[i] = f[i]
      BY <1>2, <3>3, <3>4, <3>12, FunsTyped
    <3>7. /\ j \in a + 1 .. Len(f)
          /\ \/ j \in a + 1 .. m /\ f[j].first = x
             \/ /\ j = m + 1 /\ f[j].intfs = {}
                /\ \A i \in a + 1 .. m : f[i].first # x
      BY <3>1, <3>2 DEF RestFinds
    <3>8. \A i \in 1 .. Len(f) : i # j => g[i] = f[i]
      BY <1>3, <3>6
    <3>9. g[j].intfs = f[j].intfs \cup {o}
      BY <3>5, <3>6
    <3>10. \E k : OneTable(c, g, l \ {o}, e, k)
      <4> HIDE DEF c, a, e
      <4>1. c \in Configs /\ CWell(c) /\ OneTable(c, f, l, e, m)
        BY <1>1, <1>5, <2>1
      <4>2. e = Len(c.desc) + 1 /\ a = Cardinality(AllAs(c))
        BY DEF e, a
      <4>3. o \in l /\ x = c.desc[o].num /\ g[j].first = x /\ Len(g) = Len(f)
        BY <3>5, <3>6 DEF c
      <4>4. g \in Seq([first : Nat, n : Nat, intfs : SUBSET Nat])
        BY <3>6
      <4>5. j \in a + 1 .. Len(f)
        BY <3>7
      <4>6. Joined(f, g, m, a, o, x, j)
        BY <3>7, <3>8, <3>9, <4>3, <4>4, <4>5 DEF Joined
      <4> QED BY <4>1, <4>2, <4>3, <4>6, TableJoins
    <3>11. \E k : OneTable(c, hcFuns', hcList', Len(c.desc) + 1, k)
      BY <2>4, <3>10 DEF g, l
    <3> QED BY <1>1, <2>1, <2>4, <3>11 DEF ConfOne
  <2>5. \/ hcList = {} /\ hcAt' = "ready" /\ UNCHANGED <<hcFuns, hcList, hcLeft>>
        \/ \E o \in hcList : hcAt' = "rest" /\ hcList' = hcList \ {o}
    BY RestIs
  <2> QED BY <2>3, <2>4, <2>5
<1> QED BY <1>4, <1>5

LEMMA OneQuiet ==
    ASSUME ConfOne,
           \/ Conf!IntfSet \/ Conf!Submit \/ Conf!Reset \/ Conf!Release
           \/ Conf!Unenumerate \/ Conf!DevDestroy \/ UNCHANGED Conf!cfgVars
    PROVE  ConfOne'
<1>1. CASE UNCHANGED Conf!cfgVars
  <2>1. UNCHANGED <<hcCfg, hcAt, hcPos, hcList, hcAssoc, hcFuns>>
    BY <1>1 DEF Conf!cfgVars
  <2> QED BY <2>1 DEF ConfOne
<1>2. CASE Conf!IntfSet \/ Conf!Submit \/ Conf!Reset
  <2>1. UNCHANGED <<hcCfg, hcAt, hcPos, hcList, hcAssoc, hcFuns>>
    BY <1>2 DEF Conf!IntfSet, Conf!Submit, Conf!Reset
  <2> QED BY <2>1 DEF ConfOne
<1>3. CASE Conf!Release \/ Conf!Unenumerate \/ Conf!DevDestroy
  <2>1. hcAt' \in {"release", "destroy", "gone"}
    BY <1>3 DEF Conf!Release, Conf!Unenumerate, Conf!DevDestroy, Conf!IntfFreed
  <2> QED BY <2>1 DEF ConfOne
<1> QED BY <1>1, <1>2, <1>3

LEMMA OneNext ==
    ASSUME ConfParams, ConfInv, ConfOne, [Conf!Next]_(Conf!cfgVars)
    PROVE  ConfOne'
BY OneParses, OneFuns, OneAssoc, OneRest, OneQuiet DEF Conf!Next

\* What that says of the functions of the interfaces.
LEMMA OneTells ==
    ASSUME ConfParams, ConfInv, ConfOne
    PROVE  Conf!OneFunction
<1> DEFINE c == hcCfg
           f == hcFuns
<1> SUFFICES ASSUME hcAt = "ready", Conf!WellFormed
    PROVE  /\ \A p \in Conf!Intfs : Conf!Cardinality(Conf!FunsOf(p)) = 1
           /\ \A p, o \in Conf!Intfs : Conf!FunsOf(p) = Conf!FunsOf(o) <=>
                c.desc[p].num = c.desc[o].num \/ Conf!AssocsOf(p) \cap Conf!AssocsOf(o) # {}
           /\ \A j \in DOMAIN f : f[j].intfs # {}
  BY DEF Conf!OneFunction, Conf!D
<1>1. c \in Configs
  BY DEF ConfInv, ConfType
<1>2. CWell(c)
  BY <1>1, WellIs
<1>3. Apart(c, f)
  BY <1>2 DEF ConfOne
<1>4. /\ ConfN \in Nat /\ Conf!Intfs = DescIntfs(c) /\ Conf!Len0 = ConfN
      /\ \A p : Conf!D(p) = c.desc[p]
      /\ \A p, k : Conf!Is(p, k) <=> p <= ConfN /\ c.desc[p].k = k
  BY <1>1, ConfBasics DEF DescIntfs, ConfN
<1>5. DOMAIN f = 1 .. Len(f)
  <2>1. f \in Seq([first : Nat, n : Nat, intfs : SUBSET Nat])
    BY DEF ConfInv, ConfType
  <2> QED BY <2>1
<1>6. AllAs(c) = {q \in 1 .. ConfN : c.desc[q].k = "assoc"}
  BY <1>1, AsMem DEF ConfN
<1>7. ASSUME NEW p \in DescIntfs(c), NEW q
      PROVE  q \in Conf!AssocsOf(p) <=> q \in AllAs(c) /\ p \in OfAs(c, q)
  <2>1. q \in Conf!AssocsOf(p) <=> q \in 1 .. ConfN /\ Conf!InAssoc(p, q)
    BY <1>4 DEF Conf!AssocsOf
  <2>2. Conf!InAssoc(p, q) <=> q <= ConfN /\ c.desc[q].k = "assoc" /\ c.desc[p].num \in NumsOf(c, q)
    BY <1>4 DEF Conf!InAssoc, NumsOf
  <2>3. q \in 1 .. ConfN => q <= ConfN
    BY <1>4
  <2> QED BY <1>6, <2>1, <2>2, <2>3 DEF OfAs
<1>8. \A p : Conf!FunsOf(p) = {j \in DOMAIN f : p \in f[j].intfs}
  BY DEF Conf!FunsOf
<1> HIDE DEF c, f
<1>9. ASSUME NEW p \in DescIntfs(c)
      PROVE  \E j \in DOMAIN f : p \in f[j].intfs /\ Conf!FunsOf(p) = {j}
  <2>1. PICK j \in 1 .. Len(f) : p \in f[j].intfs
    BY <1>3 DEF Apart
  <2>2. \A i \in 1 .. Len(f) : p \in f[i].intfs => i = j
    BY <1>3, <2>1 DEF Apart
  <2> QED BY <1>5, <1>8, <2>1, <2>2
<1>10. ASSUME NEW p \in DescIntfs(c) PROVE Conf!Cardinality(Conf!FunsOf(p)) = 1
  <2>1. \A S : Conf!Cardinality(S) = Cardinality(S)
    BY DEF Conf!Cardinality, Conf!IsFiniteSet, Cardinality, IsFiniteSet
  <2>2. PICK j : Conf!FunsOf(p) = {j}
    BY <1>9
  <2> QED BY <2>1, <2>2, FS_Singleton
<1>11. ASSUME NEW p \in DescIntfs(c), NEW o \in DescIntfs(c)
       PROVE  Conf!FunsOf(p) = Conf!FunsOf(o) <=>
                c.desc[p].num = c.desc[o].num \/ Conf!AssocsOf(p) \cap Conf!AssocsOf(o) # {}
  <2>1. PICK j \in DOMAIN f : p \in f[j].intfs /\ Conf!FunsOf(p) = {j}
    BY <1>9
  <2>2. Conf!FunsOf(p) = Conf!FunsOf(o) <=> o \in f[j].intfs
    <3>1. PICK i \in DOMAIN f : o \in f[i].intfs /\ Conf!FunsOf(o) = {i}
      BY <1>9
    <3>2. o \in f[j].intfs => j \in Conf!FunsOf(o)
      BY <1>8
    <3> QED BY <2>1, <3>1, <3>2
  <2>3. o \in f[j].intfs <=>
          c.desc[p].num = c.desc[o].num \/ \E q \in AllAs(c) : p \in OfAs(c, q) /\ o \in OfAs(c, q)
    BY <1>3, <1>5, <2>1 DEF Apart
  <2>4. (\E q \in AllAs(c) : p \in OfAs(c, q) /\ o \in OfAs(c, q))
          <=> Conf!AssocsOf(p) \cap Conf!AssocsOf(o) # {}
    BY <1>7
  <2> QED BY <2>2, <2>3, <2>4
<1>12. \A j \in DOMAIN f : f[j].intfs # {}
  BY <1>3, <1>5 DEF Apart
<1> QED BY <1>4, <1>10, <1>11, <1>12

\* Of every configuration, and the endpoints of the table are alive, whatever fails:
\* __dev_cfg_parse, __dev_intf_parse, usbh_func_intf_set, __dev_intf_deinit.
THEOREM ConfigWhole ==
    ASSUME ConfParams
    PROVE  Conf!Spec => [](Conf!OneFunction /\ Conf!TableAlive /\ Conf!CfgFreed)
<1>1. Conf!Init => ConfInv /\ ConfOne
  BY ConfFirst, OneFirst
<1>2. ConfInv /\ ConfOne /\ [Conf!Next]_(Conf!cfgVars) => ConfInv' /\ ConfOne'
  BY ConfNext, OneNext
<1>3. ConfInv /\ ConfOne => Conf!OneFunction /\ Conf!TableAlive /\ Conf!CfgFreed
  BY OneTells, ConfTells
<1> QED BY <1>1, <1>2, <1>3, PTL DEF Conf!Spec
=============================================================================
