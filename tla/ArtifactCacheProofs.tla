------------------------- MODULE ArtifactCacheProofs -------------------------
(***************************************************************************)
(* Proofs about the N7/N8 artifact cache, for every set of keys, contents  *)
(* of any size, requests and handlers, any capacity and any number of      *)
(* deaths: the files the index relies on are kept, the rows fit, and the   *)
(* index implements the LRU cache the routes are proved about with.        *)
(*                                                                         *)
(* The sum of sizes and the eviction loop are recursive, so the first part *)
(* is about induction; it is stated with sets of naturals and follows from *)
(* the least element of such a set.                                        *)
(***************************************************************************)
EXTENDS ArtifactCache, WellFoundedInduction, FiniteSetTheorems, TLAPS

-----------------------------------------------------------------------------
(* Induction.                                                              *)

LEMMA Least ==
    ASSUME NEW T \in SUBSET Nat, T # {}
    PROVE  \E n \in T : \A m \in T : n <= m
<1> DEFINE R == OpToRel(<, Nat)
<1>1. IsWellFoundedOn(R, Nat)
  BY NatLessThanWellFounded
<1>2. \A m, n \in Nat : <<m, n>> \in R <=> m < n
  BY DEF OpToRel
<1> HIDE DEF R
<1>3. PICK n \in T : \A m \in T : ~ (<<m, n>> \in R)
  BY <1>1, WFMin
<1>4. ASSUME NEW m \in T PROVE n <= m
  <2>1. n \in Nat /\ m \in Nat /\ ~ (<<m, n>> \in R)
    BY <1>3
  <2>2. ~(m < n)
    BY <1>2, <2>1
  <2> QED
    BY <2>1, <2>2
<1> QED
  BY <1>4

\* A set of naturals that is closed under the successor.
LEMMA NaturalSet ==
    ASSUME NEW T \in SUBSET Nat, 0 \in T, \A n \in T : n + 1 \in T
    PROVE  T = Nat
<1> SUFFICES ASSUME Nat \ T # {} PROVE FALSE
  OBVIOUS
<1>1. PICK n \in Nat \ T : \A m \in Nat \ T : n <= m
  BY Least
<1>2. n - 1 \in T
  BY <1>1
<1> QED
  BY <1>1, <1>2

\* A set of finite subsets of S that has {} and, with a set, every one that
\* has one element more.
LEMMA FiniteSubsets ==
    ASSUME NEW S, NEW F, {} \in F,
           \A T \in SUBSET S :
              IsFiniteSet(T) /\ T # {} /\ (\A x \in T : T \ {x} \in F) => T \in F
    PROVE  \A T \in SUBSET S : IsFiniteSet(T) => T \in F
<1> DEFINE G == {n \in Nat : \A T \in SUBSET S : IsFiniteSet(T) /\ Cardinality(T) = n => T \in F}
<1>1. 0 \in G
  BY FS_EmptySet
<1>2. ASSUME NEW n \in G PROVE n + 1 \in G
  <2> SUFFICES ASSUME NEW T \in SUBSET S, IsFiniteSet(T), Cardinality(T) = n + 1
               PROVE  T \in F
    OBVIOUS
  <2>1. T # {}
    BY FS_EmptySet
  <2>2. ASSUME NEW x \in T PROVE T \ {x} \in F
    <3>1. IsFiniteSet(T \ {x}) /\ Cardinality(T \ {x}) = Cardinality(T) - 1
      BY FS_RemoveElement
    <3>2. Cardinality(T \ {x}) = n
      BY <3>1
    <3> QED
      BY <3>1, <3>2
  <2> QED
    BY <2>1, <2>2
<1>3. G \in SUBSET Nat
  OBVIOUS
<1> HIDE DEF G
<1>4. G = Nat
  BY <1>1, <1>2, <1>3, NaturalSet
<1> SUFFICES ASSUME NEW T \in SUBSET S, IsFiniteSet(T) PROVE T \in F
  OBVIOUS
<1>5. Cardinality(T) \in G
  BY <1>4, FS_CardinalityType
<1> QED
  BY <1>5 DEF G

\* f is defined on the subsets of S by recursion: base where done, and step of
\* the value without the element next elsewhere.
Recursive(f, S, done, base, step, next) ==
    \A T \in SUBSET S :
        /\ T \in done => f[T] = base[T]
        /\ T \notin done => f[T] = step[T][f[T \ {next[T]}]]

LEMMA RecursiveExists ==
    ASSUME NEW S, IsFiniteSet(S), NEW V, NEW done, {} \in done,
           NEW base \in [SUBSET S -> V], NEW step \in [SUBSET S -> [V -> V]],
           NEW next, \A T \in SUBSET S : T \notin done => next[T] \in T
    PROVE  \E f \in [SUBSET S -> V] : Recursive(f, S, done, base, step, next)
<1> DEFINE D(n) == {T \in SUBSET S : Cardinality(T) <= n}
           Good(g, n) == /\ g \in [D(n) -> V]
                         /\ \A T \in D(n) :
                              /\ T \in done => g[T] = base[T]
                              /\ T \notin done => g[T] = step[T][g[T \ {next[T]}]]
           G == {n \in Nat : \E g : Good(g, n)}
<1>1. ASSUME NEW T \in SUBSET S
      PROVE  /\ Cardinality(T) \in Nat /\ (Cardinality(T) = 0 => T \in done)
             /\ T \notin done => /\ T \ {next[T]} \in SUBSET S
                                 /\ Cardinality(T \ {next[T]}) = Cardinality(T) - 1
  <2>1. IsFiniteSet(T)
    BY FS_Subset
  <2>2. Cardinality(T) \in Nat /\ (Cardinality(T) = 0 <=> T = {})
    BY <2>1, FS_CardinalityType, FS_EmptySet
  <2>3. T \notin done => Cardinality(T \ {next[T]}) = Cardinality(T) - 1
    BY <2>1, FS_RemoveElement
  <2> QED
    BY <2>2, <2>3
<1>2. 0 \in G
  <2> DEFINE g == [T \in D(0) |-> base[T]]
  <2>1. \A T \in D(0) : T \in done /\ base[T] \in V
    <3> SUFFICES ASSUME NEW T \in D(0) PROVE T \in done /\ base[T] \in V
      OBVIOUS
    <3>1. T \in SUBSET S /\ Cardinality(T) <= 0
      OBVIOUS
    <3>3. Cardinality(T) \in Nat
      BY <1>1, <3>1
    <3>2. Cardinality(T) = 0
      BY <3>1, <3>3
    <3> QED
      BY <1>1, <3>1, <3>2
  <2> HIDE DEF D
  <2>2. \A T \in D(0) : g[T] = base[T]
    OBVIOUS
  <2>3. g \in [D(0) -> V]
    BY <2>1
  <2> HIDE DEF g
  <2>4. Good(g, 0)
    BY <2>1, <2>2, <2>3
  <2> QED
    BY <2>4
<1>3. ASSUME NEW n \in G PROVE n + 1 \in G
  <2>1. n \in Nat
    OBVIOUS
  <2>2. PICK h : Good(h, n)
    OBVIOUS
  <2> DEFINE val(T) == IF T \in done THEN base[T] ELSE step[T][h[T \ {next[T]}]]
             g == [T \in D(n + 1) |-> val(T)]
  <2>3. ASSUME NEW T \in D(n + 1)
        PROVE  T \in SUBSET S /\ (T \notin done => T \ {next[T]} \in D(n) /\ T \ {next[T]} \in D(n + 1))
    BY <1>1, <2>1
  <2>4. ASSUME NEW T \in D(n) PROVE T \in D(n + 1) /\ T \in SUBSET S
    <3>1. T \in SUBSET S /\ Cardinality(T) <= n
      OBVIOUS
    <3>2. Cardinality(T) \in Nat
      BY <1>1, <3>1
    <3>3. Cardinality(T) <= n + 1
      BY <2>1, <3>1, <3>2
    <3> QED
      BY <3>1, <3>3
  <2>5. \A T \in D(n) : h[T] = val(T)
    BY <2>2
  <2>6. \A T \in D(n) : h[T] \in V
    BY <2>2
  <2>7. ASSUME NEW T \in D(n + 1) PROVE val(T) \in V
    <3>1. CASE T \in done
      BY <2>3, <3>1
    <3>2. CASE T \notin done
      <4>1. h[T \ {next[T]}] \in V /\ step[T] \in [V -> V]
        BY <2>3, <2>6, <3>2
      <4> QED
        BY <3>2, <4>1
    <3> QED
      BY <3>1, <3>2
  <2> HIDE DEF D
  <2>8. \A T \in D(n + 1) : g[T] = val(T)
    OBVIOUS
  <2>9. g \in [D(n + 1) -> V]
    BY <2>7 DEF val
  <2> HIDE DEF g
  <2>10. ASSUME NEW T \in D(n + 1), T \notin done PROVE g[T] = step[T][g[T \ {next[T]}]]
    <3>1. g[T \ {next[T]}] = h[T \ {next[T]}]
      BY <2>3, <2>5, <2>8, <2>10
    <3> QED
      BY <2>8, <2>10, <3>1
  <2>11. ASSUME NEW T \in D(n + 1), T \in done PROVE g[T] = base[T]
    BY <2>8, <2>11
  <2>12. Good(g, n + 1)
    BY <2>9, <2>10, <2>11
  <2>13. n + 1 \in Nat
    BY <2>1
  <2> HIDE DEF Good
  <2> QED
    BY <2>12, <2>13
<1>4. G \in SUBSET Nat
  OBVIOUS
<1> HIDE DEF G
<1>5. G = Nat
  BY <1>2, <1>3, <1>4, NaturalSet
<1>6. Cardinality(S) \in G
  BY <1>5, FS_CardinalityType
<1>7. PICK f : Good(f, Cardinality(S))
  BY <1>6 DEF G
<1>8. D(Cardinality(S)) = SUBSET S
  <2> SUFFICES ASSUME NEW T \in SUBSET S PROVE Cardinality(T) <= Cardinality(S)
    OBVIOUS
  <2> QED
    BY FS_Subset
<1> QED
  BY <1>7, <1>8 DEF Recursive
-----------------------------------------------------------------------------
(* Sums.                                                                   *)

Pick(S) == CHOOSE x \in S : TRUE

\* f maps each subset of S to its sum of weights, one picked element at a time.
Sums(f, w, S) ==
    /\ f \in [SUBSET S -> Nat]
    /\ f[{}] = 0
    /\ \A T \in SUBSET S : T # {} => f[T] = w[Pick(T)] + f[T \ {Pick(T)}]

LEMMA SumsExist ==
    ASSUME NEW S, IsFiniteSet(S), NEW w \in [S -> Nat]
    PROVE  \E f : Sums(f, w, S)
<1> DEFINE base == [T \in SUBSET S |-> 0]
           next == [T \in SUBSET S |-> Pick(T)]
           add(T) == [n \in Nat |-> IF T = {} THEN n ELSE w[Pick(T)] + n]
           step == [T \in SUBSET S |-> add(T)]
<1>1. ASSUME NEW T \in SUBSET S, T # {} PROVE Pick(T) \in T /\ w[Pick(T)] \in Nat
  <2>1. Pick(T) \in T
    BY <1>1 DEF Pick
  <2> QED
    BY <2>1
<1>2. base \in [SUBSET S -> Nat] /\ \A T \in SUBSET S : base[T] = 0
  OBVIOUS
<1>3. \A T \in SUBSET S : next[T] = Pick(T)
  OBVIOUS
<1>4. ASSUME NEW T \in SUBSET S
      PROVE  add(T) \in [Nat -> Nat] /\ (T # {} => \A n \in Nat : add(T)[n] = w[Pick(T)] + n)
  BY <1>1
<1> HIDE DEF add, base, next
<1>5. step \in [SUBSET S -> [Nat -> Nat]] /\ \A T \in SUBSET S : step[T] = add(T)
  BY <1>4
<1> HIDE DEF step
<1>6. \A T \in SUBSET S : T \notin {{}} => next[T] \in T
  BY <1>1, <1>3
<1>7. PICK f \in [SUBSET S -> Nat] : Recursive(f, S, {{}}, base, step, next)
  BY <1>2, <1>5, <1>6, RecursiveExists
<1>8. f[{}] = 0
  BY <1>2, <1>7 DEF Recursive
<1>9. ASSUME NEW T \in SUBSET S, T # {} PROVE f[T] = w[Pick(T)] + f[T \ {Pick(T)}]
  <2>1. f[T] = step[T][f[T \ {next[T]}]]
    BY <1>7, <1>9 DEF Recursive
  <2>2. T \ {next[T]} \in SUBSET S
    OBVIOUS
  <2>3. f[T \ {next[T]}] \in Nat
    BY <1>7, <2>2
  <2>4. f[T] = w[Pick(T)] + f[T \ {next[T]}]
    BY <1>4, <1>5, <1>9, <2>1, <2>3
  <2> QED
    BY <1>3, <2>4
<1> QED
  BY <1>7, <1>8, <1>9 DEF Sums

\* Any element may be taken out first.
LEMMA SumsRemove ==
    ASSUME NEW S, IsFiniteSet(S), NEW w \in [S -> Nat], NEW f, Sums(f, w, S)
    PROVE  \A T \in SUBSET S : \A x \in T : f[T] = w[x] + f[T \ {x}]
<1> DEFINE F == {T \in SUBSET S : \A x \in T : f[T] = w[x] + f[T \ {x}]}
<1>1. {} \in F
  OBVIOUS
<1>2. ASSUME NEW T \in SUBSET S, T # {}, \A x \in T : T \ {x} \in F PROVE T \in F
  <2> DEFINE p == Pick(T)
  <2>1. p \in T
    BY <1>2 DEF Pick
  <2>2. f[T] = w[p] + f[T \ {p}]
    BY <1>2 DEF Sums
  <2> HIDE DEF p
  <2>3. ASSUME NEW x \in T, x # p PROVE f[T] = w[x] + f[T \ {x}]
    <3> DEFINE U == T \ {x, p}
    <3>1. U = (T \ {p}) \ {x} /\ U = (T \ {x}) \ {p} /\ U \in SUBSET S
      OBVIOUS
    <3>2. f[T \ {p}] = w[x] + f[U]
      BY <1>2, <2>1, <2>3, <3>1
    <3>3. f[T \ {x}] = w[p] + f[U]
      BY <1>2, <2>1, <2>3, <3>1
    <3>4. w[x] \in Nat /\ w[p] \in Nat /\ f[U] \in Nat
      BY <2>1, <3>1 DEF Sums
    <3> HIDE DEF U
    <3> QED
      BY <2>2, <3>2, <3>3, <3>4
  <2> QED
    BY <2>2, <2>3
<1> HIDE DEF F
<1>3. \A T \in SUBSET S : IsFiniteSet(T) => T \in F
  BY <1>1, <1>2, FiniteSubsets
<1> QED
  BY <1>3, FS_Subset DEF F

\* The sum of a set depends on its weights only.
LEMMA SumsSame ==
    ASSUME NEW S, IsFiniteSet(S), NEW w \in [S -> Nat], NEW f, Sums(f, w, S),
           NEW R, NEW v, NEW g, Sums(g, v, R),
           NEW U \in SUBSET S, U \subseteq R, \A x \in U : w[x] = v[x]
    PROVE  f[U] = g[U]
<1> DEFINE F == {T \in SUBSET U : f[T] = g[T]}
<1>1. {} \in F
  BY DEF Sums
<1>2. ASSUME NEW T \in SUBSET U, T # {}, \A x \in T : T \ {x} \in F PROVE T \in F
  <2>1. Pick(T) \in T
    BY <1>2 DEF Pick
  <2>2. f[T \ {Pick(T)}] = g[T \ {Pick(T)}] /\ w[Pick(T)] = v[Pick(T)]
    BY <1>2, <2>1
  <2>3. T \in SUBSET S /\ T \in SUBSET R
    OBVIOUS
  <2>4. f[T] = w[Pick(T)] + f[T \ {Pick(T)}]
    BY <1>2, <2>3 DEF Sums
  <2>5. g[T] = v[Pick(T)] + g[T \ {Pick(T)}]
    BY <1>2, <2>3 DEF Sums
  <2> QED
    BY <2>2, <2>4, <2>5
<1> HIDE DEF F
<1>3. \A T \in SUBSET U : IsFiniteSet(T) => T \in F
  BY <1>1, <1>2, FiniteSubsets
<1> QED
  BY <1>3, FS_Subset DEF F

-----------------------------------------------------------------------------
(* The bytes of a set of rows.                                             *)

Weights(e, S) == [k \in S |-> Size[e[k]]]

LEMMA WeightsType ==
    ASSUME NEW e \in Entries, NEW S \in SUBSET Cached(e)
    PROVE  /\ Weights(e, S) \in [S -> Nat]
           /\ \A k \in S : Weights(e, S)[k] = Size[e[k]]
<1>1. ASSUME NEW k \in S PROVE Size[e[k]] \in Nat
  BY CacheAssumption DEF Cached, Entries
<1> QED
  BY <1>1 DEF Weights

LEMMA UsedIsSum ==
    ASSUME NEW e \in Entries, NEW S \in SUBSET Cached(e), IsFiniteSet(S)
    PROVE  \E f : Sums(f, Weights(e, S), S) /\ Used(e, S) = f[S]
<1> DEFINE eq(f) == f = [s \in SUBSET S |->
                            IF s = {} THEN 0 ELSE Size[e[Pick(s)]] + f[s \ {Pick(s)}]]
           g == CHOOSE f : eq(f)
<1>1. Weights(e, S) \in [S -> Nat] /\ \A k \in S : Weights(e, S)[k] = Size[e[k]]
  BY WeightsType
<1>2. PICK f : Sums(f, Weights(e, S), S)
  BY <1>1, SumsExist
<1>3. \A T \in SUBSET S : T # {} => Pick(T) \in S
  BY DEF Pick
<1>4. eq(f)
  <2>1. f = [T \in SUBSET S |-> f[T]]
    BY <1>2 DEF Sums
  <2>2. ASSUME NEW T \in SUBSET S
        PROVE  f[T] = IF T = {} THEN 0 ELSE Size[e[Pick(T)]] + f[T \ {Pick(T)}]
    <3>1. CASE T = {}
      BY <1>2, <3>1 DEF Sums
    <3>2. CASE T # {}
      BY <1>1, <1>2, <1>3, <3>2 DEF Sums
    <3> QED
      BY <3>1, <3>2
  <2> QED
    BY <2>1, <2>2
<1>5. eq(g)
  BY <1>4
<1>6. Used(e, S) = g[S]
  BY DEF Used, MapThenSumSet, MapThenFoldSet, Pick
<1> HIDE DEF g
<1>7. \A T \in SUBSET S : T # {} => g[T] = Size[e[Pick(T)]] + g[T \ {Pick(T)}]
  BY <1>5
<1>8. g[{}] = 0
  BY <1>5
<1> DEFINE F == {T \in SUBSET S : f[T] = g[T]}
<1>9. {} \in F
  BY <1>2, <1>8 DEF Sums
<1>10. ASSUME NEW T \in SUBSET S, T # {}, \A x \in T : T \ {x} \in F PROVE T \in F
  <2>1. Pick(T) \in T
    BY <1>10 DEF Pick
  <2>2. f[T \ {Pick(T)}] = g[T \ {Pick(T)}]
    BY <1>10, <2>1
  <2>3. f[T] = Size[e[Pick(T)]] + f[T \ {Pick(T)}]
    BY <1>1, <1>2, <1>10, <2>1 DEF Sums
  <2> QED
    BY <1>7, <1>10, <2>2, <2>3
<1> HIDE DEF F
<1>11. S \in F
  BY <1>9, <1>10, FiniteSubsets
<1> QED
  BY <1>2, <1>6, <1>11 DEF F

\* The bytes of no rows, of one row more, and of the same rows elsewhere.
LEMMA UsedFacts ==
    ASSUME NEW e \in Entries, NEW S \in SUBSET Cached(e), IsFiniteSet(S)
    PROVE  /\ Used(e, S) \in Nat
           /\ S = {} => Used(e, S) = 0
           /\ \A x \in S : Used(e, S) = Size[e[x]] + Used(e, S \ {x})
<1>1. Weights(e, S) \in [S -> Nat] /\ \A k \in S : Weights(e, S)[k] = Size[e[k]]
  BY WeightsType
<1>2. PICK f : Sums(f, Weights(e, S), S) /\ Used(e, S) = f[S]
  BY UsedIsSum
<1>3. Used(e, S) \in Nat /\ (S = {} => Used(e, S) = 0)
  BY <1>2 DEF Sums
<1>4. ASSUME NEW x \in S PROVE Used(e, S) = Size[e[x]] + Used(e, S \ {x})
  <2> DEFINE R == S \ {x}
  <2>1. R \in SUBSET Cached(e) /\ R \in SUBSET S /\ IsFiniteSet(R)
    BY FS_RemoveElement
  <2>2. PICK g : Sums(g, Weights(e, R), R) /\ Used(e, R) = g[R]
    BY <2>1, UsedIsSum
  <2>3. Weights(e, R) \in [R -> Nat] /\ \A k \in R : Weights(e, R)[k] = Size[e[k]]
    BY <2>1, WeightsType
  <2> HIDE DEF R
  <2>4. \A k \in R : Weights(e, S)[k] = Weights(e, R)[k]
    BY <1>1, <2>1, <2>3
  <2>5. R \subseteq R
    OBVIOUS
  <2>6. f[R] = g[R]
    BY <1>1, <1>2, <2>1, <2>2, <2>4, <2>5, SumsSame
  <2>7. S \in SUBSET S
    OBVIOUS
  <2>8. f[S] = Weights(e, S)[x] + f[S \ {x}]
    BY <1>1, <1>2, <2>7, SumsRemove
  <2> QED
    BY <1>1, <1>2, <2>2, <2>6, <2>8 DEF R
<1> QED
  BY <1>3, <1>4

LEMMA UsedSame ==
    ASSUME NEW e \in Entries, NEW d \in Entries, NEW S \in SUBSET Cached(e),
           S \subseteq Cached(d), IsFiniteSet(S), \A k \in S : e[k] = d[k]
    PROVE  Used(e, S) = Used(d, S)
<1>1. Weights(e, S) \in [S -> Nat]
  BY WeightsType
<1>2. Weights(e, S) = Weights(d, S)
  BY DEF Weights
<1>3. PICK f : Sums(f, Weights(e, S), S) /\ Used(e, S) = f[S]
  BY UsedIsSum
<1>4. PICK g : Sums(g, Weights(d, S), S) /\ Used(d, S) = g[S]
  BY UsedIsSum
<1>5. S \in SUBSET S /\ S \subseteq S
  OBVIOUS
<1>6. f[S] = g[S]
  BY <1>1, <1>2, <1>3, <1>4, <1>5, SumsSame
<1> QED
  BY <1>3, <1>4, <1>6

\* Fewer rows have no more bytes.
LEMMA UsedMonotone ==
    ASSUME NEW e \in Entries, NEW S \in SUBSET Cached(e), IsFiniteSet(S), NEW R \in SUBSET S
    PROVE  Used(e, R) <= Used(e, S)
<1> DEFINE F == {T \in SUBSET S : \A U \in SUBSET T : Used(e, U) <= Used(e, T)}
<1>1. ASSUME NEW T \in SUBSET S
      PROVE  /\ Used(e, T) \in Nat
             /\ \A x \in T : Used(e, T) = Size[e[x]] + Used(e, T \ {x})
  BY FS_Subset, UsedFacts
<1>2. {} \in F
  <2>1. {} \in SUBSET S /\ Used(e, {}) \in Nat
    BY <1>1
  <2>2. Used(e, {}) <= Used(e, {})
    BY <2>1
  <2> QED
    BY <2>1, <2>2
<1>3. ASSUME NEW T \in SUBSET S, T # {}, \A x \in T : T \ {x} \in F PROVE T \in F
  <2> SUFFICES ASSUME NEW U \in SUBSET T PROVE Used(e, U) <= Used(e, T)
    OBVIOUS
  <2>1. U \in SUBSET S /\ Used(e, U) \in Nat /\ Used(e, T) \in Nat
    BY <1>1
  <2>2. CASE U = T
    BY <2>1, <2>2
  <2>3. CASE U # T
    <3>1. PICK x \in T : x \notin U
      BY <2>3
    <3>2. U \in SUBSET (T \ {x})
      BY <3>1
    <3>3. Used(e, U) <= Used(e, T \ {x})
      BY <1>3, <3>1, <3>2
    <3>4. Used(e, T) = Size[e[x]] + Used(e, T \ {x}) /\ Used(e, T \ {x}) \in Nat
      BY <1>1, <3>1
    <3>5. Size[e[x]] \in Nat
      BY <3>1, CacheAssumption DEF Cached, Entries
    <3> QED
      BY <2>1, <3>3, <3>4, <3>5
  <2> QED
    BY <2>2, <2>3
<1> HIDE DEF F
<1>4. S \in F
  BY <1>2, <1>3, FiniteSubsets
<1> QED
  BY <1>4 DEF F

-----------------------------------------------------------------------------
(* The eviction loop.                                                      *)

LEMMA OldestFacts ==
    ASSUME access \in [Keys -> Nat], NEW S \in SUBSET Keys, S # {}
    PROVE  Oldest(S) \in S /\ \A y \in S : access[Oldest(S)] <= access[y]
<1> DEFINE T == {access[x] : x \in S}
<1>1. T \in SUBSET Nat /\ T # {}
  OBVIOUS
<1>2. PICK n \in T : \A m \in T : n <= m
  BY <1>1, Least
<1>3. PICK x \in S : n = access[x]
  BY <1>2
<1>4. \A y \in S : access[x] <= access[y]
  BY <1>2, <1>3
<1> QED
  BY <1>4 DEF Oldest

FitsBeside(S, c) == Used(entries, S) + Size[c] <= Capacity

\* Every key of U was used after every key of S outside U.
Newer(U, S) == \A x \in U : \A y \in S \ U : access[y] < access[x]

\* What the loop makes of S: the largest newer part of it that fits.
Evicts(K, S, c) ==
    /\ K \in SUBSET S
    /\ FitsBeside(K, c)
    /\ Newer(K, S)
    /\ \A U \in SUBSET S : K \subseteq U /\ U # K /\ Newer(U, S) => ~FitsBeside(U, c)

LEMMA EvictsStep ==
    ASSUME access \in [Keys -> Nat], NEW S \in SUBSET Keys, NEW c, NEW o \in S, NEW K,
           \A y \in S : access[o] <= access[y],
           \A x, y \in S : access[x] = access[y] => x = y,
           ~FitsBeside(S, c), Evicts(K, S \ {o}, c)
    PROVE  Evicts(K, S, c)
<1>1. \A x \in S : access[x] \in Nat
  OBVIOUS
<1>2. \A y \in S \ {o} : access[o] < access[y]
  BY <1>1
<1>3. K \in SUBSET S /\ o \notin K /\ FitsBeside(K, c)
  BY DEF Evicts
<1>4. Newer(K, S)
  <2> SUFFICES ASSUME NEW x \in K, NEW y \in S \ K PROVE access[y] < access[x]
    BY DEF Newer
  <2>1. CASE y = o
    BY <1>2, <1>3, <2>1
  <2>2. CASE y # o
    BY <2>2 DEF Evicts, Newer
  <2> QED
    BY <2>1, <2>2
<1>5. ASSUME NEW U \in SUBSET S, K \subseteq U, U # K, Newer(U, S) PROVE ~FitsBeside(U, c)
  <2>1. CASE o \in U
    <3>1. ASSUME NEW y \in S \ U PROVE FALSE
      <4>1. access[y] < access[o]
        BY <1>5, <2>1 DEF Newer
      <4>2. access[o] < access[y]
        BY <1>2, <2>1
      <4> QED
        BY <1>1, <4>1, <4>2
    <3>2. U = S
      BY <3>1
    <3> QED
      BY <3>2
  <2>2. CASE o \notin U
    <3>1. U \in SUBSET (S \ {o})
      BY <2>2
    <3>2. Newer(U, S \ {o})
      BY <1>5 DEF Newer
    <3> QED
      BY <1>5, <3>1, <3>2 DEF Evicts
  <2> QED
    BY <2>1, <2>2
<1> QED
  BY <1>3, <1>4, <1>5 DEF Evicts

LEMMA EvictsNothing ==
    ASSUME NEW S, NEW c, FitsBeside(S, c)
    PROVE  Evicts(S, S, c)
<1>1. Newer(S, S)
  BY DEF Newer
<1> QED
  BY <1>1 DEF Evicts

\* The accesses of the cached keys tell them apart.
Distinct == \A x, y \in Cached(entries) : access[x] = access[y] => x = y

LEMMA KeptEvicts ==
    ASSUME entries \in Entries, access \in [Keys -> Nat], Distinct,
           IsFiniteSet(Cached(entries)), NEW k, NEW c \in Contents, Size[c] <= Capacity
    PROVE  Evicts(Kept(k, c), Cached(entries) \ {k}, c)
<1> DEFINE C == Cached(entries)
           eq(f) == f = [S \in SUBSET C |->
                           IF Used(entries, S) + Size[c] <= Capacity
                             THEN S
                             ELSE f[S \ {Oldest(S)}]]
           g == CHOOSE f : eq(f)
           done == {S \in SUBSET C : FitsBeside(S, c)}
           base == [S \in SUBSET C |-> S]
           same == [R \in SUBSET C |-> R]
           step == [S \in SUBSET C |-> same]
           next == [S \in SUBSET C |-> Oldest(S)]
<1>1. C \in SUBSET Keys
  BY DEF Cached
<1>2. Used(entries, {}) = 0 /\ Size[c] \in Nat
  <2>1. {} \in SUBSET C /\ IsFiniteSet({})
    BY FS_EmptySet
  <2>2. Used(entries, {}) = 0
    BY <2>1, UsedFacts
  <2> QED
    BY <2>2, CacheAssumption
<1>3. {} \in done
  BY <1>2 DEF FitsBeside
<1>4. ASSUME NEW S \in SUBSET C, S # {}
      PROVE  Oldest(S) \in S /\ \A y \in S : access[Oldest(S)] <= access[y]
  <2>1. S \in SUBSET Keys
    BY <1>1
  <2> QED
    BY <1>4, <2>1, OldestFacts
<1>5. base \in [SUBSET C -> SUBSET C] /\ \A S \in SUBSET C : base[S] = S
  OBVIOUS
<1>6. same \in [SUBSET C -> SUBSET C] /\ \A S \in SUBSET C : same[S] = S
  OBVIOUS
<1> HIDE DEF base, same
<1>7. step \in [SUBSET C -> [SUBSET C -> SUBSET C]] /\ \A S \in SUBSET C : step[S] = same
  BY <1>6
<1>8. \A S \in SUBSET C : next[S] = Oldest(S)
  OBVIOUS
<1>9. \A S \in SUBSET C : S \in done <=> FitsBeside(S, c)
  OBVIOUS
<1> HIDE DEF done, step, next
<1>10. \A S \in SUBSET C : S \notin done => next[S] \in S
  BY <1>3, <1>4, <1>8
<1> HIDE DEF C
<1>11. IsFiniteSet(C)
  BY DEF C
<1>12. PICK f \in [SUBSET C -> SUBSET C] : Recursive(f, C, done, base, step, next)
  BY <1>3, <1>5, <1>7, <1>10, <1>11, RecursiveExists
<1>13. eq(f)
  <2>1. f = [S \in SUBSET C |-> f[S]]
    BY <1>12
  <2>2. ASSUME NEW S \in SUBSET C
        PROVE  f[S] = IF Used(entries, S) + Size[c] <= Capacity THEN S ELSE f[S \ {Oldest(S)}]
    <3>1. CASE FitsBeside(S, c)
      BY <1>5, <1>9, <1>12, <3>1 DEF Recursive, FitsBeside
    <3>2. CASE ~FitsBeside(S, c)
      <4>1. f[S] = step[S][f[S \ {next[S]}]]
        BY <1>9, <1>12, <3>2 DEF Recursive
      <4>2. f[S \ {next[S]}] \in SUBSET C
        BY <1>12
      <4>3. f[S] = f[S \ {Oldest(S)}]
        BY <1>6, <1>7, <1>8, <4>1, <4>2
      <4> QED
        BY <3>2, <4>3 DEF FitsBeside
    <3> QED
      BY <3>1, <3>2
  <2> QED
    BY <2>1, <2>2
<1>14. eq(g)
  BY <1>13
<1>15. Kept(k, c) = g[C \ {k}]
  BY DEF Kept, C
<1> HIDE DEF g
<1>16. ASSUME NEW S \in SUBSET C
       PROVE  /\ FitsBeside(S, c) => g[S] = S
              /\ ~FitsBeside(S, c) => g[S] = g[S \ {Oldest(S)}]
  BY <1>14 DEF FitsBeside
<1> DEFINE F == {S \in SUBSET C : Evicts(g[S], S, c)}
<1>17. {} \in F
  BY <1>3, <1>9, <1>16, EvictsNothing
<1>18. ASSUME NEW S \in SUBSET C, S # {}, \A x \in S : S \ {x} \in F PROVE S \in F
  <2>1. CASE FitsBeside(S, c)
    BY <1>16, <2>1, EvictsNothing
  <2>2. CASE ~FitsBeside(S, c)
    <3> DEFINE o == Oldest(S)
    <3>1. o \in S /\ \A y \in S : access[o] <= access[y]
      BY <1>4, <1>18
    <3>2. g[S] = g[S \ {o}]
      BY <1>16, <2>2
    <3>3. Evicts(g[S \ {o}], S \ {o}, c)
      BY <1>18, <3>1
    <3> HIDE DEF o
    <3>4. S \in SUBSET Keys /\ \A x, y \in S : access[x] = access[y] => x = y
      BY <1>1 DEF Distinct, C
    <3>5. Evicts(g[S \ {o}], S, c)
      BY <2>2, <3>1, <3>3, <3>4, EvictsStep
    <3> QED
      BY <3>2, <3>5
  <2> QED
    BY <2>1, <2>2
<1> HIDE DEF F
<1>19. C \ {k} \in SUBSET C /\ IsFiniteSet(C \ {k})
  BY <1>11, FS_Subset
<1>20. C \ {k} \in F
  BY <1>17, <1>18, <1>19, FiniteSubsets
<1> QED
  BY <1>15, <1>20 DEF F, C

-----------------------------------------------------------------------------
(* The inductive invariant.                                                *)

Writing == {"write", "install", "commit", "sweep"}

\* A put holds the lock from its first step to its sweep, and was admitted.
WriterHoldsLock ==
    \A h \in Handlers :
        pc[h] \in Writing => lock = h /\ Size[put[h].content] <= Capacity

\* A process that is down runs no handler.
DownIsIdle == ~up => \A h \in Handlers : pc[h] = "idle"

\* Finitely many rows, stamped with different accesses of the past.
RowsAreStamped ==
    /\ IsFiniteSet(Cached(entries))
    /\ \A k \in Cached(entries) : access[k] <= sequence
    /\ Distinct

IInv ==
    /\ TypeOK
    /\ RowsAreStamped
    /\ Verified
    /\ WriterHoldsLock
    /\ DownIsIdle
    /\ WriterUndisturbed

-----------------------------------------------------------------------------
(* What a committed put makes of the index.                                *)

NewEntries(K, k, c) ==
    [x \in Keys |-> IF x = k THEN c ELSE IF x \in K THEN entries[x] ELSE NoContent]

NewAccess(K, k) ==
    [x \in Keys |-> IF x = k THEN sequence + 1 ELSE IF x \in K THEN access[x] ELSE 0]

LEMMA CommittedEntries ==
    ASSUME entries \in Entries, IsFiniteSet(Cached(entries)),
           NEW k \in Keys, NEW c \in Contents, NEW K \in SUBSET (Cached(entries) \ {k}),
           FitsBeside(K, c)
    PROVE  /\ NewEntries(K, k, c) \in Entries
           /\ Cached(NewEntries(K, k, c)) = K \cup {k}
           /\ IsFiniteSet(K \cup {k})
           /\ NewEntries(K, k, c)[k] = c
           /\ \A x \in K : NewEntries(K, k, c)[x] = entries[x]
           /\ Used(NewEntries(K, k, c), K \cup {k}) <= Capacity
<1> DEFINE e == NewEntries(K, k, c)
<1>1. K \in SUBSET Keys /\ k \notin K /\ \A x \in K : entries[x] # NoContent
  BY DEF Cached
<1>2. c # NoContent
  BY CacheAssumption
<1>3. \A x \in Keys : e[x] = IF x = k THEN c ELSE IF x \in K THEN entries[x] ELSE NoContent
  BY DEF NewEntries
<1>4. e \in Entries
  BY <1>1 DEF NewEntries, Entries
<1> HIDE DEF e
<1>5. e[k] = c /\ \A x \in K : e[x] = entries[x]
  BY <1>1, <1>3
<1>6. Cached(e) = K \cup {k}
  BY <1>1, <1>2, <1>3 DEF Cached
<1>7. IsFiniteSet(K) /\ IsFiniteSet(K \cup {k})
  BY FS_Subset, FS_AddElement
<1>8. Used(e, K) = Used(entries, K)
  <2>1. K \in SUBSET Cached(entries) /\ K \subseteq Cached(e)
    BY <1>6
  <2>2. \A x \in K : entries[x] = e[x]
    BY <1>5
  <2>3. Used(entries, K) = Used(e, K)
    BY <1>4, <1>7, <2>1, <2>2, UsedSame
  <2> QED
    BY <2>3
<1>9. Used(e, K \cup {k}) = Size[e[k]] + Used(e, (K \cup {k}) \ {k})
  <2>1. K \cup {k} \in SUBSET Cached(e) /\ k \in K \cup {k}
    BY <1>6
  <2> QED
    BY <1>4, <1>7, <2>1, UsedFacts
<1>10. (K \cup {k}) \ {k} = K
  BY <1>1
<1>11. Used(entries, K) \in Nat /\ Size[c] \in Nat /\ Capacity \in Nat
  BY <1>7, UsedFacts, CacheAssumption
<1>12. Used(e, K \cup {k}) = Size[c] + Used(entries, K)
  BY <1>5, <1>8, <1>9, <1>10
<1>13. Used(e, K \cup {k}) <= Capacity
  BY <1>11, <1>12 DEF FitsBeside
<1> QED
  BY <1>4, <1>5, <1>6, <1>7, <1>13 DEF e

LEMMA CommittedAccess ==
    ASSUME access \in [Keys -> Nat], sequence \in Nat, Distinct,
           \A x \in Cached(entries) : access[x] <= sequence,
           NEW k \in Keys, NEW K \in SUBSET (Cached(entries) \ {k})
    PROVE  /\ NewAccess(K, k) \in [Keys -> Nat]
           /\ NewAccess(K, k)[k] = sequence + 1
           /\ \A x \in K : NewAccess(K, k)[x] = access[x] /\ access[x] < sequence + 1
           /\ \A x \in K \cup {k} : NewAccess(K, k)[x] <= sequence + 1
           /\ \A x, y \in K \cup {k} : NewAccess(K, k)[x] = NewAccess(K, k)[y] => x = y
<1> DEFINE a == NewAccess(K, k)
<1>1. K \in SUBSET Keys /\ k \notin K /\ K \in SUBSET Cached(entries)
  BY DEF Cached
<1>2. a \in [Keys -> Nat]
  BY <1>1 DEF NewAccess
<1>3. a[k] = sequence + 1 /\ \A x \in K : a[x] = access[x]
  BY <1>1 DEF NewAccess
<1> HIDE DEF a
<1>4. ASSUME NEW x \in K PROVE access[x] < sequence + 1 /\ access[x] \in Nat
  BY <1>1
<1>5. ASSUME NEW x \in K \cup {k} PROVE a[x] <= sequence + 1
  BY <1>3, <1>4
<1>6. ASSUME NEW x \in K \cup {k}, NEW y \in K \cup {k}, a[x] = a[y] PROVE x = y
  <2>1. CASE x \in K /\ y \in K
    BY <1>1, <1>3, <1>6, <2>1 DEF Distinct
  <2>2. CASE x = k /\ y \in K
    BY <1>3, <1>4, <1>6, <2>2
  <2>3. CASE x \in K /\ y = k
    BY <1>3, <1>4, <1>6, <2>3
  <2> QED
    BY <2>1, <2>2, <2>3
<1> QED
  BY <1>2, <1>3, <1>4, <1>5, <1>6 DEF a

-----------------------------------------------------------------------------
(* The invariant holds initially and is preserved by every step.           *)

\* The handler's put is a request the service accepted.
LEMMA WriterPut ==
    ASSUME TypeOK, WriterHoldsLock, NEW h \in Handlers, pc[h] \in Writing
    PROVE  /\ lock = h
           /\ put[h] \in Puts /\ put[h].key \in Keys /\ put[h].content \in Contents
           /\ put[h].id \in PutIds
           /\ Size[put[h].content] <= Capacity
           /\ \A g \in Handlers : g # h => pc[g] \notin Writing
<1>1. put[h] # None
  BY DEF TypeOK, Writing
<1>2. put[h] \in Puts
  BY <1>1 DEF TypeOK
<1> QED
  BY <1>2, PutAssumption DEF WriterHoldsLock

LEMMA NoWriterWithoutLock ==
    ASSUME WriterHoldsLock, lock = None
    PROVE  \A h \in Handlers : pc[h] \notin Writing
BY PutAssumption DEF WriterHoldsLock

LEMMA InitIInv == Init => IInv
<1> SUFFICES ASSUME Init PROVE IInv
  OBVIOUS
<1>1. Cached(entries) = {}
  BY DEF Init, Cached
<1>2. IsFiniteSet({})
  BY FS_EmptySet
<1>3. TypeOK
  BY DEF Init, TypeOK, Entries
<1>4. Used(entries, Cached(entries)) = 0
  <2>1. entries \in Entries
    BY <1>3 DEF TypeOK
  <2>2. {} \in SUBSET Cached(entries)
    OBVIOUS
  <2>3. Used(entries, {}) = 0
    BY <1>2, <2>1, <2>2, UsedFacts
  <2> QED
    BY <1>1, <2>3
<1>5. Verified
  <2>1. Referenced = {}
    BY <1>1 DEF Referenced
  <2>2. 0 <= Capacity
    BY CacheAssumption
  <2> QED
    BY <1>4, <2>1, <2>2 DEF Verified
<1>6. RowsAreStamped
  BY <1>1, <1>2 DEF RowsAreStamped, Distinct
<1>7. WriterHoldsLock /\ DownIsIdle /\ WriterUndisturbed
  BY DEF Init, WriterHoldsLock, DownIsIdle, WriterUndisturbed, Writing
<1> QED
  BY <1>3, <1>5, <1>6, <1>7 DEF IInv

\* The index and its files are as they were, or more files are there.
LEMMA IndexKept ==
    ASSUME IInv, UNCHANGED <<entries, access, sequence>>, files \subseteq files'
    PROVE  RowsAreStamped' /\ Verified'
<1>1. Cached(entries)' = Cached(entries) /\ Referenced' = Referenced
  BY DEF Cached, Referenced
<1>2. Used(entries, Cached(entries))' = Used(entries, Cached(entries))
  BY DEF Cached
<1> QED
  BY <1>1, <1>2 DEF IInv, RowsAreStamped, Distinct, Verified

LEMMA StartStep == IInv /\ Start => IInv'
<1> SUFFICES ASSUME IInv, Start PROVE IInv'
  OBVIOUS
<1>1. TypeOK'
  BY DEF IInv, TypeOK, Start, Reconcile, index
<1>2. Cached(entries)' = Cached(entries) /\ Referenced' = Referenced
  BY DEF Start, index, Cached, Referenced
<1>3. Used(entries, Cached(entries))' = Used(entries, Cached(entries))
  BY DEF Start, index, Cached
<1>4. RowsAreStamped'
  BY <1>2 DEF IInv, Start, index, RowsAreStamped, Distinct
<1>5. Verified'
  BY <1>2, <1>3 DEF IInv, Start, Reconcile, Verified
<1>6. WriterHoldsLock' /\ DownIsIdle' /\ WriterUndisturbed'
  BY DEF IInv, Start, WriterHoldsLock, DownIsIdle, WriterUndisturbed, Writing
<1> QED
  BY <1>1, <1>4, <1>5, <1>6 DEF IInv

LEMMA CrashStep == IInv /\ Crash => IInv'
<1> SUFFICES ASSUME IInv, Crash PROVE IInv'
  OBVIOUS
<1>1. TypeOK'
  <2>1. crashes \in Nat /\ crashes' = crashes + 1
    BY DEF IInv, TypeOK, Crash
  <2>2. crashes' \in Nat
    BY <2>1
  <2>3. /\ pc' \in [Handlers -> {"idle", "read", "write", "install", "commit", "sweep", "reply"}]
        /\ \A h \in Handlers : pc'[h] = "idle"
        /\ put' \in [Handlers -> Puts \cup {None}]
        /\ found' \in [Handlers -> Contents \cup {NoContent}]
        /\ reply' \in [Handlers -> {"none", "miss", "hit", "unreadable", "replay",
                                    "conflict", "stored", "failed"}]
    BY DEF Crash
  <2>4. up' \in BOOLEAN /\ lock' \in Handlers \cup {None}
    BY DEF Crash
  <2> QED
    BY <2>2, <2>3, <2>4 DEF IInv, TypeOK, Crash, disk, index
<1>2. UNCHANGED <<entries, access, sequence>> /\ files \subseteq files'
  BY DEF Crash, disk, index
<1>3. RowsAreStamped' /\ Verified'
  BY <1>2, IndexKept
<1>4. WriterHoldsLock' /\ DownIsIdle' /\ WriterUndisturbed'
  BY DEF Crash, WriterHoldsLock, DownIsIdle, WriterUndisturbed, Writing
<1> QED
  BY <1>1, <1>3, <1>4 DEF IInv

\* A handler that is no writer and becomes none leaves the writers alone.
LEMMA BystanderStep ==
    ASSUME IInv, TypeOK', NEW h \in Handlers, pc[h] \notin Writing, pc[h] # "idle" \/ up,
           UNCHANGED <<files, temporaries, up, lock, put>>,
           NEW s, s \notin Writing, pc' = [pc EXCEPT ![h] = s]
    PROVE  WriterHoldsLock' /\ DownIsIdle' /\ WriterUndisturbed'
<1>1. up
  BY DEF IInv, DownIsIdle
<1>2. pc \in [Handlers -> {"idle", "read", "write", "install", "commit", "sweep", "reply"}]
  BY DEF IInv, TypeOK
<1>3. \A g \in Handlers : pc'[g] \in Writing => g # h /\ pc'[g] = pc[g]
  BY <1>2
<1>4. WriterHoldsLock'
  BY <1>3 DEF IInv, WriterHoldsLock
<1>5. WriterUndisturbed'
  BY <1>3 DEF IInv, WriterUndisturbed, Writing
<1> QED
  BY <1>1, <1>4, <1>5 DEF DownIsIdle

Steps == {"idle", "read", "write", "install", "commit", "sweep", "reply"}

Replies == {"none", "miss", "hit", "unreadable", "replay", "conflict", "stored", "failed"}

\* The types of a step of one handler.
LEMMA HandlerTypes ==
    ASSUME TypeOK, NEW h \in Handlers, NEW s \in Steps, NEW r \in Replies
    PROVE  /\ [pc EXCEPT ![h] = s] \in [Handlers -> Steps]
           /\ [pc EXCEPT ![h] = s][h] = s
           /\ \A g \in Handlers : g # h => [pc EXCEPT ![h] = s][g] = pc[g]
           /\ [reply EXCEPT ![h] = r] \in [Handlers -> Replies]
BY DEF TypeOK, Steps, Replies

LEMMA LookupStep ==
    ASSUME IInv, NEW h \in Handlers, NEW k \in Keys, NEW c \in Contents, Lookup(h, k, c)
    PROVE  IInv'
<1>1. up /\ pc[h] = "idle" /\ UNCHANGED <<files, temporaries, up, lock, put, crashes>>
  BY DEF Lookup
<1>2. CASE Answer(h, "miss") /\ UNCHANGED <<index, found>>
  <2>1. pc' = [pc EXCEPT ![h] = "reply"] /\ reply' = [reply EXCEPT ![h] = "miss"]
    BY <1>2 DEF Answer
  <2>2. "reply" \in Steps /\ "reply" \notin Writing /\ "miss" \in Replies /\ "idle" \notin Writing
    BY DEF Steps, Writing, Replies
  <2>3. pc' \in [Handlers -> Steps] /\ reply' \in [Handlers -> Replies]
    BY <2>1, <2>2, HandlerTypes DEF IInv
  <2>4. \A g \in Handlers : pc'[g] \in Writing => put[g] # None
    BY <2>1, <2>2 DEF IInv, TypeOK, Writing
  <2>5. TypeOK'
    BY <1>1, <1>2, <2>3, <2>4 DEF IInv, TypeOK, index, Steps, Replies, Writing
  <2>6. RowsAreStamped' /\ Verified'
    BY <1>1, <1>2, IndexKept DEF index
  <2>7. WriterHoldsLock' /\ DownIsIdle' /\ WriterUndisturbed'
    BY <1>1, <2>1, <2>2, <2>5, BystanderStep
  <2> QED
    BY <2>5, <2>6, <2>7 DEF IInv
<1>3. CASE /\ entries[k] = c
           /\ sequence' = sequence + 1
           /\ access' = [access EXCEPT ![k] = sequence + 1]
           /\ found' = [found EXCEPT ![h] = entries[k]]
           /\ Goto(h, "read")
           /\ UNCHANGED <<entries, requests>>
  <2>1. pc' = [pc EXCEPT ![h] = "read"] /\ reply' = reply
    BY <1>3 DEF Goto
  <2>2. "read" \in Steps /\ "read" \notin Writing /\ "miss" \in Replies /\ "idle" \notin Writing
    BY DEF Steps, Writing, Replies
  <2>3. pc' \in [Handlers -> Steps]
    BY <2>1, <2>2, HandlerTypes DEF IInv
  <2>4. \A g \in Handlers : pc'[g] \in Writing => put[g] # None
    BY <2>1, <2>2 DEF IInv, TypeOK, Writing
  <2>5. sequence \in Nat /\ sequence' \in Nat /\ access \in [Keys -> Nat] /\ access' \in [Keys -> Nat]
    BY <1>3 DEF IInv, TypeOK
  <2>6. found' \in [Handlers -> Contents \cup {NoContent}]
    BY <1>3 DEF IInv, TypeOK
  <2>7. TypeOK'
    BY <1>1, <1>3, <2>1, <2>3, <2>4, <2>5, <2>6 DEF IInv, TypeOK, Steps, Writing
  <2>8. Cached(entries)' = Cached(entries) /\ Referenced' = Referenced
    BY <1>3 DEF Cached, Referenced
  <2>9. \A x \in Cached(entries) : x \in Keys /\ access[x] <= sequence /\ access[x] \in Nat
    BY <2>5 DEF IInv, RowsAreStamped, Cached
  <2>10. access'[k] = sequence + 1 /\ \A x \in Keys : x # k => access'[x] = access[x]
    BY <1>3, <2>5
  <2>11. \A x \in Cached(entries) : access'[x] <= sequence'
    BY <1>3, <2>5, <2>9, <2>10
  <2>12. ASSUME NEW x \in Cached(entries), NEW y \in Cached(entries), access'[x] = access'[y]
         PROVE  x = y
    <3>1. CASE x # k /\ y # k
      BY <2>9, <2>10, <2>12, <3>1 DEF IInv, RowsAreStamped, Distinct
    <3>2. CASE x = k /\ y # k
      BY <2>5, <2>9, <2>10, <2>12, <3>2
    <3>3. CASE x # k /\ y = k
      BY <2>5, <2>9, <2>10, <2>12, <3>3
    <3> QED
      BY <3>1, <3>2, <3>3
  <2>13. RowsAreStamped'
    BY <2>8, <2>11, <2>12 DEF IInv, RowsAreStamped, Distinct
  <2>14. Used(entries, Cached(entries))' = Used(entries, Cached(entries))
    BY <1>3 DEF Cached
  <2>15. Verified'
    BY <1>1, <2>8, <2>14 DEF IInv, Verified
  <2>16. WriterHoldsLock' /\ DownIsIdle' /\ WriterUndisturbed'
    BY <1>1, <2>1, <2>2, <2>7, BystanderStep
  <2> QED
    BY <2>7, <2>13, <2>15, <2>16 DEF IInv
<1> QED
  BY <1>2, <1>3 DEF Lookup

LEMMA ReadPayloadStep ==
    ASSUME IInv, NEW h \in Handlers, ReadPayload(h)
    PROVE  IInv'
<1> DEFINE r == IF found[h] \in files THEN "hit" ELSE "unreadable"
<1>1. /\ pc[h] = "read" /\ pc' = [pc EXCEPT ![h] = "reply"] /\ reply' = [reply EXCEPT ![h] = r]
      /\ UNCHANGED <<entries, access, sequence, requests, files, temporaries,
                     up, lock, put, found, crashes>>
  BY DEF ReadPayload, Answer, disk, index
<1>2. "reply" \in Steps /\ "reply" \notin Writing /\ r \in Replies /\ pc[h] \notin Writing
      /\ pc[h] # "idle"
  BY <1>1 DEF Steps, Writing, Replies
<1> HIDE DEF r
<1>3. pc' \in [Handlers -> Steps] /\ reply' \in [Handlers -> Replies]
  BY <1>1, <1>2, HandlerTypes DEF IInv
<1>4. \A g \in Handlers : pc'[g] \in Writing => put[g] # None
  BY <1>1, <1>2 DEF IInv, TypeOK, Writing
<1>5. TypeOK'
  BY <1>1, <1>3, <1>4 DEF IInv, TypeOK, Steps, Replies, Writing
<1>6. RowsAreStamped' /\ Verified'
  BY <1>1, IndexKept
<1>7. WriterHoldsLock' /\ DownIsIdle' /\ WriterUndisturbed'
  BY <1>1, <1>2, <1>5, BystanderStep
<1> QED
  BY <1>5, <1>6, <1>7 DEF IInv

LEMMA SendReplyStep ==
    ASSUME IInv, NEW h \in Handlers, SendReply(h)
    PROVE  IInv'
<1>1. /\ pc[h] = "reply" /\ pc' = [pc EXCEPT ![h] = "idle"] /\ reply' = [reply EXCEPT ![h] = "none"]
      /\ found' = [found EXCEPT ![h] = NoContent]
      /\ UNCHANGED <<entries, access, sequence, requests, files, temporaries,
                     up, lock, put, crashes>>
  BY DEF SendReply, disk, index
<1>2. "idle" \in Steps /\ "idle" \notin Writing /\ "none" \in Replies /\ pc[h] \notin Writing
      /\ pc[h] # "idle"
  BY <1>1 DEF Steps, Writing, Replies
<1>3. pc' \in [Handlers -> Steps] /\ reply' \in [Handlers -> Replies]
  BY <1>1, <1>2, HandlerTypes DEF IInv
<1>4. \A g \in Handlers : pc'[g] \in Writing => put[g] # None
  BY <1>1, <1>2 DEF IInv, TypeOK, Writing
<1>5. found' \in [Handlers -> Contents \cup {NoContent}]
  BY <1>1 DEF IInv, TypeOK
<1>6. TypeOK'
  BY <1>1, <1>3, <1>4, <1>5 DEF IInv, TypeOK, Steps, Replies, Writing
<1>7. RowsAreStamped' /\ Verified'
  BY <1>1, IndexKept
<1>8. WriterHoldsLock' /\ DownIsIdle' /\ WriterUndisturbed'
  BY <1>1, <1>2, <1>6, BystanderStep
<1> QED
  BY <1>6, <1>7, <1>8 DEF IInv

LEMMA PutBeginStep ==
    ASSUME IInv, NEW h \in Handlers, NEW p \in Puts, PutBegin(h, p)
    PROVE  IInv'
<1>1. /\ up /\ pc[h] = "idle" /\ lock = None /\ Size[p.content] <= Capacity
      /\ UNCHANGED <<entries, access, sequence, requests, files, temporaries, up, found, crashes>>
  BY DEF PutBegin, disk, index
<1>2. "idle" \notin Writing /\ "reply" \in Steps /\ "reply" \notin Writing /\ "write" \in Steps
      /\ "miss" \in Replies
  BY DEF Steps, Writing, Replies
<1>3. RowsAreStamped' /\ Verified'
  BY <1>1, IndexKept
<1>4. CASE /\ Answer(h, IF requests[p.id] = p THEN "replay" ELSE "conflict")
           /\ UNCHANGED <<lock, put>>
  <2> DEFINE r == IF requests[p.id] = p THEN "replay" ELSE "conflict"
  <2>1. pc' = [pc EXCEPT ![h] = "reply"] /\ reply' = [reply EXCEPT ![h] = r]
    BY <1>4 DEF Answer
  <2>2. r \in Replies
    BY DEF Replies
  <2> HIDE DEF r
  <2>3. pc' \in [Handlers -> Steps] /\ reply' \in [Handlers -> Replies]
    BY <1>2, <2>1, <2>2, HandlerTypes DEF IInv
  <2>4. \A g \in Handlers : pc'[g] \in Writing => put[g] # None
    BY <1>2, <2>1 DEF IInv, TypeOK, Writing
  <2>5. TypeOK'
    BY <1>1, <1>4, <2>3, <2>4 DEF IInv, TypeOK, Steps, Replies, Writing
  <2>6. WriterHoldsLock' /\ DownIsIdle' /\ WriterUndisturbed'
    BY <1>1, <1>2, <1>4, <2>1, <2>5, BystanderStep
  <2> QED
    BY <1>3, <2>5, <2>6 DEF IInv
<1>5. CASE lock' = h /\ put' = [put EXCEPT ![h] = p] /\ Goto(h, "write")
  <2>1. pc' = [pc EXCEPT ![h] = "write"] /\ reply' = reply
    BY <1>5 DEF Goto
  <2>2. /\ pc' \in [Handlers -> Steps] /\ pc'[h] = "write"
        /\ \A g \in Handlers : g # h => pc'[g] = pc[g]
    BY <1>2, <2>1, HandlerTypes DEF IInv
  <2>3. \A g \in Handlers : pc[g] \notin Writing
    BY <1>1, NoWriterWithoutLock DEF IInv
  <2>4. p # None /\ put'[h] = p /\ put' \in [Handlers -> Puts \cup {None}]
    BY <1>5, PutAssumption DEF IInv, TypeOK
  <2>5. \A g \in Handlers : pc'[g] \in Writing => g = h
    BY <2>2, <2>3
  <2>6. TypeOK'
    BY <1>1, <1>5, <2>1, <2>2, <2>4, <2>5 DEF IInv, TypeOK, Steps, Replies, Writing
  <2>7. WriterHoldsLock'
    BY <1>1, <1>5, <2>4, <2>5 DEF WriterHoldsLock
  <2>8. DownIsIdle'
    BY <1>1 DEF DownIsIdle
  <2>9. WriterUndisturbed'
    BY <2>2, <2>5 DEF WriterUndisturbed, Writing
  <2> QED
    BY <1>3, <2>6, <2>7, <2>8, <2>9 DEF IInv
<1> QED
  BY <1>4, <1>5 DEF PutBegin

\* The writer goes on to its next step, or gives its lock back: nobody else
\* is a writer.
LEMMA WriterStep ==
    ASSUME IInv, TypeOK', NEW h \in Handlers, pc[h] \in Writing, UNCHANGED up,
           NEW s \in Steps, pc' = [pc EXCEPT ![h] = s],
           s \in Writing => UNCHANGED <<lock, put>>,
           s = "install" => put[h].content \in temporaries',
           s \in {"commit", "sweep"} => put[h].content \in files'
    PROVE  WriterHoldsLock' /\ DownIsIdle' /\ WriterUndisturbed'
<1>1. up
  BY DEF IInv, DownIsIdle, Writing
<1>2. /\ lock = h /\ Size[put[h].content] <= Capacity
      /\ \A g \in Handlers : g # h => pc[g] \notin Writing
  BY WriterPut DEF IInv
<1>3. pc'[h] = s /\ \A g \in Handlers : g # h => pc'[g] = pc[g]
  <2>1. "none" \in Replies
    BY DEF Replies
  <2> QED
    BY <2>1, HandlerTypes DEF IInv
<1>4. \A g \in Handlers : pc'[g] \in Writing => g = h /\ s \in Writing
  BY <1>2, <1>3
<1>5. WriterHoldsLock'
  BY <1>2, <1>4 DEF WriterHoldsLock
<1>6. WriterUndisturbed'
  BY <1>3, <1>4 DEF WriterUndisturbed, Writing
<1> QED
  BY <1>1, <1>5, <1>6 DEF DownIsIdle

LEMMA WriteTemporaryStep ==
    ASSUME IInv, NEW h \in Handlers, WriteTemporary(h)
    PROVE  IInv'
<1>1. /\ pc[h] = "write" /\ pc' = [pc EXCEPT ![h] = "install"]
      /\ temporaries' = temporaries \cup {put[h].content}
      /\ UNCHANGED <<entries, access, sequence, requests, files, up, lock, put, found,
                     reply, crashes>>
  BY DEF WriteTemporary, Goto, index
<1>2. pc[h] \in Writing /\ "install" \in Steps /\ "none" \in Replies
  BY <1>1 DEF Steps, Writing, Replies
<1>3. put[h].content \in Contents /\ put[h] \in Puts
  BY <1>2, WriterPut DEF IInv
<1>4. /\ pc' \in [Handlers -> Steps] /\ pc'[h] = "install"
      /\ \A g \in Handlers : g # h => pc'[g] = pc[g]
  BY <1>1, <1>2, HandlerTypes DEF IInv
<1>5. \A g \in Handlers : pc'[g] \in Writing => put[g] # None
  BY <1>3, <1>4, PutAssumption DEF IInv, TypeOK, Writing
<1>6. TypeOK'
  BY <1>1, <1>3, <1>4, <1>5 DEF IInv, TypeOK, Steps, Writing
<1>7. RowsAreStamped' /\ Verified'
  BY <1>1, IndexKept
<1>8. put[h].content \in temporaries'
  BY <1>1
<1>9. WriterHoldsLock' /\ DownIsIdle' /\ WriterUndisturbed'
  BY <1>1, <1>2, <1>6, <1>8, WriterStep
<1> QED
  BY <1>6, <1>7, <1>9 DEF IInv

LEMMA InstallPayloadStep ==
    ASSUME IInv, NEW h \in Handlers, InstallPayload(h)
    PROVE  IInv'
<1>1. /\ pc[h] = "install" /\ pc' = [pc EXCEPT ![h] = "commit"]
      /\ temporaries' = temporaries \ {put[h].content}
      /\ files' = files \cup {put[h].content}
      /\ UNCHANGED <<entries, access, sequence, requests, up, lock, put, found, reply, crashes>>
  BY DEF InstallPayload, Goto, index
<1>2. pc[h] \in Writing /\ "commit" \in Steps /\ "none" \in Replies
  BY <1>1 DEF Steps, Writing, Replies
<1>3. put[h].content \in Contents /\ put[h] \in Puts
  BY <1>2, WriterPut DEF IInv
<1>4. /\ pc' \in [Handlers -> Steps] /\ pc'[h] = "commit"
      /\ \A g \in Handlers : g # h => pc'[g] = pc[g]
  BY <1>1, <1>2, HandlerTypes DEF IInv
<1>5. \A g \in Handlers : pc'[g] \in Writing => put[g] # None
  BY <1>3, <1>4, PutAssumption DEF IInv, TypeOK, Writing
<1>6. TypeOK'
  BY <1>1, <1>3, <1>4, <1>5 DEF IInv, TypeOK, Steps, Writing
<1>7. RowsAreStamped' /\ Verified'
  BY <1>1, IndexKept
<1>8. put[h].content \in files'
  BY <1>1
<1>9. WriterHoldsLock' /\ DownIsIdle' /\ WriterUndisturbed'
  BY <1>1, <1>2, <1>6, <1>8, WriterStep
<1> QED
  BY <1>6, <1>7, <1>9 DEF IInv

\* The transaction of a put, by what the eviction loop keeps.
LEMMA CommitFacts ==
    ASSUME IInv, NEW h \in Handlers, CommitPut(h)
    PROVE  \E k \in Keys, c \in Contents : \E K \in SUBSET (Cached(entries) \ {k}) :
              /\ k = put[h].key /\ c = put[h].content /\ put[h] \in Puts
              /\ Evicts(K, Cached(entries) \ {k}, c)
              /\ entries' = NewEntries(K, k, c) /\ access' = NewAccess(K, k)
              /\ sequence' = sequence + 1
<1> DEFINE k == put[h].key
           c == put[h].content
           K == Kept(k, c)
<1>1. pc[h] \in Writing
  BY DEF CommitPut, Writing
<1>2. k \in Keys /\ c \in Contents /\ put[h] \in Puts /\ Size[c] <= Capacity
  BY <1>1, WriterPut DEF IInv
<1>3. /\ entries' = [x \in Keys |-> IF x = k THEN c ELSE IF x \in K THEN entries[x] ELSE NoContent]
      /\ access' = [x \in Keys |-> IF x = k THEN sequence + 1 ELSE IF x \in K THEN access[x] ELSE 0]
      /\ sequence' = sequence + 1
  BY DEF CommitPut
<1>4. entries \in Entries /\ access \in [Keys -> Nat] /\ Distinct /\ IsFiniteSet(Cached(entries))
  BY DEF IInv, TypeOK, RowsAreStamped
<1>5. Evicts(Kept(k, c), Cached(entries) \ {k}, c)
  BY <1>2, <1>4, KeptEvicts
<1>6. entries' = NewEntries(K, k, c) /\ access' = NewAccess(K, k)
  BY <1>3 DEF NewEntries, NewAccess
<1>7. K \in SUBSET (Cached(entries) \ {k})
  BY <1>5 DEF Evicts
<1> HIDE DEF K
<1>8. Evicts(K, Cached(entries) \ {k}, c)
  BY <1>5 DEF K
<1> QED
  BY <1>2, <1>3, <1>6, <1>7, <1>8

LEMMA CommitPutStep ==
    ASSUME IInv, NEW h \in Handlers, CommitPut(h)
    PROVE  IInv'
<1>1. /\ pc[h] = "commit" /\ pc' = [pc EXCEPT ![h] = "sweep"]
      /\ requests' = [requests EXCEPT ![put[h].id] = put[h]]
      /\ UNCHANGED <<files, temporaries, up, lock, put, found, reply, crashes>>
  BY DEF CommitPut, Goto
<1>2. pc[h] \in Writing /\ "sweep" \in Steps /\ "none" \in Replies
  BY <1>1 DEF Steps, Writing, Replies
<1>3. PICK k \in Keys, c \in Contents : \E K \in SUBSET (Cached(entries) \ {k}) :
              /\ k = put[h].key /\ c = put[h].content /\ put[h] \in Puts
              /\ Evicts(K, Cached(entries) \ {k}, c)
              /\ entries' = NewEntries(K, k, c) /\ access' = NewAccess(K, k)
              /\ sequence' = sequence + 1
  BY CommitFacts
<1>4. PICK K \in SUBSET (Cached(entries) \ {k}) :
              /\ k = put[h].key /\ c = put[h].content /\ put[h] \in Puts
              /\ Evicts(K, Cached(entries) \ {k}, c)
              /\ entries' = NewEntries(K, k, c) /\ access' = NewAccess(K, k)
              /\ sequence' = sequence + 1
  BY <1>3
<1>5. /\ pc' \in [Handlers -> Steps] /\ pc'[h] = "sweep"
      /\ \A g \in Handlers : g # h => pc'[g] = pc[g]
  BY <1>1, <1>2, HandlerTypes DEF IInv
<1>6. \A g \in Handlers : pc'[g] \in Writing => put[g] # None
  BY <1>4, <1>5, PutAssumption DEF IInv, TypeOK, Writing
<1>7. FitsBeside(K, c) /\ entries \in Entries /\ IsFiniteSet(Cached(entries))
  BY <1>4 DEF Evicts, IInv, TypeOK, RowsAreStamped
<1>8. /\ entries' \in Entries /\ Cached(entries') = K \cup {k} /\ IsFiniteSet(K \cup {k})
      /\ entries'[k] = c /\ (\A x \in K : entries'[x] = entries[x])
      /\ Used(entries', K \cup {k}) <= Capacity
  <2> DEFINE e == NewEntries(K, k, c)
  <2>1. /\ e \in Entries /\ Cached(e) = K \cup {k} /\ IsFiniteSet(K \cup {k})
        /\ e[k] = c /\ (\A x \in K : e[x] = entries[x])
        /\ Used(e, K \cup {k}) <= Capacity
    BY <1>7, CommittedEntries
  <2>2. entries' = e
    BY <1>4
  <2> HIDE DEF e
  <2> QED
    BY <2>1, <2>2
<1>9. /\ access \in [Keys -> Nat] /\ sequence \in Nat /\ Distinct
      /\ \A x \in Cached(entries) : access[x] <= sequence
  BY DEF IInv, TypeOK, RowsAreStamped
<1>10. /\ access' \in [Keys -> Nat]
       /\ \A x \in K \cup {k} : access'[x] <= sequence'
       /\ \A x, y \in K \cup {k} : access'[x] = access'[y] => x = y
  <2> DEFINE a == NewAccess(K, k)
  <2>1. /\ a \in [Keys -> Nat]
        /\ \A x \in K \cup {k} : a[x] <= sequence + 1
        /\ \A x, y \in K \cup {k} : a[x] = a[y] => x = y
    BY <1>9, CommittedAccess
  <2>2. access' = a /\ sequence' = sequence + 1
    BY <1>4
  <2> HIDE DEF a
  <2> QED
    BY <2>1, <2>2
<1>11. requests' \in [PutIds -> Puts \cup {None}] /\ sequence' \in Nat
  <2>1. requests \in [PutIds -> Puts \cup {None}] /\ put[h] \in Puts
    BY <1>4 DEF IInv, TypeOK
  <2>2. sequence' \in Nat
    BY <1>4, <1>9
  <2> QED
    BY <1>1, <2>1, <2>2
<1>12. TypeOK'
  BY <1>1, <1>5, <1>6, <1>8, <1>10, <1>11 DEF IInv, TypeOK, Steps, Writing
<1>13. RowsAreStamped'
  BY <1>8, <1>10 DEF RowsAreStamped, Distinct
<1>14. c \in files
  BY <1>1, <1>3 DEF IInv, WriterUndisturbed
<1>15. Referenced' \subseteq files'
  <2>1. Referenced' = {entries'[x] : x \in K \cup {k}}
    BY <1>8 DEF Referenced
  <2>2. ASSUME NEW x \in K \cup {k} PROVE entries'[x] \in files
    <3>1. CASE x = k
      BY <1>8, <1>14, <3>1
    <3>2. CASE x \in K
      <4>1. entries[x] \in Referenced
        BY <3>2 DEF Referenced
      <4> QED
        BY <1>8, <3>2, <4>1 DEF IInv, Verified
    <3> QED
      BY <3>1, <3>2
  <2> QED
    BY <1>1, <2>1, <2>2
<1>16. Verified'
  BY <1>8, <1>15 DEF Verified
<1>17. put[h].content \in files'
  BY <1>1, <1>4, <1>14
<1>18. WriterHoldsLock' /\ DownIsIdle' /\ WriterUndisturbed'
  BY <1>1, <1>2, <1>12, <1>17, WriterStep
<1> QED
  BY <1>12, <1>13, <1>16, <1>18 DEF IInv

LEMMA SweepStep ==
    ASSUME IInv, NEW h \in Handlers, Sweep(h)
    PROVE  IInv'
<1>1. /\ pc[h] = "sweep" /\ pc' = [pc EXCEPT ![h] = "reply"]
      /\ reply' = [reply EXCEPT ![h] = "stored"]
      /\ files' = files \cap Referenced /\ temporaries' = {} /\ lock' = None
      /\ put' = [put EXCEPT ![h] = None]
      /\ UNCHANGED <<entries, access, sequence, requests, up, found, crashes>>
  BY DEF Sweep, Answer, Reconcile, index
<1>2. /\ pc[h] \in Writing /\ "reply" \in Steps /\ "stored" \in Replies /\ "reply" \notin Writing
      /\ "reply" # "install" /\ "reply" \notin {"commit", "sweep"}
  BY <1>1 DEF Steps, Writing, Replies
<1>3. /\ pc' \in [Handlers -> Steps] /\ pc'[h] = "reply" /\ reply' \in [Handlers -> Replies]
      /\ \A g \in Handlers : g # h => pc'[g] = pc[g]
  BY <1>1, <1>2, HandlerTypes DEF IInv
<1>4. put' \in [Handlers -> Puts \cup {None}] /\ \A g \in Handlers : g # h => put'[g] = put[g]
  BY <1>1 DEF IInv, TypeOK
<1>5. \A g \in Handlers : pc'[g] \in Writing => put'[g] # None
  BY <1>2, <1>3, <1>4 DEF IInv, TypeOK, Writing
<1>6. TypeOK'
  BY <1>1, <1>3, <1>4, <1>5 DEF IInv, TypeOK, Steps, Replies, Writing
<1>7. Cached(entries)' = Cached(entries) /\ Referenced' = Referenced
  BY <1>1 DEF Cached, Referenced
<1>8. Used(entries, Cached(entries))' = Used(entries, Cached(entries))
  BY <1>1 DEF Cached
<1>9. RowsAreStamped'
  BY <1>1, <1>7 DEF IInv, RowsAreStamped, Distinct
<1>10. Verified'
  BY <1>1, <1>7, <1>8 DEF IInv, Verified
<1>11. WriterHoldsLock' /\ DownIsIdle' /\ WriterUndisturbed'
  BY <1>1, <1>2, <1>6, WriterStep
<1> QED
  BY <1>6, <1>9, <1>10, <1>11 DEF IInv

LEMMA PutFailsStep ==
    ASSUME IInv, NEW h \in Handlers, PutFails(h)
    PROVE  IInv'
<1>1. /\ pc[h] \in {"write", "install", "commit"} /\ pc' = [pc EXCEPT ![h] = "reply"]
      /\ reply' = [reply EXCEPT ![h] = "failed"]
      /\ temporaries' \in {temporaries, temporaries \ {put[h].content}}
      /\ lock' = None /\ put' = [put EXCEPT ![h] = None]
      /\ UNCHANGED <<entries, access, sequence, requests, files, up, found, crashes>>
  BY DEF PutFails, Answer, index
<1>2. /\ pc[h] \in Writing /\ "reply" \in Steps /\ "failed" \in Replies /\ "reply" \notin Writing
      /\ "reply" # "install" /\ "reply" \notin {"commit", "sweep"}
  BY <1>1 DEF Steps, Writing, Replies
<1>3. /\ pc' \in [Handlers -> Steps] /\ pc'[h] = "reply" /\ reply' \in [Handlers -> Replies]
      /\ \A g \in Handlers : g # h => pc'[g] = pc[g]
  BY <1>1, <1>2, HandlerTypes DEF IInv
<1>4. put' \in [Handlers -> Puts \cup {None}] /\ \A g \in Handlers : g # h => put'[g] = put[g]
  BY <1>1 DEF IInv, TypeOK
<1>5. \A g \in Handlers : pc'[g] \in Writing => put'[g] # None
  BY <1>2, <1>3, <1>4 DEF IInv, TypeOK, Writing
<1>6. TypeOK'
  BY <1>1, <1>3, <1>4, <1>5 DEF IInv, TypeOK, Steps, Replies, Writing
<1>7. RowsAreStamped' /\ Verified'
  BY <1>1, IndexKept
<1>8. WriterHoldsLock' /\ DownIsIdle' /\ WriterUndisturbed'
  BY <1>1, <1>2, <1>6, WriterStep
<1> QED
  BY <1>6, <1>7, <1>8 DEF IInv

LEMMA NextIInv == IInv /\ [Next]_vars => IInv'
<1> SUFFICES ASSUME IInv, [Next]_vars PROVE IInv'
  OBVIOUS
<1>1. CASE UNCHANGED vars
  <2>1. UNCHANGED <<entries, access, sequence, requests, files, temporaries, up, lock,
                    pc, put, found, reply, crashes>>
    BY <1>1 DEF vars, disk, index
  <2>2. RowsAreStamped' /\ Verified'
    BY <2>1, IndexKept
  <2>3. TypeOK'
    BY <2>1 DEF IInv, TypeOK
  <2>4. WriterHoldsLock' /\ DownIsIdle' /\ WriterUndisturbed'
    BY <2>1 DEF IInv, WriterHoldsLock, DownIsIdle, WriterUndisturbed
  <2> QED
    BY <2>2, <2>3, <2>4 DEF IInv
<1>2. CASE Start
  BY <1>2, StartStep
<1>3. CASE Crash
  BY <1>3, CrashStep
<1>4. CASE \E h \in Handlers : \E k \in Keys : \E c \in Contents : Lookup(h, k, c)
  BY <1>4, LookupStep
<1>5. CASE \E h \in Handlers : \E p \in Puts : PutBegin(h, p)
  BY <1>5, PutBeginStep
<1>6. ASSUME NEW h \in Handlers, Step(h) PROVE IInv'
  <2>1. CASE ReadPayload(h)
    BY <2>1, ReadPayloadStep
  <2>2. CASE WriteTemporary(h)
    BY <2>2, WriteTemporaryStep
  <2>3. CASE InstallPayload(h)
    BY <2>3, InstallPayloadStep
  <2>4. CASE CommitPut(h)
    BY <2>4, CommitPutStep
  <2>5. CASE Sweep(h)
    BY <2>5, SweepStep
  <2>6. CASE PutFails(h)
    BY <2>6, PutFailsStep
  <2>7. CASE SendReply(h)
    BY <2>7, SendReplyStep
  <2> QED
    BY <1>6, <2>1, <2>2, <2>3, <2>4, <2>5, <2>6, <2>7 DEF Step
<1> QED
  BY <1>1, <1>2, <1>3, <1>4, <1>5, <1>6 DEF Next

LEMMA InvariantIInv == Spec => []IInv
BY InitIInv, NextIInv, PTL DEF Spec

\* Whatever handlers, failures and deaths do: each row of the index has its
\* payload, the rows fit the capacity, so that a new process starts, and no
\* sweep takes the files of a put in progress (put, _remove_orphaned_objects).
THEOREM FilesAreAlwaysKept == Spec => []FilesAreKept
<1>1. IInv => FilesAreKept
  BY DEF IInv, FilesAreKept, Restartable
<1> QED
  BY <1>1, InvariantIInv, PTL

\* A hit whose payload cannot be read any more lost its row since the lookup
\* (lookup reads the payload after it has released the lock).
THEOREM UnreadableWasEvicted == Spec => UnreadableOnlyIfEvicted
<1>1. IInv /\ [Next]_vars =>
        [\A h \in Handlers : reply'[h] = "unreadable" /\ reply[h] # "unreadable" =>
              found[h] \notin Referenced]_vars
  <2> SUFFICES ASSUME IInv, Next, NEW h \in Handlers,
                      reply'[h] = "unreadable", reply[h] # "unreadable"
               PROVE  found[h] \notin Referenced
    BY DEF vars
  <2>1. reply \in [Handlers -> Replies]
    BY DEF IInv, TypeOK, Replies
  <2>2. ReadPayload(h)
    BY <2>1 DEF Next, Step, Start, Crash, Lookup, ReadPayload, PutBegin, WriteTemporary,
               InstallPayload, CommitPut, Sweep, PutFails, SendReply, Answer, Goto
  <2>3. reply'[h] = IF found[h] \in files THEN "hit" ELSE "unreadable"
    BY <2>1, <2>2 DEF ReadPayload, Answer
  <2>4. found[h] \notin files
    BY <2>3
  <2> QED
    BY <2>4 DEF IInv, Verified
<1> QED
  BY <1>1, InvariantIInv, PTL DEF Spec, UnreadableOnlyIfEvicted

-----------------------------------------------------------------------------
(* Keys in order of their last use.                                        *)

\* s lists the keys of S, each once, by increasing access a.
Sorted(s, S, a) ==
    /\ s \in Seq(S)
    /\ \A x \in S : \E i \in 1 .. Len(s) : s[i] = x
    /\ \A i, j \in 1 .. Len(s) : i < j => a[s[i]] < a[s[j]]

LEMMA SortedEmpty == \A a : Sorted(<<>>, {}, a)
<1>1. <<>> \in Seq({}) /\ Len(<<>>) = 0
  OBVIOUS
<1> QED
  BY <1>1 DEF Sorted

\* There is one such list at most.
LEMMA SortedPrefix ==
    ASSUME NEW S, NEW a, \A x \in S : a[x] \in Nat, NEW s, NEW r, Sorted(s, S, a), Sorted(r, S, a)
    PROVE  \A i \in 1 .. Len(s) : i \in 1 .. Len(r) => s[i] = r[i]
<1> DEFINE D == {i \in 1 .. Len(s) : i \in 1 .. Len(r) /\ s[i] # r[i]}
<1>1. s \in Seq(S) /\ r \in Seq(S) /\ Len(s) \in Nat /\ Len(r) \in Nat
  BY DEF Sorted
<1>2. D \in SUBSET Nat
  OBVIOUS
<1> SUFFICES ASSUME D # {} PROVE FALSE
  OBVIOUS
<1>3. PICK i \in D : \A j \in D : i <= j
  BY <1>2, Least
<1>4. i \in 1 .. Len(s) /\ i \in 1 .. Len(r) /\ s[i] # r[i] /\ s[i] \in S /\ r[i] \in S
  BY <1>1
<1>5. \A j \in 1 .. i - 1 : s[j] = r[j]
  <2> SUFFICES ASSUME NEW j \in 1 .. i - 1, s[j] # r[j] PROVE FALSE
    OBVIOUS
  <2>1. j \in D
    BY <1>1, <1>4
  <2>2. i <= j
    BY <1>3, <2>1
  <2> QED
    BY <1>1, <1>4, <2>2
<1> HIDE DEF D
<1>6. PICK j \in 1 .. Len(r) : r[j] = s[i]
  BY <1>4 DEF Sorted
<1>7. PICK l \in 1 .. Len(s) : s[l] = r[i]
  BY <1>4 DEF Sorted
<1>8. a[s[i]] \in Nat /\ a[r[i]] \in Nat
  BY <1>4
<1>9. i < j
  <2>1. j # i
    BY <1>4, <1>6
  <2>2. CASE j < i
    <3>1. j \in 1 .. i - 1 /\ j \in 1 .. Len(s)
      BY <1>1, <1>4, <2>2
    <3>2. s[j] = s[i]
      BY <1>5, <1>6, <3>1
    <3>3. a[s[j]] < a[s[i]]
      BY <1>4, <2>2, <3>1 DEF Sorted
    <3> QED
      BY <1>8, <3>2, <3>3
  <2> QED
    BY <1>1, <1>4, <2>1, <2>2
<1>10. i < l
  <2>1. l # i
    BY <1>4, <1>7
  <2>2. CASE l < i
    <3>1. l \in 1 .. i - 1 /\ l \in 1 .. Len(r)
      BY <1>1, <1>4, <2>2
    <3>2. r[l] = r[i]
      BY <1>5, <1>7, <3>1
    <3>3. a[r[l]] < a[r[i]]
      BY <1>4, <2>2, <3>1 DEF Sorted
    <3> QED
      BY <1>8, <3>2, <3>3
  <2> QED
    BY <1>1, <1>4, <2>1, <2>2
<1>11. a[s[i]] < a[s[l]]
  BY <1>4, <1>10 DEF Sorted
<1>12. a[r[i]] < a[r[j]]
  BY <1>4, <1>9 DEF Sorted
<1> QED
  BY <1>6, <1>7, <1>8, <1>11, <1>12

LEMMA SortedNotShorter ==
    ASSUME NEW S, NEW a, \A x \in S : a[x] \in Nat, NEW s, NEW r, Sorted(s, S, a), Sorted(r, S, a)
    PROVE  Len(r) <= Len(s)
<1>1. s \in Seq(S) /\ r \in Seq(S) /\ Len(s) \in Nat /\ Len(r) \in Nat
  BY DEF Sorted
<1> SUFFICES ASSUME Len(s) < Len(r) PROVE FALSE
  BY <1>1
<1> DEFINE n == Len(r)
<1>2. n \in 1 .. Len(r) /\ r[n] \in S
  BY <1>1
<1>3. PICK i \in 1 .. Len(s) : s[i] = r[n]
  BY <1>2 DEF Sorted
<1>4. i \in 1 .. Len(r) /\ i < n
  BY <1>1
<1>5. s[i] = r[i]
  BY <1>4, SortedPrefix
<1>6. a[r[i]] < a[r[n]]
  BY <1>2, <1>4 DEF Sorted
<1>7. a[r[n]] \in Nat
  BY <1>2
<1> QED
  BY <1>3, <1>5, <1>6, <1>7

LEMMA SortedUnique ==
    ASSUME NEW S, NEW a, \A x \in S : a[x] \in Nat, NEW s, NEW r, Sorted(s, S, a), Sorted(r, S, a)
    PROVE  s = r
<1>1. s \in Seq(S) /\ r \in Seq(S) /\ Len(s) \in Nat /\ Len(r) \in Nat
  BY DEF Sorted
<1>2. Len(r) <= Len(s)
  BY SortedNotShorter
<1>3. Len(s) <= Len(r)
  BY SortedNotShorter
<1>4. Len(s) = Len(r)
  BY <1>1, <1>2, <1>3
<1>5. \A i \in 1 .. Len(s) : s[i] = r[i]
  BY <1>4, SortedPrefix
<1> QED
  BY <1>1, <1>4, <1>5

\* A key used after all the others goes to the end.
LEMMA SortedAppend ==
    ASSUME NEW S, NEW a, NEW s, Sorted(s, S, a), NEW k, \A x \in S : a[x] < a[k]
    PROVE  Sorted(Append(s, k), S \cup {k}, a)
<1> DEFINE r == Append(s, k)
<1>1. s \in Seq(S) /\ Len(s) \in Nat /\ \A i \in 1 .. Len(s) : s[i] \in S
  BY DEF Sorted
<1>2. r \in Seq(S \cup {k}) /\ Len(r) = Len(s) + 1 /\ r[Len(s) + 1] = k
      /\ \A i \in 1 .. Len(s) : r[i] = s[i]
  <2>1. s \in Seq(S \cup {k})
    BY <1>1
  <2> QED
    BY <1>1, <2>1
<1> HIDE DEF r
<1>3. ASSUME NEW x \in S \cup {k} PROVE \E i \in 1 .. Len(r) : r[i] = x
  <2>1. CASE x = k
    <3>1. Len(s) + 1 \in 1 .. Len(r)
      BY <1>1, <1>2
    <3> QED
      BY <1>2, <2>1, <3>1
  <2>2. CASE x \in S
    <3>1. PICK i \in 1 .. Len(s) : s[i] = x
      BY <2>2 DEF Sorted
    <3>2. i \in 1 .. Len(r)
      BY <1>1, <1>2
    <3> QED
      BY <1>2, <3>1, <3>2
  <2> QED
    BY <2>1, <2>2
<1>4. ASSUME NEW i \in 1 .. Len(r), NEW j \in 1 .. Len(r), i < j PROVE a[r[i]] < a[r[j]]
  <2>1. i \in 1 .. Len(s) /\ r[i] = s[i] /\ s[i] \in S
    BY <1>1, <1>2, <1>4
  <2>2. CASE j = Len(s) + 1
    BY <1>2, <2>1, <2>2
  <2>3. CASE j # Len(s) + 1
    <3>1. j \in 1 .. Len(s)
      BY <1>1, <1>2, <2>3
    <3> QED
      BY <1>2, <1>4, <2>1, <3>1 DEF Sorted
  <2> QED
    BY <2>2, <2>3
<1> QED
  BY <1>2, <1>3, <1>4 DEF Sorted, r

\* The same keys with the same accesses.
LEMMA SortedSame ==
    ASSUME NEW S, NEW a, NEW b, NEW s, Sorted(s, S, a), \A x \in S : a[x] = b[x]
    PROVE  Sorted(s, S, b)
<1>1. s \in Seq(S) /\ \A i \in 1 .. Len(s) : s[i] \in S
  BY DEF Sorted
<1> QED
  BY <1>1 DEF Sorted

\* An enumeration in the form the refinement mapping chooses it.
Lists(s, S, a) ==
    /\ S = {s[i] : i \in DOMAIN s}
    /\ \A i, j \in DOMAIN s : i < j => a[s[i]] < a[s[j]]

LEMMA SortedExists ==
    ASSUME NEW S, IsFiniteSet(S), NEW a, \A x \in S : a[x] \in Nat,
           \A x, y \in S : a[x] = a[y] => x = y
    PROVE  \E s \in [1 .. Cardinality(S) -> S] : Lists(s, S, a)
<1> DEFINE F == {T \in SUBSET S : \E s \in [1 .. Cardinality(T) -> T] : Lists(s, T, a)}
<1>1. {} \in F
  <2> DEFINE s == [i \in 1 .. 0 |-> i]
  <2>1. Cardinality({}) = 0 /\ 1 .. 0 = {}
    BY FS_EmptySet
  <2>2. s \in [1 .. 0 -> {}] /\ DOMAIN s = {}
    BY <2>1
  <2> HIDE DEF s
  <2>3. Lists(s, {}, a)
    BY <2>2 DEF Lists
  <2> QED
    BY <2>1, <2>2, <2>3
<1>2. ASSUME NEW T \in SUBSET S, T # {}, \A x \in T : T \ {x} \in F PROVE T \in F
  <2>1. IsFiniteSet(T)
    BY FS_Subset
  <2> DEFINE A == {a[x] : x \in T}
  <2>2. A \in SUBSET Nat /\ A # {}
    BY <1>2
  <2>3. PICK n \in A : \A m \in A : n <= m
    BY <2>2, Least
  <2>4. PICK o \in T : n = a[o]
    BY <2>3
  <2>5. ASSUME NEW x \in T \ {o} PROVE a[o] < a[x]
    <3>1. a[o] <= a[x] /\ a[o] # a[x] /\ a[o] \in Nat /\ a[x] \in Nat
      BY <2>3, <2>4
    <3> QED
      BY <3>1
  <2> DEFINE R == T \ {o}
             N == Cardinality(R)
  <2>6. Cardinality(T) = N + 1 /\ N \in Nat
    <3>1. IsFiniteSet(R) /\ Cardinality(R) = Cardinality(T) - 1
      BY <2>1, FS_RemoveElement
    <3>2. Cardinality(T) \in Nat /\ N \in Nat
      BY <2>1, <3>1, FS_CardinalityType
    <3> QED
      BY <3>1, <3>2
  <2>7. PICK r \in [1 .. N -> R] : Lists(r, R, a)
    BY <1>2
  <2> HIDE DEF N
  <2> DEFINE s == [i \in 1 .. N + 1 |-> IF i = 1 THEN o ELSE r[i - 1]]
  <2>8. s[1] = o /\ \A i \in 2 .. N + 1 : s[i] = r[i - 1] /\ i - 1 \in 1 .. N
    BY <2>6
  <2>9. \A i \in 1 .. N : i + 1 \in 2 .. N + 1 /\ s[i + 1] = r[i]
    BY <2>6
  <2>10. DOMAIN s = 1 .. N + 1
    OBVIOUS
  <2>11. s \in [1 .. N + 1 -> T]
    BY <2>6
  <2> HIDE DEF s
  <2>12. \A i \in 1 .. N + 1 : i = 1 \/ i \in 2 .. N + 1
    BY <2>6
  <2>13. \A x \in T : \E i \in 1 .. N + 1 : s[i] = x
    <3> SUFFICES ASSUME NEW x \in T PROVE \E i \in 1 .. N + 1 : s[i] = x
      OBVIOUS
    <3>1. CASE x = o
      <4>1. 1 \in 1 .. N + 1
        BY <2>6
      <4> QED
        BY <2>8, <3>1, <4>1
    <3>2. CASE x # o
      <4>1. PICK i \in 1 .. N : r[i] = x
        BY <2>7, <3>2 DEF Lists
      <4>2. i + 1 \in 1 .. N + 1 /\ s[i + 1] = x
        BY <2>6, <2>9, <4>1
      <4> QED
        BY <4>2
    <3> QED
      BY <3>1, <3>2
  <2>14. ASSUME NEW i \in 1 .. N + 1, NEW j \in 1 .. N + 1, i < j PROVE a[s[i]] < a[s[j]]
    <3>1. j \in 2 .. N + 1 /\ s[j] = r[j - 1] /\ j - 1 \in 1 .. N
      BY <2>8, <2>12, <2>14
    <3>2. r[j - 1] \in R
      BY <3>1
    <3>3. CASE i = 1
      BY <2>5, <2>8, <3>1, <3>2, <3>3
    <3>4. CASE i \in 2 .. N + 1
      <4>1. s[i] = r[i - 1] /\ i - 1 \in 1 .. N /\ i - 1 < j - 1
        BY <2>6, <2>8, <2>14, <3>4
      <4>2. \A f, g \in 1 .. N : f < g => a[r[f]] < a[r[g]]
        BY <2>7 DEF Lists
      <4> QED
        BY <3>1, <4>1, <4>2
    <3> QED
      BY <2>12, <3>3, <3>4
  <2>15. T = {s[i] : i \in DOMAIN s}
    BY <2>10, <2>11, <2>13
  <2>16. Lists(s, T, a)
    BY <2>10, <2>14, <2>15 DEF Lists
  <2> QED
    BY <2>6, <2>11, <2>16
<1> HIDE DEF F
<1>3. S \in F
  BY <1>1, <1>2, FiniteSubsets
<1> QED
  BY <1>3 DEF F

Suffix(s, n) == SubSeq(s, n + 1, Len(s))

LEMMA SuffixFacts ==
    ASSUME NEW S, NEW s \in Seq(S), NEW n \in 0 .. Len(s)
    PROVE  /\ Len(Suffix(s, n)) = Len(s) - n
           /\ \A i \in 1 .. Len(s) - n : Suffix(s, n)[i] = s[n + i] /\ n + i \in 1 .. Len(s)
           /\ Suffix(s, n) \in Seq(S)
           /\ DOMAIN Suffix(s, n) = 1 .. Len(s) - n
<1> DEFINE r == Suffix(s, n)
<1>1. Len(s) \in Nat /\ n \in Nat /\ Len(s) - n \in Nat
  OBVIOUS
<1>2. /\ Len(r) = Len(s) - n /\ r \in Seq(S)
      /\ \A i \in 1 .. Len(s) - n : r[i] = s[n + i]
  BY <1>1 DEF Suffix
<1> HIDE DEF r
<1>3. DOMAIN r = 1 .. Len(s) - n
  BY <1>2
<1>4. \A i \in 1 .. Len(s) - n : n + i \in 1 .. Len(s)
  BY <1>1
<1> QED
  BY <1>2, <1>3, <1>4 DEF r

LEMMA SortedSuffix ==
    ASSUME NEW S, NEW a, NEW s, Sorted(s, S, a), NEW n \in 0 .. Len(s)
    PROVE  Sorted(Suffix(s, n), {s[j] : j \in n + 1 .. Len(s)}, a)
<1> DEFINE r == Suffix(s, n)
           T == {s[j] : j \in n + 1 .. Len(s)}
<1>1. s \in Seq(S) /\ Len(s) \in Nat /\ n \in Nat
  BY DEF Sorted
<1>2. /\ Len(r) = Len(s) - n /\ DOMAIN r = 1 .. Len(r) /\ r \in Seq(S)
      /\ \A i \in 1 .. Len(r) : r[i] = s[n + i] /\ n + i \in 1 .. Len(s)
      /\ {r[i] : i \in 1 .. Len(r)} = T
  <2>1. s \in Seq(S)
    BY <1>1
  <2>2. /\ Len(r) = Len(s) - n
        /\ \A i \in 1 .. Len(s) - n : r[i] = s[n + i] /\ n + i \in 1 .. Len(s)
        /\ r \in Seq(S) /\ DOMAIN r = 1 .. Len(s) - n
    BY <2>1, SuffixFacts
  <2>3. {r[i] : i \in DOMAIN r} = T
    <3>1. \A j \in n + 1 .. Len(s) : j - n \in 1 .. Len(s) - n /\ n + (j - n) = j
      BY <1>1
    <3>2. \A i \in 1 .. Len(s) - n : n + i \in n + 1 .. Len(s)
      BY <1>1
    <3> HIDE DEF r
    <3>3. ASSUME NEW j \in n + 1 .. Len(s) PROVE \E i \in DOMAIN r : r[i] = s[j]
      BY <2>2, <3>1
    <3>4. ASSUME NEW i \in DOMAIN r PROVE \E j \in n + 1 .. Len(s) : r[i] = s[j]
      BY <2>2, <3>2
    <3> QED
      BY <3>3, <3>4
  <2> HIDE DEF r, T
  <2> QED
    BY <2>2, <2>3
<1> HIDE DEF r, T
<1>3. r \in Seq(T)
  <2>1. \A i \in 1 .. Len(r) : r[i] \in T
    BY <1>2
  <2> QED
    BY <1>2, <2>1
<1>4. \A x \in T : \E i \in 1 .. Len(r) : r[i] = x
  BY <1>2
<1>5. ASSUME NEW i \in 1 .. Len(r), NEW j \in 1 .. Len(r), i < j PROVE a[r[i]] < a[r[j]]
  <2>1. n + i < n + j
    BY <1>1, <1>5
  <2>2. n + i \in 1 .. Len(s) /\ n + j \in 1 .. Len(s) /\ r[i] = s[n + i] /\ r[j] = s[n + j]
    BY <1>2
  <2> QED
    BY <2>1, <2>2 DEF Sorted
<1>6. Sorted(r, T, a)
  BY <1>3, <1>4, <1>5 DEF Sorted
<1> QED
  BY <1>6 DEF r, T

\* The list without k, as LruCache writes it.
Dropped(s, k) ==
    IF \E i \in DOMAIN s : s[i] = k
    THEN LET i == CHOOSE j \in DOMAIN s : s[j] = k
         IN  SubSeq(s, 1, i - 1) \o SubSeq(s, i + 1, Len(s))
    ELSE s

LEMMA SortedDropped ==
    ASSUME NEW S, NEW a, \A x \in S : a[x] \in Nat, NEW s, Sorted(s, S, a), NEW k
    PROVE  Sorted(Dropped(s, k), S \ {k}, a)
<1>1. s \in Seq(S) /\ Len(s) \in Nat /\ DOMAIN s = 1 .. Len(s) /\ \A i \in 1 .. Len(s) : s[i] \in S
  BY DEF Sorted
<1>2. CASE k \notin S
  <2>1. Dropped(s, k) = s /\ S \ {k} = S
    BY <1>1, <1>2 DEF Dropped
  <2> QED
    BY <2>1
<1>3. CASE k \in S
  <2> DEFINE i == CHOOSE j \in DOMAIN s : s[j] = k
             n == Len(s)
             r == SubSeq(s, 1, i - 1) \o SubSeq(s, i + 1, n)
  <2>1. \E j \in DOMAIN s : s[j] = k
    BY <1>1, <1>3 DEF Sorted
  <2>2. i \in 1 .. n /\ s[i] = k
    BY <1>1, <2>1
  <2>3. Dropped(s, k) = r
    BY <2>1 DEF Dropped
  <2> HIDE DEF i
  <2>4. /\ Len(r) = n - 1 /\ r \in Seq(S) /\ i \in Nat
        /\ \A j \in 1 .. n - 1 : r[j] = IF j < i THEN s[j] ELSE s[j + 1]
    <3> DEFINE p == SubSeq(s, 1, i - 1)
               q == SubSeq(s, i + 1, n)
    <3>1. i - 1 \in 0 .. n /\ i \in 0 .. n /\ i \in Nat
      BY <1>1, <2>2
    <3>2. p \in Seq(S) /\ Len(p) = i - 1 /\ \A j \in 1 .. i - 1 : p[j] = s[j]
      BY <1>1, <2>2
    <3>3. q \in Seq(S) /\ Len(q) = n - i /\ \A j \in 1 .. n - i : q[j] = s[i + j]
      BY <1>1, <3>1, SuffixFacts DEF Suffix
    <3> HIDE DEF p, q
    <3>4. p \o q \in Seq(S) /\ Len(p \o q) = n - 1
      <4>1. p \in Seq(S) /\ q \in Seq(S)
        BY <3>2, <3>3
      <4>3. p \o q \in Seq(S) /\ Len(p \o q) = Len(p) + Len(q)
        BY <4>1
      <4>2. Len(p) + Len(q) = n - 1
        BY <1>1, <3>1, <3>2, <3>3
      <4> QED
        BY <4>2, <4>3
    <3>5. ASSUME NEW j \in 1 .. n - 1, j < i PROVE (p \o q)[j] = s[j]
      <4>1. j \in 1 .. i - 1 /\ j \in 1 .. Len(p) + Len(q) /\ j <= Len(p)
        BY <1>1, <3>1, <3>2, <3>3, <3>5
      <4>2. (p \o q)[j] = p[j]
        BY <3>2, <3>3, <4>1
      <4> QED
        BY <3>2, <4>1, <4>2
    <3>6. ASSUME NEW j \in 1 .. n - 1, ~(j < i) PROVE (p \o q)[j] = s[j + 1]
      <4>1. j - (i - 1) \in 1 .. n - i /\ i + (j - (i - 1)) = j + 1
        BY <1>1, <3>1, <3>6
      <4>2. (p \o q)[j] = q[j - (i - 1)]
        BY <1>1, <3>1, <3>2, <3>3, <3>6
      <4> QED
        BY <3>3, <4>1, <4>2
    <3> QED
      BY <3>1, <3>4, <3>5, <3>6 DEF p, q
  <2> HIDE DEF r
  <2>5. \A j \in 1 .. n - 1 : j \in 1 .. n /\ j + 1 \in 1 .. n
    BY <1>1
  <2>6. ASSUME NEW j \in 1 .. n, j # i PROVE s[j] # k
    <3>1. a[s[j]] # a[s[i]]
      <4>1. a[s[j]] \in Nat /\ a[s[i]] \in Nat
        BY <1>1, <2>2
      <4>2. j < i \/ i < j
        BY <2>2, <2>6
      <4>3. a[s[j]] < a[s[i]] \/ a[s[i]] < a[s[j]]
        BY <2>2, <4>2 DEF Sorted
      <4> QED
        BY <4>1, <4>3
    <3> QED
      BY <2>2, <3>1
  <2>7. ASSUME NEW j \in 1 .. n - 1 PROVE r[j] \in S \ {k}
    <3>1. CASE j < i
      BY <1>1, <2>4, <2>5, <2>6, <3>1
    <3>2. CASE ~(j < i)
      <4>1. j + 1 # i /\ j + 1 \in 1 .. n /\ r[j] = s[j + 1]
        BY <2>4, <2>5, <3>2
      <4> QED
        BY <1>1, <2>6, <4>1
    <3> QED
      BY <3>1, <3>2
  <2>8. r \in Seq(S \ {k})
    BY <2>4, <2>7
  <2>9. ASSUME NEW x \in S \ {k} PROVE \E j \in 1 .. Len(r) : r[j] = x
    <3>1. PICK l \in 1 .. n : s[l] = x
      BY DEF Sorted
    <3>2. l # i
      BY <2>2, <3>1
    <3>3. CASE l < i
      <4>1. l \in 1 .. n - 1 /\ r[l] = s[l]
        BY <1>1, <2>2, <2>4, <3>3
      <4> QED
        BY <2>4, <3>1, <4>1
    <3>4. CASE i < l
      <4>1. l - 1 \in 1 .. n - 1 /\ ~(l - 1 < i) /\ (l - 1) + 1 = l
        BY <1>1, <2>2, <2>4, <3>4
      <4>2. r[l - 1] = s[l]
        BY <2>4, <4>1
      <4> QED
        BY <2>4, <3>1, <4>1, <4>2
    <3> QED
      BY <2>2, <3>2, <3>3, <3>4
  <2>10. ASSUME NEW j \in 1 .. Len(r), NEW l \in 1 .. Len(r), j < l PROVE a[r[j]] < a[r[l]]
    <3> DEFINE f == IF j < i THEN j ELSE j + 1
               g == IF l < i THEN l ELSE l + 1
    <3>1. r[j] = s[f] /\ r[l] = s[g] /\ f \in 1 .. n /\ g \in 1 .. n
      BY <2>4, <2>5
    <3>2. f < g
      BY <2>4, <2>10
    <3> HIDE DEF f, g
    <3> QED
      BY <3>1, <3>2 DEF Sorted
  <2> QED
    BY <2>3, <2>8, <2>9, <2>10 DEF Sorted
<1> QED
  BY <1>2, <1>3

-----------------------------------------------------------------------------
(* The index implements the LRU cache.                                     *)

RecencyOf(e, a) == CHOOSE s \in [1 .. Cardinality(Cached(e)) -> Cached(e)] : Lists(s, Cached(e), a)

LEMMA RecencySorted ==
    ASSUME NEW e, NEW a, IsFiniteSet(Cached(e)), \A x \in Cached(e) : a[x] \in Nat,
           \A x, y \in Cached(e) : a[x] = a[y] => x = y
    PROVE  Sorted(RecencyOf(e, a), Cached(e), a)
<1> DEFINE S == Cached(e)
           s == RecencyOf(e, a)
           n == Cardinality(S)
<1>1. \E r \in [1 .. n -> S] : Lists(r, S, a)
  BY SortedExists
<1>2. s \in [1 .. n -> S] /\ Lists(s, S, a)
  BY <1>1 DEF RecencyOf
<1>3. n \in Nat
  BY FS_CardinalityType
<1> HIDE DEF s, S, n
<1>4. s \in Seq(S) /\ Len(s) = n /\ DOMAIN s = 1 .. Len(s)
  BY <1>2, <1>3
<1>5. Sorted(s, S, a)
  BY <1>2, <1>4 DEF Sorted, Lists
<1> QED
  BY <1>5 DEF s, S

LEMMA RecencyIs ==
    ASSUME NEW e, NEW a, IsFiniteSet(Cached(e)), \A x \in Cached(e) : a[x] \in Nat,
           \A x, y \in Cached(e) : a[x] = a[y] => x = y,
           NEW s, Sorted(s, Cached(e), a)
    PROVE  RecencyOf(e, a) = s
BY RecencySorted, SortedUnique

LEMMA RecencyState ==
    /\ Recency = RecencyOf(entries, access)
    /\ Recency' = RecencyOf(entries', access')
BY DEF Recency, RecencyOf, Lists

\* What holds of the order of use in every state.
LEMMA RecencyFacts ==
    ASSUME IInv
    PROVE  /\ Sorted(Recency, Cached(entries), access)
           /\ IsFiniteSet(Cached(entries))
           /\ \A x \in Cached(entries) : access[x] \in Nat /\ access[x] <= sequence /\ x \in Keys
           /\ \A x, y \in Cached(entries) : access[x] = access[y] => x = y
<1>1. IsFiniteSet(Cached(entries)) /\ \A x, y \in Cached(entries) : access[x] = access[y] => x = y
  BY DEF IInv, RowsAreStamped, Distinct
<1>2. \A x \in Cached(entries) : access[x] \in Nat /\ access[x] <= sequence /\ x \in Keys
  BY DEF IInv, RowsAreStamped, TypeOK, Cached
<1> QED
  BY <1>1, <1>2, RecencySorted, RecencyState

LEMMA LruWithout == \A k : Lru!Without(k) = Dropped(Recency, k)
BY DEF Lru!Without, Dropped

LEMMA LruInit == Init => Lru!Init
<1> SUFFICES ASSUME Init PROVE Lru!Init
  OBVIOUS
<1>1. IInv
  BY InitIInv
<1>2. Cached(entries) = {}
  BY DEF Init, Cached
<1>3. Sorted(Recency, {}, access)
  BY <1>1, <1>2, RecencyFacts
<1>4. Recency = <<>>
  BY <1>3, SortedEmpty, SortedUnique
<1> QED
  BY <1>4 DEF Init, Lru!Init

\* A hit of lookup is a use of its key.
LEMMA HitTouches ==
    ASSUME IInv, NEW k \in Keys, entries[k] # NoContent,
           sequence' = sequence + 1, access' = [access EXCEPT ![k] = sequence + 1],
           UNCHANGED entries
    PROVE  Lru!Touch(k)
<1> DEFINE S == Cached(entries)
           w == Dropped(Recency, k)
<1>1. /\ Sorted(Recency, S, access) /\ IsFiniteSet(S)
      /\ \A x \in S : access[x] \in Nat /\ access[x] <= sequence /\ x \in Keys
      /\ \A x, y \in S : access[x] = access[y] => x = y
  BY RecencyFacts
<1>2. k \in S /\ Cached(entries') = S
  BY DEF Cached
<1>3. sequence \in Nat /\ access \in [Keys -> Nat]
  BY DEF IInv, TypeOK
<1>4. access'[k] = sequence + 1 /\ \A x \in S \ {k} : access'[x] = access[x]
  BY <1>1, <1>3
<1> HIDE DEF S
<1>5. Sorted(w, S \ {k}, access)
  BY <1>1, SortedDropped
<1> HIDE DEF w
<1>6. Sorted(w, S \ {k}, access')
  <2> DEFINE b == access'
  <2>1. \A x \in S \ {k} : access[x] = b[x]
    BY <1>4
  <2> HIDE DEF b
  <2>2. Sorted(w, S \ {k}, b)
    BY <1>5, <2>1, SortedSame
  <2> QED
    BY <2>2 DEF b
<1>7. \A x \in S \ {k} : access'[x] < access'[k]
  BY <1>1, <1>3, <1>4
<1>8. Sorted(Append(w, k), S, access')
  <2> DEFINE b == access'
  <2>1. \A x \in S \ {k} : b[x] < b[k]
    BY <1>7
  <2>2. Sorted(w, S \ {k}, b)
    BY <1>6
  <2> HIDE DEF b
  <2>3. Sorted(Append(w, k), (S \ {k}) \cup {k}, b)
    BY <2>1, <2>2, SortedAppend
  <2>4. (S \ {k}) \cup {k} = S
    BY <1>2
  <2> QED
    BY <2>3, <2>4 DEF b
<1>9. /\ \A x \in S : access'[x] \in Nat
      /\ \A x, y \in S : access'[x] = access'[y] => x = y
  <2>1. \A x \in S \ {k} : access'[x] = access[x] /\ access[x] \in Nat /\ access[x] < sequence + 1
    BY <1>1, <1>3, <1>4
  <2>2. ASSUME NEW x \in S PROVE access'[x] \in Nat
    BY <1>3, <1>4, <2>1
  <2>3. ASSUME NEW x \in S, NEW y \in S, access'[x] = access'[y] PROVE x = y
    BY <1>1, <1>3, <1>4, <2>1, <2>3
  <2> QED
    BY <2>2, <2>3
<1>10. RecencyOf(entries', access') = Append(w, k)
  <2> DEFINE b == access'
             e == entries'
  <2>1. /\ Cached(e) = S /\ (\A x \in S : b[x] \in Nat)
        /\ (\A x, y \in S : b[x] = b[y] => x = y) /\ Sorted(Append(w, k), S, b)
    BY <1>2, <1>8, <1>9
  <2> HIDE DEF b, e
  <2>2. RecencyOf(e, b) = Append(w, k)
    BY <1>1, <2>1, RecencyIs
  <2> QED
    BY <2>2 DEF b, e
<1>11. Recency' = Append(Lru!Without(k), k)
  BY <1>10, RecencyState, LruWithout DEF w
<1> QED
  BY <1>11 DEF Lru!Touch

\* The keys of w from place n + 1 on.
KeysFrom(w, n) == {w[j] : j \in n + 1 .. Len(w)}

LEMMA TailNewer ==
    ASSUME NEW T, \A x \in T : access[x] \in Nat, NEW w, Sorted(w, T, access), NEW n \in 0 .. Len(w)
    PROVE  KeysFrom(w, n) \subseteq T /\ Newer(KeysFrom(w, n), T)
<1>1. w \in Seq(T) /\ Len(w) \in Nat /\ n \in Nat /\ \A j \in 1 .. Len(w) : w[j] \in T
  BY DEF Sorted
<1>2. \A j \in n + 1 .. Len(w) : j \in 1 .. Len(w)
  BY <1>1
<1>3. KeysFrom(w, n) \subseteq T
  BY <1>1, <1>2 DEF KeysFrom
<1>4. ASSUME NEW x \in KeysFrom(w, n), NEW y \in T \ KeysFrom(w, n) PROVE access[y] < access[x]
  <2>1. PICK j \in n + 1 .. Len(w) : x = w[j]
    BY DEF KeysFrom
  <2>2. PICK i \in 1 .. Len(w) : y = w[i]
    BY DEF Sorted
  <2>3. i \notin n + 1 .. Len(w)
    BY <2>2 DEF KeysFrom
  <2>4. i < j /\ j \in 1 .. Len(w)
    BY <1>1, <1>2, <2>3
  <2> QED
    BY <2>1, <2>2, <2>4 DEF Sorted
<1> QED
  BY <1>3, <1>4 DEF Newer

LEMMA NewerIsTail ==
    ASSUME NEW T, \A x \in T : access[x] \in Nat, NEW w, Sorted(w, T, access),
           NEW K \in SUBSET T, Newer(K, T)
    PROVE  \E n \in 0 .. Len(w) :
              /\ K = KeysFrom(w, n)
              /\ \A m \in 0 .. n - 1 : m \in 0 .. Len(w) /\ K \subseteq KeysFrom(w, m) /\ KeysFrom(w, m) # K
<1> DEFINE A == {i \in 0 .. Len(w) : \A j \in i + 1 .. Len(w) : w[j] \in K}
<1>1. w \in Seq(T) /\ Len(w) \in Nat /\ \A j \in 1 .. Len(w) : w[j] \in T
  BY DEF Sorted
<1>2. A \in SUBSET Nat /\ Len(w) \in A
  <2>1. Len(w) \in 0 .. Len(w) /\ Len(w) + 1 .. Len(w) = {}
    BY <1>1
  <2> QED
    BY <1>1, <2>1
<1>3. PICK n \in A : \A m \in A : n <= m
  BY <1>2, Least
<1>4. n \in 0 .. Len(w) /\ n \in Nat /\ \A j \in n + 1 .. Len(w) : w[j] \in K
  BY <1>1
<1>5. n > 0 => w[n] \notin K /\ n \in 1 .. Len(w)
  <2> SUFFICES ASSUME n > 0, w[n] \in K PROVE FALSE
    BY <1>1, <1>4
  <2>1. n - 1 \in 0 .. Len(w)
    BY <1>1, <1>4
  <2>2. \A j \in (n - 1) + 1 .. Len(w) : j = n \/ j \in n + 1 .. Len(w)
    BY <1>1, <1>4
  <2>3. n - 1 \in A
    BY <1>4, <2>1, <2>2
  <2>4. n <= n - 1
    BY <1>3, <2>3
  <2> QED
    BY <1>4, <2>4
<1> HIDE DEF A
<1>6. ASSUME NEW j \in 1 .. Len(w), j <= n PROVE w[j] \notin K
  <2>1. n > 0 /\ n \in 1 .. Len(w) /\ w[n] \notin K /\ w[n] \in T /\ w[j] \in T
    BY <1>1, <1>4, <1>5, <1>6
  <2>2. CASE j = n
    BY <2>1, <2>2
  <2>3. CASE j # n
    <3>1. j < n
      BY <1>4, <1>6, <2>3
    <3>2. access[w[j]] < access[w[n]]
      BY <2>1, <3>1 DEF Sorted
    <3>3. access[w[j]] \in Nat /\ access[w[n]] \in Nat
      BY <2>1
    <3> SUFFICES ASSUME w[j] \in K PROVE FALSE
      OBVIOUS
    <3>4. access[w[n]] < access[w[j]]
      BY <2>1 DEF Newer
    <3> QED
      BY <3>2, <3>3, <3>4
  <2> QED
    BY <2>2, <2>3
<1>7. K = KeysFrom(w, n)
  <2>1. ASSUME NEW x \in K PROVE x \in KeysFrom(w, n)
    <3>1. PICK j \in 1 .. Len(w) : w[j] = x
      BY DEF Sorted
    <3>2. ~(j <= n)
      BY <1>6, <3>1
    <3>3. j \in n + 1 .. Len(w)
      BY <1>1, <1>4, <3>2
    <3> QED
      BY <3>1, <3>3 DEF KeysFrom
  <2> QED
    BY <1>4, <2>1 DEF KeysFrom
<1>8. ASSUME NEW m \in 0 .. n - 1
      PROVE  m \in 0 .. Len(w) /\ K \subseteq KeysFrom(w, m) /\ KeysFrom(w, m) # K
  <2>1. m \in 0 .. Len(w) /\ n \in m + 1 .. Len(w) /\ n > 0
    BY <1>1, <1>4
  <2>2. \A j \in n + 1 .. Len(w) : j \in m + 1 .. Len(w)
    BY <1>1, <1>4
  <2>3. K \subseteq KeysFrom(w, m)
    BY <1>7, <2>2 DEF KeysFrom
  <2>4. w[n] \in KeysFrom(w, m) /\ w[n] \notin K
    BY <1>5, <2>1 DEF KeysFrom
  <2> QED
    BY <2>1, <2>3, <2>4
<1> QED
  BY <1>4, <1>7, <1>8

LEMMA LruUsed == \A S : Lru!Used(entries, S) = Used(entries, S)
BY DEF Lru!Used, Lru!MapThenSumSet, Lru!MapThenFoldSet, Used, MapThenSumSet, MapThenFoldSet

\* What LruCache calls fitting is that the keys of the tail fit beside c.
LEMMA LruFits ==
    ASSUME NEW T, NEW k, Sorted(Dropped(Recency, k), T, access), NEW c,
           NEW n \in 0 .. Len(Dropped(Recency, k))
    PROVE  /\ Lru!Rest(k, n) = Suffix(Dropped(Recency, k), n)
           /\ {Lru!Rest(k, n)[i] : i \in DOMAIN Lru!Rest(k, n)} = KeysFrom(Dropped(Recency, k), n)
           /\ Lru!Fits(k, c, n) <=> FitsBeside(KeysFrom(Dropped(Recency, k), n), c)
<1> DEFINE w == Dropped(Recency, k)
           r == Lru!Rest(k, n)
<1>1. r = Suffix(w, n)
  BY LruWithout DEF Lru!Rest, Suffix
<1>2. Lru!Fits(k, c, n) <=> Used(entries, {r[i] : i \in DOMAIN r}) + Size[c] <= Capacity
  BY LruUsed DEF Lru!Fits
<1> HIDE DEF w, r
<1>3. w \in Seq(T) /\ Len(w) \in Nat /\ n \in 0 .. Len(w) /\ n \in Nat
  BY DEF Sorted, w
<1>4. /\ Len(r) = Len(w) - n
      /\ \A i \in 1 .. Len(w) - n : r[i] = w[n + i]
      /\ DOMAIN r = 1 .. Len(w) - n
  BY <1>1, <1>3, SuffixFacts
<1>5. \A j \in n + 1 .. Len(w) : j - n \in 1 .. Len(w) - n /\ n + (j - n) = j
  BY <1>3
<1>6. \A i \in 1 .. Len(w) - n : n + i \in n + 1 .. Len(w)
  BY <1>3
<1>7. {r[i] : i \in DOMAIN r} = KeysFrom(w, n)
  <2>1. ASSUME NEW j \in n + 1 .. Len(w) PROVE \E i \in DOMAIN r : r[i] = w[j]
    BY <1>4, <1>5
  <2>2. ASSUME NEW i \in DOMAIN r PROVE \E j \in n + 1 .. Len(w) : r[i] = w[j]
    BY <1>4, <1>6
  <2> QED
    BY <2>1, <2>2 DEF KeysFrom
<1>8. Lru!Fits(k, c, n) <=> FitsBeside(KeysFrom(w, n), c)
  BY <1>2, <1>7 DEF FitsBeside
<1> QED
  BY <1>1, <1>7, <1>8 DEF w, r

\* The transaction of a put is a Store: the loop has dropped as many of the
\* least recently used keys as it must and no more.
LEMMA CommitStores ==
    ASSUME IInv, NEW k \in Keys, NEW c \in Contents, NEW K \in SUBSET (Cached(entries) \ {k}),
           Evicts(K, Cached(entries) \ {k}, c),
           entries' = NewEntries(K, k, c), access' = NewAccess(K, k), sequence' = sequence + 1
    PROVE  Lru!Store(k, c)
<1> DEFINE S == Cached(entries)
           T == S \ {k}
           w == Dropped(Recency, k)
           e == NewEntries(K, k, c)
           a == NewAccess(K, k)
<1>1. /\ Sorted(Recency, S, access) /\ IsFiniteSet(S)
      /\ \A x \in S : access[x] \in Nat /\ access[x] <= sequence /\ x \in Keys
  BY RecencyFacts
<1>2. /\ entries \in Entries /\ sequence \in Nat /\ access \in [Keys -> Nat] /\ Distinct
      /\ \A x \in S : access[x] <= sequence
  BY <1>1 DEF IInv, TypeOK, RowsAreStamped
<1>3. Sorted(w, T, access)
  BY <1>1, SortedDropped
<1>4. \A x \in T : access[x] \in Nat
  BY <1>1
<1>5. Newer(K, T) /\ FitsBeside(K, c)
      /\ \A U \in SUBSET T : K \subseteq U /\ U # K /\ Newer(U, T) => ~FitsBeside(U, c)
  BY DEF Evicts
<1>6. /\ Cached(e) = K \cup {k} /\ IsFiniteSet(K \cup {k})
      /\ e = [x \in Keys |-> IF x = k THEN c ELSE IF x \in K THEN entries[x] ELSE NoContent]
  <2>1. Cached(e) = K \cup {k} /\ IsFiniteSet(K \cup {k})
    BY <1>1, <1>2, <1>5, CommittedEntries
  <2>2. e = [x \in Keys |-> IF x = k THEN c ELSE IF x \in K THEN entries[x] ELSE NoContent]
    BY DEF NewEntries
  <2> QED
    BY <2>1, <2>2
<1>7. /\ a \in [Keys -> Nat] /\ a[k] = sequence + 1
      /\ \A x \in K : a[x] = access[x] /\ access[x] < sequence + 1
      /\ \A x, y \in K \cup {k} : a[x] = a[y] => x = y
  BY <1>2, CommittedAccess
<1>8. K \in SUBSET T /\ K \in SUBSET Keys
  BY <1>1
<1> HIDE DEF S, T, w, e, a
<1>9. PICK n \in 0 .. Len(w) :
         /\ K = KeysFrom(w, n)
         /\ \A m \in 0 .. n - 1 : m \in 0 .. Len(w) /\ K \subseteq KeysFrom(w, m) /\ KeysFrom(w, m) # K
  <2>1. K \in SUBSET T /\ Newer(K, T)
    BY <1>5, <1>8
  <2> QED
    BY <1>3, <1>4, <2>1, NewerIsTail
<1>10. ASSUME NEW m \in 0 .. Len(w)
       PROVE  /\ Lru!Rest(k, m) = Suffix(w, m)
              /\ {Lru!Rest(k, m)[i] : i \in DOMAIN Lru!Rest(k, m)} = KeysFrom(w, m)
              /\ Lru!Fits(k, c, m) <=> FitsBeside(KeysFrom(w, m), c)
  BY <1>3, LruFits DEF w
<1>11. Lru!Fits(k, c, n)
  BY <1>5, <1>9, <1>10
<1>12. ASSUME NEW m \in 0 .. n - 1 PROVE ~Lru!Fits(k, c, m)
  <2>1. m \in 0 .. Len(w) /\ K \subseteq KeysFrom(w, m) /\ KeysFrom(w, m) # K
    BY <1>9
  <2>2. KeysFrom(w, m) \in SUBSET T /\ Newer(KeysFrom(w, m), T)
    BY <1>3, <1>4, <2>1, TailNewer
  <2>3. ~FitsBeside(KeysFrom(w, m), c)
    BY <1>5, <2>1, <2>2
  <2> QED
    BY <1>10, <2>1, <2>3
<1> DEFINE r == Suffix(w, n)
<1>13. Sorted(r, K, access)
  BY <1>3, <1>9, SortedSuffix DEF KeysFrom
<1> HIDE DEF r
<1>14. Sorted(r, K, a)
  BY <1>7, <1>13, SortedSame
<1>15. Sorted(Append(r, k), K \cup {k}, a)
  <2>1. \A x \in K : a[x] < a[k]
    BY <1>7
  <2> QED
    BY <1>14, <2>1, SortedAppend
<1>16. \A x \in K \cup {k} : a[x] \in Nat
  BY <1>7, <1>8
<1>17. RecencyOf(e, a) = Append(r, k)
  <2>1. /\ IsFiniteSet(Cached(e)) /\ \A x \in Cached(e) : a[x] \in Nat
        /\ \A x, y \in Cached(e) : a[x] = a[y] => x = y
        /\ Sorted(Append(r, k), Cached(e), a)
    BY <1>6, <1>7, <1>15, <1>16
  <2> QED
    BY <2>1, RecencyIs
<1>18. Recency' = Append(Lru!Rest(k, n), k)
  BY <1>9, <1>10, <1>17, RecencyState DEF e, a, r
<1>19. \A x \in Keys : (\E i \in DOMAIN Lru!Rest(k, n) : Lru!Rest(k, n)[i] = x) <=> x \in K
  BY <1>9, <1>10
<1>20. entries' = [x \in Keys |->
              IF x = k THEN c
              ELSE IF \E i \in DOMAIN Lru!Rest(k, n) : Lru!Rest(k, n)[i] = x THEN entries[x]
              ELSE NoContent]
  BY <1>6, <1>19 DEF e
<1>21. n \in 0 .. Len(Lru!Without(k))
  BY <1>9, LruWithout DEF w
<1> QED
  BY <1>11, <1>12, <1>18, <1>20, <1>21 DEF Lru!Store

LEMMA LruStep == IInv /\ [Next]_vars => [Lru!Next]_<<entries, Recency>>
<1> SUFFICES ASSUME IInv, [Next]_vars PROVE Lru!Next \/ UNCHANGED <<entries, Recency>>
  OBVIOUS
<1>1. CASE UNCHANGED <<entries, access>>
  BY <1>1, RecencyState
<1>2. ASSUME NEW h \in Handlers, NEW k \in Keys, NEW c \in Contents, Lookup(h, k, c)
      PROVE  Lru!Next \/ UNCHANGED <<entries, access>>
  <2>1. CASE UNCHANGED index
    BY <2>1 DEF index
  <2>2. CASE /\ entries[k] = c /\ sequence' = sequence + 1
             /\ access' = [access EXCEPT ![k] = sequence + 1] /\ UNCHANGED entries
    <3>1. entries[k] # NoContent
      BY <2>2, CacheAssumption
    <3>2. Lru!Touch(k)
      BY <2>2, <3>1, HitTouches
    <3> QED
      BY <3>2 DEF Lru!Next
  <2> QED
    BY <1>2, <2>1, <2>2 DEF Lookup
<1>3. ASSUME NEW h \in Handlers, CommitPut(h)
      PROVE  Lru!Next
  <2>1. PICK k \in Keys, c \in Contents : \E K \in SUBSET (Cached(entries) \ {k}) :
              /\ Evicts(K, Cached(entries) \ {k}, c)
              /\ entries' = NewEntries(K, k, c) /\ access' = NewAccess(K, k)
              /\ sequence' = sequence + 1
    BY <1>3, CommitFacts
  <2>2. Lru!Store(k, c)
    BY <2>1, CommitStores
  <2> QED
    BY <2>2 DEF Lru!Next
<1>4. CASE Start \/ Crash
  BY <1>1, <1>4 DEF Start, Crash, disk, index
<1>5. CASE \E h \in Handlers : \E p \in Puts : PutBegin(h, p)
  BY <1>1, <1>5 DEF PutBegin, disk, index
<1>6. ASSUME NEW h \in Handlers, Step(h), ~CommitPut(h)
      PROVE  UNCHANGED <<entries, access>>
  BY <1>6 DEF Step, ReadPayload, WriteTemporary, InstallPayload, Sweep, PutFails, SendReply,
              disk, index
<1>7. CASE UNCHANGED vars
  BY <1>1, <1>7 DEF vars, disk, index
<1> QED
  BY <1>1, <1>2, <1>3, <1>4, <1>5, <1>6, <1>7 DEF Next

\* The index implements the LRU cache the routes rely on: a hit makes its key
\* the most recent, and the eviction loop of put drops the least recently used
\* keys, as many as the new payload needs and no more.
THEOREM ImplementsLru == Spec => LruSpec
BY LruInit, LruStep, InvariantIInv, PTL DEF Spec, LruSpec, Lru!Spec
=============================================================================
