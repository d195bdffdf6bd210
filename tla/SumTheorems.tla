------------------------------ MODULE SumTheorems ------------------------------
(***************************************************************************)
(* Facts about SumFunctionOnSet, by which the ledgers state that a balance   *)
(* is the sum of its entries: what a sum is of, that it can be taken apart   *)
(* at any entry, and how it moves when one entry changes.                    *)
(*                                                                          *)
(* The operator folds a set by a recursive function that picks the entries   *)
(* in an unspecified order, so these facts are inductions over finite sets.  *)
(* Each is made by looking at a least set for which it would fail.           *)
(***************************************************************************)
EXTENDS Integers, FiniteSets, Functions, FiniteSetTheorems, WellFoundedInduction, TLAPS

\* The entry that is added next.
Pick(s) == CHOOSE x \in s : TRUE

\* h adds up f over every subset of S.
Adds(f, S, h) ==
    h = [s \in SUBSET S |-> IF s = {} THEN 0 ELSE f[Pick(s)] + h[s \ {Pick(s)}]]

\* A set of subsets of a finite set has a member none of whose strict subsets is in
\* it.
LEMMA LeastSubset ==
    ASSUME NEW S, IsFiniteSet(S), NEW C \in SUBSET (SUBSET S), C # {}
    PROVE  \E s \in C : \A t \in C : ~ (t \subseteq s /\ t # s)
<1> DEFINE R == StrictSubsetOrdering(S)
<1>1. IsWellFoundedOn(R, SUBSET S)
  BY FS_StrictSubsetOrderingWellFounded, FS_FiniteSubsetsOfFinite
<1>2. \E s \in C : \A t \in C : ~ (<<t, s>> \in R)
  <2> HIDE DEF R
  <2> QED
    BY <1>1, WFMin
<1> QED
  BY <1>2 DEF StrictSubsetOrdering

\* What is left when the next entry is taken is a smaller set.
LEMMA PickSmaller ==
    ASSUME NEW s, s # {}
    PROVE  /\ Pick(s) \in s
           /\ s \ {Pick(s)} \subseteq s /\ s \ {Pick(s)} # s
BY DEF Pick

\* A function that adds up f is what its definition says at every subset.
LEMMA AddsAt ==
    ASSUME NEW f, NEW S, NEW h, Adds(f, S, h), NEW s \in SUBSET S
    PROVE  h[s] = IF s = {} THEN 0 ELSE f[Pick(s)] + h[s \ {Pick(s)}]
BY DEF Adds

\* The sum over a set does not depend on the set whose subsets are summed over.
LEMMA AddsUnique ==
    ASSUME NEW f, NEW S, NEW T, IsFiniteSet(S), NEW g, NEW h, Adds(f, S, g), Adds(f, T, h)
    PROVE  \A s \in SUBSET (S \cap T) : g[s] = h[s]
<1> DEFINE C == {s \in SUBSET S : s \subseteq T /\ g[s] # h[s]}
<1> SUFFICES ASSUME C # {} PROVE FALSE
  OBVIOUS
<1>1. PICK s \in C : \A t \in C : ~ (t \subseteq s /\ t # s)
  <2>1. C \in SUBSET (SUBSET S)
    OBVIOUS
  <2> HIDE DEF C
  <2> QED
    BY <2>1, LeastSubset
<1>2. s \in SUBSET S /\ s \in SUBSET T /\ g[s] # h[s]
  BY <1>1
<1>3. s # {}
  BY <1>2, AddsAt
<1>4. g[s \ {Pick(s)}] = h[s \ {Pick(s)}]
  BY <1>1, <1>2, <1>3, PickSmaller
<1> QED
  BY <1>2, <1>3, <1>4, AddsAt

\* Over a finite set there is a function that adds up f.
LEMMA AddsExists ==
    ASSUME NEW f, NEW S, IsFiniteSet(S)
    PROVE  \E h : Adds(f, S, h)
<1> DEFINE C == {T \in SUBSET S : ~ \E h : Adds(f, T, h)}
<1> SUFFICES ASSUME C # {} PROVE FALSE
  OBVIOUS
<1>1. PICK T \in C : \A U \in C : ~ (U \subseteq T /\ U # T)
  <2>1. C \in SUBSET (SUBSET S)
    OBVIOUS
  <2> HIDE DEF C
  <2> QED
    BY <2>1, LeastSubset
<1>2. T \in SUBSET S /\ ~ \E h : Adds(f, T, h)
  BY <1>1
<1>3. \A U \in SUBSET T : U # T => U \notin C
  BY <1>1
<1>4. \A U \in SUBSET T : U # T => \E h : Adds(f, U, h)
  BY <1>2, <1>3
<1> HIDE DEF C
<1> DEFINE H(U) == CHOOSE h : Adds(f, U, h)
           G == [s \in SUBSET T |-> IF s = {} THEN 0
                                    ELSE f[Pick(s)] + H(s \ {Pick(s)})[s \ {Pick(s)}]]
<1>5. \A U \in SUBSET T : U # T => Adds(f, U, H(U))
  BY <1>4
<1>6. ASSUME NEW U \in SUBSET T, U # T PROVE G[U] = H(U)[U]
  <2>0. Adds(f, U, H(U)) /\ IsFiniteSet(U)
    BY <1>2, <1>5, <1>6, FS_Subset
  <2> HIDE DEF H
  <2>1. CASE U = {}
    BY <2>0, <2>1, AddsAt
  <2>2. CASE U # {}
    <3> DEFINE V == U \ {Pick(U)}
    <3>1. V \in SUBSET T /\ V # T /\ V \in SUBSET U
      BY <2>2, PickSmaller
    <3>2. Adds(f, V, H(V))
      BY <1>5, <3>1
    <3>3. H(U)[V] = H(V)[V]
      <4> HIDE DEF V
      <4>1. V \in SUBSET (U \cap V)
        BY <3>1
      <4> QED
        BY <2>0, <3>2, <4>1, AddsUnique
    <3>4. H(U)[U] = f[Pick(U)] + H(U)[V]
      BY <2>0, <2>2, AddsAt
    <3> QED
      BY <2>2, <3>3, <3>4
  <2> QED
    BY <2>1, <2>2
<1>7. ASSUME NEW s \in SUBSET T, s # {}
      PROVE  H(s \ {Pick(s)})[s \ {Pick(s)}] = G[s \ {Pick(s)}]
  <2>1. s \ {Pick(s)} \in SUBSET T /\ s \ {Pick(s)} # T
    BY <1>7, PickSmaller
  <2> HIDE DEF H, G
  <2> QED
    BY <1>6, <2>1
<1>8. Adds(f, T, G)
  <2>1. \A s \in SUBSET T :
          (IF s = {} THEN 0 ELSE f[Pick(s)] + H(s \ {Pick(s)})[s \ {Pick(s)}])
            = (IF s = {} THEN 0 ELSE f[Pick(s)] + G[s \ {Pick(s)}])
    <3> HIDE DEF H, G
    <3> QED
      BY <1>7
  <2> HIDE DEF H
  <2> QED
    BY <2>1 DEF Adds
<1> QED
  BY <1>2, <1>8

\* A sum is the value that such a function has at the whole set.
LEMMA SumIsAdded ==
    ASSUME NEW f, NEW S, IsFiniteSet(S)
    PROVE  \E h : Adds(f, S, h) /\ SumFunctionOnSet(f, S) = h[S]
<1> DEFINE h == CHOOSE iter : Adds(f, S, iter)
<1>1. Adds(f, S, h)
  BY AddsExists
<1>2. SumFunctionOnSet(f, S) = h[S]
  BY DEF SumFunctionOnSet, FoldFunctionOnSet, MapThenFoldSet, Adds, Pick
<1> QED
  BY <1>1, <1>2

-----------------------------------------------------------------------------
\* The sum over no entries is 0.
LEMMA SumEmpty == \A f : SumFunctionOnSet(f, {}) = 0
<1> TAKE f
<1>1. PICK h : Adds(f, {}, h) /\ SumFunctionOnSet(f, {}) = h[{}]
  BY SumIsAdded, FS_EmptySet
<1> QED
  BY <1>1, AddsAt

\* The next entry and the sum of the others.
LEMMA SumPick ==
    ASSUME NEW f, NEW S, IsFiniteSet(S), S # {}
    PROVE  SumFunctionOnSet(f, S) = f[Pick(S)] + SumFunctionOnSet(f, S \ {Pick(S)})
<1> DEFINE T == S \ {Pick(S)}
<1>1. PICK h : Adds(f, S, h) /\ SumFunctionOnSet(f, S) = h[S]
  BY SumIsAdded
<1>2. T \in SUBSET S /\ IsFiniteSet(T) /\ T \in SUBSET (S \cap T)
  BY FS_Subset
<1>3. PICK g : Adds(f, T, g) /\ SumFunctionOnSet(f, T) = g[T]
  BY <1>2, SumIsAdded
<1>4. h[T] = g[T]
  <2> HIDE DEF T
  <2> QED
    BY <1>1, <1>2, <1>3, AddsUnique
<1>5. h[S] = f[Pick(S)] + h[T]
  BY <1>1, AddsAt
<1> QED
  BY <1>1, <1>3, <1>4, <1>5

\* A sum of integers is an integer.
LEMMA SumInt ==
    ASSUME NEW D, NEW f \in [D -> Int], NEW S \in SUBSET D, IsFiniteSet(S)
    PROVE  SumFunctionOnSet(f, S) \in Int
<1> DEFINE C == {T \in SUBSET S : SumFunctionOnSet(f, T) \notin Int}
<1> SUFFICES ASSUME C # {} PROVE FALSE
  OBVIOUS
<1>1. PICK T \in C : \A U \in C : ~ (U \subseteq T /\ U # T)
  <2>1. C \in SUBSET (SUBSET S)
    OBVIOUS
  <2> HIDE DEF C
  <2> QED
    BY <2>1, LeastSubset
<1>2. T \in SUBSET S /\ SumFunctionOnSet(f, T) \notin Int /\ IsFiniteSet(T)
  BY <1>1, FS_Subset
<1>3. T # {}
  BY <1>2, SumEmpty
<1>4. T \ {Pick(T)} \in SUBSET S /\ T \ {Pick(T)} \notin C /\ Pick(T) \in D
  BY <1>1, <1>2, <1>3, PickSmaller
<1>5. SumFunctionOnSet(f, T \ {Pick(T)}) \in Int /\ f[Pick(T)] \in Int
  BY <1>4
<1>6. SumFunctionOnSet(f, T) = f[Pick(T)] + SumFunctionOnSet(f, T \ {Pick(T)})
  BY <1>2, <1>3, SumPick
<1> HIDE DEF C
<1> QED
  BY <1>2, <1>5, <1>6

\* Sums of the same entries are the same.
LEMMA SumSame ==
    ASSUME NEW f, NEW g, NEW S, IsFiniteSet(S), \A x \in S : f[x] = g[x]
    PROVE  SumFunctionOnSet(f, S) = SumFunctionOnSet(g, S)
<1> DEFINE C == {T \in SUBSET S : SumFunctionOnSet(f, T) # SumFunctionOnSet(g, T)}
<1> SUFFICES ASSUME C # {} PROVE FALSE
  OBVIOUS
<1>1. PICK T \in C : \A U \in C : ~ (U \subseteq T /\ U # T)
  <2>1. C \in SUBSET (SUBSET S)
    OBVIOUS
  <2> HIDE DEF C
  <2> QED
    BY <2>1, LeastSubset
<1>2. /\ T \in SUBSET S /\ IsFiniteSet(T)
      /\ SumFunctionOnSet(f, T) # SumFunctionOnSet(g, T)
  BY <1>1, FS_Subset
<1>3. T # {}
  BY <1>2, SumEmpty
<1>4. T \ {Pick(T)} \in SUBSET S /\ T \ {Pick(T)} \notin C /\ Pick(T) \in S
  BY <1>1, <1>2, <1>3, PickSmaller
<1>5. SumFunctionOnSet(f, T \ {Pick(T)}) = SumFunctionOnSet(g, T \ {Pick(T)})
  BY <1>4
<1>6. /\ SumFunctionOnSet(f, T) = f[Pick(T)] + SumFunctionOnSet(f, T \ {Pick(T)})
      /\ SumFunctionOnSet(g, T) = g[Pick(T)] + SumFunctionOnSet(g, T \ {Pick(T)})
  BY <1>2, <1>3, SumPick
<1>7. f[Pick(T)] = g[Pick(T)]
  BY <1>4
<1> HIDE DEF C
<1> QED
  BY <1>2, <1>5, <1>6, <1>7

\* A sum can be taken apart at any of its entries.
LEMMA SumRemove ==
    ASSUME NEW D, NEW f \in [D -> Int], NEW S \in SUBSET D, IsFiniteSet(S), NEW x \in S
    PROVE  SumFunctionOnSet(f, S) = f[x] + SumFunctionOnSet(f, S \ {x})
<1> DEFINE C == {T \in SUBSET S : \E y \in T :
                   SumFunctionOnSet(f, T) # f[y] + SumFunctionOnSet(f, T \ {y})}
<1> SUFFICES ASSUME C # {} PROVE FALSE
  <2>1. S \notin C
    OBVIOUS
  <2> QED
    BY <2>1
<1>1. PICK T \in C : \A U \in C : ~ (U \subseteq T /\ U # T)
  <2>1. C \in SUBSET (SUBSET S)
    OBVIOUS
  <2> HIDE DEF C
  <2> QED
    BY <2>1, LeastSubset
<1>2. PICK y \in T : SumFunctionOnSet(f, T) # f[y] + SumFunctionOnSet(f, T \ {y})
  BY <1>1
<1>3. T \in SUBSET S /\ IsFiniteSet(T)
  BY <1>1, FS_Subset
<1>4. PICK c \in T : c = Pick(T)
  BY <1>2, PickSmaller
<1>5. SumFunctionOnSet(f, T) = f[c] + SumFunctionOnSet(f, T \ {c})
  BY <1>2, <1>3, <1>4, SumPick
<1>6. y # c
  BY <1>2, <1>5
<1>7. SumFunctionOnSet(f, T \ {c}) = f[y] + SumFunctionOnSet(f, (T \ {c}) \ {y})
  <2>1. T \ {c} \in SUBSET S /\ T \ {c} \notin C /\ y \in T \ {c}
    BY <1>1, <1>3, <1>6
  <2> QED
    BY <2>1
<1>8. SumFunctionOnSet(f, T \ {y}) = f[c] + SumFunctionOnSet(f, (T \ {y}) \ {c})
  <2>1. T \ {y} \in SUBSET S /\ T \ {y} \notin C /\ c \in T \ {y}
    BY <1>1, <1>3, <1>6
  <2> QED
    BY <2>1
<1>9. (T \ {c}) \ {y} = (T \ {y}) \ {c}
  OBVIOUS
<1>10. /\ f[c] \in Int /\ f[y] \in Int
       /\ SumFunctionOnSet(f, (T \ {c}) \ {y}) \in Int
  <2>1. (T \ {c}) \ {y} \in SUBSET D /\ IsFiniteSet((T \ {c}) \ {y})
    BY <1>3, FS_Subset
  <2> QED
    BY <1>3, <2>1, SumInt
<1>11. PICK r \in Int : r = SumFunctionOnSet(f, (T \ {c}) \ {y})
  BY <1>10
<1>12. SumFunctionOnSet(f, T) = f[c] + (f[y] + r)
  BY <1>5, <1>7, <1>11
<1>13. SumFunctionOnSet(f, T \ {y}) = f[c] + r
  <2>1. SumFunctionOnSet(f, (T \ {y}) \ {c}) = r
    BY <1>9, <1>11, Zenon
  <2> QED
    BY <1>8, <2>1, Zenon
<1>14. PICK p \in Int : p = f[c]
  BY <1>10
<1>15. PICK q \in Int : q = f[y]
  BY <1>10
<1>16. p + (q + r) = q + (p + r)
  BY <1>11, <1>14, <1>15
<1>17. SumFunctionOnSet(f, T) = f[y] + SumFunctionOnSet(f, T \ {y})
  BY <1>12, <1>13, <1>14, <1>15, <1>16, Zenon
<1> QED
  BY <1>2, <1>17, Zenon

\* A sum moves by as much as the one entry that changed.
LEMMA SumChange ==
    ASSUME NEW D, NEW f \in [D -> Int], NEW g \in [D -> Int], NEW S \in SUBSET D,
           IsFiniteSet(S), NEW x \in S, \A y \in S : y # x => g[y] = f[y]
    PROVE  SumFunctionOnSet(g, S) = SumFunctionOnSet(f, S) + (g[x] - f[x])
<1> DEFINE T == S \ {x}
<1>1. IsFiniteSet(T) /\ T \in SUBSET D /\ \A y \in T : f[y] = g[y]
  BY FS_Subset
<1>2. SumFunctionOnSet(f, T) = SumFunctionOnSet(g, T)
  BY <1>1, SumSame
<1>3. /\ SumFunctionOnSet(f, S) = f[x] + SumFunctionOnSet(f, T)
      /\ SumFunctionOnSet(g, S) = g[x] + SumFunctionOnSet(g, T)
  BY SumRemove
<1>4. SumFunctionOnSet(f, T) \in Int /\ f[x] \in Int /\ g[x] \in Int
  BY <1>1, SumInt
<1> HIDE DEF T
<1> QED
  BY <1>2, <1>3, <1>4

\* An entry that is added to those summed over adds its value.
LEMMA SumAdd ==
    ASSUME NEW D, NEW f \in [D -> Int], NEW S \in SUBSET D, IsFiniteSet(S),
           NEW x \in D, x \notin S
    PROVE  SumFunctionOnSet(f, S \cup {x}) = SumFunctionOnSet(f, S) + f[x]
<1> DEFINE T == S \cup {x}
<1>1. T \in SUBSET D /\ IsFiniteSet(T) /\ x \in T /\ T \ {x} = S
  BY FS_AddElement
<1>2. SumFunctionOnSet(f, T) = f[x] + SumFunctionOnSet(f, T \ {x})
  <2> HIDE DEF T
  <2> QED
    BY <1>1, SumRemove
<1>3. PICK p \in Int : p = SumFunctionOnSet(f, S)
  BY SumInt
<1>4. PICK q \in Int : q = f[x]
  OBVIOUS
<1>5. SumFunctionOnSet(f, T) = q + p
  BY <1>1, <1>2, <1>3, <1>4, Zenon
<1>6. q + p = p + q
  BY <1>3, <1>4
<1> QED
  BY <1>3, <1>4, <1>5, <1>6, Zenon

\* A sum of nothing but zeros is zero.
LEMMA SumZero ==
    ASSUME NEW D, NEW f \in [D -> Int], NEW S \in SUBSET D, IsFiniteSet(S),
           \A x \in S : f[x] = 0
    PROVE  SumFunctionOnSet(f, S) = 0
<1> DEFINE C == {T \in SUBSET S : SumFunctionOnSet(f, T) # 0}
<1> SUFFICES ASSUME C # {} PROVE FALSE
  OBVIOUS
<1>1. PICK T \in C : \A U \in C : ~ (U \subseteq T /\ U # T)
  <2>1. C \in SUBSET (SUBSET S)
    OBVIOUS
  <2> HIDE DEF C
  <2> QED
    BY <2>1, LeastSubset
<1>2. T \in SUBSET S /\ IsFiniteSet(T) /\ SumFunctionOnSet(f, T) # 0
  BY <1>1, FS_Subset
<1>3. T # {}
  BY <1>2, SumEmpty
<1>4. PICK x \in T : x = Pick(T)
  BY <1>3, PickSmaller
<1>5. SumFunctionOnSet(f, T) = f[x] + SumFunctionOnSet(f, T \ {x})
  BY <1>2, <1>3, <1>4, SumPick
<1>6. T \ {x} \in SUBSET S /\ T \ {x} \notin C
  BY <1>1, <1>2
<1>7. SumFunctionOnSet(f, T \ {x}) = 0 /\ f[x] = 0
  BY <1>2, <1>6
<1> QED
  BY <1>2, <1>5, <1>7

\* Entries that are no larger have a sum that is no larger.
LEMMA SumMonotone ==
    ASSUME NEW D, NEW f \in [D -> Int], NEW g \in [D -> Int], NEW S \in SUBSET D,
           IsFiniteSet(S), \A x \in S : f[x] <= g[x]
    PROVE  SumFunctionOnSet(f, S) <= SumFunctionOnSet(g, S)
<1> DEFINE C == {T \in SUBSET S : ~ (SumFunctionOnSet(f, T) <= SumFunctionOnSet(g, T))}
<1> SUFFICES ASSUME C # {} PROVE FALSE
  OBVIOUS
<1>1. PICK T \in C : \A U \in C : ~ (U \subseteq T /\ U # T)
  <2>1. C \in SUBSET (SUBSET S)
    OBVIOUS
  <2> HIDE DEF C
  <2> QED
    BY <2>1, LeastSubset
<1>2. /\ T \in SUBSET S /\ IsFiniteSet(T)
      /\ ~ (SumFunctionOnSet(f, T) <= SumFunctionOnSet(g, T))
  BY <1>1, FS_Subset
<1>3. T # {}
  <2> SUFFICES ASSUME T = {} PROVE FALSE
    OBVIOUS
  <2>1. SumFunctionOnSet(f, T) = 0 /\ SumFunctionOnSet(g, T) = 0
    BY SumEmpty
  <2> QED
    BY <1>2, <2>1
<1>4. PICK c \in T : c = Pick(T)
  BY <1>3, PickSmaller
<1>5. T \ {c} \in SUBSET S /\ T \ {c} \notin C /\ c \in S
  BY <1>1, <1>2, <1>4
<1>6. SumFunctionOnSet(f, T \ {c}) <= SumFunctionOnSet(g, T \ {c})
  BY <1>5
<1>7. /\ SumFunctionOnSet(f, T) = f[c] + SumFunctionOnSet(f, T \ {c})
      /\ SumFunctionOnSet(g, T) = g[c] + SumFunctionOnSet(g, T \ {c})
  BY <1>2, <1>3, <1>4, SumPick
<1>8. f[c] <= g[c] /\ f[c] \in Int /\ g[c] \in Int
  BY <1>5
<1>9. SumFunctionOnSet(f, T \ {c}) \in Int /\ SumFunctionOnSet(g, T \ {c}) \in Int
  <2>1. T \ {c} \in SUBSET D /\ IsFiniteSet(T \ {c})
    BY <1>2, FS_Subset
  <2> QED
    BY <2>1, SumInt
<1> HIDE DEF C
<1> QED
  BY <1>2, <1>6, <1>7, <1>8, <1>9

\* A sum of natural numbers is one, and no less than any of its entries.
LEMMA SumNat ==
    ASSUME NEW D, NEW f \in [D -> Nat], NEW S \in SUBSET D, IsFiniteSet(S)
    PROVE  /\ SumFunctionOnSet(f, S) \in Nat
           /\ \A x \in S : f[x] <= SumFunctionOnSet(f, S)
<1> DEFINE C == {T \in SUBSET S : SumFunctionOnSet(f, T) \notin Nat}
<1>0. \A T \in SUBSET S : SumFunctionOnSet(f, T) \in Nat
  <2> SUFFICES ASSUME C # {} PROVE FALSE
    OBVIOUS
  <2>1. PICK T \in C : \A U \in C : ~ (U \subseteq T /\ U # T)
    <3>1. C \in SUBSET (SUBSET S)
      OBVIOUS
    <3> HIDE DEF C
    <3> QED
      BY <3>1, LeastSubset
  <2>2. T \in SUBSET S /\ IsFiniteSet(T) /\ SumFunctionOnSet(f, T) \notin Nat
    BY <2>1, FS_Subset
  <2>3. T # {}
    BY <2>2, SumEmpty
  <2>4. T \ {Pick(T)} \in SUBSET S /\ T \ {Pick(T)} \notin C /\ Pick(T) \in D
    BY <2>1, <2>2, <2>3, PickSmaller
  <2>5. SumFunctionOnSet(f, T \ {Pick(T)}) \in Nat /\ f[Pick(T)] \in Nat
    BY <2>4
  <2>6. SumFunctionOnSet(f, T) = f[Pick(T)] + SumFunctionOnSet(f, T \ {Pick(T)})
    BY <2>2, <2>3, SumPick
  <2> HIDE DEF C
  <2> QED
    BY <2>2, <2>5, <2>6
<1>1. ASSUME NEW x \in S PROVE f[x] <= SumFunctionOnSet(f, S)
  <2>1. SumFunctionOnSet(f, S) = f[x] + SumFunctionOnSet(f, S \ {x})
    <3>1. f \in [D -> Int]
      OBVIOUS
    <3> QED
      BY <3>1, SumRemove
  <2>2. SumFunctionOnSet(f, S \ {x}) \in Nat /\ f[x] \in Nat
    BY <1>0
  <2> QED
    BY <2>1, <2>2
<1> QED
  BY <1>0, <1>1

\* Entries of at most m have a sum of at most m for each.
LEMMA SumBound ==
    ASSUME NEW D, NEW f \in [D -> Int], NEW S \in SUBSET D, IsFiniteSet(S),
           NEW m \in Nat, \A x \in S : f[x] <= m
    PROVE  SumFunctionOnSet(f, S) <= Cardinality(S) * m
<1> DEFINE C == {T \in SUBSET S : ~ (SumFunctionOnSet(f, T) <= Cardinality(T) * m)}
<1> SUFFICES ASSUME C # {} PROVE FALSE
  OBVIOUS
<1>1. PICK T \in C : \A U \in C : ~ (U \subseteq T /\ U # T)
  <2>1. C \in SUBSET (SUBSET S)
    OBVIOUS
  <2> HIDE DEF C
  <2> QED
    BY <2>1, LeastSubset
<1>2. /\ T \in SUBSET S /\ IsFiniteSet(T)
      /\ ~ (SumFunctionOnSet(f, T) <= Cardinality(T) * m)
  BY <1>1, FS_Subset
<1>3. T # {}
  <2>1. 0 * m = 0
    OBVIOUS
  <2> QED
    BY <1>2, <2>1, SumEmpty, FS_EmptySet
<1>4. PICK x \in T : x = Pick(T)
  BY <1>3, PickSmaller
<1>5. SumFunctionOnSet(f, T) = f[x] + SumFunctionOnSet(f, T \ {x})
  BY <1>2, <1>3, <1>4, SumPick
<1>6. T \ {x} \in SUBSET S /\ T \ {x} \notin C
  BY <1>1, <1>2
<1>7. PICK s \in Int : s = SumFunctionOnSet(f, T \ {x})
  BY <1>2, <1>6, FS_Subset, SumInt
<1>8. PICK n \in Nat : n = Cardinality(T \ {x}) /\ Cardinality(T) = n + 1
  <2>1. IsFiniteSet(T \ {x}) /\ Cardinality(T \ {x}) = Cardinality(T) - 1
    BY <1>2, FS_RemoveElement
  <2>2. Cardinality(T \ {x}) \in Nat /\ Cardinality(T) \in Nat
    BY <1>2, <2>1, FS_CardinalityType
  <2>3. Cardinality(T) = Cardinality(T \ {x}) + 1
    BY <2>1, <2>2
  <2> QED
    BY <2>2, <2>3
<1>9. s <= n * m
  BY <1>6, <1>7, <1>8
<1>10. f[x] \in Int /\ f[x] <= m
  BY <1>2
<1>11. (n + 1) * m = n * m + m /\ n * m \in Int
  OBVIOUS
<1>12. SumFunctionOnSet(f, T) = f[x] + s
  BY <1>5, <1>7
<1>13. f[x] + s <= (n + 1) * m
  BY <1>9, <1>10, <1>11
<1> QED
  BY <1>2, <1>8, <1>12, <1>13

\* The entries of a finite set, if there are any, have a largest one.
LEMMA LargestEntry ==
    ASSUME NEW D, NEW f \in [D -> Int], NEW S \in SUBSET D, IsFiniteSet(S), S # {}
    PROVE  \E x \in S : \A y \in S : f[y] <= f[x]
<1> DEFINE C == {T \in SUBSET S : T # {} /\ ~ \E x \in T : \A y \in T : f[y] <= f[x]}
<1> SUFFICES ASSUME C # {} PROVE FALSE
  OBVIOUS
<1>1. PICK T \in C : \A U \in C : ~ (U \subseteq T /\ U # T)
  <2>1. C \in SUBSET (SUBSET S)
    OBVIOUS
  <2> HIDE DEF C
  <2> QED
    BY <2>1, LeastSubset
<1>2. PICK x \in T : f[x] \in Int
  OBVIOUS
<1>3. \A y \in T : f[y] \in Int
  OBVIOUS
<1>4. T \ {x} \in SUBSET S /\ T \ {x} \notin C
  BY <1>1
<1>5. CASE T \ {x} = {}
  <2>1. \A y \in T : f[y] <= f[x]
    BY <1>2, <1>5
  <2> QED
    BY <2>1
<1>6. CASE T \ {x} # {}
  <2>1. PICK z \in T \ {x} : \A y \in T \ {x} : f[y] <= f[z]
    BY <1>4, <1>6
  <2>2. CASE f[x] <= f[z]
    <3>1. \A y \in T : f[y] <= f[z]
      BY <2>1, <2>2
    <3> QED
      BY <3>1
  <2>3. CASE ~ (f[x] <= f[z])
    <3>1. \A y \in T : f[y] <= f[x]
      BY <1>3, <2>1, <2>3
    <3> QED
      BY <3>1
  <2> QED
    BY <2>2, <2>3
<1> QED
  BY <1>5, <1>6

\* Entries that each count the members of a set, where no member is in two of the
\* sets, add up to no more than there are members.
LEMMA SumOfDisjoint ==
    ASSUME NEW D, NEW f \in [D -> Int], NEW S \in SUBSET D, IsFiniteSet(S), NEW V,
           NEW U, IsFiniteSet(U),
           \A x \in S : V[x] \subseteq U /\ f[x] <= Cardinality(V[x]),
           \A x, y \in S : x # y => V[x] \cap V[y] = {}
    PROVE  SumFunctionOnSet(f, S) <= Cardinality(U)
<1> DEFINE All(T) == UNION {V[x] : x \in T}
           C == {T \in SUBSET S : ~ (SumFunctionOnSet(f, T) <= Cardinality(All(T)))}
<1>1. \A T \in SUBSET S : All(T) \subseteq U
  OBVIOUS
<1>2. \A T \in SUBSET S : IsFiniteSet(All(T)) /\ Cardinality(All(T)) \in Nat
  BY <1>1, FS_Subset, FS_CardinalityType
<1>3. C = {}
  <2> SUFFICES ASSUME C # {} PROVE FALSE
    OBVIOUS
  <2>1. PICK T \in C : \A R \in C : ~ (R \subseteq T /\ R # T)
    <3>1. C \in SUBSET (SUBSET S)
      OBVIOUS
    <3> HIDE DEF C
    <3> QED
      BY <3>1, LeastSubset
  <2>2. /\ T \in SUBSET S /\ IsFiniteSet(T)
        /\ ~ (SumFunctionOnSet(f, T) <= Cardinality(All(T)))
    BY <2>1, FS_Subset
  <2>3. T # {}
    <3> SUFFICES ASSUME T = {} PROVE FALSE
      OBVIOUS
    <3>1. All(T) = {}
      OBVIOUS
    <3> HIDE DEF All
    <3> QED
      BY <2>2, <3>1, SumEmpty, FS_EmptySet
  <2>4. PICK x \in T : x = Pick(T)
    BY <2>3, PickSmaller
  <2>5. SumFunctionOnSet(f, T) = f[x] + SumFunctionOnSet(f, T \ {x})
    BY <2>2, <2>3, <2>4, SumPick
  <2>6. T \ {x} \in SUBSET S /\ T \ {x} \notin C
    BY <2>1, <2>2
  <2>7. PICK s \in Int : s = SumFunctionOnSet(f, T \ {x})
    BY <2>2, <2>6, FS_Subset, SumInt
  <2>8. s <= Cardinality(All(T \ {x}))
    BY <2>6, <2>7
  <2>9. V[x] \subseteq U /\ IsFiniteSet(V[x]) /\ Cardinality(V[x]) \in Nat
        /\ f[x] \in Int /\ f[x] <= Cardinality(V[x])
    BY <2>2, FS_Subset, FS_CardinalityType
  <2>10. All(T) = All(T \ {x}) \cup V[x] /\ All(T \ {x}) \cap V[x] = {}
    BY <2>2
  <2> HIDE DEF All, C
  <2>11. IsFiniteSet(All(T \ {x})) /\ Cardinality(All(T \ {x})) \in Nat
    BY <1>2, <2>6
  <2>12. Cardinality(All(T)) = Cardinality(All(T \ {x})) + Cardinality(V[x])
    <3>1. PICK A : A = All(T \ {x})
      OBVIOUS
    <3>2. IsFiniteSet(A) /\ Cardinality(A) \in Nat /\ A \cap V[x] = {} /\ All(T) = A \cup V[x]
      BY <2>10, <2>11, <3>1
    <3>3. Cardinality(A \cup V[x]) = Cardinality(A) + Cardinality(V[x]) - Cardinality(A \cap V[x])
      BY <2>9, <3>2, FS_Union
    <3>4. Cardinality(A \cap V[x]) = 0
      BY <3>2, FS_EmptySet
    <3> QED
      BY <2>9, <3>1, <3>2, <3>3, <3>4
  <2> QED
    BY <2>2, <2>5, <2>7, <2>8, <2>9, <2>11, <2>12
<1>4. SumFunctionOnSet(f, S) <= Cardinality(All(S))
  BY <1>3
<1>5. Cardinality(All(S)) <= Cardinality(U) /\ Cardinality(U) \in Nat
  BY <1>1, FS_Subset, FS_CardinalityType
<1>6. SumFunctionOnSet(f, S) \in Int /\ Cardinality(All(S)) \in Nat
  BY <1>2, SumInt
<1> HIDE DEF All
<1> QED
  BY <1>4, <1>5, <1>6
=============================================================================
