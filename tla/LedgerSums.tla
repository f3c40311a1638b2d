----------------------------- MODULE LedgerSums -----------------------------
(***************************************************************************)
(* What the operators FinanceLedger is built from compute: sums over       *)
(* finite sets, folds over sequences, flattened sequences.  Nothing here   *)
(* knows the ledger.  Induction is by a least (or smallest) counterexample *)
(* in a set of numbers (or of sets).                                       *)
(***************************************************************************)
EXTENDS Integers, Sequences, FiniteSetsExt, SequencesExt, FiniteSetTheorems, TLAPS

-----------------------------------------------------------------------------
(* Induction.                                                              *)

\* A non-empty set of natural numbers has a least element.
LEMMA LeastElement ==
  ASSUME NEW T \in SUBSET Nat, T # {}
  PROVE  \E n \in T : \A m \in T : n <= m
<1>1. PICK n \in T : \A m \in T : ~(<<m, n>> \in OpToRel(<, Nat))
  BY NatLessThanWellFounded, WFMin
<1>2. \A m \in T : ~(m < n)
  BY <1>1 DEF OpToRel
<1> QED BY <1>2

\* Induction on the natural numbers, the claim given by the set P of the numbers it holds for.
LEMMA NatInduct ==
  ASSUME NEW P, 0 \in P, \A n \in Nat : n \in P => n + 1 \in P
  PROVE  \A n \in Nat : n \in P
<1> DEFINE T == {n \in Nat : n \notin P}
<1> SUFFICES ASSUME T # {} PROVE FALSE
  OBVIOUS
<1>1. PICK n \in T : \A m \in T : n <= m
  BY LeastElement
<1>2. n # 0
  BY <1>1
<1>3. n - 1 \in Nat /\ n - 1 \in P
  BY <1>1, <1>2
<1> QED BY <1>1, <1>3

\* One element out of, or into, a finite set.
LEMMA RemoveOne ==
  ASSUME NEW S, IsFiniteSet(S), NEW x \in S
  PROVE  IsFiniteSet(S \ {x}) /\ Cardinality(S \ {x}) = Cardinality(S) - 1
BY FS_RemoveElement

\* An element that is new makes a finite set larger by one.
LEMMA AddOne ==
  ASSUME NEW S, IsFiniteSet(S), NEW x, x \notin S
  PROVE  IsFiniteSet(S \cup {x}) /\ Cardinality(S \cup {x}) = Cardinality(S) + 1
BY FS_AddElement

\* Induction on the subsets of a finite set, the claim given by the set P of those it holds for.
LEMMA SubsetInduct ==
  ASSUME NEW S, IsFiniteSet(S), NEW P, {} \in P,
         \A T \in SUBSET S : \A x \in S \ T : T \in P => T \cup {x} \in P
  PROVE  \A T \in SUBSET S : T \in P
<1> DEFINE Card(T) == Cardinality(T)
           Q == {n \in Nat : \A T \in SUBSET S : Cardinality(T) = n => T \in P}
<1>1. \A T \in SUBSET S : IsFiniteSet(T) /\ Cardinality(T) \in Nat
  BY FS_Subset, FS_CardinalityType
<1>2. 0 \in Q
  BY <1>1, FS_EmptySet
<1>3. ASSUME NEW n \in Nat, n \in Q PROVE n + 1 \in Q
  <2> SUFFICES ASSUME NEW T \in SUBSET S, Cardinality(T) = n + 1 PROVE T \in P
    OBVIOUS
  <2>0. T # {} /\ IsFiniteSet(T)
    BY <1>1, FS_EmptySet
  <2>1. PICK x \in T : TRUE
    BY <2>0
  <2>2. T \ {x} \in SUBSET S /\ Cardinality(T \ {x}) = n
    BY <2>0, RemoveOne
  <2>3. T \ {x} \in P
    BY <1>3, <2>2
  <2>4. (T \ {x}) \cup {x} \in P
    BY <2>2, <2>3
  <2>5. (T \ {x}) \cup {x} = T
    OBVIOUS
  <2> QED BY <2>4, <2>5
<1>4. \A n \in Nat : n \in Q
  <2> HIDE DEF Q
  <2> QED BY <1>2, <1>3, NatInduct
<1> QED BY <1>1, <1>4

-----------------------------------------------------------------------------
(* Recursion over the subsets of a finite set, one element at a time.      *)

\* it computes from v0, an element at a time, pick saying which one is last.
Computes(it, S, V, v0, pick, step) ==
  \A s \in SUBSET S :
    it[s] = IF s = {} THEN v0 ELSE step[<<pick[s], it[s \ {pick[s]}]>>]

\* pick says which element of a subset is taken.
Picks(pick, S) == \A s \in SUBSET S : s # {} => pick[s] \in s

Computable(S, V, v0, pick, step) == \E it \in [SUBSET S -> V] : Computes(it, S, V, v0, pick, step)

\* Such a function exists.
LEMMA RecursionExists ==
  ASSUME NEW S, IsFiniteSet(S), NEW V, NEW v0 \in V,
         NEW pick, Picks(pick, S),
         NEW step \in [S \X V -> V]
  PROVE  Computable(S, V, v0, pick, step)
<1> USE DEF Picks
<1> DEFINE D(n) == {s \in SUBSET S : Cardinality(s) <= n}
           Good(n, it) == \A s \in D(n) :
                            it[s] = IF s = {} THEN v0 ELSE step[<<pick[s], it[s \ {pick[s]}]>>]
           Q == {n \in Nat : \E it \in [D(n) -> V] : Good(n, it)}
<1>1. \A s \in SUBSET S : IsFiniteSet(s) /\ Cardinality(s) \in Nat
  BY FS_Subset, FS_CardinalityType
<1>2. ASSUME NEW n \in Nat, NEW s \in D(n + 1), s # {} PROVE s \ {pick[s]} \in D(n)
  <2>1. s \in SUBSET S /\ IsFiniteSet(s) /\ pick[s] \in s
    BY <1>1, <1>2
  <2>2. Cardinality(s \ {pick[s]}) = Cardinality(s) - 1
    BY <2>1, RemoveOne
  <2> QED BY <1>1, <2>1, <2>2
<1>3. 0 \in Q
  <2>1. D(0) = {{}}
    BY <1>1, FS_EmptySet
  <2>2. [s \in D(0) |-> v0] \in [D(0) -> V] /\ Good(0, [s \in D(0) |-> v0])
    BY <2>1
  <2> QED BY <2>2
<1>4. ASSUME NEW n \in Nat, n \in Q PROVE n + 1 \in Q
  <2>1. PICK it \in [D(n) -> V] : Good(n, it)
    BY <1>4
  <2> DEFINE next == [s \in D(n + 1) |-> IF s = {} THEN v0 ELSE step[<<pick[s], it[s \ {pick[s]}]>>]]
  <2>2. next \in [D(n + 1) -> V]
    <3> SUFFICES ASSUME NEW s \in D(n + 1), s # {} PROVE step[<<pick[s], it[s \ {pick[s]}]>>] \in V
      OBVIOUS
    <3>1. it[s \ {pick[s]}] \in V
      BY <1>2
    <3> QED BY <3>1
  <2>3. \A s \in D(n) : s \in D(n + 1) /\ next[s] = it[s]
    <3>1. \A s \in D(n) : s \in D(n + 1)
      BY <1>1
    <3> QED BY <2>1, <3>1
  <2>4. Good(n + 1, next)
    BY <1>2, <2>3
  <2>5. \E new \in [D(n + 1) -> V] : Good(n + 1, new)
    <3> HIDE DEF D, Good, next
    <3> QED BY <2>2, <2>4
  <2>6. n + 1 \in Nat
    OBVIOUS
  <2> HIDE DEF D, Good, next
  <2> QED BY <2>5, <2>6
<1>5. \A n \in Nat : n \in Q
  <2> HIDE DEF Q
  <2> QED BY <1>3, <1>4, NatInduct
<1>6. Cardinality(S) \in Q /\ D(Cardinality(S)) = SUBSET S
  BY <1>1, <1>5, FS_Subset
<1> QED BY <1>6 DEF Computes, Computable

\* f and g agree at s whenever they agree one element before s.
StepAlike(f, g, S, pick) ==
  /\ f[{}] = g[{}]
  /\ \A s \in SUBSET S : s # {} /\ f[s \ {pick[s]}] = g[s \ {pick[s]}] => f[s] = g[s]

Agree(f, g, S) == \A s \in SUBSET S : f[s] = g[s]

\* Then they agree.
LEMMA RecursionUnique ==
  ASSUME NEW S, IsFiniteSet(S), NEW pick, Picks(pick, S), NEW f, NEW g, StepAlike(f, g, S, pick)
  PROVE  Agree(f, g, S)
<1> USE DEF Picks, StepAlike, Agree
<1> DEFINE Q == {n \in Nat : \A s \in SUBSET S : Cardinality(s) = n => f[s] = g[s]}
<1>1. \A s \in SUBSET S : IsFiniteSet(s) /\ Cardinality(s) \in Nat
  BY FS_Subset, FS_CardinalityType
<1>2. 0 \in Q
  BY <1>1, FS_EmptySet
<1>3. ASSUME NEW n \in Nat, n \in Q PROVE n + 1 \in Q
  <2> SUFFICES ASSUME NEW s \in SUBSET S, Cardinality(s) = n + 1 PROVE f[s] = g[s]
    OBVIOUS
  <2>1. s # {} /\ IsFiniteSet(s) /\ pick[s] \in s
    BY <1>1, FS_EmptySet
  <2>2. Cardinality(s \ {pick[s]}) = n
    BY <2>1, RemoveOne
  <2>3. f[s \ {pick[s]}] = g[s \ {pick[s]}]
    BY <1>3, <2>2
  <2> QED BY <2>1, <2>3
<1>4. \A n \in Nat : n \in Q
  <2> HIDE DEF Q
  <2> QED BY <1>2, <1>3, NatInduct
<1> QED BY <1>1, <1>4

-----------------------------------------------------------------------------
(* Sums.                                                                   *)

\* Any of the elements.
Some(s) == CHOOSE x \in s : TRUE

IntOn(f, S) == \A x \in S : f[x] \in Int

\* What SumFunctionOnSet computes, one element at a time.
SumsUp(it, f, S) ==
  it = [s \in SUBSET S |-> IF s = {} THEN 0 ELSE f[Some(s)] + it[s \ {Some(s)}]]

SumsUpPossible(f, S) == \E it \in [SUBSET S -> Int] : SumsUp(it, f, S)

\* SumFunctionOnSet is the value at S of the function that sums its subsets.
LEMMA SumExpanded ==
  ASSUME NEW f, NEW S
  PROVE  SumFunctionOnSet(f, S) = (CHOOSE it : SumsUp(it, f, S))[S]
BY DEF SumFunctionOnSet, FoldFunctionOnSet, MapThenFoldSet, SumsUp, Some

\* There is such a function.
LEMMA SumsUpExists ==
  ASSUME NEW S, IsFiniteSet(S), NEW f, IntOn(f, S)
  PROVE  SumsUpPossible(f, S)
<1> DEFINE pick == [s \in SUBSET S |-> Some(s)]
           step == [p \in S \X Int |-> f[p[1]] + p[2]]
<1>1. \A s \in SUBSET S : s # {} => pick[s] \in s
  BY DEF Some
<1>2. step \in [S \X Int -> Int]
  BY DEF IntOn
<1>3. PICK it \in [SUBSET S -> Int] : Computes(it, S, Int, 0, pick, step)
  <2>1. Picks(pick, S)
    BY <1>1 DEF Picks
  <2> HIDE DEF pick, step
  <2>2. 0 \in Int
    OBVIOUS
  <2>3. Computable(S, Int, 0, pick, step)
    BY <1>2, <2>1, <2>2, RecursionExists, Zenon
  <2> QED BY <2>3 DEF Computable
<1>4. ASSUME NEW s \in SUBSET S
      PROVE it[s] = IF s = {} THEN 0 ELSE f[Some(s)] + it[s \ {Some(s)}]
  <2>1. CASE s = {}
    BY <1>3, <2>1 DEF Computes
  <2>2. CASE s # {}
    <3>1. pick[s] = Some(s) /\ Some(s) \in s /\ s \ {Some(s)} \in SUBSET S
      BY <1>1, <2>2
    <3>2. step[<<Some(s), it[s \ {Some(s)}]>>] = f[Some(s)] + it[s \ {Some(s)}]
      BY <3>1
    <3> HIDE DEF pick, step
    <3> QED BY <1>3, <2>2, <3>1, <3>2 DEF Computes
  <2> QED BY <2>1, <2>2
<1> QED BY <1>4 DEF SumsUp, SumsUpPossible

\* it gives the sums over all subsets of S.
AllSums(it, f, S) ==
  \A T \in SUBSET S :
    /\ SumFunctionOnSet(f, T) = it[T]
    /\ it[T] = IF T = {} THEN 0 ELSE f[Some(T)] + it[T \ {Some(T)}]

Summable(f, S) == \E it \in [SUBSET S -> Int] : AllSums(it, f, S)

\* One function computes the sums over all subsets.
LEMMA SumsOfSubsets ==
  ASSUME NEW S, IsFiniteSet(S), NEW f, IntOn(f, S)
  PROVE  Summable(f, S)
<1>1. PICK it \in [SUBSET S -> Int] : SumsUp(it, f, S)
  BY SumsUpExists DEF SumsUpPossible
<1>2. \A s \in SUBSET S : it[s] = IF s = {} THEN 0 ELSE f[Some(s)] + it[s \ {Some(s)}]
  BY <1>1 DEF SumsUp
<1>3. ASSUME NEW T \in SUBSET S PROVE SumFunctionOnSet(f, T) = it[T]
  <2> DEFINE g == CHOOSE g : SumsUp(g, f, T)
             pick == [s \in SUBSET T |-> Some(s)]
  <2>1. IsFiniteSet(T)
    BY FS_Subset
  <2>2. SumsUp(g, f, T)
    <3>1. IntOn(f, T)
      BY DEF IntOn
    <3> QED BY <2>1, <3>1, SumsUpExists DEF SumsUpPossible
  <2>3. \A s \in SUBSET T : g[s] = IF s = {} THEN 0 ELSE f[Some(s)] + g[s \ {Some(s)}]
    <3> HIDE DEF g
    <3> QED BY <2>2 DEF SumsUp
  <2> HIDE DEF g
  <2>4. \A s \in SUBSET T : s # {} => pick[s] \in s /\ pick[s] = Some(s)
    BY DEF Some
  <2>5. \A s \in SUBSET T : s # {} /\ g[s \ {pick[s]}] = it[s \ {pick[s]}] => g[s] = it[s]
    BY <1>2, <2>3, <2>4
  <2>6. g[{}] = it[{}]
    BY <1>2, <2>3
  <2>7. \A s \in SUBSET T : g[s] = it[s]
    <3> HIDE DEF pick
    <3>1. Picks(pick, T) /\ StepAlike(g, it, T, pick)
      BY <2>4, <2>5, <2>6 DEF Picks, StepAlike
    <3> QED BY <2>1, <3>1, RecursionUnique DEF Agree
  <2> QED BY <2>7, SumExpanded DEF g
<1> QED BY <1>2, <1>3 DEF Summable, AllSums

\* A sum of integers is an integer.
LEMMA SumType ==
  ASSUME NEW S, IsFiniteSet(S), NEW f, IntOn(f, S)
  PROVE  SumFunctionOnSet(f, S) \in Int
<1>1. PICK it \in [SUBSET S -> Int] : AllSums(it, f, S)
  BY SumsOfSubsets DEF Summable
<1> QED BY <1>1 DEF AllSums

\* The empty sum.
LEMMA SumEmpty ==
  ASSUME NEW f
  PROVE  SumFunctionOnSet(f, {}) = 0
<1>1. IsFiniteSet({}) /\ IntOn(f, {})
  BY FS_EmptySet DEF IntOn
<1>2. PICK it \in [SUBSET {} -> Int] : AllSums(it, f, {})
  BY <1>1, SumsOfSubsets DEF Summable
<1> QED BY <1>2 DEF AllSums

\* Any element may be taken out.
LEMMA SumRemove ==
  ASSUME NEW S, IsFiniteSet(S), NEW f, IntOn(f, S), NEW x \in S
  PROVE  SumFunctionOnSet(f, S) = f[x] + SumFunctionOnSet(f, S \ {x})
<1>1. PICK it \in [SUBSET S -> Int] : AllSums(it, f, S)
  BY SumsOfSubsets DEF Summable
<1> DEFINE Q == {n \in Nat : \A T \in SUBSET S : Cardinality(T) = n =>
                              \A y \in T : it[T] = f[y] + it[T \ {y}]}
<1>2. \A T \in SUBSET S : IsFiniteSet(T) /\ Cardinality(T) \in Nat
  BY FS_Subset, FS_CardinalityType
<1>3. 0 \in Q
  BY <1>2, FS_EmptySet
<1>4. ASSUME NEW n \in Nat, n \in Q PROVE n + 1 \in Q
  <2> SUFFICES ASSUME NEW T \in SUBSET S, Cardinality(T) = n + 1, NEW y \in T
               PROVE  it[T] = f[y] + it[T \ {y}]
    OBVIOUS
  <2> DEFINE z == Some(T)
  <2>1. z \in T /\ it[T] = f[z] + it[T \ {z}]
    BY <1>1 DEF AllSums, Some
  <2> HIDE DEF z
  <2>2. CASE y = z
    BY <2>1, <2>2
  <2>3. CASE y # z
    <3>1. IsFiniteSet(T)
      BY <1>2
    <3>2. T \ {z} \in SUBSET S /\ Cardinality(T \ {z}) = n /\ T \ {y} \in SUBSET S /\ Cardinality(T \ {y}) = n
      BY <2>1, <3>1, RemoveOne
    <3>3. it[T \ {z}] = f[y] + it[(T \ {z}) \ {y}]
      BY <1>4, <2>3, <3>2
    <3>4. it[T \ {y}] = f[z] + it[(T \ {y}) \ {z}]
      BY <1>4, <2>1, <2>3, <3>2
    <3>5. (T \ {z}) \ {y} = (T \ {y}) \ {z} /\ (T \ {z}) \ {y} \in SUBSET S
      OBVIOUS
    <3>6. f[y] \in Int /\ f[z] \in Int
      BY <2>1 DEF IntOn
    <3> DEFINE both == (T \ {z}) \ {y}
    <3>7. it[both] \in Int
      BY <3>5
    <3>8. it[T \ {y}] = f[z] + it[both] /\ it[T] = f[z] + (f[y] + it[both])
      BY <2>1, <3>3, <3>4, <3>5
    <3> HIDE DEF both
    <3> QED BY <3>6, <3>7, <3>8
  <2> QED BY <2>2, <2>3
<1>5. \A n \in Nat : n \in Q
  <2> HIDE DEF Q
  <2> QED BY <1>3, <1>4, NatInduct
<1>6. it[S] = f[x] + it[S \ {x}]
  BY <1>2, <1>5
<1> QED BY <1>1, <1>6 DEF AllSums

\* One element more.
LEMMA SumAdd ==
  ASSUME NEW S, IsFiniteSet(S), NEW x, x \notin S, NEW f, IntOn(f, S \cup {x})
  PROVE  SumFunctionOnSet(f, S \cup {x}) = f[x] + SumFunctionOnSet(f, S)
<1>1. IsFiniteSet(S \cup {x})
  BY AddOne
<1>2. (S \cup {x}) \ {x} = S /\ x \in S \cup {x}
  OBVIOUS
<1> QED BY <1>1, <1>2, SumRemove

\* Two disjoint sets.
LEMMA SumUnion ==
  ASSUME NEW A, IsFiniteSet(A), NEW B, IsFiniteSet(B), A \cap B = {}, NEW f, IntOn(f, A \cup B)
  PROVE  SumFunctionOnSet(f, A \cup B) = SumFunctionOnSet(f, A) + SumFunctionOnSet(f, B)
<1> DEFINE Splits(T) == SumFunctionOnSet(f, A \cup T) = SumFunctionOnSet(f, A) + SumFunctionOnSet(f, T)
           P == {T \in SUBSET B : Splits(T)}
<1>1. \A T \in SUBSET B : /\ IsFiniteSet(T) /\ IsFiniteSet(A \cup T)
                          /\ IntOn(f, T) /\ IntOn(f, A) /\ IntOn(f, A \cup T)
  BY FS_Subset, FS_Union DEF IntOn
<1>2. {} \in P
  <2>1. A \cup {} = A /\ SumFunctionOnSet(f, {}) = 0
    BY SumEmpty
  <2>2. SumFunctionOnSet(f, A) \in Int
    BY <1>1, SumType
  <2> QED BY <2>1, <2>2
<1>3. ASSUME NEW T \in SUBSET B, NEW x \in B \ T, T \in P PROVE T \cup {x} \in P
  <2>1. A \cup (T \cup {x}) = (A \cup T) \cup {x} /\ x \notin A \cup T /\ T \cup {x} \in SUBSET B
    OBVIOUS
  <2>2. IsFiniteSet(T) /\ IsFiniteSet(A \cup T)
    BY <1>1
  <2>3. IntOn(f, T \cup {x}) /\ IntOn(f, (A \cup T) \cup {x})
    BY <1>1, <2>1
  <2>4. SumFunctionOnSet(f, (A \cup T) \cup {x}) = f[x] + SumFunctionOnSet(f, A \cup T)
    BY <2>1, <2>2, <2>3, SumAdd
  <2>5. SumFunctionOnSet(f, T \cup {x}) = f[x] + SumFunctionOnSet(f, T)
    BY <2>2, <2>3, SumAdd
  <2>6. SumFunctionOnSet(f, A) \in Int /\ SumFunctionOnSet(f, T) \in Int /\ f[x] \in Int
    BY <1>1, SumType DEF IntOn
  <2>7. Splits(T)
    BY <1>3
  <2>8. Splits(T \cup {x})
    <3> DEFINE a == SumFunctionOnSet(f, A)  b == SumFunctionOnSet(f, T)
    <3>1. SumFunctionOnSet(f, A \cup (T \cup {x})) = f[x] + (a + b)
      BY <2>1, <2>4, <2>7
    <3>2. SumFunctionOnSet(f, T \cup {x}) = f[x] + b
      BY <2>5
    <3>3. a \in Int /\ b \in Int /\ f[x] \in Int
      BY <2>6
    <3> HIDE DEF b
    <3>4. SumFunctionOnSet(f, A \cup (T \cup {x})) = a + SumFunctionOnSet(f, T \cup {x})
      <4> HIDE DEF a
      <4> QED BY <3>1, <3>2, <3>3
    <3> QED BY <3>4
  <2> QED BY <2>1, <2>8
<1>4. B \in P
  <2> HIDE DEF P
  <2> QED BY <1>2, <1>3, SubsetInduct
<1> QED BY <1>4

\* Only the values on the set count.
LEMMA SumSame ==
  ASSUME NEW S, IsFiniteSet(S), NEW f, IntOn(f, S), NEW g, \A x \in S : f[x] = g[x]
  PROVE  SumFunctionOnSet(f, S) = SumFunctionOnSet(g, S)
<1> DEFINE P == {T \in SUBSET S : SumFunctionOnSet(f, T) = SumFunctionOnSet(g, T)}
<1>1. {} \in P
  BY SumEmpty
<1>2. ASSUME NEW T \in SUBSET S, NEW x \in S \ T, T \in P PROVE T \cup {x} \in P
  <2>1. IsFiniteSet(T) /\ IntOn(f, T \cup {x}) /\ IntOn(g, T \cup {x})
    BY FS_Subset DEF IntOn
  <2> QED BY <1>2, <2>1, SumAdd
<1>3. S \in P
  <2> HIDE DEF P
  <2> QED BY <1>1, <1>2, SubsetInduct
<1> QED BY <1>3

\* The sum of a sum.
LEMMA SumPlus ==
  ASSUME NEW S, IsFiniteSet(S), NEW f, IntOn(f, S), NEW g, IntOn(g, S),
         NEW h, \A x \in S : h[x] = f[x] + g[x]
  PROVE  SumFunctionOnSet(h, S) = SumFunctionOnSet(f, S) + SumFunctionOnSet(g, S)
<1> DEFINE Adds(T) == SumFunctionOnSet(h, T) = SumFunctionOnSet(f, T) + SumFunctionOnSet(g, T)
           P == {T \in SUBSET S : Adds(T)}
<1>1. {} \in P
  BY SumEmpty
<1>2. ASSUME NEW T \in SUBSET S, NEW x \in S \ T, T \in P PROVE T \cup {x} \in P
  <2>1. /\ IsFiniteSet(T) /\ IntOn(f, T \cup {x}) /\ IntOn(g, T \cup {x}) /\ IntOn(h, T \cup {x})
        /\ IntOn(f, T) /\ IntOn(g, T)
    BY FS_Subset DEF IntOn
  <2>2. /\ SumFunctionOnSet(f, T \cup {x}) = f[x] + SumFunctionOnSet(f, T)
        /\ SumFunctionOnSet(g, T \cup {x}) = g[x] + SumFunctionOnSet(g, T)
        /\ SumFunctionOnSet(h, T \cup {x}) = h[x] + SumFunctionOnSet(h, T)
    BY <2>1, SumAdd
  <2>3. SumFunctionOnSet(f, T) \in Int /\ SumFunctionOnSet(g, T) \in Int
    BY <2>1, SumType
  <2>4. f[x] \in Int /\ g[x] \in Int /\ h[x] = f[x] + g[x]
    BY DEF IntOn
  <2>5. Adds(T)
    BY <1>2
  <2> QED BY <2>2, <2>3, <2>4, <2>5
<1>3. S \in P
  <2> HIDE DEF P
  <2> QED BY <1>1, <1>2, SubsetInduct
<1> QED BY <1>3

\* A smaller function has the smaller sum.
LEMMA SumMonotone ==
  ASSUME NEW S, IsFiniteSet(S), NEW f, IntOn(f, S), NEW g, IntOn(g, S), \A x \in S : f[x] <= g[x]
  PROVE  SumFunctionOnSet(f, S) <= SumFunctionOnSet(g, S)
<1> DEFINE Below(T) == SumFunctionOnSet(f, T) <= SumFunctionOnSet(g, T)
           P == {T \in SUBSET S : Below(T)}
<1>1. {} \in P
  BY SumEmpty
<1>2. ASSUME NEW T \in SUBSET S, NEW x \in S \ T, T \in P PROVE T \cup {x} \in P
  <2>1. /\ IsFiniteSet(T) /\ IntOn(f, T \cup {x}) /\ IntOn(g, T \cup {x})
        /\ IntOn(f, T) /\ IntOn(g, T)
    BY FS_Subset DEF IntOn
  <2>2. /\ SumFunctionOnSet(f, T \cup {x}) = f[x] + SumFunctionOnSet(f, T)
        /\ SumFunctionOnSet(g, T \cup {x}) = g[x] + SumFunctionOnSet(g, T)
    BY <2>1, SumAdd
  <2>3. SumFunctionOnSet(f, T) \in Int /\ SumFunctionOnSet(g, T) \in Int
    BY <2>1, SumType
  <2>4. f[x] \in Int /\ g[x] \in Int /\ f[x] <= g[x]
    BY DEF IntOn
  <2>5. Below(T)
    BY <1>2
  <2> QED BY <2>2, <2>3, <2>4, <2>5
<1>3. S \in P
  <2> HIDE DEF P
  <2> QED BY <1>1, <1>2, SubsetInduct
<1> QED BY <1>3

\* The sum over one element.
LEMMA SumSingle ==
  ASSUME NEW f, NEW x, f[x] \in Int
  PROVE  SumFunctionOnSet(f, {x}) = f[x]
<1>1. IsFiniteSet({}) /\ IntOn(f, {} \cup {x}) /\ {} \cup {x} = {x}
  BY FS_EmptySet DEF IntOn
<1> QED BY <1>1, SumAdd, SumEmpty

\* A sum of nothing but zeros.
LEMMA SumZero ==
  ASSUME NEW S, IsFiniteSet(S), NEW f, \A x \in S : f[x] = 0
  PROVE  SumFunctionOnSet(f, S) = 0
<1> DEFINE P == {T \in SUBSET S : SumFunctionOnSet(f, T) = 0}
<1>1. {} \in P
  BY SumEmpty
<1>2. ASSUME NEW T \in SUBSET S, NEW x \in S \ T, T \in P PROVE T \cup {x} \in P
  <2>1. IsFiniteSet(T) /\ IntOn(f, T \cup {x})
    BY FS_Subset DEF IntOn
  <2>2. SumFunctionOnSet(f, T \cup {x}) = f[x] + SumFunctionOnSet(f, T)
    BY <2>1, SumAdd
  <2> QED BY <1>2, <2>2
<1>3. S \in P
  <2> HIDE DEF P
  <2> QED BY <1>1, <1>2, SubsetInduct
<1> QED BY <1>3

NatOn(f, S) == \A x \in S : f[x] \in Nat

\* A sum of natural numbers is one.
LEMMA SumNat ==
  ASSUME NEW S, IsFiniteSet(S), NEW f, NatOn(f, S)
  PROVE  SumFunctionOnSet(f, S) \in Nat
<1> DEFINE zero == [x \in S |-> 0]
<1>1. IntOn(f, S) /\ IntOn(zero, S) /\ \A x \in S : zero[x] <= f[x]
  BY DEF NatOn, IntOn
<1>2. SumFunctionOnSet(zero, S) = 0
  BY SumZero
<1> HIDE DEF zero
<1>3. SumFunctionOnSet(zero, S) <= SumFunctionOnSet(f, S) /\ SumFunctionOnSet(f, S) \in Int
  BY <1>1, SumMonotone, SumType
<1> QED BY <1>2, <1>3

\* Of numbers, a part sums to no more than the whole.
LEMMA SumPart ==
  ASSUME NEW S, IsFiniteSet(S), NEW A \in SUBSET S, NEW f, NatOn(f, S)
  PROVE  SumFunctionOnSet(f, A) <= SumFunctionOnSet(f, S)
<1>1. IsFiniteSet(A) /\ IsFiniteSet(S \ A) /\ A \cap (S \ A) = {} /\ A \cup (S \ A) = S
  BY FS_Subset
<1>2. IntOn(f, S) /\ NatOn(f, A) /\ NatOn(f, S \ A)
  BY DEF IntOn, NatOn
<1>3. SumFunctionOnSet(f, A) \in Nat /\ SumFunctionOnSet(f, S \ A) \in Nat
  BY <1>1, <1>2, SumNat
<1>4. SumFunctionOnSet(f, S) = SumFunctionOnSet(f, A) + SumFunctionOnSet(f, S \ A)
  BY <1>1, <1>2, SumUnion
<1> QED BY <1>3, <1>4

\* No element is more than the whole.
LEMMA SumElement ==
  ASSUME NEW S, IsFiniteSet(S), NEW x \in S, NEW f, NatOn(f, S)
  PROVE  f[x] <= SumFunctionOnSet(f, S)
<1>1. {x} \in SUBSET S /\ f[x] \in Int
  BY DEF NatOn
<1> QED BY <1>1, SumPart, SumSingle

\* Summed class by class: g[t] is the sum over the elements h sends to t.
LEMMA SumClasses ==
  ASSUME NEW S, IsFiniteSet(S), NEW T, IsFiniteSet(T), NEW h, \A x \in S : h[x] \in T,
         NEW f, IntOn(f, S),
         NEW g, \A t \in T : g[t] = SumFunctionOnSet(f, {x \in S : h[x] = t})
  PROVE  SumFunctionOnSet(g, T) = SumFunctionOnSet(f, S)
<1> DEFINE In(U) == {x \in S : h[x] \in U}
           Class(t) == {x \in S : h[x] = t}
           Same(U) == SumFunctionOnSet(g, U) = SumFunctionOnSet(f, In(U))
           P == {U \in SUBSET T : Same(U)}
<1>1. \A U \in SUBSET S : IsFiniteSet(U) /\ IntOn(f, U)
  BY FS_Subset DEF IntOn
<1>2. IntOn(g, T)
  <2>1. \A t \in T : Class(t) \in SUBSET S
    OBVIOUS
  <2>2. \A t \in T : SumFunctionOnSet(f, Class(t)) \in Int
    BY <1>1, <2>1, SumType
  <2> QED BY <2>2 DEF IntOn
<1>3. {} \in P
  <2>1. In({}) = {}
    OBVIOUS
  <2> QED BY <2>1, SumEmpty
<1>4. ASSUME NEW U \in SUBSET T, NEW t \in T \ U, U \in P PROVE U \cup {t} \in P
  <2>1. /\ In(U \cup {t}) = In(U) \cup Class(t) /\ In(U) \cap Class(t) = {}
        /\ In(U) \in SUBSET S /\ Class(t) \in SUBSET S /\ In(U) \cup Class(t) \in SUBSET S
    OBVIOUS
  <2>2. SumFunctionOnSet(f, In(U) \cup Class(t)) = SumFunctionOnSet(f, In(U)) + SumFunctionOnSet(f, Class(t))
    <3> HIDE DEF In, Class
    <3> QED BY <1>1, <2>1, SumUnion
  <2>3. IsFiniteSet(U) /\ IntOn(g, U \cup {t})
    BY <1>2, FS_Subset DEF IntOn
  <2>4. SumFunctionOnSet(g, U \cup {t}) = g[t] + SumFunctionOnSet(g, U)
    BY <2>3, SumAdd
  <2>5. SumFunctionOnSet(f, In(U)) \in Int /\ SumFunctionOnSet(f, Class(t)) \in Int
    <3> HIDE DEF In, Class
    <3> QED BY <1>1, <2>1, SumType
  <2>6. Same(U) /\ g[t] = SumFunctionOnSet(f, Class(t))
    BY <1>4
  <2>7. Same(U \cup {t})
    <3> DEFINE a == SumFunctionOnSet(f, In(U))  b == SumFunctionOnSet(f, Class(t))
    <3>1. SumFunctionOnSet(f, In(U \cup {t})) = a + b
      <4> HIDE DEF In, Class
      <4> QED BY <2>1, <2>2
    <3>2. SumFunctionOnSet(g, U \cup {t}) = b + a
      BY <2>4, <2>6
    <3>3. a \in Int /\ b \in Int
      BY <2>5
    <3> HIDE DEF a, b, In, Class
    <3> QED BY <3>1, <3>2, <3>3
  <2> QED BY <2>7
<1>5. T \in P
  <2> HIDE DEF P
  <2> QED BY <1>3, <1>4, SubsetInduct
<1>6. In(T) = S
  OBVIOUS
<1> QED BY <1>5, <1>6

\* h names the elements of S by those of T, each once; f and g agree along it.
Renames(h, S, T) ==
  /\ \A x \in S : h[x] \in T
  /\ \A x, y \in S : h[x] = h[y] => x = y
  /\ \A t \in T : \E x \in S : h[x] = t
AgreeAlong(h, S, f, g) == \A x \in S : g[h[x]] = f[x]

\* Renaming the elements changes nothing.
LEMMA SumRenamed ==
  ASSUME NEW S, IsFiniteSet(S), NEW T, IsFiniteSet(T),
         NEW h, Renames(h, S, T), NEW f, IntOn(f, S), NEW g, AgreeAlong(h, S, f, g)
  PROVE  SumFunctionOnSet(g, T) = SumFunctionOnSet(f, S)
<1> USE DEF Renames, AgreeAlong
<1>1. ASSUME NEW t \in T PROVE g[t] = SumFunctionOnSet(f, {x \in S : h[x] = t})
  <2>1. PICK x \in S : h[x] = t
    OBVIOUS
  <2>2. {y \in S : h[y] = t} = {x} /\ f[x] \in Int
    BY <2>1 DEF IntOn
  <2> QED BY <2>1, <2>2, SumSingle
<1> QED BY <1>1, SumClasses

-----------------------------------------------------------------------------
(* Sums of the amounts of the rows of a kind, a kind being a set of rows.  *)

Taken(rows, K) == SumFunction([i \in {j \in DOMAIN rows : rows[j] \in K} |-> rows[i].amount])

\* The rows carry an amount.
HaveAmounts(R) == \A r \in R : r.amount \in Nat

Amounts(rows) == [i \in 1 .. Len(rows) |-> rows[i].amount]
Places(rows, K) == {j \in 1 .. Len(rows) : rows[j] \in K}

\* What is taken by a kind is a sum over the places of its rows.
LEMMA TakenSum ==
  ASSUME NEW R, HaveAmounts(R), NEW rows \in Seq(R), NEW K
  PROVE  /\ Taken(rows, K) = SumFunctionOnSet(Amounts(rows), Places(rows, K))
         /\ NatOn(Amounts(rows), 1 .. Len(rows)) /\ IntOn(Amounts(rows), 1 .. Len(rows))
         /\ NatOn(Amounts(rows), Places(rows, K)) /\ IntOn(Amounts(rows), Places(rows, K))
         /\ IsFiniteSet(1 .. Len(rows)) /\ IsFiniteSet(Places(rows, K))
         /\ DOMAIN rows = 1 .. Len(rows) /\ Len(rows) \in Nat
<1> DEFINE D == 1 .. Len(rows)
           part == [i \in Places(rows, K) |-> rows[i].amount]
<1>1. Len(rows) \in Nat /\ DOMAIN rows = D /\ \A i \in D : rows[i] \in R
  OBVIOUS
<1>2. \A i \in D : rows[i].amount \in Nat
  BY <1>1 DEF HaveAmounts
<1>3. Places(rows, K) \in SUBSET D /\ IsFiniteSet(D)
  BY <1>1, FS_Interval DEF Places
<1>4. IsFiniteSet(Places(rows, K))
  BY <1>3, FS_Subset
<1>5. NatOn(Amounts(rows), D) /\ IntOn(Amounts(rows), D)
  BY <1>2 DEF NatOn, IntOn, Amounts
<1>6. NatOn(Amounts(rows), Places(rows, K)) /\ IntOn(Amounts(rows), Places(rows, K))
  BY <1>3, <1>5 DEF NatOn, IntOn
<1>7. Taken(rows, K) = SumFunctionOnSet(part, Places(rows, K))
  BY <1>1 DEF Taken, SumFunction, Places
<1>8. \A i \in Places(rows, K) : Amounts(rows)[i] = part[i]
  BY <1>3 DEF Amounts
<1>9. SumFunctionOnSet(Amounts(rows), Places(rows, K)) = SumFunctionOnSet(part, Places(rows, K))
  <2> HIDE DEF part
  <2> QED BY <1>4, <1>6, <1>8, SumSame
<1> QED BY <1>1, <1>3, <1>4, <1>5, <1>6, <1>7, <1>9

\* It is a natural number.
LEMMA TakenNat ==
  ASSUME NEW R, HaveAmounts(R), NEW rows \in Seq(R), NEW K
  PROVE  Taken(rows, K) \in Nat
BY TakenSum, SumNat

\* The same amounts counted in the same places.
LEMMA TakenMoved ==
  ASSUME NEW R, HaveAmounts(R), NEW rows \in Seq(R), NEW other \in Seq(R), Len(other) = Len(rows),
         NEW K, NEW L,
         \A j \in 1 .. Len(rows) : other[j].amount = rows[j].amount /\ (rows[j] \in K <=> other[j] \in L)
  PROVE  Taken(other, L) = Taken(rows, K)
<1>1. Places(other, L) = Places(rows, K) /\ Amounts(other) = Amounts(rows)
  BY DEF Places, Amounts
<1> QED BY <1>1, TakenSum

\* More rows, none of them counted, and the old ones counted as before.
LEMMA TakenKept ==
  ASSUME NEW R, HaveAmounts(R), NEW rows \in Seq(R), NEW other \in Seq(R), Len(other) >= Len(rows),
         NEW K, NEW L,
         \A j \in 1 .. Len(rows) : other[j].amount = rows[j].amount /\ (rows[j] \in K <=> other[j] \in L),
         \A j \in 1 .. Len(other) : other[j] \in L => j \in 1 .. Len(rows)
  PROVE  Taken(other, L) = Taken(rows, K)
<1>1. Len(rows) \in Nat /\ Len(other) \in Nat
  OBVIOUS
<1>2. Places(other, L) = Places(rows, K) /\ \A j \in Places(rows, K) : Amounts(other)[j] = Amounts(rows)[j]
  BY <1>1 DEF Places, Amounts
<1> QED BY <1>2, TakenSum, SumSame

\* Two kinds that agree on the rows there are.
LEMMA TakenSame ==
  ASSUME NEW R, HaveAmounts(R), NEW rows \in Seq(R), NEW K, NEW L,
         \A j \in 1 .. Len(rows) : rows[j] \in K <=> rows[j] \in L
  PROVE  Taken(rows, L) = Taken(rows, K)
BY TakenMoved

\* A kind none of the rows is of.
LEMMA TakenNone ==
  ASSUME NEW R, HaveAmounts(R), NEW rows \in Seq(R), NEW K, \A j \in 1 .. Len(rows) : rows[j] \notin K
  PROVE  Taken(rows, K) = 0
<1>1. Places(rows, K) = {}
  BY DEF Places
<1> QED BY <1>1, TakenSum, SumEmpty

\* A kind one of the rows is of.
LEMMA TakenOne ==
  ASSUME NEW R, HaveAmounts(R), NEW rows \in Seq(R), NEW K,
         NEW i \in 1 .. Len(rows), rows[i] \in K, \A j \in 1 .. Len(rows) : rows[j] \in K => j = i
  PROVE  Taken(rows, K) = rows[i].amount
<1>1. Places(rows, K) = {i} /\ Amounts(rows)[i] = rows[i].amount /\ i \in Places(rows, K)
  BY DEF Places, Amounts
<1>2. Amounts(rows)[i] \in Int
  BY <1>1, TakenSum DEF IntOn
<1>3. SumFunctionOnSet(Amounts(rows), {i}) = Amounts(rows)[i]
  BY <1>2, SumSingle
<1>4. Taken(rows, K) = SumFunctionOnSet(Amounts(rows), Places(rows, K))
  BY TakenSum
<1> QED BY <1>1, <1>3, <1>4

\* A row counted is no more than what is counted.
LEMMA TakenSome ==
  ASSUME NEW R, HaveAmounts(R), NEW rows \in Seq(R), NEW K, NEW i \in 1 .. Len(rows), rows[i] \in K
  PROVE  rows[i].amount <= Taken(rows, K)
<1>1. i \in Places(rows, K) /\ Amounts(rows)[i] = rows[i].amount
  BY DEF Places, Amounts
<1> QED BY <1>1, TakenSum, SumElement

\* A kind that is the union of two disjoint ones.
LEMMA TakenSplit ==
  ASSUME NEW R, HaveAmounts(R), NEW rows \in Seq(R), NEW K, NEW L, NEW M,
         \A j \in 1 .. Len(rows) : /\ rows[j] \in M <=> rows[j] \in K \/ rows[j] \in L
                                   /\ ~(rows[j] \in K /\ rows[j] \in L)
  PROVE  Taken(rows, M) = Taken(rows, K) + Taken(rows, L)
<1>1. Places(rows, M) = Places(rows, K) \cup Places(rows, L) /\ Places(rows, K) \cap Places(rows, L) = {}
  BY DEF Places
<1>2. IntOn(Amounts(rows), Places(rows, K) \cup Places(rows, L))
  BY <1>1, TakenSum
<1> QED BY <1>1, <1>2, TakenSum, SumUnion

\* A kind that is part of another takes no more.
LEMMA TakenPart ==
  ASSUME NEW R, HaveAmounts(R), NEW rows \in Seq(R), NEW K, NEW L,
         \A j \in 1 .. Len(rows) : rows[j] \in K => rows[j] \in L
  PROVE  Taken(rows, K) <= Taken(rows, L)
<1>1. Places(rows, K) \in SUBSET Places(rows, L)
  BY DEF Places
<1> QED BY <1>1, TakenSum, SumPart

\* Rows written behind others.
LEMMA TakenConcat ==
  ASSUME NEW R, HaveAmounts(R), NEW rows \in Seq(R), NEW more \in Seq(R), NEW K
  PROVE  Taken(rows \o more, K) = Taken(rows, K) + Taken(more, K)
<1> DEFINE all == rows \o more
           A == Places(rows, K)
           B == {Len(rows) + j : j \in Places(more, K)}
           h == [j \in 1 .. Len(more) |-> Len(rows) + j]
           f == Amounts(all)
<1>1. /\ all \in Seq(R) /\ Len(all) = Len(rows) + Len(more) /\ Len(rows) \in Nat /\ Len(more) \in Nat
      /\ \A i \in 1 .. Len(rows) : all[i] = rows[i]
      /\ \A j \in 1 .. Len(more) : all[Len(rows) + j] = more[j]
  OBVIOUS
<1>2. Places(all, K) = A \cup B /\ A \cap B = {}
  <2> HIDE DEF all
  <2>1. ASSUME NEW i \in 1 .. Len(all), i \notin 1 .. Len(rows)
        PROVE i - Len(rows) \in 1 .. Len(more) /\ i = Len(rows) + (i - Len(rows))
    BY <1>1, <2>1
  <2>2. A \cup B \subseteq Places(all, K)
    BY <1>1 DEF Places
  <2>3. Places(all, K) \subseteq A \cup B
    <3> SUFFICES ASSUME NEW i \in 1 .. Len(all), all[i] \in K PROVE i \in A \cup B
      BY DEF Places
    <3>1. CASE i \in 1 .. Len(rows)
      BY <1>1, <3>1 DEF Places
    <3>2. CASE i \notin 1 .. Len(rows)
      <4>1. i - Len(rows) \in Places(more, K)
        BY <1>1, <2>1, <3>2 DEF Places
      <4> QED BY <2>1, <3>2, <4>1
    <3> QED BY <3>1, <3>2
  <2>4. A \cap B = {}
    BY <1>1 DEF Places
  <2> QED BY <2>2, <2>3, <2>4
<1>3. /\ IsFiniteSet(Places(more, K)) /\ IsFiniteSet(A) /\ IsFiniteSet(Places(all, K))
      /\ IntOn(f, Places(all, K)) /\ IntOn(Amounts(more), Places(more, K)) /\ IntOn(Amounts(rows), A)
  <2> HIDE DEF all
  <2> QED BY <1>1, TakenSum
<1>4. IsFiniteSet(B)
  <2>1. B \in SUBSET Places(all, K)
    BY <1>2
  <2> QED BY <1>3, <2>1, FS_Subset
<1>5. SumFunctionOnSet(f, B) = SumFunctionOnSet(Amounts(more), Places(more, K))
  <2>1. \A j \in Places(more, K) : h[j] = Len(rows) + j /\ h[j] \in B
    BY DEF Places
  <2>2. \A j \in Places(more, K) : f[h[j]] = Amounts(more)[j]
    BY <1>1, <2>1 DEF Places, Amounts
  <2>3. \A x, y \in Places(more, K) : h[x] = h[y] => x = y
    BY <1>1, <2>1 DEF Places
  <2>4. \A t \in B : \E x \in Places(more, K) : h[x] = t
    BY <2>1
  <2> HIDE DEF B, h, f, all
  <2>5. Renames(h, Places(more, K), B) /\ AgreeAlong(h, Places(more, K), Amounts(more), f)
    BY <2>1, <2>2, <2>3, <2>4 DEF Renames, AgreeAlong
  <2> QED BY <1>3, <1>4, <2>5, SumRenamed
<1>6. SumFunctionOnSet(f, A) = SumFunctionOnSet(Amounts(rows), A)
  <2>1. \A i \in A : Amounts(rows)[i] = f[i]
    BY <1>1 DEF Places, Amounts
  <2> HIDE DEF f, A
  <2> QED BY <1>3, <2>1, SumSame
<1>7. SumFunctionOnSet(f, A \cup B) = SumFunctionOnSet(f, A) + SumFunctionOnSet(f, B)
  <2> HIDE DEF A, B, f, all
  <2> QED BY <1>2, <1>3, <1>4, SumUnion
<1>8. Taken(all, K) = SumFunctionOnSet(f, Places(all, K))
  <2> HIDE DEF all
  <2> QED BY <1>1, TakenSum
<1>9. Taken(rows, K) = SumFunctionOnSet(Amounts(rows), A)
        /\ Taken(more, K) = SumFunctionOnSet(Amounts(more), Places(more, K))
  BY TakenSum
<1> HIDE DEF A, B, f, all, h
<1> QED BY <1>2, <1>5, <1>6, <1>7, <1>8, <1>9 DEF all

\* One row more.
LEMMA TakenAppend ==
  ASSUME NEW R, HaveAmounts(R), NEW rows \in Seq(R), NEW r \in R, NEW K
  PROVE  Taken(Append(rows, r), K) = Taken(rows, K) + IF r \in K THEN r.amount ELSE 0
<1> DEFINE one == <<r>>
<1>1. one \in Seq(R) /\ Append(rows, r) = rows \o one /\ Len(one) = 1 /\ one[1] = r
  OBVIOUS
<1> HIDE DEF one
<1>2. Taken(Append(rows, r), K) = Taken(rows, K) + Taken(one, K)
  BY <1>1, TakenConcat
<1>3. CASE r \in K
  <2>1. 1 \in 1 .. Len(one) /\ one[1] \in K /\ \A j \in 1 .. Len(one) : one[j] \in K => j = 1
    BY <1>1, <1>3
  <2>2. Taken(one, K) = r.amount
    BY <1>1, <2>1, TakenOne
  <2> QED BY <1>2, <1>3, <2>2
<1>4. CASE r \notin K
  <2>1. \A j \in 1 .. Len(one) : one[j] \notin K
    BY <1>1, <1>4
  <2>2. Taken(one, K) = 0
    BY <1>1, <2>1, TakenNone
  <2> QED BY <1>2, <1>4, <2>2
<1> QED BY <1>3, <1>4

\* One row rewritten, its amount unchanged.
LEMMA TakenStamped ==
  ASSUME NEW R, HaveAmounts(R), NEW rows \in Seq(R), NEW i \in 1 .. Len(rows),
         NEW r \in R, r.amount = rows[i].amount, NEW K
  PROVE  /\ [rows EXCEPT ![i] = r] \in Seq(R)
         /\ Taken([rows EXCEPT ![i] = r], K) =
              Taken(rows, K) - (IF rows[i] \in K THEN r.amount ELSE 0) + (IF r \in K THEN r.amount ELSE 0)
<1> DEFINE new == [rows EXCEPT ![i] = r]
           S == Places(rows, K) \ {i}
           f == Amounts(rows)
<1>1. new \in Seq(R) /\ Len(new) = Len(rows) /\ new[i] = r /\ \A j \in 1 .. Len(rows) : j # i
        => new[j] = rows[j]
  OBVIOUS
<1> HIDE DEF new
<1>2. Amounts(new) = f
  BY <1>1 DEF Amounts
<1>3. /\ IsFiniteSet(Places(rows, K)) /\ IsFiniteSet(Places(new, K)) /\ IntOn(f, 1 .. Len(rows))
      /\ Taken(rows, K) = SumFunctionOnSet(f, Places(rows, K))
      /\ Taken(new, K) = SumFunctionOnSet(f, Places(new, K))
  BY <1>1, <1>2, TakenSum
<1>4. \A Q : Places(rows, Q) \subseteq 1 .. Len(rows) /\ Places(new, Q) \subseteq 1 .. Len(rows)
  BY <1>1 DEF Places
<1>5. IsFiniteSet(S) /\ f[i] = r.amount /\ f[i] \in Int /\ IntOn(f, S)
  BY <1>3, <1>4, FS_Subset DEF Amounts, IntOn
<1>6. SumFunctionOnSet(f, S) \in Int
  <2> HIDE DEF S, f
  <2> QED BY <1>5, SumType
<1>7. ASSUME NEW P \in {Places(rows, K), Places(new, K)}
      PROVE  SumFunctionOnSet(f, P) = SumFunctionOnSet(f, S) + (IF i \in P THEN f[i] ELSE 0)
  <2>1. P \ {i} = S
    BY <1>1 DEF Places
  <2>2. CASE i \in P
    <3>1. IsFiniteSet(P) /\ IntOn(f, P)
      BY <1>3, <1>4 DEF IntOn
    <3>2. SumFunctionOnSet(f, P) = f[i] + SumFunctionOnSet(f, P \ {i})
      <4> HIDE DEF f
      <4> QED BY <2>2, <3>1, SumRemove
    <3> DEFINE fi == f[i]  rest == SumFunctionOnSet(f, S)
    <3>3. SumFunctionOnSet(f, P) = fi + rest
      <4> HIDE DEF S, f
      <4> QED BY <2>1, <3>2
    <3>4. fi \in Int /\ rest \in Int
      <4> HIDE DEF S
      <4> QED BY <1>5, <1>6
    <3> HIDE DEF fi, rest
    <3>5. SumFunctionOnSet(f, P) = rest + (IF i \in P THEN fi ELSE 0)
      BY <2>2, <3>3, <3>4
    <3> QED BY <3>5 DEF fi, rest
  <2>3. CASE i \notin P
    <3>1. P = S
      BY <2>1, <2>3
    <3> HIDE DEF S, f
    <3> QED BY <1>6, <2>3, <3>1
  <2> QED BY <2>2, <2>3
<1>8. (i \in Places(rows, K) <=> rows[i] \in K) /\ (i \in Places(new, K) <=> r \in K)
  BY <1>1 DEF Places
<1>9. /\ Taken(rows, K) = SumFunctionOnSet(f, S) + (IF rows[i] \in K THEN f[i] ELSE 0)
      /\ Taken(new, K) = SumFunctionOnSet(f, S) + (IF r \in K THEN f[i] ELSE 0)
  <2> HIDE DEF S, f
  <2> QED BY <1>3, <1>7, <1>8
<1> HIDE DEF S, f
<1>10. Taken(new, K) = Taken(rows, K) - (IF rows[i] \in K THEN r.amount ELSE 0) + (IF r \in K THEN r.amount ELSE 0)
  BY <1>5, <1>6, <1>9
<1> QED BY <1>1, <1>10 DEF new

\* A kind that falls into disjoint kinds K[t].
LEMMA TakenClasses ==
  ASSUME NEW R, HaveAmounts(R), NEW rows \in Seq(R), NEW T, IsFiniteSet(T), NEW K, NEW M,
         \A j \in 1 .. Len(rows) :
           /\ rows[j] \in M <=> \E t \in T : rows[j] \in K[t]
           /\ \A t, u \in T : rows[j] \in K[t] /\ rows[j] \in K[u] => t = u,
         NEW g, \A t \in T : g[t] = Taken(rows, K[t])
  PROVE  SumFunctionOnSet(g, T) = Taken(rows, M)
<1> DEFINE S == Places(rows, M)
           f == Amounts(rows)
           h == [j \in S |-> CHOOSE t \in T : rows[j] \in K[t]]
<1>1. IsFiniteSet(S) /\ IntOn(f, S) /\ Taken(rows, M) = SumFunctionOnSet(f, S)
  BY TakenSum
<1>2. \A j \in S : h[j] \in T /\ rows[j] \in K[h[j]] /\ j \in 1 .. Len(rows)
  BY DEF Places
<1>3. ASSUME NEW t \in T PROVE g[t] = SumFunctionOnSet(f, {j \in S : h[j] = t})
  <2>1. {j \in S : h[j] = t} = Places(rows, K[t])
    <3> HIDE DEF h
    <3>1. {j \in S : h[j] = t} \subseteq Places(rows, K[t])
      BY <1>2 DEF Places
    <3>2. ASSUME NEW j \in Places(rows, K[t]) PROVE j \in S /\ h[j] = t
      <4>1. j \in 1 .. Len(rows) /\ rows[j] \in K[t]
        BY DEF Places
      <4>2. j \in S
        BY <4>1 DEF Places
      <4> QED BY <1>2, <4>1, <4>2
    <3> QED BY <3>1, <3>2
  <2>2. Taken(rows, K[t]) = SumFunctionOnSet(f, Places(rows, K[t]))
    BY TakenSum
  <2> QED BY <2>1, <2>2
<1>4. \A j \in S : h[j] \in T
  BY <1>2
<1> HIDE DEF S, f, h
<1> QED BY <1>1, <1>3, <1>4, SumClasses

\* A sequence over a subset is one over the set.
LEMMA SeqSubset ==
  ASSUME NEW T, NEW S \in SUBSET T, NEW s \in Seq(S)
  PROVE  s \in Seq(T)
OBVIOUS

\* Appending is concatenating one element.
LEMMA AppendOne ==
  ASSUME NEW S, NEW s \in Seq(S), NEW x \in S
  PROVE  Append(s, x) = s \o <<x>>
OBVIOUS

\* A function on 1 .. n is a sequence.
LEMMA FunctionIsSeq ==
  ASSUME NEW S, NEW n \in Nat, NEW f \in [1 .. n -> S]
  PROVE  f \in Seq(S) /\ Len(f) = n /\ DOMAIN f = 1 .. n
OBVIOUS

-----------------------------------------------------------------------------
(* The elements of a set, each at its rank.                                *)

StrictOrder(R, S) ==
  /\ \A x \in S : <<x, x>> \notin R
  /\ \A x, y, z \in S : <<x, y>> \in R /\ <<y, z>> \in R => <<x, z>> \in R
  /\ \A x, y \in S : x # y => <<x, y>> \in R \/ <<y, x>> \in R

Before(x, R, S) == {y \in S : <<y, x>> \in R}
Ranked(s, R, S) ==
  /\ s = [k \in 1 .. Cardinality(S) |-> s[k]]
  /\ \A k \in 1 .. Cardinality(S) :
       (\E x \in S : Cardinality(Before(x, R, S)) = k - 1) =>
         s[k] \in S /\ Cardinality(Before(s[k], R, S)) = k - 1

\* s lists the elements of S, each once.
Lists(s, S) ==
  /\ s \in Seq(S) /\ Len(s) = Cardinality(S) /\ Cardinality(S) \in Nat /\ s \in [1 .. Len(s) -> S]
  /\ \A j, k \in 1 .. Len(s) : s[j] = s[k] => j = k
  /\ \A x \in S : \E k \in 1 .. Len(s) : s[k] = x

\* Every element of a strictly ordered set is found at its rank, and nowhere else.
LEMMA RankedLists ==
  ASSUME NEW S, IsFiniteSet(S), NEW R, StrictOrder(R, S), NEW s, Ranked(s, R, S)
  PROVE  Lists(s, S)
<1> DEFINE n == Cardinality(S)
           B(x) == Before(x, R, S)
           rank == [x \in S |-> Cardinality(B(x)) + 1]
<1>1. n \in Nat
  BY FS_CardinalityType
<1>2. ASSUME NEW x \in S
      PROVE  /\ IsFiniteSet(B(x)) /\ Cardinality(B(x)) \in Nat /\ Cardinality(B(x)) < n
  <2>1. B(x) \in SUBSET S /\ B(x) # S
    BY DEF StrictOrder, Before
  <2> HIDE DEF B
  <2>2. IsFiniteSet(B(x)) /\ Cardinality(B(x)) <= n /\ (n = Cardinality(B(x)) => S = B(x))
    BY <2>1, FS_Subset
  <2>3. Cardinality(B(x)) \in Nat
    BY <2>2, FS_CardinalityType
  <2> QED BY <1>1, <2>1, <2>2, <2>3
<1>3. ASSUME NEW x \in S, NEW y \in S, <<x, y>> \in R PROVE Cardinality(B(x)) < Cardinality(B(y))
  <2>1. B(x) \in SUBSET B(y) /\ x \in B(y) /\ x \notin B(x)
    BY <1>3 DEF StrictOrder, Before
  <2> HIDE DEF B
  <2>2. IsFiniteSet(B(y)) /\ Cardinality(B(x)) \in Nat /\ Cardinality(B(y)) \in Nat
    BY <1>2
  <2>3. Cardinality(B(x)) <= Cardinality(B(y)) /\ (Cardinality(B(y)) = Cardinality(B(x)) => B(y) = B(x))
    BY <2>1, <2>2, FS_Subset
  <2> QED BY <2>1, <2>2, <2>3
<1>4. \A x, y \in S : Cardinality(B(x)) = Cardinality(B(y)) => x = y
  <2> SUFFICES ASSUME NEW x \in S, NEW y \in S, Cardinality(B(x)) = Cardinality(B(y)), x # y PROVE FALSE
    OBVIOUS
  <2>1. <<x, y>> \in R \/ <<y, x>> \in R
    BY DEF StrictOrder
  <2> HIDE DEF B
  <2> QED BY <1>2, <1>3, <2>1
<1> HIDE DEF B
<1>5. rank \in Injection(S, 1 .. n)
  <2>1. \A x \in S : rank[x] = Cardinality(B(x)) + 1 /\ rank[x] \in 1 .. n
    BY <1>1, <1>2
  <2>2. \A x, y \in S : rank[x] = rank[y] => x = y
    BY <1>2, <1>4, <2>1
  <2> QED BY <2>1, <2>2 DEF Injection, IsInjective
<1>6. rank \in Surjection(S, 1 .. n)
  <2>1. IsFiniteSet(1 .. n) /\ Cardinality(1 .. n) = n
    BY <1>1, FS_Interval
  <2> HIDE DEF rank, n
  <2> QED BY <1>5, <2>1, FS_Injection DEF n
<1>7. ASSUME NEW k \in 1 .. n
      PROVE  s[k] \in S /\ Cardinality(B(s[k])) = k - 1
  <2>1. PICK x \in S : rank[x] = k
    BY <1>6 DEF Surjection
  <2>2. Cardinality(B(x)) = k - 1
    BY <1>2, <2>1
  <2> QED BY <2>2 DEF Ranked, B
<1>8. DOMAIN s = 1 .. n /\ s \in [1 .. n -> S]
  <2>1. s \in [1 .. n -> {s[k] : k \in 1 .. n}]
    BY DEF Ranked
  <2> QED BY <1>7, <2>1
<1>9. s \in Seq(S) /\ Len(s) = n
  BY <1>1, <1>8
<1>10. \A j, k \in 1 .. n : s[j] = s[k] => j = k
  BY <1>1, <1>7
<1>11. ASSUME NEW x \in S PROVE \E k \in 1 .. n : s[k] = x
  <2> DEFINE k == Cardinality(B(x)) + 1
  <2>1. k \in 1 .. n /\ Cardinality(B(x)) = k - 1
    BY <1>1, <1>2
  <2>2. s[k] \in S /\ Cardinality(B(s[k])) = Cardinality(B(x))
    <3> HIDE DEF k
    <3> QED BY <1>7, <2>1
  <2> QED BY <1>4, <2>1, <2>2
<1> QED BY <1>1, <1>8, <1>9, <1>10, <1>11 DEF Lists

-----------------------------------------------------------------------------
(* FoldLeft: the largest index of what is left is folded last.             *)

\* The largest number of 1 .. k, and what is left without it.
LEMMA MaxOfPrefix ==
  ASSUME NEW k \in Nat, k # 0
  PROVE  Max(1 .. k) = k /\ (1 .. k) \ {Max(1 .. k)} = 1 .. (k - 1)
<1>1. k \in 1 .. k /\ \A y \in 1 .. k : k >= y
  OBVIOUS
<1>2. Max(1 .. k) \in 1 .. k /\ \A y \in 1 .. k : Max(1 .. k) >= y
  BY <1>1 DEF Max
<1>3. Max(1 .. k) = k
  BY <1>1, <1>2
<1> QED BY <1>3

\* The largest of some numbers is one of them.
LEMMA MaxIn ==
  ASSUME NEW n \in Nat, NEW s \in SUBSET (1 .. n), s # {}
  PROVE  Max(s) \in s
<1> DEFINE T == {n - x : x \in s}
<1>1. T \in SUBSET Nat /\ T # {}
  <2>1. \A x \in s : x \in Int /\ x <= n
    OBVIOUS
  <2>2. \A x \in s : n - x \in Nat
    BY <2>1
  <2> QED BY <2>2
<1>2. PICK m \in T : \A y \in T : m <= y
  <2> HIDE DEF T
  <2> QED BY <1>1, LeastElement
<1>3. PICK x \in s : m = n - x
  OBVIOUS
<1>4. ASSUME NEW y \in s PROVE x >= y
  <2>1. n - y \in T
    OBVIOUS
  <2>0. x \in 1 .. n /\ y \in 1 .. n
    OBVIOUS
  <2>2. m <= n - y
    BY <1>2, <2>1
  <2> QED BY <1>3, <2>0, <2>2
<1> QED BY <1>4 DEF Max

\* it folds step over 1 .. n, from v0.
FoldsUp(it, n, V, v0, step) ==
  \A s \in SUBSET (1 .. n) : it[s] = IF s = {} THEN v0 ELSE step[<<Max(s), it[s \ {Max(s)}]>>]

Foldable(n, V, v0, step) == \E it \in [SUBSET (1 .. n) -> V] : FoldsUp(it, n, V, v0, step)

\* A fold over 1 .. n has a value at every subset.
LEMMA FoldExists ==
  ASSUME NEW n \in Nat, NEW V, NEW v0 \in V, NEW step \in [(1 .. n) \X V -> V]
  PROVE  Foldable(n, V, v0, step)
<1> DEFINE S == 1 .. n
           pick == [s \in SUBSET S |-> Max(s)]
<1>1. IsFiniteSet(S)
  BY FS_Interval
<1>2. Picks(pick, S)
  BY MaxIn DEF Picks
<1>3. Computable(S, V, v0, pick, step)
  <2> HIDE DEF pick, S
  <2>1. step \in [S \X V -> V]
    BY DEF S
  <2> QED BY <1>1, <1>2, <2>1, RecursionExists
<1>4. PICK it \in [SUBSET S -> V] : Computes(it, S, V, v0, pick, step)
  <2> HIDE DEF pick, S
  <2> QED BY <1>3 DEF Computable
<1>5. \A s \in SUBSET S : pick[s] = Max(s)
  OBVIOUS
<1> HIDE DEF pick
<1>6. FoldsUp(it, n, V, v0, step)
  BY <1>4, <1>5 DEF Computes, FoldsUp
<1> QED BY <1>6 DEF Foldable

\* g starts with v0 and takes the step whenever it is in V one element before.
StepsFrom(g, n, V, v0, step) ==
  /\ g[{}] = v0
  /\ \A s \in SUBSET (1 .. n) :
       s # {} /\ g[s \ {Max(s)}] \in V => g[s] = step[<<Max(s), g[s \ {Max(s)}]>>]

\* acc is the accumulator after every element, g its last value.
Accumulates(acc, n, V, v0, step) ==
  /\ acc \in [0 .. n -> V] /\ acc[0] = v0
  /\ \A k \in 1 .. n : acc[k] = step[<<k, acc[k - 1]>>]

FoldsTo(v, n, V, v0, step) == \E acc : Accumulates(acc, n, V, v0, step) /\ acc[n] = v

\* What FoldLeft computes is the last of the accumulators, one per element.
LEMMA FoldAccumulates ==
  ASSUME NEW n \in Nat, NEW V, NEW v0 \in V, NEW step \in [(1 .. n) \X V -> V],
         NEW g, StepsFrom(g, n, V, v0, step)
  PROVE  FoldsTo(g[1 .. n], n, V, v0, step)
<1> DEFINE acc == [k \in 0 .. n |-> g[1 .. k]]
           P == {k \in Nat : k <= n => /\ g[1 .. k] \in V
                                       /\ k # 0 => g[1 .. k] = step[<<k, g[1 .. k - 1]>>]}
<1>1. 1 .. 0 = {}
  OBVIOUS
<1>2. 0 \in P
  BY <1>1 DEF StepsFrom
<1>3. ASSUME NEW k \in Nat, k \in P PROVE k + 1 \in P
  <2> SUFFICES ASSUME k + 1 <= n
               PROVE  g[1 .. k + 1] \in V /\ g[1 .. k + 1] = step[<<k + 1, g[1 .. k]>>]
    OBVIOUS
  <2>1. g[1 .. k] \in V
    BY <1>3
  <2>2. Max(1 .. k + 1) = k + 1 /\ (1 .. k + 1) \ {Max(1 .. k + 1)} = 1 .. k
    BY MaxOfPrefix
  <2>3. 1 .. k + 1 \in SUBSET (1 .. n) /\ 1 .. k + 1 # {} /\ k + 1 \in 1 .. n
    OBVIOUS
  <2>4. g[1 .. k + 1] = step[<<k + 1, g[1 .. k]>>]
    BY <2>1, <2>2, <2>3 DEF StepsFrom
  <2> QED BY <2>1, <2>3, <2>4
<1>4. \A k \in Nat : k \in P
  <2> HIDE DEF P
  <2> QED BY <1>2, <1>3, NatInduct
<1>5. acc \in [0 .. n -> V]
  <2>1. ASSUME NEW k \in 0 .. n PROVE g[1 .. k] \in V
    <3>1. k \in Nat /\ k <= n
      OBVIOUS
    <3>2. k \in P
      <4> HIDE DEF P
      <4> QED BY <1>4, <3>1
    <3> QED BY <3>1, <3>2
  <2> QED BY <2>1
<1>6. acc[0] = v0
  BY <1>1 DEF StepsFrom
<1>7. \A k \in 1 .. n : acc[k] = step[<<k, acc[k - 1]>>]
  BY <1>4
<1>8. acc[n] = g[1 .. n]
  OBVIOUS
<1>9. Accumulates(acc, n, V, v0, step)
  BY <1>5, <1>6, <1>7 DEF Accumulates
<1> QED BY <1>8, <1>9 DEF FoldsTo

-----------------------------------------------------------------------------
(* FlattenSeq.                                                             *)

\* Every element of every sequence is an element of the flattened one.
Covers(flat, seqs) ==
  \A i \in 1 .. Len(seqs) : \A j \in 1 .. Len(seqs[i]) : \E k \in 1 .. Len(flat) : flat[k] = seqs[i][j]

\* FlattenSeq keeps the elements and loses none.
LEMMA FlattenCovers ==
  ASSUME NEW V, NEW seqs \in Seq(Seq(V))
  PROVE  FlattenSeq(seqs) \in Seq(V) /\ Covers(FlattenSeq(seqs), seqs)
<1> DEFINE n == Len(seqs)
           Eq(f, m) == f = [i \in 1 .. m |-> IF i = 1 THEN seqs[i] ELSE f[i - 1] \o seqs[i]]
           At(f, m) == \A i \in 1 .. m : f[i] = IF i = 1 THEN seqs[i] ELSE f[i - 1] \o seqs[i]
           Good(m) == \E f \in [1 .. m -> Seq(V)] : At(f, m)
           P == {m \in Nat : m <= n => Good(m)}
<1>1. n \in Nat /\ \A i \in 1 .. n : seqs[i] \in Seq(V)
  OBVIOUS
<1>2. CASE n = 0
  <2>1. FlattenSeq(seqs) = seqs /\ seqs = <<>>
    BY <1>2 DEF FlattenSeq
  <2> QED BY <2>1 DEF Covers
<1>3. CASE n # 0
  <2>1. 0 \in P
    <3>1. [i \in 1 .. 0 |-> <<>>] \in [1 .. 0 -> Seq(V)] /\ At([i \in 1 .. 0 |-> <<>>], 0)
      OBVIOUS
    <3> QED BY <3>1
  <2>2. ASSUME NEW m \in Nat, m \in P PROVE m + 1 \in P
    <3> SUFFICES ASSUME m + 1 <= n PROVE Good(m + 1)
      <4> HIDE DEF Good
      <4> QED OBVIOUS
    <3>0. Good(m)
      <4> HIDE DEF Good
      <4> QED BY <1>1, <2>2
    <3>1. PICK f \in [1 .. m -> Seq(V)] : At(f, m)
      <4> HIDE DEF At
      <4> QED BY <3>0
    <3> DEFINE last == IF m = 0 THEN seqs[1] ELSE f[m] \o seqs[m + 1]
               g == [i \in 1 .. m + 1 |-> IF i = m + 1 THEN last ELSE f[i]]
    <3>2. last \in Seq(V)
      BY <1>1
    <3> HIDE DEF last
    <3>3. g \in [1 .. m + 1 -> Seq(V)]
      BY <3>2
    <3>4. ASSUME NEW i \in 1 .. m + 1 PROVE g[i] = IF i = 1 THEN seqs[i] ELSE g[i - 1] \o seqs[i]
      <4>1. CASE i = m + 1
        <5>1. CASE m = 0
          BY <4>1, <5>1 DEF last
        <5>2. CASE m # 0
          <6>1. i # 1 /\ i - 1 = m /\ m \in 1 .. m + 1 /\ m # m + 1
            BY <4>1, <5>2
          <6>2. g[m] = f[m] /\ g[i] = f[m] \o seqs[m + 1]
            BY <4>1, <5>2, <6>1 DEF last
          <6> HIDE DEF g
          <6> QED BY <4>1, <6>1, <6>2
        <5> QED BY <5>1, <5>2
      <4>2. CASE i # m + 1
        <5>1. i \in 1 .. m /\ (i # 1 => i - 1 \in 1 .. m)
          BY <4>2
        <5>2. g[i] = f[i] /\ (i # 1 => g[i - 1] = f[i - 1])
          BY <5>1
        <5> HIDE DEF g
        <5> QED BY <3>1, <5>1, <5>2
      <4> QED BY <4>1, <4>2
    <3>5. At(g, m + 1)
      BY <3>4
    <3> HIDE DEF g, At
    <3> QED BY <3>3, <3>5
  <2>3. n \in P
    <3> HIDE DEF P, n
    <3> QED BY <1>1, <2>1, <2>2, NatInduct
  <2>4. PICK f \in [1 .. n -> Seq(V)] : At(f, n)
    BY <1>1, <2>3
  <2>5. Eq(f, n)
    BY <2>4
  <2> DEFINE g == CHOOSE g : Eq(g, n)
  <2>6. Eq(g, n)
    <3> HIDE DEF Eq
    <3> QED BY <2>5
  <2>7. FlattenSeq(seqs) = g[n]
    BY <1>3 DEF FlattenSeq
  <2> HIDE DEF g
  <2>8. At(g, n)
    BY <2>6
  <2> DEFINE Upto(m) == /\ g[m] \in Seq(V)
                        /\ \A i \in 1 .. m : \A j \in 1 .. Len(seqs[i]) : \E k \in 1 .. Len(g[m]) : g[m][k] = seqs[i][j]
             Q == {m \in Nat : 1 <= m /\ m <= n => Upto(m)}
  <2>9. 0 \in Q
    OBVIOUS
  <2>10. ASSUME NEW m \in Nat, m \in Q PROVE m + 1 \in Q
    <3> SUFFICES ASSUME m + 1 <= n PROVE Upto(m + 1)
      OBVIOUS
    <3>1. CASE m = 0
      <4>1. g[1] = seqs[1] /\ 1 \in 1 .. n /\ seqs[1] \in Seq(V)
        BY <1>1, <2>8, <3>1
      <4>2. Upto(1)
        BY <4>1
      <4> QED BY <3>1, <4>2
    <3>2. CASE m # 0
      <4>1. g[m + 1] = g[m] \o seqs[m + 1] /\ Upto(m) /\ seqs[m + 1] \in Seq(V)
        <5>1. m + 1 \in 1 .. n /\ m + 1 # 1 /\ (m + 1) - 1 = m
          BY <1>1, <3>2
        <5>2. g[m + 1] = g[m] \o seqs[m + 1]
          BY <2>8, <5>1
        <5>3. 1 <= m /\ m <= n
          BY <1>1, <3>2
        <5>4. Upto(m)
          <6> HIDE DEF Upto
          <6> QED BY <2>10, <5>3
        <5>5. seqs[m + 1] \in Seq(V)
          BY <1>1, <5>1
        <5> HIDE DEF Upto
        <5> QED BY <5>2, <5>4, <5>5
      <4> DEFINE a == g[m]  b == seqs[m + 1]
      <4>2. /\ a \in Seq(V) /\ b \in Seq(V) /\ a \o b \in Seq(V) /\ Len(a \o b) = Len(a) + Len(b)
            /\ \A k \in 1 .. Len(a) : (a \o b)[k] = a[k] /\ k \in 1 .. Len(a \o b)
            /\ \A k \in 1 .. Len(b) : (a \o b)[Len(a) + k] = b[k] /\ Len(a) + k \in 1 .. Len(a \o b)
        <5>1. a \in Seq(V) /\ b \in Seq(V)
          BY <4>1
        <5> HIDE DEF a, b
        <5> QED BY <5>1
      <4>3. ASSUME NEW i \in 1 .. m + 1, NEW j \in 1 .. Len(seqs[i])
            PROVE  \E k \in 1 .. Len(a \o b) : (a \o b)[k] = seqs[i][j]
        <5>1. CASE i = m + 1
          <6>1. j \in 1 .. Len(b) /\ seqs[i][j] = b[j]
            BY <5>1
          <6> HIDE DEF a, b
          <6> QED BY <4>2, <6>1
        <5>2. CASE i # m + 1
          <6>1. PICK k \in 1 .. Len(a) : a[k] = seqs[i][j]
            BY <4>1, <5>2
          <6> HIDE DEF a, b
          <6> QED BY <4>2, <6>1
        <5> QED BY <5>1, <5>2
      <4> HIDE DEF a, b
      <4>4. g[m + 1] = a \o b
        BY <4>1 DEF a, b
      <4> QED BY <4>2, <4>3, <4>4
    <3> QED BY <3>1, <3>2
  <2>11. n \in Q
    <3> HIDE DEF Q, n
    <3> QED BY <1>1, <2>9, <2>10, NatInduct
  <2>12. Upto(n)
    BY <1>1, <1>3, <2>11
  <2> QED BY <2>7, <2>12 DEF Covers
<1> QED BY <1>2, <1>3

=============================================================================
