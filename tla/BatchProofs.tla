------------------------------ MODULE BatchProofs ------------------------------
(***************************************************************************)
(* Proofs about DepositBatch, for any allocations, batches and requests:   *)
(* type correctness, that a batch that has returned moves no more funds,   *)
(* that the receipts account for them, and that retrying what no outcome   *)
(* names deposits nothing twice.                                           *)
(***************************************************************************)
EXTENDS DepositBatch, FunctionTheorems, FiniteSetTheorems, TLAPS

--------------------------------------------------------------------------------
(* Sums over a finite set (SumFunctionOnSet): that the order of summation does not *)
(* matter, and what follows for sums that are compared, or differ in one place. The *)
(* library states none of it. *)

\* Induction over the subsets of a finite set, on membership of a set of them.
LEMMA SubsetInduction ==
    ASSUME NEW S, IsFiniteSet(S), NEW Good,
           \A T \in SUBSET S : (\A U \in SUBSET T : U # T => U \in Good) => T \in Good
    PROVE  S \in Good
<1> SUFFICES ASSUME S \notin Good PROVE FALSE
  OBVIOUS
<1> DEFINE Bad == (SUBSET S) \ Good
<1>1. Bad \subseteq SUBSET S /\ S \in Bad
  OBVIOUS
<1>2. FiniteSubsetsOf(S) = SUBSET S
  BY FS_FiniteSubsetsOfFinite
<1>3. IsWellFoundedOn(StrictSubsetOrdering(S), FiniteSubsetsOf(S))
  BY FS_StrictSubsetOrderingWellFounded
<1>4. PICK T \in Bad : \A U \in Bad : <<U, T>> \notin StrictSubsetOrdering(S)
  <2>1. Bad \subseteq FiniteSubsetsOf(S) /\ Bad # {}
    BY <1>1, <1>2
  <2> HIDE DEF Bad
  <2> QED
    BY <1>3, <2>1, WFMin
<1>5. ASSUME NEW U \in SUBSET T, U # T PROVE U \in Good
  <2>1. T \in SUBSET S /\ U \in SUBSET S
    BY <1>1
  <2>2. <<U, T>> \in StrictSubsetOrdering(S)
    BY <1>5, <2>1 DEF StrictSubsetOrdering
  <2> QED
    BY <1>1, <1>4, <2>1, <2>2
<1>6. T \in SUBSET S /\ T \notin Good
  OBVIOUS
<1>7. \A U \in SUBSET T : U # T => U \in Good
  BY <1>5
<1> QED
  BY <1>6, <1>7

--------------------------------------------------------------------------------
(* The recursive function that the definition of the sum chooses exists. *)

First(s) == CHOOSE x \in s : TRUE

IsSummed(g, w, T) ==
    g = [s \in SUBSET T |-> IF s = {} THEN 0 ELSE w[First(s)] + g[s \ {First(s)}]]

Summed(w, T) == CHOOSE g : IsSummed(g, w, T)

LEMMA FirstIn == ASSUME NEW s, s # {} PROVE First(s) \in s
BY DEF First

LEMMA SummedValue ==
    ASSUME NEW w, NEW T, NEW g, IsSummed(g, w, T), NEW s \in SUBSET T
    PROVE  g[s] = IF s = {} THEN 0 ELSE w[First(s)] + g[s \ {First(s)}]
BY DEF IsSummed

LEMMA SummedUnique ==
    ASSUME NEW w, NEW T, IsFiniteSet(T), NEW g, NEW h, IsSummed(g, w, T), IsSummed(h, w, T)
    PROVE  g = h
<1> DEFINE Good == {s \in SUBSET T : g[s] = h[s]}
<1>1. ASSUME NEW s \in SUBSET T PROVE s \in Good
  <2>1. ASSUME NEW u \in SUBSET s, \A v \in SUBSET u : v # u => v \in Good
        PROVE  u \in Good
    <3>1. u \in SUBSET T
      OBVIOUS
    <3>2. CASE u = {}
      BY <3>1, <3>2, SummedValue
    <3>3. CASE u # {}
      <4>1. /\ u \ {First(u)} \in SUBSET u
            /\ u \ {First(u)} # u
        BY <3>3, FirstIn
      <4>2. g[u \ {First(u)}] = h[u \ {First(u)}]
        BY <2>1, <4>1
      <4>3. /\ g[u] = w[First(u)] + g[u \ {First(u)}]
            /\ h[u] = w[First(u)] + h[u \ {First(u)}]
        BY <3>1, <3>3, SummedValue
      <4> QED
        BY <3>1, <4>2, <4>3
    <3> QED
      BY <3>2, <3>3
  <2> HIDE DEF Good
  <2>2. IsFiniteSet(s)
    BY FS_Subset
  <2> QED
    BY <2>1, <2>2, SubsetInduction
<1>2. \A s \in SUBSET T : g[s] = h[s]
  BY <1>1
<1>3. /\ g = [s \in SUBSET T |-> g[s]]
      /\ h = [s \in SUBSET T |-> h[s]]
  BY DEF IsSummed
<1> QED
  BY <1>2, <1>3

\* For a part of the set it is the same function.
LEMMA SummedPart ==
    ASSUME NEW w, NEW T, NEW g, IsSummed(g, w, T), NEW U \in SUBSET T
    PROVE  IsSummed([s \in SUBSET U |-> g[s]], w, U)
<1> DEFINE h == [s \in SUBSET U |-> g[s]]
<1>1. ASSUME NEW s \in SUBSET U
      PROVE  h[s] = IF s = {} THEN 0 ELSE w[First(s)] + h[s \ {First(s)}]
  <2>1. s \ {First(s)} \in SUBSET U
    OBVIOUS
  <2> QED
    BY <2>1, SummedValue
<1>2. h = [s \in SUBSET U |-> h[s]]
  OBVIOUS
<1> QED
  BY <1>1, <1>2 DEF IsSummed

LEMMA SummedExists ==
    ASSUME NEW w, NEW S, IsFiniteSet(S)
    PROVE  IsSummed(Summed(w, S), w, S)
<1> DEFINE Good == {T \in SUBSET S : IsSummed(Summed(w, T), w, T)}
<1>1. ASSUME NEW T \in SUBSET S, \A U \in SUBSET T : U # T => U \in Good
      PROVE  T \in Good
  <2> DEFINE rest(s) == s \ {First(s)}
             g == [s \in SUBSET T |-> IF s = {} THEN 0
                                      ELSE w[First(s)] + Summed(w, rest(s))[rest(s)]]
  <2>1. ASSUME NEW s \in SUBSET T, s # {}
        PROVE  /\ rest(s) \in SUBSET T /\ rest(s) # T
               /\ IsSummed(Summed(w, rest(s)), w, rest(s))
    <3>1. rest(s) \in SUBSET T /\ rest(s) # T
      BY <2>1, FirstIn
    <3> QED
      BY <1>1, <3>1
  <2>2. ASSUME NEW u \in SUBSET T, u # T PROVE g[u] = Summed(w, u)[u]
    <3>1. IsSummed(Summed(w, u), w, u)
      BY <1>1, <2>2
    <3>2. CASE u = {}
      BY <3>1, <3>2, SummedValue
    <3>3. CASE u # {}
      <4>1. /\ rest(u) \in SUBSET u
            /\ IsSummed(Summed(w, rest(u)), w, rest(u))
        BY <2>1, <3>3
      <4>2. IsSummed([s \in SUBSET rest(u) |-> Summed(w, u)[s]], w, rest(u))
        BY <3>1, <4>1, SummedPart
      <4>3. IsFiniteSet(rest(u))
        <5>1. rest(u) \in SUBSET S
          OBVIOUS
        <5> QED
          BY <5>1, FS_Subset
      <4>4. Summed(w, rest(u)) = [s \in SUBSET rest(u) |-> Summed(w, u)[s]]
        BY <4>1, <4>2, <4>3, SummedUnique
      <4>5. Summed(w, rest(u))[rest(u)] = Summed(w, u)[rest(u)]
        BY <4>4
      <4>6. Summed(w, u)[u] = w[First(u)] + Summed(w, u)[rest(u)]
        BY <3>1, <3>3, SummedValue
      <4> QED
        BY <3>3, <4>5, <4>6
    <3> QED
      BY <3>2, <3>3
  <2>3. g = [s \in SUBSET T |-> IF s = {} THEN 0 ELSE w[First(s)] + g[rest(s)]]
    <3>1. ASSUME NEW s \in SUBSET T, s # {} PROVE g[rest(s)] = Summed(w, rest(s))[rest(s)]
      <4>1. rest(s) \in SUBSET T /\ rest(s) # T
        BY <2>1, <3>1
      <4> HIDE DEF rest, g
      <4> QED
        BY <2>2, <4>1
    <3> QED
      BY <3>1
  <2>4. IsSummed(g, w, T)
    BY <2>3 DEF IsSummed
  <2> HIDE DEF g
  <2> QED
    BY <2>4 DEF Summed
<1> HIDE DEF Good
<1>2. S \in Good
  BY <1>1, SubsetInduction
<1> QED
  BY <1>2 DEF Good

--------------------------------------------------------------------------------
(* Sums. *)

\* The definition of the library, without its operator parameters.
LEMMA SumIsSummed == \A w, S : SumFunctionOnSet(w, S) = Summed(w, S)[S]
BY DEF SumFunctionOnSet, FoldFunctionOnSet, MapThenFoldSet, Summed, IsSummed, First

\* The sum of a set starts with the first of its elements.
LEMMA SumFirst ==
    ASSUME NEW w, NEW S, IsFiniteSet(S)
    PROVE  /\ S = {} => SumFunctionOnSet(w, S) = 0
           /\ S # {} => SumFunctionOnSet(w, S)
                            = w[First(S)] + SumFunctionOnSet(w, S \ {First(S)})
<1>1. IsSummed(Summed(w, S), w, S)
  BY SummedExists
<1>2. CASE S = {}
  BY <1>1, <1>2, SummedValue, SumIsSummed
<1>3. CASE S # {}
  <2>1. PICK U : U = S \ {First(S)}
    OBVIOUS
  <2>2. U \in SUBSET S /\ IsFiniteSet(U)
    BY <2>1, FS_Subset
  <2>3. IsSummed([s \in SUBSET U |-> Summed(w, S)[s]], w, U)
    BY <1>1, <2>2, SummedPart
  <2>4. Summed(w, U) = [s \in SUBSET U |-> Summed(w, S)[s]]
    BY <2>2, <2>3, SummedExists, SummedUnique
  <2>5. Summed(w, U)[U] = Summed(w, S)[U]
    BY <2>4
  <2>6. Summed(w, S)[S] = w[First(S)] + Summed(w, S)[U]
    BY <1>1, <1>3, <2>1, SummedValue, SMTT(20)
  <2> QED
    BY <1>3, <2>1, <2>5, <2>6, SumIsSummed
<1> QED
  BY <1>2, <1>3

\* ... or with any other: what is summed up does not depend on the order.
LEMMA SumRemove ==
    ASSUME NEW w, NEW S, IsFiniteSet(S), \A i \in S : w[i] \in Int
    PROVE  /\ SumFunctionOnSet(w, S) \in Int
           /\ \A x \in S : SumFunctionOnSet(w, S) = w[x] + SumFunctionOnSet(w, S \ {x})
<1> DEFINE Good == {T \in SUBSET S :
                      /\ SumFunctionOnSet(w, T) \in Int
                      /\ \A x \in T : SumFunctionOnSet(w, T) = w[x] + SumFunctionOnSet(w, T \ {x})}
<1>1. ASSUME NEW T \in SUBSET S, \A U \in SUBSET T : U # T => U \in Good
      PROVE  T \in Good
  <2>1. IsFiniteSet(T)
    BY FS_Subset
  <2>2. CASE T = {}
    <3>1. SumFunctionOnSet(w, {}) = 0
      BY SumFirst, FS_EmptySet
    <3> QED
      BY <2>2, <3>1
  <2>3. CASE T # {}
    <3>1. PICK f \in T : f = First(T)
      BY <2>3, FirstIn
    <3>2. SumFunctionOnSet(w, T) = w[f] + SumFunctionOnSet(w, T \ {f})
      BY <2>1, <2>3, <3>1, SumFirst
    <3>3. T \ {f} \in Good
      BY <1>1
    <3>4. SumFunctionOnSet(w, T) \in Int
      BY <3>2, <3>3
    <3>5. ASSUME NEW x \in T, x # f
          PROVE  SumFunctionOnSet(w, T) = w[x] + SumFunctionOnSet(w, T \ {x})
      <4>1. T \ {x} \in Good
        BY <1>1
      <4>2. (T \ {f}) \ {x} = (T \ {x}) \ {f}
        OBVIOUS
      <4>3. (T \ {f}) \ {x} \in Good
        BY <1>1
      <4>4. SumFunctionOnSet(w, T \ {f}) = w[x] + SumFunctionOnSet(w, (T \ {f}) \ {x})
        BY <3>3, <3>5
      <4>5. SumFunctionOnSet(w, T \ {x}) = w[f] + SumFunctionOnSet(w, (T \ {f}) \ {x})
        BY <4>1, <4>2, <3>5
      <4>6. /\ SumFunctionOnSet(w, (T \ {f}) \ {x}) \in Int
            /\ w[f] \in Int /\ w[x] \in Int
        BY <4>3
      <4> QED
        BY <3>2, <4>4, <4>5, <4>6
    <3> QED
      BY <3>2, <3>4, <3>5
  <2> QED
    BY <2>2, <2>3
<1> HIDE DEF Good
<1>2. S \in Good
  BY <1>1, SubsetInduction
<1> QED
  BY <1>2 DEF Good

\* A sum of no items, and of one more item.
LEMMA SumEmpty == \A w : SumFunctionOnSet(w, {}) = 0
BY SumFirst, FS_EmptySet

LEMMA SumAdd ==
    ASSUME NEW w, NEW S, IsFiniteSet(S), NEW x, x \notin S,
           \A i \in S : w[i] \in Int, w[x] \in Int
    PROVE  SumFunctionOnSet(w, S \cup {x}) = w[x] + SumFunctionOnSet(w, S)
<1>1. PICK T : T = S \cup {x}
  OBVIOUS
<1>2. IsFiniteSet(T) /\ T \ {x} = S /\ \A i \in T : w[i] \in Int
  BY <1>1, FS_AddElement
<1>3. SumFunctionOnSet(w, T) = w[x] + SumFunctionOnSet(w, T \ {x})
  BY <1>1, <1>2, SumRemove
<1> QED
  BY <1>1, <1>2, <1>3

\* A sum is at most that of items which are as large.
LEMMA SumAtMost ==
    ASSUME NEW w, NEW v, NEW S, IsFiniteSet(S),
           \A i \in S : w[i] \in Int /\ v[i] \in Int /\ w[i] <= v[i]
    PROVE  SumFunctionOnSet(w, S) <= SumFunctionOnSet(v, S)
<1> DEFINE Good == {T \in SUBSET S : SumFunctionOnSet(w, T) <= SumFunctionOnSet(v, T)}
<1>1. ASSUME NEW T \in SUBSET S, \A U \in SUBSET T : U # T => U \in Good
      PROVE  T \in Good
  <2>1. IsFiniteSet(T)
    BY FS_Subset
  <2>2. CASE T = {}
    BY <2>2, SumEmpty
  <2>3. CASE T # {}
    <3>1. PICK x \in T : TRUE
      BY <2>3
    <3>2. PICK U : U = T \ {x}
      OBVIOUS
    <3>3. IsFiniteSet(U) /\ U \in SUBSET T /\ U # T
      BY <2>1, <3>1, <3>2, FS_Subset
    <3>4. SumFunctionOnSet(w, U) <= SumFunctionOnSet(v, U)
      BY <1>1, <3>3
    <3>5. /\ SumFunctionOnSet(w, T) = w[x] + SumFunctionOnSet(w, U)
          /\ SumFunctionOnSet(v, T) = v[x] + SumFunctionOnSet(v, U)
      BY <2>1, <3>2, SumRemove
    <3>6. /\ SumFunctionOnSet(w, U) \in Int /\ SumFunctionOnSet(v, U) \in Int
          /\ w[x] \in Int /\ v[x] \in Int /\ w[x] <= v[x]
      BY <3>3, SumRemove
    <3>7. SumFunctionOnSet(w, T) <= SumFunctionOnSet(v, T)
      BY <3>4, <3>5, <3>6
    <3> QED
      BY <3>7
  <2> QED
    BY <2>2, <2>3
<1> HIDE DEF Good
<1>2. S \in Good
  BY <1>1, SubsetInduction
<1> QED
  BY <1>2 DEF Good

\* Sums of the same items are equal.
LEMMA SumSame ==
    ASSUME NEW w, NEW v, NEW S, IsFiniteSet(S), \A i \in S : w[i] \in Int /\ w[i] = v[i]
    PROVE  SumFunctionOnSet(w, S) = SumFunctionOnSet(v, S)
<1>1. /\ SumFunctionOnSet(w, S) \in Int /\ SumFunctionOnSet(v, S) \in Int
      /\ SumFunctionOnSet(w, S) <= SumFunctionOnSet(v, S)
      /\ SumFunctionOnSet(v, S) <= SumFunctionOnSet(w, S)
  BY SumAtMost, SumRemove
<1> QED
  BY <1>1

\* Items that differ in one place make up sums that differ by as much.
LEMMA SumChange ==
    ASSUME NEW w, NEW v, NEW S, IsFiniteSet(S), NEW x \in S,
           \A i \in S : w[i] \in Int /\ v[i] \in Int,
           \A i \in S \ {x} : w[i] = v[i]
    PROVE  SumFunctionOnSet(v, S) = SumFunctionOnSet(w, S) + v[x] - w[x]
<1>1. PICK U : U = S \ {x}
  OBVIOUS
<1>2. IsFiniteSet(U) /\ U \subseteq S
  BY <1>1, FS_Subset
<1>3. /\ SumFunctionOnSet(w, U) \in Int
      /\ SumFunctionOnSet(w, U) = SumFunctionOnSet(v, U)
  BY <1>1, <1>2, SumRemove, SumSame
<1>4. /\ SumFunctionOnSet(w, S) = w[x] + SumFunctionOnSet(w, U)
      /\ SumFunctionOnSet(v, S) = v[x] + SumFunctionOnSet(v, U)
  BY <1>1, SumRemove
<1>5. w[x] \in Int /\ v[x] \in Int
  OBVIOUS
<1> QED
  BY <1>3, <1>4, <1>5

\* A sum of amounts is an amount, at least that of each item, and 0 if all are.
LEMMA SumNat ==
    ASSUME NEW w, NEW S, IsFiniteSet(S), \A i \in S : w[i] \in Nat
    PROVE  /\ SumFunctionOnSet(w, S) \in Nat
           /\ \A x \in S : w[x] <= SumFunctionOnSet(w, S)
           /\ (\A i \in S : w[i] = 0) => SumFunctionOnSet(w, S) = 0
<1>1. PICK z : z = [i \in S |-> 0]
  OBVIOUS
<1>2. SumFunctionOnSet(z, S) = 0
  <2> DEFINE Good == {T \in SUBSET S : SumFunctionOnSet(z, T) = 0}
  <2>1. ASSUME NEW T \in SUBSET S, \A U \in SUBSET T : U # T => U \in Good
        PROVE  T \in Good
    <3>1. CASE T = {}
      BY <3>1, SumEmpty
    <3>2. CASE T # {}
      <4>1. PICK x \in T : TRUE
        BY <3>2
      <4>2. T \ {x} \in Good
        BY <2>1
      <4>3. IsFiniteSet(T) /\ \A i \in T : z[i] \in Int
        BY <1>1, FS_Subset
      <4>4. SumFunctionOnSet(z, T) = z[x] + SumFunctionOnSet(z, T \ {x})
        BY <4>3, SumRemove
      <4>5. z[x] = 0 /\ SumFunctionOnSet(z, T \ {x}) = 0
        BY <1>1, <4>2
      <4>6. SumFunctionOnSet(z, T) = 0
        BY <4>4, <4>5
      <4> QED
        BY <4>6
    <3> QED
      BY <3>1, <3>2
  <2> HIDE DEF Good
  <2>2. S \in Good
    BY <2>1, SubsetInduction
  <2> QED
    BY <2>2 DEF Good
<1>3. SumFunctionOnSet(w, S) \in Nat
  <2>1. \A i \in S : /\ z[i] \in Int /\ w[i] \in Int /\ z[i] <= w[i]
    BY <1>1
  <2>2. 0 <= SumFunctionOnSet(w, S) /\ SumFunctionOnSet(w, S) \in Int
    BY <1>2, <2>1, SumAtMost, SumRemove
  <2> QED
    BY <2>2
<1>4. ASSUME NEW x \in S PROVE w[x] <= SumFunctionOnSet(w, S)
  <2>1. PICK v : v = [i \in S |-> IF i = x THEN w[x] ELSE 0]
    OBVIOUS
  <2>2. \A i \in S : /\ z[i] \in Int /\ w[i] \in Int /\ v[i] \in Int
                     /\ v[i] <= w[i] /\ (i # x => z[i] = v[i])
    BY <1>1, <2>1
  <2>3. z[x] = 0 /\ v[x] = w[x] /\ w[x] \in Int
    BY <1>1, <2>1
  <2>4. SumFunctionOnSet(v, S) = SumFunctionOnSet(z, S) + v[x] - z[x]
    BY <2>2, SumChange
  <2>5. SumFunctionOnSet(v, S) = w[x]
    BY <1>2, <2>3, <2>4
  <2>6. SumFunctionOnSet(v, S) <= SumFunctionOnSet(w, S)
    BY <2>2, SumAtMost
  <2> QED
    BY <2>5, <2>6
<1>5. (\A i \in S : w[i] = 0) => SumFunctionOnSet(w, S) = 0
  <2> SUFFICES ASSUME \A i \in S : w[i] = 0 PROVE SumFunctionOnSet(w, S) = 0
    OBVIOUS
  <2>1. \A i \in S : z[i] \in Int /\ z[i] = w[i]
    BY <1>1
  <2>2. SumFunctionOnSet(z, S) = SumFunctionOnSet(w, S)
    BY <2>1, SumSame
  <2> QED
    BY <1>2, <2>2
<1> QED
  BY <1>3, <1>4, <1>5

\* Items that are 0 can be left out.
LEMMA SumLeavesOutZero ==
    ASSUME NEW w, NEW S, IsFiniteSet(S), \A i \in S : w[i] \in Int,
           NEW R \in SUBSET S, \A i \in S \ R : w[i] = 0
    PROVE  SumFunctionOnSet(w, R) = SumFunctionOnSet(w, S)
<1> DEFINE Good == {T \in SUBSET S : SumFunctionOnSet(w, R \cap T) = SumFunctionOnSet(w, T)}
<1>1. ASSUME NEW T \in SUBSET S, \A U \in SUBSET T : U # T => U \in Good
      PROVE  T \in Good
  <2>1. CASE T = {}
    BY <2>1
  <2>2. CASE T # {}
    <3>1. PICK x \in T : TRUE
      BY <2>2
    <3>2. PICK U : U = T \ {x}
      OBVIOUS
    <3>3. /\ U \in SUBSET S /\ R \cap T \in SUBSET S /\ R \cap U \in SUBSET S
          /\ x \in S
      BY <3>2
    <3>4. /\ IsFiniteSet(T) /\ IsFiniteSet(U) /\ IsFiniteSet(R \cap T) /\ IsFiniteSet(R \cap U)
      BY <3>3, FS_Subset
    <3>5. SumFunctionOnSet(w, R \cap U) = SumFunctionOnSet(w, U)
      BY <1>1, <3>2
    <3>6. SumFunctionOnSet(w, T) = w[x] + SumFunctionOnSet(w, U)
      BY <3>2, <3>4, SumRemove
    <3>7. CASE x \in R
      <4>1. (R \cap T) \ {x} = R \cap U /\ x \in R \cap T
        BY <3>2, <3>7
      <4>2. SumFunctionOnSet(w, R \cap T) = w[x] + SumFunctionOnSet(w, R \cap U)
        BY <3>3, <3>4, <4>1, SumRemove
      <4> QED
        BY <3>5, <3>6, <4>2
    <3>8. CASE x \notin R
      <4>1. R \cap T = R \cap U
        BY <3>2, <3>8
      <4>2. w[x] = 0 /\ SumFunctionOnSet(w, U) \in Int
        BY <3>3, <3>4, <3>8, SumRemove
      <4>3. SumFunctionOnSet(w, T) = SumFunctionOnSet(w, U)
        BY <3>6, <4>2
      <4> QED
        BY <3>5, <4>1, <4>3
    <3> QED
      BY <3>7, <3>8
  <2> QED
    BY <2>1, <2>2
<1> HIDE DEF Good
<1>2. S \in Good
  BY <1>1, SubsetInduction
<1>3. R \cap S = R
  OBVIOUS
<1> QED
  BY <1>2, <1>3 DEF Good

\* The same items under other names have the same sum.
LEMMA SumRenamed ==
    ASSUME NEW S, IsFiniteSet(S), NEW R, IsFiniteSet(R), NEW f \in Bijection(S, R),
           NEW w, NEW v, \A i \in S : w[i] \in Int /\ v[f[i]] = w[i]
    PROVE  SumFunctionOnSet(w, S) = SumFunctionOnSet(v, R)
<1> DEFINE image(T) == {f[i] : i \in T}
           Good == {T \in SUBSET S : SumFunctionOnSet(w, T) = SumFunctionOnSet(v, image(T))}
<1>0. /\ \A i \in S : f[i] \in R
      /\ \A i, j \in S : f[i] = f[j] => i = j
      /\ image(S) = R
  <2>1. /\ f \in [S -> R]
        /\ \A i, j \in S : f[i] = f[j] => i = j
        /\ \A r \in R : \E i \in S : f[i] = r
    BY DEF Bijection, Injection, Surjection, IsInjective
  <2> QED
    BY <2>1
<1>1. ASSUME NEW T \in SUBSET S, \A U \in SUBSET T : U # T => U \in Good
      PROVE  T \in Good
  <2>1. CASE T = {}
    <3>1. image(T) = {} /\ image(T) = T
      BY <2>1
    <3>2. SumFunctionOnSet(w, T) = 0 /\ SumFunctionOnSet(v, image(T)) = 0
      BY <2>1, <3>1, SumEmpty
    <3> QED
      BY <3>2
  <2>2. CASE T # {}
    <3>1. PICK x \in T : TRUE
      BY <2>2
    <3>2. PICK U : U = T \ {x}
      OBVIOUS
    <3>3. /\ U \in SUBSET S /\ image(T) \in SUBSET R
          /\ image(T) \ {f[x]} = image(U) /\ f[x] \in image(T)
      BY <1>0, <3>2
    <3>4. IsFiniteSet(T) /\ IsFiniteSet(image(T))
      BY <3>3, FS_Subset
    <3>5. \A j \in image(T) : v[j] \in Int
      OBVIOUS
    <3>6. U \in Good
      BY <1>1, <3>2
    <3> HIDE DEF image
    <3>7. SumFunctionOnSet(w, T) = w[x] + SumFunctionOnSet(w, U)
      BY <3>2, <3>4, SumRemove
    <3>8. SumFunctionOnSet(v, image(T)) = v[f[x]] + SumFunctionOnSet(v, image(U))
      BY <3>3, <3>4, <3>5, SumRemove
    <3>9. SumFunctionOnSet(w, T) = SumFunctionOnSet(v, image(T))
      BY <3>6, <3>7, <3>8
    <3> QED
      BY <3>9
  <2> QED
    BY <2>1, <2>2
<1> HIDE DEF Good
<1>2. S \in Good
  BY <1>1, SubsetInduction
<1> QED
  BY <1>0, <1>2 DEF Good

--------------------------------------------------------------------------------
(* The same of SumFunction, the sum of all values of a function. *)

\* A sum of no items is 0.
THEOREM TotalOfNone == \A f : DOMAIN f = {} => SumFunction(f) = 0
BY SumEmpty DEF SumFunction

\* A sum of amounts is an amount, at least that of each item, and 0 if all are.
THEOREM TotalNat ==
    ASSUME NEW S, IsFiniteSet(S), NEW f \in [S -> Nat]
    PROVE  /\ SumFunction(f) \in Nat
           /\ \A x \in S : f[x] <= SumFunction(f)
           /\ (\A i \in S : f[i] = 0) => SumFunction(f) = 0
<1>1. DOMAIN f = S /\ \A i \in S : f[i] \in Nat
  OBVIOUS
<1> QED
  BY <1>1, SumNat DEF SumFunction

\* Sums of functions that differ in one place differ by as much.
THEOREM TotalChange ==
    ASSUME NEW S, IsFiniteSet(S), NEW f \in [S -> Int], NEW g \in [S -> Int],
           NEW x \in S, \A i \in S \ {x} : f[i] = g[i]
    PROVE  SumFunction(g) = SumFunction(f) + g[x] - f[x]
<1>1. /\ DOMAIN f = S /\ DOMAIN g = S
      /\ \A i \in S : f[i] \in Int /\ g[i] \in Int
  OBVIOUS
<1> QED
  BY <1>1, SumChange DEF SumFunction

\* A sum of items that are at most as large is at most as large.
THEOREM TotalAtMost ==
    ASSUME NEW S, IsFiniteSet(S), NEW f \in [S -> Int], NEW g \in [S -> Int],
           \A i \in S : f[i] <= g[i]
    PROVE  SumFunction(f) <= SumFunction(g)
<1>1. /\ DOMAIN f = S /\ DOMAIN g = S
      /\ \A i \in S : f[i] \in Int /\ g[i] \in Int /\ f[i] <= g[i]
  OBVIOUS
<1> QED
  BY <1>1, SumAtMost DEF SumFunction

\* Items that are 0 can be left out.
THEOREM TotalLeavesOutZero ==
    ASSUME NEW S, IsFiniteSet(S), NEW g \in [S -> Int], NEW R \in SUBSET S, NEW f \in [R -> Int],
           \A i \in R : f[i] = g[i], \A i \in S \ R : g[i] = 0
    PROVE  SumFunction(f) = SumFunction(g)
<1>1. /\ DOMAIN f = R /\ DOMAIN g = S
      /\ \A i \in S : g[i] \in Int
      /\ \A i \in R : f[i] \in Int /\ f[i] = g[i]
  OBVIOUS
<1>2. IsFiniteSet(R)
  BY FS_Subset
<1>3. SumFunctionOnSet(f, R) = SumFunctionOnSet(g, R)
  BY <1>1, <1>2, SumSame
<1>4. SumFunctionOnSet(g, R) = SumFunctionOnSet(g, S)
  BY <1>1, SumLeavesOutZero
<1> QED
  BY <1>1, <1>3, <1>4 DEF SumFunction

\* The same items under other names have the same sum.
THEOREM TotalRenamed ==
    ASSUME NEW S, IsFiniteSet(S), NEW R, IsFiniteSet(R), NEW n \in [S -> R],
           \A i, j \in S : n[i] = n[j] => i = j,
           \A r \in R : \E i \in S : n[i] = r,
           NEW f \in [S -> Int], NEW g \in [R -> Int], \A i \in S : g[n[i]] = f[i]
    PROVE  SumFunction(f) = SumFunction(g)
<1>1. n \in Bijection(S, R)
  BY DEF Bijection, Injection, Surjection, IsInjective
<1>2. /\ DOMAIN f = S /\ DOMAIN g = R
      /\ \A i \in S : f[i] \in Int /\ g[n[i]] = f[i]
  OBVIOUS
<1> QED
  BY <1>1, <1>2, SumRenamed DEF SumFunction

--------------------------------------------------------------------------------
(* The invariant of batches. *)

Item == [id : Ids, amount : Nat]
BatchCall == [kind : {"deposit", "withdraw", "transfer"}, to : Ids, items : Seq(Item)]
Operation == [state : {"skipped", "sent", "moved", "refused", "ok", "failed"}, amount : Nat]
BatchOutcome == [id : SUBSET Ids, receipt : Nat]

\* What a batch was called with, and how far its operations have come. An operation that
\* has moved funds is "moved" or "ok"; a native batch leaves out the first item.
Called ==
    /\ request \in [Batches -> SUBSET BatchCall]
    /\ \A b \in Batches :
          /\ phase[b] = "idle" <=> request[b] = {}
          /\ request[b] = {} => op[b] = <<>>
          /\ \A q, r \in request[b] : q = r
          /\ \A q \in request[b] :
                /\ DOMAIN op[b] = DOMAIN q.items
                /\ \A i \in DOMAIN op[b] : op[b][i].state = "skipped" <=> IsNative(b, q) /\ i = 1
          /\ \A i \in DOMAIN op[b] : op[b][i].state \notin {"moved", "ok"} => op[b][i].amount = 0

\* By the time a batch has returned, none of its operations is on its way.
Returned ==
    \A b \in Batches :
       /\ phase[b] = "returned" => /\ \A i \in DOMAIN op[b] : Ended(b, i)
                                   /\ \A q \in request[b] : outcome[b] = Outcomes(b, q)
       /\ phase[b] # "returned" => outcome[b] = <<>>

BatchInv == TypeOK /\ Called /\ Returned

LEMMA FiniteBatches ==
    /\ IsFiniteSet(Batches) /\ IsFiniteSet(Ids)
    /\ Requests \subseteq BatchCall
BY DepositAssumption DEF BatchCall, Item

\* The positions that are taken in their order are each taken once.
LEMMA OrderIsComplete ==
    ASSUME NEW S, S \subseteq Nat, IsFiniteSet(S), NEW f \in InOrder(S)
    PROVE  /\ Cardinality(S) \in Nat
           /\ f \in [1 .. Cardinality(S) -> S]
           /\ \A m, n \in 1 .. Cardinality(S) : f[m] = f[n] => m = n
           /\ \A i \in S : \E n \in 1 .. Cardinality(S) : f[n] = i
<1>2. Cardinality(S) \in Nat
  BY FS_CardinalityType
<1>3. PICK D : D = 1 .. Cardinality(S)
  OBVIOUS
<1>4. IsFiniteSet(D) /\ Cardinality(D) = Cardinality(S)
  BY <1>2, <1>3, FS_Interval
<1>5. /\ f \in [D -> S]
      /\ \A m, n \in D : m < n => f[m] < f[n]
  BY <1>3 DEF InOrder
<1>6. \A m, n \in D : f[m] = f[n] => m = n
  <2> SUFFICES ASSUME NEW m \in D, NEW n \in D, m < n PROVE f[m] # f[n]
    BY <1>2, <1>3
  <2>1. f[m] \in Nat /\ f[n] \in Nat /\ f[m] < f[n]
    BY <1>5
  <2> QED
    BY <2>1
<1>7. f \in Injection(D, S)
  BY <1>5, <1>6 DEF Injection, IsInjective
<1>8. f \in Surjection(D, S)
  BY <1>2, <1>4, <1>7, FS_Injection
<1>9. \A i \in S : \E n \in D : f[n] = i
  BY <1>8 DEF Surjection
<1> QED
  BY <1>2, <1>3, <1>5, <1>6, <1>9

\* What is left of a request is of the same kind, for the same destination, and has
\* those of its items that no outcome names, each once.
LEMMA UnfinishedIsPart ==
    ASSUME NEW c, NEW q \in BatchCall, request[c] = {q}, NEW u \in Unfinished(c)
    PROVE  /\ u \in BatchCall /\ u.kind = q.kind /\ u.to = q.to
           /\ u = [q EXCEPT !.items = u.items]
           /\ \A i \in Left(c, q) : i \in DOMAIN q.items
           /\ \E f \in [DOMAIN u.items -> Left(c, q)] :
                 /\ \A m, n \in DOMAIN u.items : f[m] = f[n] => m = n
                 /\ \A i \in Left(c, q) : \E n \in DOMAIN u.items : f[n] = i
                 /\ \A n \in DOMAIN u.items : u.items[n] = q.items[f[n]]
<1>1. PICK S : S = Left(c, q)
  OBVIOUS
<1>2. PICK f \in InOrder(S) : u = [q EXCEPT !.items = [n \in DOMAIN f |-> q.items[f[n]]]]
  <2>1. \E p \in request[c] : \E f \in InOrder(Left(c, p)) :
           u = [p EXCEPT !.items = [n \in DOMAIN f |-> p.items[f[n]]]]
    BY DEF Unfinished
  <2>2. PICK p \in request[c] : \E f \in InOrder(Left(c, p)) :
           u = [p EXCEPT !.items = [n \in DOMAIN f |-> p.items[f[n]]]]
    BY <2>1
  <2>3. p = q
    OBVIOUS
  <2>4. PICK f \in InOrder(Left(c, p)) :
           u = [p EXCEPT !.items = [n \in DOMAIN f |-> p.items[f[n]]]]
    BY <2>2
  <2>5. f \in InOrder(S)
    BY <1>1, <2>3, <2>4
  <2>6. u = [q EXCEPT !.items = [n \in DOMAIN f |-> q.items[f[n]]]]
    BY <2>3, <2>4
  <2> QED
    BY <2>5, <2>6
<1>3. q.items \in Seq(Item)
  BY DEF BatchCall
<1>4. S \subseteq Nat /\ IsFiniteSet(S) /\ \A i \in S : i \in DOMAIN q.items
  <2>1. DOMAIN q.items \subseteq Nat /\ IsFiniteSet(DOMAIN q.items)
    BY <1>3, FS_Interval
  <2> QED
    BY <1>1, <2>1, FS_Subset DEF Left
<1>5. /\ Cardinality(S) \in Nat
      /\ f \in [1 .. Cardinality(S) -> S]
      /\ \A m, n \in 1 .. Cardinality(S) : f[m] = f[n] => m = n
      /\ \A i \in S : \E n \in 1 .. Cardinality(S) : f[n] = i
  BY <1>4, OrderIsComplete
<1>6. PICK t : t = [n \in DOMAIN f |-> q.items[f[n]]]
  OBVIOUS
<1>7. /\ DOMAIN t = 1 .. Cardinality(S)
      /\ \A n \in 1 .. Cardinality(S) : t[n] = q.items[f[n]]
  BY <1>5, <1>6
<1>8. t \in Seq(Item)
  <2>1. \A n \in 1 .. Cardinality(S) : t[n] \in Item
    <3>1. \A i \in DOMAIN q.items : q.items[i] \in Item
      BY <1>3
    <3> QED
      BY <1>4, <1>5, <1>7, <3>1
  <2>2. t = [n \in 1 .. Cardinality(S) |-> t[n]]
    BY <1>5, <1>6
  <2> QED
    BY <1>5, <2>1, <2>2
<1>9. u = [q EXCEPT !.items = t]
  BY <1>2, <1>6
<1>10. u \in BatchCall /\ u.kind = q.kind /\ u.to = q.to /\ u.items = t
  BY <1>8, <1>9 DEF BatchCall
<1>11. DOMAIN u.items = 1 .. Cardinality(S)
  BY <1>7, <1>10
<1>12. /\ f \in [DOMAIN u.items -> Left(c, q)]
       /\ \A m, n \in DOMAIN u.items : f[m] = f[n] => m = n
       /\ \A i \in Left(c, q) : \E n \in DOMAIN u.items : f[n] = i
       /\ \A n \in DOMAIN u.items : u.items[n] = q.items[f[n]]
  BY <1>1, <1>5, <1>7, <1>10, <1>11
<1>13. u = [q EXCEPT !.items = u.items]
  BY <1>9, <1>10
<1> QED
  BY <1>1, <1>4, <1>10, <1>12, <1>13

--------------------------------------------------------------------------------
(* Types, and the course of a batch. *)

LEMMA BatchInvInit == Init => BatchInv
<1> SUFFICES ASSUME Init PROVE BatchInv
  OBVIOUS
<1>1. TypeOK
  BY DepositAssumption DEF Init, TypeOK
<1>2. Called
  BY DEF Init, Called
<1>3. Returned
  BY DEF Init, Returned
<1> QED
  BY <1>1, <1>2, <1>3 DEF BatchInv

LEMMA OpChanged ==
    ASSUME NEW p \in [Batches -> Seq(Operation)], NEW b \in Batches, NEW i \in DOMAIN p[b],
           NEW o \in Operation, NEW r, r = [p EXCEPT ![b][i] = o]
    PROVE  /\ r \in [Batches -> Seq(Operation)]
           /\ \A c \in Batches : c # b => r[c] = p[c]
           /\ DOMAIN r[b] = DOMAIN p[b] /\ Len(r[b]) = Len(p[b])
           /\ r[b][i] = o
           /\ \A j \in DOMAIN p[b] : j # i => r[b][j] = p[b][j]
<1>1. PICK t : t = [p[b] EXCEPT ![i] = o]
  OBVIOUS
<1>2. p[b] \in Seq(Operation)
  OBVIOUS
<1>3. /\ t \in Seq(Operation) /\ DOMAIN t = DOMAIN p[b] /\ Len(t) = Len(p[b])
      /\ t[i] = o /\ \A j \in DOMAIN p[b] : j # i => t[j] = p[b][j]
  BY <1>1, <1>2
<1>4. r = [p EXCEPT ![b] = t]
  BY <1>1
<1> QED
  BY <1>3, <1>4

\* One operation of a batch goes on, and the pool moves funds or not.
LEMMA OperationKeepsInv ==
    ASSUME BatchInv, NEW b \in Batches, NEW i \in DOMAIN op[b], NEW o \in Operation,
           op' = [op EXCEPT ![b][i] = o], UNCHANGED <<phase, request, retryOf, outcome>>,
           ~Ended(b, i), o.state # "skipped", o.state \notin {"moved", "ok"} => o.amount = 0,
           safe' \in Nat, out' \in Nat, held' \in [Ids -> Nat]
    PROVE  BatchInv'
<1>1. op \in [Batches -> Seq(Operation)]
  BY DEF BatchInv, TypeOK, Operation
<1>2. /\ op' \in [Batches -> Seq(Operation)]
      /\ \A c \in Batches : c # b => op'[c] = op[c]
      /\ DOMAIN op'[b] = DOMAIN op[b]
      /\ op'[b][i] = o
      /\ \A j \in DOMAIN op[b] : j # i => op'[b][j] = op[b][j]
  BY <1>1, OpChanged
<1>3. phase[b] # "returned"
  BY DEF BatchInv, Returned
<1>4. TypeOK'
  BY <1>2 DEF BatchInv, TypeOK, Operation
<1>5. Called'
  <2>1. op[b][i].state # "skipped"
    BY DEF Ended
  <2>2. b \in Batches /\ op[b] # <<>>
    BY <1>1
  <2> QED
    BY <1>2, <2>1, <2>2 DEF BatchInv, Called, IsNative
<1>6. Returned'
  <2>1. ASSUME NEW c \in Batches, phase[c] = "returned"
        PROVE  /\ \A j \in DOMAIN op'[c] : Ended(c, j)'
               /\ \A q \in request[c] : outcome[c] = Outcomes(c, q)'
    <3>1. op'[c] = op[c]
      BY <1>2, <1>3, <2>1
    <3>2. /\ \A j \in DOMAIN op[c] : Ended(c, j)
          /\ \A q \in request[c] : outcome[c] = Outcomes(c, q)
      BY <2>1 DEF BatchInv, Returned
    <3>3. \A q \in request[c] : Outcomes(c, q)' = Outcomes(c, q)
      BY <3>1 DEF Outcomes, AllOutcomes
    <3>4. \A j \in DOMAIN op[c] : Ended(c, j)' <=> Ended(c, j)
      BY <3>1 DEF Ended, Answered
    <3> QED
      BY <3>1, <3>2, <3>3, <3>4
  <2> QED
    BY <2>1 DEF BatchInv, Returned
<1> QED
  BY <1>4, <1>5, <1>6 DEF BatchInv

\* A batch is called, for the first time or as a retry.
LEMMA CallKeepsInv ==
    ASSUME BatchInv, NEW b \in Batches, NEW q \in BatchCall, NEW C \in SUBSET Batches,
           Call(b, q, C), IsPart(q)
    PROVE  BatchInv'
<1>1. PICK o : o = [i \in DOMAIN q.items |->
                       Op(IF IsNative(b, q) /\ i = 1 THEN "skipped" ELSE "sent", 0)]
  OBVIOUS
<1>2. q.items \in Seq(Item)
  BY DEF BatchCall
<1>3. /\ o \in Seq(Operation) /\ DOMAIN o = DOMAIN q.items
      /\ \A i \in DOMAIN o : /\ o[i].amount = 0
                             /\ o[i].state = "skipped" <=> IsNative(b, q) /\ i = 1
  <2>1. ASSUME NEW i \in DOMAIN q.items
        PROVE  /\ o[i] \in Operation /\ o[i].amount = 0
               /\ o[i].state = "skipped" <=> IsNative(b, q) /\ i = 1
    <3>1. CASE IsNative(b, q) /\ i = 1
      BY <1>1, <3>1 DEF Op, Operation
    <3>2. CASE ~(IsNative(b, q) /\ i = 1)
      BY <1>1, <3>2 DEF Op, Operation
    <3> QED
      BY <3>1, <3>2
  <2>2. /\ DOMAIN o = DOMAIN q.items /\ o = [i \in DOMAIN q.items |-> o[i]]
    BY <1>1
  <2>3. o \in Seq(Operation)
    <3>1. PICK n \in Nat : DOMAIN q.items = 1 .. n
      BY <1>2
    <3>2. o = [i \in 1 .. n |-> o[i]] /\ \A i \in 1 .. n : o[i] \in Operation
      BY <2>1, <2>2, <3>1
    <3> QED
      BY <3>2
  <2> QED
    BY <2>1, <2>2, <2>3
<1>4. /\ phase[b] = "idle" /\ phase' = [phase EXCEPT ![b] = "running"]
      /\ request' = [request EXCEPT ![b] = {q}]
      /\ retryOf' = [retryOf EXCEPT ![b] = C]
      /\ op' = [op EXCEPT ![b] = o]
      /\ UNCHANGED <<safe, held, out, outcome>>
  BY <1>1 DEF Call, poolVars
<1>5. /\ op \in [Batches -> Seq(Operation)] /\ DOMAIN phase = Batches /\ DOMAIN request = Batches
      /\ DOMAIN retryOf = Batches
  BY DEF BatchInv, TypeOK, Called, Operation
<1>6. /\ op'[b] = o /\ \A d \in Batches : d # b => op'[d] = op[d]
      /\ request'[b] = {q} /\ \A d \in Batches : d # b => request'[d] = request[d]
      /\ phase'[b] = "running" /\ \A d \in Batches : d # b => phase'[d] = phase[d]
      /\ op' \in [Batches -> Seq(Operation)]
  BY <1>3, <1>4, <1>5
<1>7. TypeOK'
  <2>1. \A d \in Batches : \A p \in request'[d] : IsPart(p)
    <3> SUFFICES ASSUME NEW d \in Batches, NEW p \in request'[d]
                 PROVE  IsPart(p)
      OBVIOUS
    <3>1. CASE d = b
      BY <1>6, <3>1
    <3>2. CASE d # b
      BY <1>6, <3>2 DEF BatchInv, TypeOK
    <3> QED
      BY <3>1, <3>2
  <2>2. /\ phase' \in [Batches -> {"idle", "running", "returned", "dropped"}]
        /\ retryOf' \in [Batches -> SUBSET Batches]
    BY <1>4 DEF BatchInv, TypeOK
  <2> QED
    BY <1>4, <1>6, <2>1, <2>2 DEF BatchInv, TypeOK, Operation
<1>8. Called'
  <2>1. request' \in [Batches -> SUBSET BatchCall]
    BY <1>4 DEF BatchInv, Called
  <2>2. ASSUME NEW d \in Batches
        PROVE  /\ phase'[d] = "idle" <=> request'[d] = {}
               /\ request'[d] = {} => op'[d] = <<>>
               /\ \A p, r \in request'[d] : p = r
               /\ \A p \in request'[d] :
                     /\ DOMAIN op'[d] = DOMAIN p.items
                     /\ \A i \in DOMAIN op'[d] :
                           op'[d][i].state = "skipped" <=> IsNative(d, p) /\ i = 1
               /\ \A i \in DOMAIN op'[d] :
                     op'[d][i].state \notin {"moved", "ok"} => op'[d][i].amount = 0
    <3>1. CASE d = b
      <4>1. phase'[d] = "running" /\ request'[d] = {q} /\ op'[d] = o
        BY <1>6, <3>1
      <4>2. /\ DOMAIN o = DOMAIN q.items
            /\ \A i \in DOMAIN o :
                  /\ o[i].state = "skipped" <=> IsNative(d, q) /\ i = 1
                  /\ o[i].amount = 0
        BY <1>3, <3>1
      <4>3. \A p \in request'[d] : p = q
        BY <4>1
      <4>4. request'[d] # {}
        BY <4>1
      <4> QED
        BY <4>1, <4>2, <4>3, <4>4
    <3>2. CASE d # b
      <4>1. op'[d] = op[d] /\ request'[d] = request[d] /\ phase'[d] = phase[d]
        BY <1>6, <3>2
      <4>2. /\ phase[d] = "idle" <=> request[d] = {}
            /\ request[d] = {} => op[d] = <<>>
            /\ \A p, r \in request[d] : p = r
            /\ \A p \in request[d] :
                  /\ DOMAIN op[d] = DOMAIN p.items
                  /\ \A i \in DOMAIN op[d] : op[d][i].state = "skipped" <=> IsNative(d, p) /\ i = 1
            /\ \A i \in DOMAIN op[d] : op[d][i].state \notin {"moved", "ok"} => op[d][i].amount = 0
        BY DEF BatchInv, Called
      <4> QED
        BY <4>1, <4>2
    <3> QED
      BY <3>1, <3>2
  <2> QED
    BY <2>1, <2>2 DEF Called, IsNative
<1>9. Returned'
  <2>1. ASSUME NEW d \in Batches, phase'[d] = "returned"
        PROVE  /\ \A j \in DOMAIN op'[d] : Ended(d, j)'
               /\ \A p \in request'[d] : outcome'[d] = Outcomes(d, p)'
    <3>1. op'[d] = op[d] /\ phase[d] = "returned" /\ request'[d] = request[d]
      BY <1>6, <2>1
    <3>2. /\ \A j \in DOMAIN op[d] : Ended(d, j)
          /\ \A p \in request[d] : outcome[d] = Outcomes(d, p)
      BY <3>1 DEF BatchInv, Returned
    <3>3. \A p \in request[d] : Outcomes(d, p)' = Outcomes(d, p)
      BY <3>1 DEF Outcomes, AllOutcomes
    <3>4. \A j \in DOMAIN op[d] : Ended(d, j)' <=> Ended(d, j)
      BY <3>1 DEF Ended, Answered
    <3> QED
      BY <1>4, <3>1, <3>2, <3>3, <3>4
  <2>2. \A d \in Batches : phase'[d] # "returned" => outcome'[d] = <<>>
    BY <1>4, <1>6 DEF BatchInv, Returned
  <2> QED
    BY <2>1, <2>2 DEF Returned
<1> QED
  BY <1>7, <1>8, <1>9 DEF BatchInv

\* The outcomes of a batch: one for each item, or in reverse order those of a native
\* batch, without the first.
LEMMA OutcomesOfItems ==
    ASSUME NEW b, NEW q, NEW n \in Nat, op[b] \in Seq(Operation), n = Len(op[b])
    PROVE  /\ ~IsNative(b, q) =>
                 /\ DOMAIN Outcomes(b, q) = 1 .. n
                 /\ \A i \in 1 .. n : Outcomes(b, q)[i] = Outcome(q, i, op[b][i])
           /\ IsNative(b, q) =>
                 /\ DOMAIN Outcomes(b, q) = 1 .. (n - 1)
                 /\ \A k \in 1 .. (n - 1) :
                       Outcomes(b, q)[k] = Outcome(q, n - k + 1, op[b][n - k + 1])
<1>1. PICK s : s = AllOutcomes(b, q)
  OBVIOUS
<1>2. DOMAIN s = 1 .. n /\ \A i \in 1 .. n : s[i] = Outcome(q, i, op[b][i])
  BY <1>1 DEF AllOutcomes
<1>3. CASE ~IsNative(b, q)
  BY <1>1, <1>2, <1>3 DEF Outcomes
<1>4. CASE IsNative(b, q)
  <2>1. PICK t : t = SubSeq(s, 2, n)
    OBVIOUS
  <2>2. t = [i \in 1 .. (n - 1) |-> s[i + 1]]
    BY <1>2, <2>1
  <2>3. Outcomes(b, q) = Reverse(t)
    BY <1>1, <1>4, <2>1 DEF Outcomes
  <2>4. CASE n = 0
    <3>1. t = <<>>
      BY <2>2, <2>4
    <3>2. Reverse(t) = [i \in 1 .. 0 |-> t[(0 - i) + 1]]
      BY <3>1 DEF Reverse
    <3> QED
      BY <1>4, <2>3, <2>4, <3>2
  <2>5. CASE n > 0
    <3>1. Len(t) = n - 1
      BY <2>2, <2>5
    <3>2. Reverse(t) = [i \in 1 .. (n - 1) |-> t[((n - 1) - i) + 1]]
      BY <3>1 DEF Reverse
    <3>3. ASSUME NEW k \in 1 .. (n - 1) PROVE Reverse(t)[k] = s[n - k + 1]
      <4>1. ((n - 1) - k) + 1 \in 1 .. (n - 1) /\ (((n - 1) - k) + 1) + 1 = n - k + 1
        BY <2>5
      <4> QED
        BY <2>2, <3>2, <4>1
    <3>4. ASSUME NEW k \in 1 .. (n - 1) PROVE n - k + 1 \in 1 .. n
      OBVIOUS
    <3> QED
      BY <1>2, <1>4, <2>3, <3>2, <3>3, <3>4
  <2> QED
    BY <2>4, <2>5
<1> QED
  BY <1>3, <1>4

LEMMA StartKeepsInv ==
    ASSUME BatchInv, NEW b \in Batches, NEW q, Start(b, q)
    PROVE  BatchInv'
<1>1. q \in Requests /\ q \in BatchCall /\ Call(b, q, {})
  BY FiniteBatches DEF Start
<1>2. q = [q EXCEPT !.items = q.items]
  BY <1>1 DEF BatchCall
<1>3. IsPart(q)
  BY <1>1, <1>2 DEF IsPart
<1> QED
  BY <1>1, <1>3, CallKeepsInv

\* A retry is of a batch that has returned, and calls for what is left of it.
LEMMA RetryIsCall ==
    ASSUME BatchInv, NEW b \in Batches, NEW c \in Batches, Retry(b, c)
    PROVE  \E q \in BatchCall, u \in BatchCall :
              /\ request[c] = {q} /\ u \in Unfinished(c) /\ IsPart(u) /\ Call(b, u, {c})
<1>1. PICK q \in BatchCall : request[c] = {q}
  <2>1. request[c] # {} /\ \A p, r \in request[c] : p = r
    BY DEF BatchInv, Called, Retry
  <2>2. request[c] \subseteq BatchCall
    BY DEF BatchInv, Called
  <2> QED
    BY <2>1, <2>2
<1>2. PICK u \in Unfinished(c) : Call(b, u, {c})
  BY DEF Retry
<1>3. /\ u \in BatchCall /\ u = [q EXCEPT !.items = u.items]
      /\ ToSet(u.items) \subseteq ToSet(q.items)
  <2>1. /\ u \in BatchCall /\ u = [q EXCEPT !.items = u.items]
        /\ \A i \in Left(c, q) : i \in DOMAIN q.items
    BY <1>1, UnfinishedIsPart
  <2>3. PICK f \in [DOMAIN u.items -> Left(c, q)] :
           \A n \in DOMAIN u.items : u.items[n] = q.items[f[n]]
    BY <1>1, UnfinishedIsPart
  <2>2. \A n \in DOMAIN u.items : \E i \in DOMAIN q.items : u.items[n] = q.items[i]
    BY <2>1, <2>3
  <2> QED
    BY <2>1, <2>2 DEF ToSet
<1>4. PICK r \in Requests : /\ q = [r EXCEPT !.items = q.items]
                           /\ ToSet(q.items) \subseteq ToSet(r.items)
  BY <1>1 DEF BatchInv, TypeOK, IsPart
<1>5. u = [r EXCEPT !.items = u.items]
  <2>1. r \in BatchCall
    BY FiniteBatches
  <2> QED
    BY <1>3, <1>4, <2>1 DEF BatchCall
<1>6. IsPart(u)
  BY <1>3, <1>4, <1>5 DEF IsPart
<1> QED
  BY <1>1, <1>2, <1>3, <1>6

LEMMA RetryKeepsInv ==
    ASSUME BatchInv, NEW b \in Batches, NEW c \in Batches, Retry(b, c)
    PROVE  BatchInv'
<1>1. PICK u \in BatchCall : IsPart(u) /\ Call(b, u, {c})
  BY RetryIsCall
<1>2. {c} \in SUBSET Batches
  OBVIOUS
<1> QED
  BY <1>1, <1>2, CallKeepsInv

LEMMA AnswerKeepsInv ==
    ASSUME BatchInv, NEW b \in Batches, NEW i, Answer(b, i)
    PROVE  BatchInv'
<1>1. op \in [Batches -> Seq(Operation)]
  BY DEF BatchInv, TypeOK, Operation
<1>2. i \in DOMAIN op[b] /\ op[b][i] \in Operation
  BY <1>1 DEF Answer
<1>3. PICK o : o = [op[b][i] EXCEPT !.state = IF @ = "moved" THEN "ok" ELSE "failed"]
  OBVIOUS
<1>4. /\ o \in Operation /\ o.amount = op[b][i].amount
      /\ o.state = IF op[b][i].state = "moved" THEN "ok" ELSE "failed"
  BY <1>2, <1>3 DEF Operation
<1>5. op' = [op EXCEPT ![b][i] = o]
  BY <1>3 DEF Answer
<1>6. /\ ~Ended(b, i)
      /\ o.state # "skipped" /\ (o.state \notin {"moved", "ok"} => o.amount = 0)
  BY <1>2, <1>4 DEF Answer, Ended, Answered, BatchInv, Called
<1>7. /\ UNCHANGED <<phase, request, retryOf, outcome>>
      /\ safe' \in Nat /\ out' \in Nat /\ held' \in [Ids -> Nat]
  BY DEF Answer, poolVars, BatchInv, TypeOK
<1> QED
  BY <1>2, <1>4, <1>5, <1>6, <1>7, OperationKeepsInv

LEMMA OutcomesTyped ==
    ASSUME BatchInv, NEW b \in Batches, NEW q \in request[b]
    PROVE  Outcomes(b, q) \in Seq(BatchOutcome)
<1>1. /\ op[b] \in Seq(Operation) /\ q \in BatchCall /\ DOMAIN op[b] = DOMAIN q.items
  BY DEF BatchInv, TypeOK, Called, Operation
<1>2. PICK n \in Nat : n = Len(op[b]) /\ DOMAIN op[b] = 1 .. n
  BY <1>1
<1>3. ASSUME NEW i \in 1 .. n PROVE Outcome(q, i, op[b][i]) \in BatchOutcome
  <2>1. q.items[i].id \in Ids /\ op[b][i].amount \in Nat
    <3>1. q.items \in Seq(Item) /\ i \in DOMAIN q.items
      BY <1>1, <1>2 DEF BatchCall
    <3>2. q.items[i] \in Item
      BY <3>1
    <3>3. op[b][i] \in Operation
      BY <1>1, <1>2
    <3> QED
      BY <3>2, <3>3 DEF Item, Operation
  <2> QED
    BY <2>1 DEF Outcome, BatchOutcome
<1>4. PICK t : t = Outcomes(b, q)
  OBVIOUS
<1>5. t = [k \in DOMAIN t |-> t[k]]
  BY <1>4 DEF Outcomes, AllOutcomes, Reverse
<1>6. CASE ~IsNative(b, q)
  <2>1. DOMAIN t = 1 .. n /\ \A i \in 1 .. n : t[i] \in BatchOutcome
    BY <1>1, <1>2, <1>3, <1>4, <1>6, OutcomesOfItems
  <2> QED
    BY <1>4, <1>5, <2>1
<1>7. CASE IsNative(b, q)
  <2>1. /\ DOMAIN t = 1 .. (n - 1)
        /\ \A k \in 1 .. (n - 1) : t[k] = Outcome(q, n - k + 1, op[b][n - k + 1])
    BY <1>1, <1>2, <1>4, <1>7, OutcomesOfItems
  <2>2. \A k \in 1 .. (n - 1) : t[k] \in BatchOutcome
    <3>1. \A k \in 1 .. (n - 1) : n - k + 1 \in 1 .. n
      OBVIOUS
    <3> QED
      BY <1>3, <2>1, <3>1
  <2>3. PICK m \in Nat : 1 .. (n - 1) = 1 .. m
    <3>1. CASE n = 0
      <4>1. 1 .. (n - 1) = 1 .. 0
        BY <3>1
      <4> QED
        BY <4>1
    <3>2. CASE n > 0
      BY <3>2
    <3> QED
      BY <3>1, <3>2
  <2> QED
    BY <1>4, <1>5, <2>1, <2>2, <2>3
<1> QED
  BY <1>6, <1>7

LEMMA ReturnKeepsInv ==
    ASSUME BatchInv, NEW b \in Batches, Return(b)
    PROVE  BatchInv'
<1>1. PICK q \in request[b] : outcome' = [outcome EXCEPT ![b] = Outcomes(b, q)]
  BY DEF Return, Finish
<1>2. /\ phase' = [phase EXCEPT ![b] = "returned"] /\ phase[b] = "running"
      /\ UNCHANGED <<safe, held, out, request, retryOf, op>>
      /\ \A i \in DOMAIN op[b] : Ended(b, i)
  BY DEF Return, Finish, poolVars
<1>3. \A p \in request[b] : p = q
  BY DEF BatchInv, Called
<1>4. TypeOK'
  <2>1. outcome' \in [Batches -> Seq(BatchOutcome)]
    BY <1>1, OutcomesTyped DEF BatchInv, TypeOK, BatchOutcome
  <2>2. phase' \in [Batches -> {"idle", "running", "returned", "dropped"}]
    BY <1>2 DEF BatchInv, TypeOK
  <2> QED
    BY <1>2, <2>1, <2>2 DEF BatchInv, TypeOK, BatchOutcome
<1>5. Called'
  BY <1>2 DEF BatchInv, TypeOK, Called, IsNative
<1>6. Returned'
  <2>1. \A c \in Batches : c # b => phase'[c] = phase[c] /\ outcome'[c] = outcome[c]
    BY <1>1, <1>2 DEF BatchInv, TypeOK
  <2>2. phase'[b] = "returned" /\ outcome'[b] = Outcomes(b, q)
    BY <1>1, <1>2 DEF BatchInv, TypeOK
  <2>3. /\ \A c, p : Outcomes(c, p)' = Outcomes(c, p)
        /\ \A c, i : Ended(c, i)' <=> Ended(c, i)
    BY <1>2 DEF Outcomes, AllOutcomes, Ended, Answered
  <2> QED
    BY <1>2, <1>3, <2>1, <2>2, <2>3 DEF BatchInv, Returned
<1> QED
  BY <1>4, <1>5, <1>6 DEF BatchInv

LEMMA DropKeepsInv ==
    ASSUME BatchInv, NEW b \in Batches, Drop(b)
    PROVE  BatchInv'
<1>1. /\ phase' = [phase EXCEPT ![b] = "dropped"] /\ phase[b] = "running"
      /\ UNCHANGED <<safe, held, out, request, retryOf, op, outcome>>
  BY DEF Drop, poolVars
<1>2. TypeOK'
  BY <1>1 DEF BatchInv, TypeOK
<1>3. Called'
  BY <1>1 DEF BatchInv, TypeOK, Called, IsNative
<1>4. Returned'
  <2>1. /\ \A c, p : Outcomes(c, p)' = Outcomes(c, p)
        /\ \A c, i : Ended(c, i)' <=> Ended(c, i)
    BY <1>1 DEF Outcomes, AllOutcomes, Ended, Answered
  <2> QED
    BY <1>1, <2>1 DEF BatchInv, TypeOK, Returned
<1> QED
  BY <1>2, <1>3, <1>4 DEF BatchInv

\* What an operation that is on its way does to the funds: it moves m, which it tells, to
\* the allocation of a deposit, or from the others, and nothing else.
Flow(b, i, q, m, item) ==
    /\ request[b] = {q} /\ i \in DOMAIN op[b] /\ item = q.items[i]
    /\ op[b][i].state = "sent" /\ op[b][i].amount = 0
    /\ op' = [op EXCEPT ![b][i] = Op("moved", m)]
    /\ UNCHANGED <<phase, request, retryOf, outcome>>
    /\ safe' \in Nat /\ out' \in Nat /\ held' \in [Ids -> Nat]
    /\ q.kind = "deposit" => m <= item.amount
    /\ \A id \in Ids :
          held'[id] = held[id] + (IF q.kind = "deposit" /\ item.id = id THEN m ELSE 0)
                               + (IF q.kind = "transfer" /\ q.to = id THEN m ELSE 0)
                               - (IF q.kind # "deposit" /\ item.id = id THEN m ELSE 0)

LEMMA MoveIsFlow ==
    ASSUME BatchInv, NEW b \in Batches, NEW i, Moves(b, i)
    PROVE  \E q \in BatchCall, m \in Nat, item \in Item : Flow(b, i, q, m, item)
<1>1. PICK q \in request[b] : TRUE
  BY DEF Moves, deposit_funds_to, withdraw_deposit, pool_transfer
<1>2. request[b] = {q} /\ q \in BatchCall /\ DOMAIN op[b] = DOMAIN q.items
  <2>1. /\ request[b] \subseteq BatchCall /\ \A p, r \in request[b] : p = r
        /\ \A p \in request[b] : DOMAIN op[b] = DOMAIN p.items
    BY DEF BatchInv, Called
  <2> QED
    BY <2>1
<1>3. Sent(b, i)
  BY DEF Moves, deposit_funds_to, withdraw_deposit, pool_transfer
<1>4. PICK item \in Item : item = q.items[i]
  <2>1. q.items \in Seq(Item) /\ i \in DOMAIN q.items
    BY <1>2, <1>3 DEF BatchCall, Sent
  <2> QED
    BY <2>1
<1>5. item.id \in Ids /\ item.amount \in Nat /\ q.to \in Ids
  BY <1>2 DEF Item, BatchCall
<1>6. op[b][i].state = "sent" /\ op[b][i].amount = 0 /\ i \in DOMAIN op[b]
  BY <1>3 DEF Sent, BatchInv, Called
<1>7. safe \in Nat /\ out \in Nat /\ held \in [Ids -> Nat] /\ held[item.id] \in Nat
  BY <1>5 DEF BatchInv, TypeOK
<1>8. CASE q.kind = "deposit"
  <2>1. /\ item.amount <= safe /\ safe' = safe - item.amount
        /\ held' = [held EXCEPT ![item.id] = @ + item.amount]
        /\ Moved(b, i, item.amount)
        /\ UNCHANGED <<out, phase, request, retryOf, outcome>>
    BY <1>2, <1>4, <1>8 DEF Moves, deposit_funds_to, withdraw_deposit, pool_transfer
  <2>2. safe' \in Nat /\ held' \in [Ids -> Nat]
    BY <1>5, <1>7, <2>1
  <2>3. \A id \in Ids : held'[id] = held[id] + IF item.id = id THEN item.amount ELSE 0
    BY <1>5, <1>7, <2>1
  <2>4. \A id \in Ids : held[id] \in Nat
    BY <1>7
  <2>5. Flow(b, i, q, item.amount, item)
    BY <1>2, <1>4, <1>5, <1>6, <1>7, <1>8, <2>1, <2>2, <2>3, <2>4 DEF Moved, Flow
  <2> QED
    BY <1>2, <1>5, <1>7, <2>5
<1>9. CASE q.kind = "withdraw"
  <2>1. /\ out' = out + held[item.id] /\ held' = [held EXCEPT ![item.id] = 0]
        /\ Moved(b, i, held[item.id])
        /\ UNCHANGED <<safe, phase, request, retryOf, outcome>>
    BY <1>2, <1>4, <1>9 DEF Moves, deposit_funds_to, withdraw_deposit, pool_transfer
  <2>2. out' \in Nat /\ held' \in [Ids -> Nat]
    BY <1>5, <1>7, <2>1
  <2>3. \A id \in Ids : held'[id] = held[id] - IF item.id = id THEN held[item.id] ELSE 0
    BY <1>5, <1>7, <2>1
  <2>4. \A id \in Ids : held[id] \in Nat
    BY <1>7
  <2>5. Flow(b, i, q, held[item.id], item)
    BY <1>2, <1>4, <1>5, <1>6, <1>7, <1>9, <2>1, <2>2, <2>3, <2>4 DEF Moved, Flow
  <2> QED
    BY <1>2, <1>5, <1>7, <2>5
<1>10. CASE q.kind = "transfer"
  <2>1. /\ held' = [a \in Ids |-> held[a] + (IF a = q.to THEN held[item.id] ELSE 0)
                                         - (IF a = item.id THEN held[item.id] ELSE 0)]
        /\ Moved(b, i, held[item.id])
        /\ UNCHANGED <<safe, out, phase, request, retryOf, outcome>>
    BY <1>2, <1>4, <1>10 DEF Moves, deposit_funds_to, withdraw_deposit, pool_transfer
  <2>2. \A id \in Ids : held'[id] = held[id] + (IF id = q.to THEN held[item.id] ELSE 0)
                                         - (IF id = item.id THEN held[item.id] ELSE 0)
    BY <2>1
  <2>3. held' \in [Ids -> Nat]
    BY <1>5, <1>7, <2>1
  <2>4. \A id \in Ids : held[id] \in Nat
    BY <1>7
  <2>5. Flow(b, i, q, held[item.id], item)
    BY <1>2, <1>4, <1>5, <1>6, <1>7, <1>10, <2>1, <2>2, <2>3, <2>4 DEF Moved, Flow
  <2> QED
    BY <1>2, <1>5, <1>7, <2>5
<1> QED
  BY <1>2, <1>8, <1>9, <1>10 DEF BatchCall

LEMMA PoolStepKeepsInv ==
    ASSUME BatchInv, NEW b \in Batches, NEW i, PoolStep(b, i)
    PROVE  BatchInv'
<1>1. CASE Moves(b, i)
  <2>1. PICK m \in Nat : /\ i \in DOMAIN op[b] /\ op[b][i].state = "sent"
                         /\ op' = [op EXCEPT ![b][i] = Op("moved", m)]
                         /\ UNCHANGED <<phase, request, retryOf, outcome>>
                         /\ safe' \in Nat /\ out' \in Nat /\ held' \in [Ids -> Nat]
    BY <1>1, MoveIsFlow DEF Flow
  <2>2. /\ Op("moved", m) \in Operation /\ Op("moved", m).state = "moved"
        /\ ~Ended(b, i)
    BY <2>1 DEF Op, Operation, Ended, Answered
  <2> QED
    BY <2>1, <2>2, OperationKeepsInv
<1>2. CASE Refuse(b, i)
  <2>1. /\ i \in DOMAIN op[b] /\ op[b][i].state = "sent"
        /\ op' = [op EXCEPT ![b][i] = Op("refused", 0)]
        /\ UNCHANGED <<phase, request, retryOf, outcome>>
        /\ safe' \in Nat /\ out' \in Nat /\ held' \in [Ids -> Nat]
    BY <1>2 DEF Refuse, Sent, poolVars, BatchInv, TypeOK
  <2>2. /\ Op("refused", 0) \in Operation /\ Op("refused", 0).state = "refused"
        /\ Op("refused", 0).amount = 0 /\ ~Ended(b, i)
    BY <2>1 DEF Op, Operation, Ended, Answered
  <2> QED
    BY <2>1, <2>2, OperationKeepsInv
<1> QED
  BY <1>1, <1>2 DEF PoolStep

LEMMA BatchInvStep == BatchInv /\ [Next]_vars => BatchInv'
<1> SUFFICES ASSUME BatchInv, [Next]_vars PROVE BatchInv'
  OBVIOUS
<1>1. ASSUME NEW b \in Batches, BatchStep(b) PROVE BatchInv'
  BY <1>1, ReturnKeepsInv, DropKeepsInv, RetryKeepsInv, AnswerKeepsInv DEF BatchStep
<1>2. CASE UNCHANGED vars
  <2>1. UNCHANGED <<safe, held, out, phase, request, retryOf, op, outcome>>
    BY <1>2 DEF vars
  <2>2. TypeOK'
    BY <2>1 DEF BatchInv, TypeOK
  <2>3. Called'
    BY <2>1 DEF BatchInv, Called, IsNative
  <2>4. /\ \A c, p : Outcomes(c, p)' = Outcomes(c, p)
        /\ \A c, i : Ended(c, i)' <=> Ended(c, i)
    BY <2>1 DEF Outcomes, AllOutcomes, Ended, Answered
  <2> QED
    BY <2>1, <2>2, <2>3, <2>4 DEF BatchInv, Returned
<1> QED
  BY <1>1, <1>2, StartKeepsInv, PoolStepKeepsInv DEF Next

\* Every call keeps its place among the requests, every operation its type, and no more
\* is moved from the Safe than there is.
THEOREM TypeCorrect == Spec => []TypeOK
<1>1. BatchInv => TypeOK
  BY DEF BatchInv
<1> QED
  BY <1>1, BatchInvInit, BatchInvStep, PTL DEF Spec

\* Once a batch has returned, none of its single operations moves funds: Return waits
\* for the last of them, as join_all does.
THEOREM BatchesAreFinal == Spec => ReturnedIsFinal
<1>1. BatchInv => \A b \in Batches : phase[b] = "returned" =>
                     \A i \in 1 .. MaxItems : ~Moves(b, i)
  BY DEF BatchInv, Returned, Moves, deposit_funds_to, withdraw_deposit, pool_transfer, Sent,
         Ended, Answered
<1> QED
  BY <1>1, BatchInvInit, BatchInvStep, PTL DEF Spec, ReturnedIsFinal

--------------------------------------------------------------------------------
(* What has been moved, and what the receipts say. *)

\* What item i of batch b, if it is of allocation id, has moved; what all its items have,
\* and those of all batches of a kind to the given destinations.
Amount(b, i, id) == IF \E q \in request[b] : q.items[i].id = id THEN op[b][i].amount ELSE 0

MovedOf(b, id) == SumFunction([i \in DOMAIN op[b] |-> Amount(b, i, id)])

Has(b, kind, to) == \E q \in request[b] : q.kind = kind /\ q.to \in to

MovedBy(id, kind, to) ==
    SumFunction([b \in Batches |-> IF Has(b, kind, to) THEN MovedOf(b, id) ELSE 0])

\* At any time, what has been moved from and to an allocation is the difference between
\* what it holds and what it held first, also while batches run and if they are dropped.
Conserved ==
    \A id \in Ids :
        held[id] + MovedBy(id, "withdraw", Ids) + MovedBy(id, "transfer", Ids)
            = Initial[id] + MovedBy(id, "deposit", Ids)
              + SumFunction([a \in Ids |-> MovedBy(a, "transfer", {id})])

\* A step that moves no funds: calls have moved nothing yet, and what operations have
\* moved stays.
Quiet ==
    /\ held' = held
    /\ \A c \in Batches :
          \/ /\ request'[c] = request[c] /\ DOMAIN op'[c] = DOMAIN op[c]
             /\ \A i \in DOMAIN op[c] : op'[c][i].amount = op[c][i].amount
          \/ request[c] = {} /\ \A i \in DOMAIN op'[c] : op'[c][i].amount = 0

LEMMA StepIsQuietOrFlow ==
    ASSUME BatchInv, [Next]_vars
    PROVE  \/ Quiet
           \/ \E b \in Batches, i \in Nat, q \in BatchCall, m \in Nat, item \in Item :
                 Flow(b, i, q, m, item)
<1>1. op \in [Batches -> Seq(Operation)] /\ DOMAIN request = Batches
  BY DEF BatchInv, TypeOK, Called, Operation
<1>2. ASSUME NEW b \in Batches, NEW q, NEW C, Call(b, q, C) PROVE Quiet
  <2>1. /\ request[b] = {} /\ held' = held
        /\ \A c \in Batches : c # b => request'[c] = request[c] /\ op'[c] = op[c]
    BY <1>1, <1>2 DEF Call, BatchInv, Called, poolVars
  <2>2. op'[b] = [i \in DOMAIN q.items |->
                     Op(IF IsNative(b, q) /\ i = 1 THEN "skipped" ELSE "sent", 0)]
    BY <1>1, <1>2 DEF Call
  <2>3. \A i \in DOMAIN op'[b] : op'[b][i].amount = 0
    BY <2>2 DEF Op
  <2> QED
    BY <2>1, <2>3 DEF Quiet
<1>3. ASSUME NEW b \in Batches, NEW i, NEW o \in Operation, i \in DOMAIN op[b],
             op' = [op EXCEPT ![b][i] = o], o.amount = op[b][i].amount,
             UNCHANGED <<held, request>>
      PROVE  Quiet
  <2>1. /\ \A c \in Batches : c # b => op'[c] = op[c]
        /\ DOMAIN op'[b] = DOMAIN op[b]
        /\ op'[b][i] = o
        /\ \A j \in DOMAIN op[b] : j # i => op'[b][j] = op[b][j]
    BY <1>1, <1>3, OpChanged
  <2> QED
    BY <1>3, <2>1 DEF Quiet
<1>4. ASSUME NEW b \in Batches, NEW i, Answer(b, i) PROVE Quiet
  <2>1. i \in DOMAIN op[b] /\ op[b][i] \in Operation
    BY <1>1, <1>4 DEF Answer
  <2>2. PICK o : o = [op[b][i] EXCEPT !.state = IF @ = "moved" THEN "ok" ELSE "failed"]
    OBVIOUS
  <2>3. o \in Operation /\ o.amount = op[b][i].amount
    BY <2>1, <2>2 DEF Operation
  <2>4. op' = [op EXCEPT ![b][i] = o] /\ UNCHANGED <<held, request>>
    BY <1>4, <2>2 DEF Answer, poolVars
  <2> QED
    BY <1>3, <2>1, <2>3, <2>4
<1>5. ASSUME NEW b \in Batches, NEW i, Refuse(b, i) PROVE Quiet
  <2>1. /\ i \in DOMAIN op[b] /\ op[b][i].amount = 0
        /\ op' = [op EXCEPT ![b][i] = Op("refused", 0)] /\ UNCHANGED <<held, request>>
    BY <1>5 DEF Refuse, Sent, poolVars, BatchInv, Called
  <2>2. Op("refused", 0) \in Operation /\ Op("refused", 0).amount = 0
    BY DEF Op, Operation
  <2> QED
    BY <1>3, <2>1, <2>2
<1>6. ASSUME UNCHANGED <<held, request, op>> PROVE Quiet
  BY <1>6 DEF Quiet
<1>7. ASSUME NEW b \in Batches, BatchStep(b) PROVE Quiet
  <2>1. CASE Return(b) \/ Drop(b)
    BY <1>6, <2>1 DEF Return, Finish, Drop, poolVars
  <2>2. ASSUME NEW c \in Batches, Retry(b, c) PROVE Quiet
    BY <1>2, <2>2 DEF Retry
  <2> QED
    BY <1>4, <1>7, <2>1, <2>2 DEF BatchStep
<1>8. ASSUME NEW b \in Batches, NEW i \in 1 .. MaxItems, Moves(b, i)
      PROVE  \E q \in BatchCall, m \in Nat, item \in Item : Flow(b, i, q, m, item)
  BY <1>8, MoveIsFlow
<1>9. 1 .. MaxItems \subseteq Nat
  BY DepositAssumption
<1>10. CASE UNCHANGED vars
  BY <1>6, <1>10 DEF vars
<1>11. ASSUME NEW b \in Batches, NEW q \in Requests, Start(b, q) PROVE Quiet
  BY <1>2, <1>11 DEF Start
<1>12. CASE \E b \in Batches, i \in 1 .. MaxItems : Moves(b, i)
  BY <1>8, <1>9, <1>12
<1> QED
  BY <1>5, <1>7, <1>10, <1>11, <1>12 DEF Next, PoolStep

LEMMA AmountNat ==
    ASSUME BatchInv, NEW b \in Batches, NEW id
    PROVE  /\ IsFiniteSet(DOMAIN op[b]) /\ DOMAIN op[b] \subseteq Nat
           /\ \A i \in DOMAIN op[b] : op[b][i].amount \in Nat
           /\ [i \in DOMAIN op[b] |-> Amount(b, i, id)] \in [DOMAIN op[b] -> Nat]
<1>1. op[b] \in Seq(Operation)
  BY DEF BatchInv, TypeOK, Operation
<1>2. \A i \in DOMAIN op[b] : op[b][i].amount \in Nat
  <2>1. \A i \in DOMAIN op[b] : op[b][i] \in Operation
    BY <1>1
  <2> QED
    BY <2>1 DEF Operation
<1>3. IsFiniteSet(DOMAIN op[b]) /\ DOMAIN op[b] \subseteq Nat
  BY <1>1, FS_Interval
<1> QED
  BY <1>2, <1>3 DEF Amount

LEMMA MovedNat ==
    ASSUME BatchInv
    PROVE  /\ \A b \in Batches : \A id : MovedOf(b, id) \in Nat
           /\ \A id, kind, to : MovedBy(id, kind, to) \in Nat
<1>1. ASSUME NEW b \in Batches, NEW id PROVE MovedOf(b, id) \in Nat
  BY AmountNat, TotalNat DEF MovedOf
<1>2. ASSUME NEW id, NEW kind, NEW to PROVE MovedBy(id, kind, to) \in Nat
  <2>1. [b \in Batches |-> IF Has(b, kind, to) THEN MovedOf(b, id) ELSE 0] \in [Batches -> Nat]
    BY <1>1
  <2> QED
    BY <2>1, FiniteBatches, TotalNat DEF MovedBy
<1> QED
  BY <1>1, <1>2

LEMMA NothingMoved ==
    BatchInv => \A b \in Batches : (\A i \in DOMAIN op[b] : op[b][i].amount = 0) =>
                   \A id : MovedOf(b, id) = 0
<1> SUFFICES ASSUME BatchInv, NEW b \in Batches, NEW id, \A i \in DOMAIN op[b] : op[b][i].amount = 0
             PROVE  MovedOf(b, id) = 0
  OBVIOUS
<1>1. PICK f : f = [i \in DOMAIN op[b] |-> Amount(b, i, id)]
  OBVIOUS
<1>2. f \in [DOMAIN op[b] -> Nat] /\ IsFiniteSet(DOMAIN op[b]) /\ \A i \in DOMAIN op[b] : f[i] = 0
  BY <1>1, AmountNat DEF Amount
<1> QED
  BY <1>1, <1>2, TotalNat DEF MovedOf

LEMMA NothingMovedNext ==
    (BatchInv => \A b \in Batches : (\A i \in DOMAIN op[b] : op[b][i].amount = 0) =>
                   \A id : MovedOf(b, id) = 0)'
BY NothingMoved, PTL

\* A step that moves no funds leaves the sums as they are.
LEMMA QuietMovesNothing ==
    ASSUME BatchInv, BatchInv', Quiet
    PROVE  \A id, kind, to : MovedBy(id, kind, to)' = MovedBy(id, kind, to)
<1> SUFFICES ASSUME NEW id, NEW kind, NEW to
             PROVE  MovedBy(id, kind, to)' = MovedBy(id, kind, to)
  OBVIOUS
<1>1. ASSUME NEW c \in Batches
      PROVE  (IF Has(c, kind, to)' THEN MovedOf(c, id)' ELSE 0)
                 = IF Has(c, kind, to) THEN MovedOf(c, id) ELSE 0
  <2>1. CASE /\ request'[c] = request[c] /\ DOMAIN op'[c] = DOMAIN op[c]
             /\ \A i \in DOMAIN op[c] : op'[c][i].amount = op[c][i].amount
    <3>1. Has(c, kind, to)' <=> Has(c, kind, to)
      BY <2>1 DEF Has
    <3>2. \A i \in DOMAIN op[c] : Amount(c, i, id)' = Amount(c, i, id)
      BY <2>1 DEF Amount
    <3>3. [i \in DOMAIN op'[c] |-> Amount(c, i, id)'] = [i \in DOMAIN op[c] |-> Amount(c, i, id)]
      BY <2>1, <3>2
    <3>4. MovedOf(c, id)' = MovedOf(c, id)
      BY <3>3 DEF MovedOf
    <3> QED
      BY <3>1, <3>4
  <2>2. CASE request[c] = {} /\ \A i \in DOMAIN op'[c] : op'[c][i].amount = 0
    <3>1. ~Has(c, kind, to)
      BY <2>2 DEF Has
    <3>2. MovedOf(c, id)' = 0
      BY <2>2, NothingMovedNext
    <3> QED
      BY <3>1, <3>2
  <2> QED
    BY <2>1, <2>2 DEF Quiet
<1>2. [c \in Batches |-> IF Has(c, kind, to)' THEN MovedOf(c, id)' ELSE 0]
        = [c \in Batches |-> IF Has(c, kind, to) THEN MovedOf(c, id) ELSE 0]
  BY <1>1
<1> QED
  BY <1>2 DEF MovedBy

\* One that moves funds adds them once, where the item says.
LEMMA FlowMoves ==
    ASSUME BatchInv, BatchInv', NEW b \in Batches, NEW i \in Nat, NEW q \in BatchCall,
           NEW m \in Nat, NEW item \in Item, Flow(b, i, q, m, item)
    PROVE  /\ \A c \in Batches : \A id : MovedOf(c, id)' = MovedOf(c, id)
                                     + IF c = b /\ item.id = id THEN m ELSE 0
           /\ \A id, kind, to :
                 MovedBy(id, kind, to)' = MovedBy(id, kind, to)
                     + IF q.kind = kind /\ q.to \in to /\ item.id = id THEN m ELSE 0
<1>1. /\ request[b] = {q} /\ request' = request /\ i \in DOMAIN op[b] /\ item = q.items[i]
      /\ op[b][i].amount = 0 /\ op' = [op EXCEPT ![b][i] = Op("moved", m)]
  BY DEF Flow
<1>2. op \in [Batches -> Seq(Operation)] /\ Op("moved", m) \in Operation
  BY DEF BatchInv, TypeOK, Operation, Op
<1>3. /\ \A c \in Batches : c # b => op'[c] = op[c]
      /\ DOMAIN op'[b] = DOMAIN op[b]
      /\ op'[b][i].amount = m
      /\ \A j \in DOMAIN op[b] : j # i => op'[b][j] = op[b][j]
  BY <1>1, <1>2, OpChanged DEF Op
<1>4. ASSUME NEW c \in Batches, NEW id, c # b PROVE MovedOf(c, id)' = MovedOf(c, id)
  BY <1>1, <1>3, <1>4 DEF MovedOf, Amount
<1>5. ASSUME NEW id
      PROVE  MovedOf(b, id)' = MovedOf(b, id) + IF item.id = id THEN m ELSE 0
  <2>1. PICK D : D = DOMAIN op[b]
    OBVIOUS
  <2>2. PICK f : f = [j \in D |-> Amount(b, j, id)]
    OBVIOUS
  <2>3. PICK g : g = [j \in D |-> Amount(b, j, id)']
    OBVIOUS
  <2>4. f \in [D -> Nat] /\ IsFiniteSet(D)
    BY <2>1, <2>2, AmountNat
  <2>5. ASSUME NEW j \in D
        PROVE  g[j] = IF j = i /\ item.id = id THEN m ELSE f[j]
    BY <1>1, <1>3, <2>1, <2>2, <2>3 DEF Amount
  <2>6. g \in [D -> Nat]
    BY <2>3, <2>4, <2>5
  <2>7. f[i] = 0 \/ item.id # id
    BY <1>1, <2>1, <2>2 DEF Amount
  <2>8. SumFunction(g) = SumFunction(f) + g[i] - f[i]
    BY <1>1, <2>1, <2>4, <2>5, <2>6, TotalChange
  <2>9. SumFunction(f) \in Nat /\ f[i] \in Nat /\ g[i] \in Nat
    BY <1>1, <2>1, <2>4, <2>6, TotalNat
  <2>10. MovedOf(b, id)' = SumFunction(g) /\ MovedOf(b, id) = SumFunction(f)
    BY <1>3, <2>1, <2>2, <2>3 DEF MovedOf
  <2> QED
    BY <1>1, <2>1, <2>5, <2>7, <2>8, <2>9, <2>10
<1>6. \A c \in Batches : \A id :
         MovedOf(c, id)' = MovedOf(c, id) + IF c = b /\ item.id = id THEN m ELSE 0
  BY <1>4, <1>5, MovedNat
<1>7. ASSUME NEW id, NEW kind, NEW to
      PROVE  MovedBy(id, kind, to)' = MovedBy(id, kind, to)
                 + IF q.kind = kind /\ q.to \in to /\ item.id = id THEN m ELSE 0
  <2>1. \A c \in Batches : Has(c, kind, to)' <=> Has(c, kind, to)
    BY <1>1 DEF Has
  <2>2. Has(b, kind, to) <=> q.kind = kind /\ q.to \in to
    BY <1>1 DEF Has
  <2>3. PICK f : f = [c \in Batches |-> IF Has(c, kind, to) THEN MovedOf(c, id) ELSE 0]
    OBVIOUS
  <2>4. PICK g : g = [c \in Batches |-> IF Has(c, kind, to)' THEN MovedOf(c, id)' ELSE 0]
    OBVIOUS
  <2>5. f \in [Batches -> Nat] /\ \A c \in Batches : MovedOf(c, id) \in Nat
    BY <2>3, MovedNat
  <2>6. /\ \A c \in Batches : c # b => g[c] = f[c]
        /\ g[b] = f[b] + IF q.kind = kind /\ q.to \in to /\ item.id = id THEN m ELSE 0
    BY <1>6, <2>1, <2>2, <2>3, <2>4, <2>5
  <2>7. g \in [Batches -> Nat]
    BY <2>4, <2>5, <2>6
  <2>8. SumFunction(g) = SumFunction(f) + g[b] - f[b]
    BY <2>5, <2>6, <2>7, FiniteBatches, TotalChange
  <2>9. SumFunction(f) \in Nat /\ f[b] \in Nat
    BY <2>5, FiniteBatches, TotalNat
  <2>10. MovedBy(id, kind, to)' = SumFunction(g) /\ MovedBy(id, kind, to) = SumFunction(f)
    BY <2>3, <2>4 DEF MovedBy
  <2> QED
    BY <2>6, <2>8, <2>9, <2>10
<1> QED
  BY <1>6, <1>7

LEMMA ConservedInit == Init => Conserved
<1> SUFFICES ASSUME Init PROVE Conserved
  OBVIOUS
<1>1. BatchInv /\ held = Initial /\ \A id \in Ids : Initial[id] \in Nat
  BY BatchInvInit, DepositAssumption DEF Init
<1>2. \A b \in Batches : \A id : MovedOf(b, id) = 0
  BY <1>1, NothingMoved DEF Init
<1>3. ASSUME NEW id, NEW kind, NEW to PROVE MovedBy(id, kind, to) = 0
  <2>1. PICK f : f = [b \in Batches |-> IF Has(b, kind, to) THEN MovedOf(b, id) ELSE 0]
    OBVIOUS
  <2>2. f \in [Batches -> Nat] /\ \A b \in Batches : f[b] = 0
    BY <1>2, <2>1
  <2> QED
    BY <2>1, <2>2, FiniteBatches, TotalNat DEF MovedBy
<1>4. ASSUME NEW id PROVE SumFunction([a \in Ids |-> MovedBy(a, "transfer", {id})]) = 0
  <2>1. PICK f : f = [a \in Ids |-> MovedBy(a, "transfer", {id})]
    OBVIOUS
  <2>2. f \in [Ids -> Nat] /\ \A a \in Ids : f[a] = 0
    BY <1>3, <2>1
  <2> QED
    BY <2>1, <2>2, FiniteBatches, TotalNat
<1> QED
  BY <1>1, <1>3, <1>4 DEF Conserved

LEMMA ConservedStep ==
    ASSUME BatchInv, BatchInv', Conserved, [Next]_vars
    PROVE  Conserved'
<1>1. CASE Quiet
  <2>1. /\ \A id, kind, to : MovedBy(id, kind, to)' = MovedBy(id, kind, to)
        /\ held' = held
    BY <1>1, QuietMovesNothing DEF Quiet
  <2>2. \A id : [a \in Ids |-> MovedBy(a, "transfer", {id})']
                = [a \in Ids |-> MovedBy(a, "transfer", {id})]
    BY <2>1
  <2> QED
    BY <2>1, <2>2 DEF Conserved
<1>2. ASSUME NEW b \in Batches, NEW i \in Nat, NEW q \in BatchCall, NEW m \in Nat,
             NEW item \in Item, Flow(b, i, q, m, item)
      PROVE  Conserved'
  <2> SUFFICES ASSUME NEW id \in Ids
               PROVE  held'[id] + MovedBy(id, "withdraw", Ids)' + MovedBy(id, "transfer", Ids)'
                        = Initial[id] + MovedBy(id, "deposit", Ids)'
                          + SumFunction([a \in Ids |-> MovedBy(a, "transfer", {id})'])
    BY DEF Conserved
  <2>1. q.to \in Ids /\ item.id \in Ids /\ q.kind \in {"deposit", "withdraw", "transfer"}
    BY DEF BatchCall, Item
  <2>2. \A a, kind, to :
           MovedBy(a, kind, to)' = MovedBy(a, kind, to)
               + IF q.kind = kind /\ q.to \in to /\ item.id = a THEN m ELSE 0
    BY <1>2, FlowMoves
  <2>3. \A a, kind, to : MovedBy(a, kind, to) \in Nat
    BY MovedNat
  <2>4. PICK f : f = [a \in Ids |-> MovedBy(a, "transfer", {id})]
    OBVIOUS
  <2>5. PICK g : g = [a \in Ids |-> MovedBy(a, "transfer", {id})']
    OBVIOUS
  <2>6. f \in [Ids -> Nat]
    BY <2>3, <2>4
  <2>7. /\ \A a \in Ids : a # item.id => g[a] = f[a]
        /\ g[item.id] = f[item.id] + IF q.kind = "transfer" /\ q.to = id THEN m ELSE 0
    BY <2>1, <2>2, <2>3, <2>4, <2>5
  <2>8. g \in [Ids -> Nat]
    BY <2>5, <2>6, <2>7
  <2>9. SumFunction(g) = SumFunction(f) + g[item.id] - f[item.id]
    BY <2>1, <2>6, <2>7, <2>8, FiniteBatches, TotalChange
  <2>10. SumFunction(f) \in Nat /\ f[item.id] \in Nat
    BY <2>1, <2>6, FiniteBatches, TotalNat
  <2>11. SumFunction(g) = SumFunction(f) + IF q.kind = "transfer" /\ q.to = id THEN m ELSE 0
    BY <2>7, <2>9, <2>10
  <2>12. /\ held[id] + MovedBy(id, "withdraw", Ids) + MovedBy(id, "transfer", Ids)
               = Initial[id] + MovedBy(id, "deposit", Ids) + SumFunction(f)
         /\ held[id] \in Nat /\ Initial[id] \in Nat
    BY <2>4, DepositAssumption DEF Conserved, BatchInv, TypeOK
  <2>13. held'[id] = held[id] + (IF q.kind = "deposit" /\ item.id = id THEN m ELSE 0)
                              + (IF q.kind = "transfer" /\ q.to = id THEN m ELSE 0)
                              - (IF q.kind # "deposit" /\ item.id = id THEN m ELSE 0)
    BY <1>2 DEF Flow
  <2>14. /\ MovedBy(id, "withdraw", Ids)' = MovedBy(id, "withdraw", Ids)
                + IF q.kind = "withdraw" /\ item.id = id THEN m ELSE 0
         /\ MovedBy(id, "transfer", Ids)' = MovedBy(id, "transfer", Ids)
                + IF q.kind = "transfer" /\ item.id = id THEN m ELSE 0
         /\ MovedBy(id, "deposit", Ids)' = MovedBy(id, "deposit", Ids)
                + IF q.kind = "deposit" /\ item.id = id THEN m ELSE 0
    BY <2>1, <2>2
  <2>15. /\ MovedBy(id, "withdraw", Ids) \in Nat /\ MovedBy(id, "transfer", Ids) \in Nat
         /\ MovedBy(id, "deposit", Ids) \in Nat
    BY <2>3
  <2> QED
    BY <2>1, <2>5, <2>10, <2>11, <2>12, <2>13, <2>14, <2>15
<1> QED
  BY <1>1, <1>2, StepIsQuietOrFlow

\* The receipts that a batch returned for an allocation make up what it has moved: those
\* of a failed operation are 0, and the item that a native batch leaves out moved nothing.
LEMMA ReceiptsTellMoves ==
    ASSUME BatchInv, NEW b \in Batches, phase[b] \in {"idle", "returned"}, NEW id
    PROVE  ReceiptsOf(b, id) = MovedOf(b, id)
<1>1. CASE phase[b] = "idle"
  <2>1. op[b] = <<>> /\ outcome[b] = <<>>
    BY <1>1 DEF BatchInv, Called, Returned
  <2>2. PICK f : f = [i \in {j \in DOMAIN outcome[b] : id \in outcome[b][j].id} |->
                         outcome[b][i].receipt]
    OBVIOUS
  <2>3. DOMAIN f = {}
    BY <2>1, <2>2
  <2>4. MovedOf(b, id) = 0
    BY <2>1, NothingMoved
  <2> QED
    BY <2>2, <2>3, <2>4, TotalOfNone DEF ReceiptsOf
<1>2. CASE phase[b] = "returned"
  <2>1. PICK q \in BatchCall : request[b] = {q}
    <3>1. request[b] # {} /\ request[b] \subseteq BatchCall /\ \A p, r \in request[b] : p = r
      BY <1>2 DEF BatchInv, Called
    <3> QED
      BY <3>1
  <2>2. PICK n \in Nat : /\ n = Len(op[b]) /\ DOMAIN op[b] = 1 .. n
                        /\ op[b] \in Seq(Operation)
    BY DEF BatchInv, TypeOK, Operation
  <2>3. /\ outcome[b] = Outcomes(b, q)
        /\ DOMAIN q.items = DOMAIN op[b]
        /\ \A i \in DOMAIN op[b] :
              /\ Ended(b, i)
              /\ op[b][i].state = "skipped" <=> IsNative(b, q) /\ i = 1
              /\ op[b][i].state # "ok" => op[b][i].amount = 0
    BY <1>2, <2>1 DEF BatchInv, Called, Returned, Ended, Answered
  <2>4. PICK S : S = {i \in 1 .. n : op[b][i].state = "ok" /\ q.items[i].id = id}
    OBVIOUS
  <2>5. PICK R : R = {j \in DOMAIN outcome[b] : id \in outcome[b][j].id}
    OBVIOUS
  <2>6. PICK f : f = [i \in S |-> op[b][i].amount]
    OBVIOUS
  <2>7. PICK g : g = [j \in R |-> outcome[b][j].receipt]
    OBVIOUS
  <2>8. PICK w : w = [i \in 1 .. n |-> Amount(b, i, id)]
    OBVIOUS
  <2>9. /\ w \in [1 .. n -> Nat] /\ IsFiniteSet(1 .. n) /\ S \in SUBSET (1 .. n)
        /\ f \in [S -> Nat] /\ IsFiniteSet(S)
    <3>1. w \in [1 .. n -> Nat] /\ IsFiniteSet(1 .. n) /\ \A i \in 1 .. n : op[b][i].amount \in Nat
      BY <2>2, <2>8, AmountNat
    <3>2. S \in SUBSET (1 .. n)
      BY <2>4
    <3>3. IsFiniteSet(S)
      BY <3>1, <3>2, FS_Subset
    <3> QED
      BY <2>6, <3>1, <3>2, <3>3
  <2>10. SumFunction(f) = SumFunction(w)
    <3>1. \A i \in S : f[i] = w[i]
      BY <2>1, <2>4, <2>6, <2>8 DEF Amount
    <3>2. \A i \in (1 .. n) \ S : w[i] = 0
      BY <2>1, <2>2, <2>3, <2>4, <2>8 DEF Amount
    <3>3. PICK D : D = 1 .. n
      OBVIOUS
    <3>4. /\ f \in [S -> Int] /\ w \in [D -> Int] /\ S \in SUBSET D /\ IsFiniteSet(D)
          /\ \A i \in D \ S : w[i] = 0
      BY <2>9, <3>2, <3>3
    <3> QED
      BY <3>1, <3>4, TotalLeavesOutZero
  <2>11. ASSUME NEW i \in 1 .. n
         PROVE  /\ id \in Outcome(q, i, op[b][i]).id <=> i \in S
                /\ i \in S => Outcome(q, i, op[b][i]).receipt = f[i]
    BY <2>4, <2>6 DEF Outcome
  <2>12. SumFunction(f) = SumFunction(g)
    <3>1. CASE ~IsNative(b, q)
      <4>1. /\ DOMAIN outcome[b] = 1 .. n
            /\ \A i \in 1 .. n : outcome[b][i] = Outcome(q, i, op[b][i])
        BY <2>2, <2>3, <3>1, OutcomesOfItems
      <4>2. R = S
        BY <2>4, <2>5, <2>11, <4>1
      <4>3. \A i \in S : g[i] = f[i]
        BY <2>4, <2>7, <2>11, <4>1, <4>2
      <4>4. f = g
        BY <2>6, <2>7, <4>2, <4>3
      <4> QED
        BY <4>4
    <3>2. CASE IsNative(b, q)
      <4>1. /\ DOMAIN outcome[b] = 1 .. (n - 1)
            /\ \A k \in 1 .. (n - 1) :
                  outcome[b][k] = Outcome(q, n - k + 1, op[b][n - k + 1])
        BY <2>2, <2>3, <3>2, OutcomesOfItems
      <4>2. PICK r : r = [i \in S |-> n - i + 1]
        OBVIOUS
      <4>3. \A i \in S : i \in 2 .. n
        BY <2>2, <2>3, <2>4, <3>2
      <4>4. ASSUME NEW k \in 1 .. (n - 1)
            PROVE  /\ n - k + 1 \in 1 .. n
                   /\ k \in R <=> n - k + 1 \in S
                   /\ k \in R => g[k] = f[n - k + 1]
        <5>1. n - k + 1 \in 1 .. n
          OBVIOUS
        <5>2. PICK i \in 1 .. n : i = n - k + 1
          BY <5>1
        <5>3. outcome[b][k] = Outcome(q, i, op[b][i])
          BY <4>1, <5>2
        <5>4. k \in R <=> i \in S
          BY <2>5, <2>11, <4>1, <5>3
        <5>5. k \in R => g[k] = f[i]
          BY <2>7, <2>11, <5>3, <5>4
        <5> QED
          BY <5>1, <5>2, <5>4, <5>5
      <4>5. \A k \in R : k \in 1 .. (n - 1)
        BY <2>5, <4>1
      <4>6. ASSUME NEW i \in S
            PROVE  /\ n - i + 1 \in 1 .. (n - 1)
                   /\ n - (n - i + 1) + 1 = i
        BY <4>3
      <4>7. r \in [S -> R]
        BY <4>2, <4>4, <4>6
      <4>8. \A i, j \in S : r[i] = r[j] => i = j
        BY <4>2, <4>3
      <4>9. \A k \in R : \E i \in S : r[i] = k
        <5> SUFFICES ASSUME NEW k \in R PROVE \E i \in S : r[i] = k
          OBVIOUS
        <5>1. k \in 1 .. (n - 1) /\ n - k + 1 \in S
          BY <4>4, <4>5
        <5>2. r[n - k + 1] = n - (n - k + 1) + 1
          BY <4>2, <5>1
        <5>3. n - (n - k + 1) + 1 = k
          BY <5>1
        <5> QED
          BY <5>1, <5>2, <5>3
      <4>10. g \in [R -> Nat] /\ \A i \in S : g[r[i]] = f[i]
        <5>1. \A i \in S : g[r[i]] = f[i]
          BY <4>2, <4>4, <4>6, <4>7
        <5>2. \A k \in R : g[k] \in Nat
          BY <2>9, <4>4, <4>5
        <5> QED
          BY <2>7, <5>1, <5>2
      <4>11. IsFiniteSet(R)
        <5>1. R \in SUBSET (1 .. n)
          <6>1. \A k \in 1 .. (n - 1) : k \in 1 .. n
            OBVIOUS
          <6> QED
            BY <4>5, <6>1
        <5> QED
          BY <2>9, <5>1, FS_Subset
      <4> QED
        <5>1. f \in [S -> Int] /\ g \in [R -> Int]
          BY <2>9, <4>10
        <5>2. IsFiniteSet(S) /\ \A i \in S : g[r[i]] = f[i]
          BY <2>9, <4>10
        <5> QED
          BY <4>7, <4>8, <4>9, <4>11, <5>1, <5>2, TotalRenamed
    <3> QED
      BY <3>1, <3>2
  <2>13. MovedOf(b, id) = SumFunction(w) /\ ReceiptsOf(b, id) = SumFunction(g)
    BY <2>2, <2>5, <2>7, <2>8 DEF MovedOf, ReceiptsOf
  <2> QED
    BY <2>10, <2>12, <2>13
<1> QED
  BY <1>1, <1>2

LEMMA ReceiptsAre ==
    ASSUME BatchInv, \A b \in Batches : phase[b] \in {"idle", "returned"},
           NEW id, NEW kind, NEW to
    PROVE  Receipts(id, kind, to) = MovedBy(id, kind, to)
<1>1. PICK f : f = [b \in Batches |-> IF Has(b, kind, to) THEN MovedOf(b, id) ELSE 0]
  OBVIOUS
<1>2. PICK R : R = {c \in Batches : \E q \in request[c] : q.kind = kind /\ q.to \in to}
  OBVIOUS
<1>3. PICK g : g = [b \in R |-> ReceiptsOf(b, id)]
  OBVIOUS
<1>4. f \in [Batches -> Nat]
  BY <1>1, MovedNat
<1>5. /\ R \in SUBSET Batches
      /\ \A b \in Batches : b \in R <=> Has(b, kind, to)
  BY <1>2 DEF Has
<1>6. /\ \A b \in R : g[b] = f[b]
      /\ \A b \in Batches \ R : f[b] = 0
  BY <1>1, <1>3, <1>5, ReceiptsTellMoves
<1>7. g \in [R -> Nat]
  BY <1>3, <1>4, <1>5, <1>6
<1>8. SumFunction(g) = SumFunction(f)
  BY <1>4, <1>5, <1>6, <1>7, FiniteBatches, TotalLeavesOutZero
<1> QED
  BY <1>1, <1>2, <1>3, <1>8 DEF Receipts, MovedBy

\* When all batches have returned, the receipts account for all the funds, whichever
\* operations failed, however the batches overlapped and in whatever order a pool answers.
THEOREM ReceiptsAccount == Spec => []ReceiptsAccountForFunds
<1>1. Init => BatchInv /\ Conserved
  BY BatchInvInit, ConservedInit
<1>2. BatchInv /\ Conserved /\ [Next]_vars => (BatchInv /\ Conserved)'
  BY BatchInvStep, ConservedStep
<1>3. BatchInv /\ Conserved => ReceiptsAccountForFunds
  <2> SUFFICES ASSUME BatchInv, Conserved, \A b \in Batches : phase[b] \in {"idle", "returned"},
                      NEW id \in Ids
               PROVE  held[id] + Receipts(id, "withdraw", Ids) + Receipts(id, "transfer", Ids)
                        = Initial[id] + Receipts(id, "deposit", Ids)
                          + SumFunction([a \in Ids |-> Receipts(a, "transfer", {id})])
    BY DEF ReceiptsAccountForFunds
  <2>1. \A a, kind, to : Receipts(a, kind, to) = MovedBy(a, kind, to)
    BY ReceiptsAre
  <2>2. [a \in Ids |-> Receipts(a, "transfer", {id})] = [a \in Ids |-> MovedBy(a, "transfer", {id})]
    BY <2>1
  <2> QED
    BY <2>1, <2>2 DEF Conserved
<1> QED
  BY <1>1, <1>2, <1>3, PTL DEF Spec

--------------------------------------------------------------------------------
(* What is deposited by a batch and its retries. *)

\* What request q asks for, for allocation id, and whether it does.
AskedOf(q, id) ==
    SumFunction([i \in {j \in DOMAIN q.items : q.items[j].id = id} |-> q.items[i].amount])

Names(q, id) == \E i \in DOMAIN q.items : q.items[i].id = id

\* Request q is what a retry of p can be, of whose outcomes c returned.
RetryOfPart(c, q, p) ==
    /\ q.kind = p.kind
    /\ \A id \in Ids : /\ Names(q, id) => Names(p, id) /\ id \notin Named(c)
                      /\ AskedOf(q, id) <= AskedOf(p, id)

\* A batch is retried once, after it has returned and for what its outcomes do not name.
RetriedOnce ==
    \A d \in Batches : \A c \in retryOf[d] :
       /\ retryOf[d] = {c} /\ phase[c] = "returned" /\ phase[d] # "idle"
       /\ \A e \in Batches : c \in retryOf[e] => e = d
       /\ \A q \in request[d], p \in request[c] : RetryOfPart(c, q, p)

\* No operation deposits more than its item says.
WithinAmounts ==
    \A b \in Batches : \A q \in request[b] : \A i \in DOMAIN op[b] :
       q.kind = "deposit" => op[b][i].amount <= q.items[i].amount

LEMMA RetryInvInit == Init => RetriedOnce /\ WithinAmounts
BY DEF Init, RetriedOnce, WithinAmounts

LEMMA AskedNat ==
    ASSUME NEW q \in BatchCall, NEW id
    PROVE  /\ IsFiniteSet(DOMAIN q.items) /\ \A i \in DOMAIN q.items : q.items[i].amount \in Nat
           /\ AskedOf(q, id) \in Nat
           /\ ~Names(q, id) => AskedOf(q, id) = 0
<1>1. q.items \in Seq(Item)
  BY DEF BatchCall
<1>2. \A i \in DOMAIN q.items : q.items[i].amount \in Nat
  <2>1. \A i \in DOMAIN q.items : q.items[i] \in Item
    BY <1>1
  <2> QED
    BY <2>1 DEF Item
<1>3. IsFiniteSet(DOMAIN q.items)
  BY <1>1, FS_Interval
<1>4. PICK S : S = {j \in DOMAIN q.items : q.items[j].id = id}
  OBVIOUS
<1>5. PICK f : f = [i \in S |-> q.items[i].amount]
  OBVIOUS
<1>6. S \in SUBSET DOMAIN q.items /\ f \in [S -> Nat]
  BY <1>2, <1>4, <1>5
<1>7. IsFiniteSet(S) /\ SumFunction(f) \in Nat
  BY <1>3, <1>6, FS_Subset, TotalNat
<1>8. ~Names(q, id) => DOMAIN f = {}
  BY <1>4, <1>5 DEF Names
<1> QED
  BY <1>2, <1>3, <1>4, <1>5, <1>7, <1>8, TotalOfNone DEF AskedOf

\* What is left of a request asks for the same, for each allocation that it still names.
LEMMA UnfinishedAsks ==
    ASSUME NEW c, NEW q \in BatchCall, request[c] = {q}, NEW u \in Unfinished(c)
    PROVE  RetryOfPart(c, u, q)
<1>0. request[c] = {q} /\ u \in Unfinished(c)
  OBVIOUS
<1>1. /\ u \in BatchCall /\ u.kind = q.kind
      /\ \A i \in Left(c, q) : i \in DOMAIN q.items
  BY <1>0, UnfinishedIsPart
<1>2. PICK f \in [DOMAIN u.items -> Left(c, q)] :
         /\ \A m, n \in DOMAIN u.items : f[m] = f[n] => m = n
         /\ \A i \in Left(c, q) : \E n \in DOMAIN u.items : f[n] = i
         /\ \A n \in DOMAIN u.items : u.items[n] = q.items[f[n]]
  BY <1>0, UnfinishedIsPart
<1>3. ASSUME NEW id, Names(u, id) PROVE Names(q, id) /\ id \notin Named(c)
  <2>1. PICK n \in DOMAIN u.items : u.items[n].id = id
    BY <1>3 DEF Names
  <2>2. f[n] \in Left(c, q) /\ q.items[f[n]].id = id /\ f[n] \in DOMAIN q.items
    BY <1>1, <1>2, <2>1
  <2> QED
    BY <2>2 DEF Names, Left
<1>4. ASSUME NEW id PROVE AskedOf(u, id) <= AskedOf(q, id)
  <2>1. CASE ~Names(u, id)
    BY <1>1, <2>1, AskedNat
  <2>2. CASE Names(u, id)
    <3>1. id \notin Named(c)
      BY <1>3, <2>2
    <3>2. PICK S : S = {n \in DOMAIN u.items : u.items[n].id = id}
      OBVIOUS
    <3>3. PICK R : R = {i \in DOMAIN q.items : q.items[i].id = id}
      OBVIOUS
    <3>4. PICK v : v = [n \in S |-> u.items[n].amount]
      OBVIOUS
    <3>5. PICK w : w = [i \in R |-> q.items[i].amount]
      OBVIOUS
    <3>6. PICK r : r = [n \in S |-> f[n]]
      OBVIOUS
    <3>7. IsFiniteSet(S) /\ IsFiniteSet(R) /\ v \in [S -> Int] /\ w \in [R -> Int]
      <4>1. S \in SUBSET DOMAIN u.items /\ R \in SUBSET DOMAIN q.items
        BY <3>2, <3>3
      <4>2. IsFiniteSet(S) /\ IsFiniteSet(R)
        BY <1>1, <4>1, AskedNat, FS_Subset
      <4>3. /\ \A n \in S : u.items[n].amount \in Int
            /\ \A i \in R : q.items[i].amount \in Int
        BY <1>1, <4>1, AskedNat
      <4> QED
        BY <3>4, <3>5, <4>2, <4>3
    <3>8. \A i \in R : i \in Left(c, q)
      BY <3>1, <3>3 DEF Left
    <3>9. /\ r \in [S -> R]
          /\ \A m, n \in S : r[m] = r[n] => m = n
          /\ \A i \in R : \E n \in S : r[n] = i
          /\ \A n \in S : w[r[n]] = v[n]
      <4>1. ASSUME NEW n \in S PROVE r[n] \in R /\ w[r[n]] = v[n]
        <5>1. n \in DOMAIN u.items /\ r[n] = f[n] /\ f[n] \in Left(c, q)
          BY <1>2, <3>2, <3>6
        <5>2. f[n] \in DOMAIN q.items /\ u.items[n] = q.items[f[n]]
          BY <1>1, <1>2, <5>1
        <5>3. r[n] \in R
          BY <3>2, <3>3, <5>1, <5>2
        <5> QED
          BY <3>4, <3>5, <5>1, <5>2, <5>3
      <4>2. \A m, n \in S : r[m] = r[n] => m = n
        BY <1>2, <3>2, <3>6
      <4>3. ASSUME NEW i \in R PROVE \E n \in S : r[n] = i
        <5>1. PICK n \in DOMAIN u.items : f[n] = i
          BY <1>2, <3>8
        <5>2. n \in S
          BY <1>2, <3>2, <3>3, <5>1
        <5> QED
          BY <3>6, <5>1, <5>2
      <4> QED
        BY <3>6, <4>1, <4>2, <4>3
    <3>10. SumFunction(v) = SumFunction(w)
      BY <3>7, <3>9, TotalRenamed
    <3>11. AskedOf(u, id) = SumFunction(v) /\ AskedOf(q, id) = SumFunction(w)
      BY <3>2, <3>3, <3>4, <3>5 DEF AskedOf
    <3> QED
      BY <1>1, <3>10, <3>11, AskedNat
  <2> QED
    BY <2>1, <2>2
<1> QED
  BY <1>1, <1>3, <1>4 DEF RetryOfPart

LEMMA CallKeepsRetries ==
    ASSUME BatchInv, RetriedOnce, NEW b \in Batches, NEW u, NEW C \in SUBSET Batches, Call(b, u, C),
           \A c \in C : /\ C = {c} /\ phase[c] = "returned"
                        /\ \A d \in Batches : c \notin retryOf[d]
                        /\ \A q \in request[c] : RetryOfPart(c, u, q)
    PROVE  RetriedOnce'
<1>1. /\ phase[b] = "idle" /\ outcome' = outcome
      /\ phase'[b] = "running" /\ \A d \in Batches : d # b => phase'[d] = phase[d]
      /\ request'[b] = {u} /\ \A d \in Batches : d # b => request'[d] = request[d]
      /\ retryOf'[b] = C /\ \A d \in Batches : d # b => retryOf'[d] = retryOf[d]
  BY DEF Call, BatchInv, TypeOK, Called
<1>2. \A c, q, p : RetryOfPart(c, q, p)' <=> RetryOfPart(c, q, p)
  BY <1>1 DEF RetryOfPart, Named
<1>3. retryOf \in [Batches -> SUBSET Batches]
  BY DEF BatchInv, TypeOK
<1> SUFFICES ASSUME NEW d \in Batches, NEW c \in retryOf'[d]
             PROVE  /\ retryOf'[d] = {c} /\ phase'[c] = "returned" /\ phase'[d] # "idle"
                    /\ \A e \in Batches : c \in retryOf'[e] => e = d
                    /\ \A q \in request'[d], p \in request'[c] : RetryOfPart(c, q, p)
  BY <1>2 DEF RetriedOnce
<1>4. CASE d = b
  <2>1. /\ C = {c} /\ phase[c] = "returned" /\ c # b /\ c \in Batches
        /\ \A e \in Batches : c \notin retryOf[e]
        /\ \A p \in request[c] : RetryOfPart(c, u, p)
    BY <1>1, <1>4
  <2>2. \A e \in Batches : c \in retryOf'[e] => e = d
    BY <1>1, <1>4, <2>1
  <2>3. request'[d] = {u} /\ request'[c] = request[c]
    BY <1>1, <1>4, <2>1
  <2> QED
    BY <1>1, <1>4, <2>1, <2>2, <2>3
<1>5. CASE d # b
  <2>1. /\ c \in retryOf[d] /\ retryOf[d] = {c} /\ phase[c] = "returned" /\ phase[d] # "idle"
        /\ \A e \in Batches : c \in retryOf[e] => e = d
        /\ \A q \in request[d], p \in request[c] : RetryOfPart(c, q, p)
    BY <1>1, <1>5 DEF RetriedOnce
  <2>2. c \in Batches /\ c # b /\ c \notin C
    BY <1>1, <1>3, <2>1
  <2>3. \A e \in Batches : c \in retryOf'[e] => e = d
    BY <1>1, <2>1, <2>2
  <2>4. request'[d] = request[d] /\ request'[c] = request[c]
    BY <1>1, <1>5, <2>2
  <2> QED
    BY <1>1, <1>5, <2>1, <2>2, <2>3, <2>4
<1> QED
  BY <1>4, <1>5

\* The other steps call no batch, and what a batch has returned stays.
LEMMA OthersKeepRetries ==
    ASSUME BatchInv, RetriedOnce, UNCHANGED <<request, retryOf>>,
           \A c \in Batches : /\ phase[c] = "returned" =>
                                    phase'[c] = "returned" /\ outcome'[c] = outcome[c]
                              /\ phase[c] # "idle" => phase'[c] # "idle"
    PROVE  RetriedOnce'
<1> SUFFICES ASSUME NEW d \in Batches, NEW c \in retryOf[d]
             PROVE  /\ retryOf[d] = {c} /\ phase'[c] = "returned" /\ phase'[d] # "idle"
                    /\ \A e \in Batches : c \in retryOf[e] => e = d
                    /\ \A q \in request[d], p \in request[c] : RetryOfPart(c, q, p)'
  BY DEF RetriedOnce
<1>1. c \in Batches
  BY DEF BatchInv, TypeOK
<1>2. /\ retryOf[d] = {c} /\ phase[c] = "returned" /\ phase[d] # "idle"
      /\ \A e \in Batches : c \in retryOf[e] => e = d
      /\ \A q \in request[d], p \in request[c] : RetryOfPart(c, q, p)
  BY DEF RetriedOnce
<1>3. outcome'[c] = outcome[c] /\ phase'[c] = "returned" /\ phase'[d] # "idle"
  BY <1>1, <1>2
<1>4. \A q, p : RetryOfPart(c, q, p)' <=> RetryOfPart(c, q, p)
  BY <1>3 DEF RetryOfPart, Named
<1> QED
  BY <1>2, <1>3, <1>4

LEMMA RetriedOnceStep ==
    ASSUME BatchInv, RetriedOnce, [Next]_vars
    PROVE  RetriedOnce'
<1>1. ASSUME NEW b \in Batches, NEW q, Start(b, q) PROVE RetriedOnce'
  <2>1. Call(b, q, {}) /\ {} \in SUBSET Batches
    BY <1>1 DEF Start
  <2> QED
    BY <2>1, CallKeepsRetries
<1>2. ASSUME NEW b \in Batches, NEW c \in Batches, Retry(b, c) PROVE RetriedOnce'
  <2>1. PICK q \in BatchCall, u \in Unfinished(c) : request[c] = {q} /\ Call(b, u, {c})
    BY <1>2, RetryIsCall
  <2>2. RetryOfPart(c, u, q)
    BY <2>1, UnfinishedAsks
  <2>3. phase[c] = "returned" /\ \A d \in Batches : c \notin retryOf[d]
    BY <1>2 DEF Retry
  <2>4. {c} \in SUBSET Batches
    OBVIOUS
  <2> QED
    BY <2>1, <2>2, <2>3, <2>4, CallKeepsRetries
<1>3. ASSUME NEW b \in Batches, Return(b) PROVE RetriedOnce'
  <2>1. /\ UNCHANGED <<request, retryOf>>
        /\ \A c \in Batches : /\ phase[c] = "returned" =>
                                    phase'[c] = "returned" /\ outcome'[c] = outcome[c]
                              /\ phase[c] # "idle" => phase'[c] # "idle"
    BY <1>3 DEF Return, Finish, BatchInv, TypeOK
  <2> QED
    BY <2>1, OthersKeepRetries
<1>4. ASSUME NEW b \in Batches, Drop(b) PROVE RetriedOnce'
  <2>1. /\ UNCHANGED <<request, retryOf>>
        /\ \A c \in Batches : /\ phase[c] = "returned" =>
                                    phase'[c] = "returned" /\ outcome'[c] = outcome[c]
                              /\ phase[c] # "idle" => phase'[c] # "idle"
    BY <1>4 DEF Drop, BatchInv, TypeOK
  <2> QED
    BY <2>1, OthersKeepRetries
<1>5. ASSUME UNCHANGED <<phase, request, retryOf, outcome>> PROVE RetriedOnce'
  BY <1>5, OthersKeepRetries
<1>6. ASSUME NEW b \in Batches, NEW i, Answer(b, i) \/ PoolStep(b, i) PROVE RetriedOnce'
  BY <1>5, <1>6 DEF Answer, PoolStep, Moves, Refuse, deposit_funds_to, withdraw_deposit,
                    pool_transfer
<1>7. CASE UNCHANGED vars
  BY <1>5, <1>7 DEF vars
<1> QED
  BY <1>1, <1>2, <1>3, <1>4, <1>6, <1>7 DEF Next, BatchStep

LEMMA WithinAmountsStep ==
    ASSUME BatchInv, BatchInv', WithinAmounts, [Next]_vars
    PROVE  WithinAmounts'
<1>1. CASE Quiet
  <2> SUFFICES ASSUME NEW c \in Batches, NEW q \in request'[c], NEW i \in DOMAIN op'[c],
                      q.kind = "deposit"
               PROVE  op'[c][i].amount <= q.items[i].amount
    BY DEF WithinAmounts
  <2>1. CASE /\ request'[c] = request[c] /\ DOMAIN op'[c] = DOMAIN op[c]
             /\ \A j \in DOMAIN op[c] : op'[c][j].amount = op[c][j].amount
    BY <2>1 DEF WithinAmounts
  <2>2. CASE \A j \in DOMAIN op'[c] : op'[c][j].amount = 0
    <3>1. q \in BatchCall /\ i \in DOMAIN q.items
      BY DEF BatchInv, Called
    <3>2. q.items[i].amount \in Nat
      BY <3>1, AskedNat
    <3> QED
      BY <2>2, <3>2
  <2> QED
    BY <1>1, <2>1, <2>2 DEF Quiet
<1>2. ASSUME NEW b \in Batches, NEW i \in Nat, NEW r \in BatchCall, NEW m \in Nat,
             NEW item \in Item, Flow(b, i, r, m, item)
      PROVE  WithinAmounts'
  <2>1. /\ request[b] = {r} /\ request' = request /\ i \in DOMAIN op[b] /\ item = r.items[i]
        /\ op' = [op EXCEPT ![b][i] = Op("moved", m)]
        /\ r.kind = "deposit" => m <= item.amount
    BY <1>2 DEF Flow
  <2>2. op \in [Batches -> Seq(Operation)] /\ Op("moved", m) \in Operation
    BY DEF BatchInv, TypeOK, Operation, Op
  <2>3. /\ \A c \in Batches : c # b => op'[c] = op[c]
        /\ DOMAIN op'[b] = DOMAIN op[b]
        /\ op'[b][i].amount = m
        /\ \A j \in DOMAIN op[b] : j # i => op'[b][j] = op[b][j]
    BY <2>1, <2>2, OpChanged DEF Op
  <2> QED
    BY <2>1, <2>3 DEF WithinAmounts
<1> QED
  BY <1>1, <1>2, StepIsQuietOrFlow

LEMMA FamilyIsLeast ==
    ASSUME BatchInv, NEW b \in Batches
    PROVE  /\ Family(b) \in SUBSET Batches /\ b \in Family(b)
           /\ \A c \in Family(b), d \in Batches : c \in retryOf[d] => d \in Family(b)
           /\ \A S \in SUBSET Batches :
                 /\ b \in S
                 /\ \A c \in S, d \in Batches : c \in retryOf[d] => d \in S
                 => Family(b) \subseteq S
<1>1. PICK F : F = Family(b)
  OBVIOUS
<1>2. \A c \in Batches : c \in F <=> \A S \in SUBSET Batches :
         b \in S /\ (\A d \in Batches : retryOf[d] \cap S # {} => d \in S) => c \in S
  BY <1>1 DEF Family
<1>3. F \in SUBSET Batches
  BY <1>1 DEF Family
<1>4. b \in F
  BY <1>2
<1>5. ASSUME NEW c \in F, NEW d \in Batches, c \in retryOf[d] PROVE d \in F
  <2> SUFFICES ASSUME NEW S \in SUBSET Batches, b \in S,
                      \A e \in Batches : retryOf[e] \cap S # {} => e \in S
               PROVE  d \in S
    BY <1>2
  <2>1. c \in S
    BY <1>2, <1>3
  <2> QED
    BY <1>5, <2>1
<1>6. ASSUME NEW S \in SUBSET Batches, b \in S,
             \A c \in S, d \in Batches : c \in retryOf[d] => d \in S
      PROVE  F \subseteq S
  <2>1. \A d \in Batches : retryOf[d] \cap S # {} => d \in S
    BY <1>6
  <2> QED
    BY <1>2, <1>3, <1>6, <2>1
<1> QED
  BY <1>1, <1>3, <1>4, <1>5, <1>6

\* Retries form a chain: of two in a family, one is a retry of the other, or of a retry
\* of it.
LEMMA FamilyIsChain ==
    ASSUME BatchInv, RetriedOnce, NEW b \in Batches, NEW u \in Family(b), NEW w \in Family(b)
    PROVE  w \in Family(u) \/ u \in Family(w)
<1>1. PICK S : S = {c \in Batches : c \in Family(u) \/ u \in Family(c)}
  OBVIOUS
<1>2. u \in Batches /\ b \in S /\ S \in SUBSET Batches
  BY <1>1, FamilyIsLeast
<1>3. ASSUME NEW c \in S, NEW d \in Batches, c \in retryOf[d] PROVE d \in S
  <2>1. CASE c \in Family(u)
    BY <1>1, <1>2, <1>3, <2>1, FamilyIsLeast
  <2>2. CASE u \in Family(c) /\ u # c
    <3>1. PICK T : T = {c} \cup Family(d)
      OBVIOUS
    <3>2. c \in Batches /\ T \in SUBSET Batches /\ c \in T
      BY <1>1, <3>1, FamilyIsLeast
    <3>3. \A x \in T, e \in Batches : x \in retryOf[e] => e \in T
      <4>1. \A e \in Batches : c \in retryOf[e] => e = d
        BY <1>3 DEF RetriedOnce
      <4> QED
        BY <3>1, <4>1, FamilyIsLeast
    <3>4. Family(c) \subseteq T
      BY <3>2, <3>3, FamilyIsLeast
    <3> QED
      BY <1>1, <2>2, <3>1, <3>4
  <2> QED
    BY <1>1, <1>2, <2>1, <2>2, FamilyIsLeast
<1>4. Family(b) \subseteq S
  BY <1>2, <1>3, FamilyIsLeast
<1> QED
  BY <1>1, <1>4

\* What a returned batch has moved, its outcomes name.
LEMMA NamedIfMoved ==
    ASSUME BatchInv, NEW c \in Batches, phase[c] = "returned", NEW id, MovedOf(c, id) # 0
    PROVE  id \in Named(c)
<1> SUFFICES ASSUME id \notin Named(c) PROVE MovedOf(c, id) = 0
  OBVIOUS
<1>1. PICK f : f = [i \in {j \in DOMAIN outcome[c] : id \in outcome[c][j].id} |->
                       outcome[c][i].receipt]
  OBVIOUS
<1>2. DOMAIN f = {}
  BY <1>1 DEF Named
<1> QED
  BY <1>1, <1>2, TotalOfNone, ReceiptsTellMoves DEF ReceiptsOf

LEMMA MovesToNamed ==
    ASSUME BatchInv, NEW c \in Batches, NEW id, \A q \in request[c] : ~Names(q, id)
    PROVE  MovedOf(c, id) = 0
<1>1. PICK f : f = [i \in DOMAIN op[c] |-> Amount(c, i, id)]
  OBVIOUS
<1>2. f \in [DOMAIN op[c] -> Nat] /\ IsFiniteSet(DOMAIN op[c])
  BY <1>1, AmountNat
<1>3. \A i \in DOMAIN op[c] : f[i] = 0
  <2>1. \A q \in request[c] : DOMAIN op[c] = DOMAIN q.items
    BY DEF BatchInv, Called
  <2> QED
    BY <1>1, <2>1 DEF Amount, Names
<1> QED
  BY <1>1, <1>2, <1>3, TotalNat DEF MovedOf

\* The retries of a batch that has moved funds to an allocation do not name it again.
LEMMA RetriesLeaveOut ==
    ASSUME BatchInv, RetriedOnce, NEW b \in Batches, NEW id \in Ids, MovedOf(b, id) # 0,
           NEW c \in Family(b), c # b
    PROVE  MovedOf(c, id) = 0
<1>1. PICK S : S = {x \in Batches : x = b \/ \A q \in request[x] : ~Names(q, id)}
  OBVIOUS
<1>2. S \in SUBSET Batches /\ b \in S
  BY <1>1
<1>3. ASSUME NEW x \in S, NEW d \in Batches, x \in retryOf[d] PROVE d \in S
  <2> SUFFICES ASSUME NEW q \in request[d] PROVE ~Names(q, id)
    BY <1>1
  <2>1. phase[x] = "returned" /\ \A p \in request[x] : RetryOfPart(x, q, p)
    BY <1>3 DEF RetriedOnce
  <2>2. PICK p \in request[x] : TRUE
    BY <1>1, <2>1 DEF BatchInv, Called
  <2>3. Names(q, id) => Names(p, id) /\ id \notin Named(x)
    BY <2>1, <2>2 DEF RetryOfPart
  <2>4. CASE x = b
    BY <2>1, <2>3, <2>4, NamedIfMoved
  <2>5. CASE x # b
    BY <1>1, <2>2, <2>3, <2>5
  <2> QED
    BY <2>4, <2>5
<1>4. Family(b) \subseteq S
  BY <1>2, <1>3, FamilyIsLeast
<1> QED
  BY <1>1, <1>4, MovesToNamed

\* They are of the same kind, and ask for no more.
LEMMA RetriesAskNoMore ==
    ASSUME BatchInv, RetriedOnce, NEW b \in Batches, NEW q \in request[b], NEW id \in Ids,
           NEW c \in Family(b)
    PROVE  \A p \in request[c] : p.kind = q.kind /\ AskedOf(p, id) <= AskedOf(q, id)
<1>1. PICK S : S = {x \in Batches : \A p \in request[x] :
                       p.kind = q.kind /\ AskedOf(p, id) <= AskedOf(q, id)}
  OBVIOUS
<1>2. \A x \in Batches : \A p \in request[x] : AskedOf(p, id) \in Nat
  <2>1. \A x \in Batches : request[x] \subseteq BatchCall
    BY DEF BatchInv, Called
  <2> QED
    BY <2>1, AskedNat
<1>3. S \in SUBSET Batches /\ b \in S
  <2>1. \A p \in request[b] : p = q
    BY DEF BatchInv, Called
  <2> QED
    BY <1>1, <1>2, <2>1
<1>4. ASSUME NEW x \in S, NEW d \in Batches, x \in retryOf[d] PROVE d \in S
  <2> SUFFICES ASSUME NEW r \in request[d] PROVE r.kind = q.kind /\ AskedOf(r, id) <= AskedOf(q, id)
    BY <1>1
  <2>1. phase[x] = "returned" /\ \A p \in request[x] : RetryOfPart(x, r, p)
    BY <1>4 DEF RetriedOnce
  <2>2. PICK p \in request[x] : TRUE
    BY <1>1, <2>1 DEF BatchInv, Called
  <2>3. r.kind = p.kind /\ AskedOf(r, id) <= AskedOf(p, id)
    BY <2>1, <2>2 DEF RetryOfPart
  <2>4. p.kind = q.kind /\ AskedOf(p, id) <= AskedOf(q, id)
    BY <1>1, <2>2
  <2>5. AskedOf(r, id) \in Nat /\ AskedOf(p, id) \in Nat /\ AskedOf(q, id) \in Nat
    BY <1>1, <1>2, <2>2
  <2> QED
    BY <2>3, <2>4, <2>5
<1>5. Family(b) \subseteq S
  BY <1>3, <1>4, FamilyIsLeast
<1> QED
  BY <1>1, <1>5

\* What a batch deposits is what its operations have moved, ...
LEMMA DepositIsMoved ==
    ASSUME BatchInv, NEW c \in Batches, NEW id
    PROVE  DepositedBy(c, id) = IF \E q \in request[c] : q.kind = "deposit"
                                THEN MovedOf(c, id) ELSE 0
<1>1. PICK S : S = {i \in DOMAIN op[c] :
                       \E q \in request[c] : q.kind = "deposit" /\ q.items[i].id = id}
  OBVIOUS
<1>2. PICK f : f = [i \in S |-> op[c][i].amount]
  OBVIOUS
<1>3. DepositedBy(c, id) = SumFunction(f)
  BY <1>1, <1>2 DEF DepositedBy
<1>4. CASE \A q \in request[c] : q.kind # "deposit"
  <2>1. DOMAIN f = {}
    BY <1>1, <1>2, <1>4
  <2> QED
    BY <1>3, <1>4, <2>1, TotalOfNone
<1>5. ASSUME NEW q \in request[c], q.kind = "deposit" PROVE DepositedBy(c, id) = MovedOf(c, id)
  <2>1. \A p \in request[c] : p = q
    BY DEF BatchInv, Called
  <2>2. PICK D : D = DOMAIN op[c]
    OBVIOUS
  <2>3. PICK w : w = [i \in D |-> Amount(c, i, id)]
    OBVIOUS
  <2>4. S \in SUBSET D /\ \A i \in D : i \in S <=> q.items[i].id = id
    BY <1>1, <1>5, <2>1, <2>2
  <2>5. w \in [D -> Int] /\ IsFiniteSet(D)
    <3>1. w \in [D -> Nat] /\ IsFiniteSet(D)
      BY <2>2, <2>3, AmountNat
    <3> QED
      BY <3>1
  <2>6. \A i \in S : f[i] = w[i]
    BY <1>2, <2>1, <2>3, <2>4 DEF Amount
  <2>7. \A i \in D \ S : w[i] = 0
    BY <2>1, <2>3, <2>4 DEF Amount
  <2>8. f \in [S -> Int]
    BY <1>2, <2>4, <2>5, <2>6
  <2>9. S \in SUBSET D
    BY <2>4
  <2>10. SumFunction(f) = SumFunction(w)
    BY <2>5, <2>6, <2>7, <2>8, <2>9, TotalLeavesOutZero
  <2> QED
    BY <1>3, <2>2, <2>3, <2>10 DEF MovedOf
<1> QED
  BY <1>4, <1>5

\* ... which is within what it was called for.
LEMMA MovedWithinAsked ==
    ASSUME BatchInv, WithinAmounts, NEW c \in Batches, NEW id,
           NEW q \in request[c], q.kind = "deposit"
    PROVE  MovedOf(c, id) <= AskedOf(q, id)
<1>1. /\ \A p \in request[c] : p = q
      /\ q \in BatchCall /\ DOMAIN op[c] = DOMAIN q.items
  BY DEF BatchInv, Called
<1>2. PICK D : D = DOMAIN op[c]
  OBVIOUS
<1>3. PICK S : S = {i \in D : q.items[i].id = id}
  OBVIOUS
<1>4. PICK w : w = [i \in D |-> Amount(c, i, id)]
  OBVIOUS
<1>5. PICK g : g = [i \in S |-> q.items[i].amount]
  OBVIOUS
<1>6. PICK v : v = [i \in D |-> IF i \in S THEN g[i] ELSE 0]
  OBVIOUS
<1>7. \A i \in D : /\ op[c][i].amount \in Nat
                   /\ q.items[i].amount \in Nat
                   /\ op[c][i].amount <= q.items[i].amount
  BY <1>1, <1>2, AmountNat, AskedNat DEF WithinAmounts
<1>8. /\ IsFiniteSet(D) /\ S \in SUBSET D
      /\ w \in [D -> Int] /\ v \in [D -> Int] /\ g \in [S -> Int]
  <2>1. IsFiniteSet(D) /\ w \in [D -> Nat]
    BY <1>2, <1>4, AmountNat
  <2>2. S \in SUBSET D /\ g \in [S -> Int]
    BY <1>3, <1>5, <1>7
  <2>3. \A i \in D : v[i] \in Int
    BY <1>6, <2>2
  <2> QED
    BY <1>6, <2>1, <2>2, <2>3
<1>9. \A i \in D : w[i] <= v[i]
  BY <1>1, <1>3, <1>4, <1>5, <1>6, <1>7 DEF Amount
<1>10. (\A i \in S : g[i] = v[i]) /\ (\A i \in D \ S : v[i] = 0)
  BY <1>3, <1>6
<1>11. SumFunction(g) = SumFunction(v)
  BY <1>8, <1>10, TotalLeavesOutZero
<1>12. SumFunction(w) <= SumFunction(v)
  BY <1>8, <1>9, TotalAtMost
<1> QED
  BY <1>1, <1>2, <1>3, <1>4, <1>5, <1>11, <1>12 DEF MovedOf, AskedOf

\* A batch and its retries deposit no more than the batch was called for: only one of
\* them deposits to an allocation, as later ones leave out what its outcomes name.
THEOREM DepositsOnce == Spec => []DepositedOnce
<1> DEFINE RetryInv == BatchInv /\ RetriedOnce /\ WithinAmounts
<1>1. Init => RetryInv
  BY BatchInvInit, RetryInvInit
<1>2. RetryInv /\ [Next]_vars => RetryInv'
  BY BatchInvStep, RetriedOnceStep, WithinAmountsStep
<1>3. RetryInv => DepositedOnce
  <2> SUFFICES ASSUME BatchInv, RetriedOnce, WithinAmounts, NEW b \in Batches, NEW id \in Ids,
                      NEW q \in request[b], q.kind = "deposit"
               PROVE  SumFunction([c \in Family(b) |-> DepositedBy(c, id)]) <= AskedOf(q, id)
    BY DEF DepositedOnce, AskedOf
  <2>1. PICK F : F = Family(b)
    OBVIOUS
  <2>2. F \in SUBSET Batches /\ IsFiniteSet(F)
    BY <2>1, FamilyIsLeast, FiniteBatches, FS_Subset
  <2>3. PICK f : f = [c \in F |-> DepositedBy(c, id)]
    OBVIOUS
  <2>4. AskedOf(q, id) \in Nat
    <3>1. q \in BatchCall
      BY DEF BatchInv, Called
    <3> QED
      BY <3>1, AskedNat
  <2>5. ASSUME NEW c \in F
        PROVE  f[c] \in Nat /\ f[c] <= AskedOf(q, id) /\ (f[c] # 0 => f[c] = MovedOf(c, id))
    <3>1. CASE request[c] = {}
      BY <2>2, <2>3, <2>4, <3>1, DepositIsMoved
    <3>2. CASE request[c] # {}
      <4>1. PICK p \in request[c] : p.kind = "deposit" /\ AskedOf(p, id) <= AskedOf(q, id)
        BY <2>1, <3>2, RetriesAskNoMore
      <4>2. DepositedBy(c, id) = MovedOf(c, id) /\ MovedOf(c, id) <= AskedOf(p, id)
        BY <2>2, <4>1, DepositIsMoved, MovedWithinAsked
      <4>3. AskedOf(p, id) \in Nat
        <5>1. p \in BatchCall
          BY <2>2 DEF BatchInv, Called
        <5> QED
          BY <5>1, AskedNat
      <4>4. MovedOf(c, id) \in Nat
        BY <2>2, MovedNat
      <4> QED
        BY <2>3, <2>4, <4>1, <4>2, <4>3, <4>4
    <3> QED
      BY <3>1, <3>2
  <2>6. f \in [F -> Nat]
    BY <2>3, <2>5
  <2>7. CASE \A c \in F : f[c] = 0
    <3>1. SumFunction(f) = 0
      BY <2>2, <2>6, <2>7, TotalNat
    <3> QED
      BY <2>1, <2>3, <2>4, <3>1
  <2>8. CASE \E c \in F : f[c] # 0
    <3>1. PICK u \in F : f[u] # 0
      BY <2>8
    <3>2. ASSUME NEW w \in F, w # u PROVE f[w] = 0
      <4> SUFFICES ASSUME f[w] # 0 PROVE FALSE
        OBVIOUS
      <4>1. MovedOf(u, id) # 0 /\ MovedOf(w, id) # 0
        BY <2>5, <3>1
      <4>2. u \in Batches /\ w \in Batches /\ (w \in Family(u) \/ u \in Family(w))
        BY <2>1, <2>2, FamilyIsChain
      <4> QED
        BY <3>2, <4>1, <4>2, RetriesLeaveOut
    <3>3. PICK z : z = [c \in F |-> 0]
      OBVIOUS
    <3>4. z \in [F -> Int] /\ z \in [F -> Nat] /\ f \in [F -> Int] /\ \A c \in F : z[c] = 0
      BY <2>6, <3>3
    <3>5. \A c \in F \ {u} : z[c] = f[c]
      BY <3>2, <3>4
    <3>6. SumFunction(f) = SumFunction(z) + f[u] - z[u]
      BY <2>2, <3>4, <3>5, TotalChange
    <3>7. SumFunction(z) = 0 /\ z[u] = 0
      BY <2>2, <3>4, TotalNat
    <3>8. SumFunction(f) = f[u]
      BY <2>5, <3>6, <3>7
    <3> QED
      BY <2>1, <2>3, <2>5, <3>8
  <2> QED
    BY <2>7, <2>8
<1> QED
  BY <1>1, <1>2, <1>3, PTL DEF Spec
================================================================================
