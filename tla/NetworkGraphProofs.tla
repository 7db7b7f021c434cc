--------------------------- MODULE NetworkGraphProofs ---------------------------
(***************************************************************************)
(* Proofs about NetworkGraph, for any loops of any length, nodes, balances *)
(* and parameters: what outcomes of probes can and cannot do to the loops  *)
(* and routes that are selected. Recovery itself is liveness and left to   *)
(* TLC.                                                                    *)
(***************************************************************************)
EXTENDS NetworkGraph, EdgeValueTheorems, FiniteSetTheorems

--------------------------------------------------------------------------------
(* The fold over a path. *)

\* Induction along a path, on membership of a set of indices.
LEMMA IndexInduction ==
    ASSUME NEW n \in Nat, NEW Good, 0 \in Good,
           \A i \in 0 .. n : i > 0 /\ i - 1 \in Good => i \in Good
    PROVE  \A i \in 0 .. n : i \in Good
<1> DEFINE S == 0 .. n
           Bad == {T \in SUBSET S : \E i \in S : i \notin Good /\ T = 0 .. i}
<1> SUFFICES ASSUME NEW i \in S, i \notin Good PROVE FALSE
  OBVIOUS
<1>1. IsFiniteSet(S)
  BY FS_Interval
<1>2. 0 .. i \in Bad
  OBVIOUS
<1>3. FiniteSubsetsOf(S) = SUBSET S
  BY <1>1, FS_FiniteSubsetsOfFinite
<1>4. IsWellFoundedOn(StrictSubsetOrdering(S), FiniteSubsetsOf(S))
  BY <1>1, FS_StrictSubsetOrderingWellFounded
<1>5. PICK T \in Bad : \A U \in Bad : <<U, T>> \notin StrictSubsetOrdering(S)
  <2>1. Bad \subseteq FiniteSubsetsOf(S) /\ Bad # {}
    BY <1>2, <1>3
  <2> HIDE DEF Bad, S
  <2> QED
    BY <1>4, <2>1, WFMin
<1>6. PICK j \in S : j \notin Good /\ T = 0 .. j
  OBVIOUS
<1>7. j > 0 /\ j - 1 \in S
  BY <1>6
<1>8. j - 1 \notin Good
  BY <1>6, <1>7
<1>9. 0 .. (j - 1) \in Bad
  BY <1>7, <1>8
<1>10. <<0 .. (j - 1), T>> \in StrictSubsetOrdering(S)
  BY <1>6, <1>7 DEF StrictSubsetOrdering
<1> QED
  BY <1>5, <1>9, <1>10

\* g values the first n edges of p one after the other.
Folds(g, f, p, seen, n) ==
    g = [i \in 0 .. n |->
           IF i = 0 THEN 1
           ELSE IF g[i - 1] <= 0 THEN g[i - 1]
           ELSE value_fn(f, g[i - 1], seen[<<p[i], p[i + 1]>>], i - 1)]

LEMMA FoldExists ==
    ASSUME NEW f, NEW p, NEW seen, NEW n \in Nat
    PROVE  \E g : Folds(g, f, p, seen, n)
<1> DEFINE Good == {m \in 0 .. n : \E g : Folds(g, f, p, seen, m)}
<1>1. 0 \in Good
  <2>1. Folds([i \in 0 .. 0 |-> 1], f, p, seen, 0)
    BY DEF Folds
  <2> QED
    BY <2>1
<1>2. ASSUME NEW m \in 0 .. n, m > 0, m - 1 \in Good
      PROVE  m \in Good
  <2>1. PICK g : Folds(g, f, p, seen, m - 1)
    BY <1>2
  <2> DEFINE h == [i \in 0 .. m |->
                     IF i < m THEN g[i]
                     ELSE IF g[i - 1] <= 0 THEN g[i - 1]
                     ELSE value_fn(f, g[i - 1], seen[<<p[i], p[i + 1]>>], i - 1)]
  <2>2. ASSUME NEW i \in 0 .. m
        PROVE  h[i] = IF i = 0 THEN 1
                      ELSE IF h[i - 1] <= 0 THEN h[i - 1]
                      ELSE value_fn(f, h[i - 1], seen[<<p[i], p[i + 1]>>], i - 1)
    <3>1. i > 0 => h[i - 1] = g[i - 1]
      OBVIOUS
    <3>2. CASE i < m
      <4>1. i \in 0 .. (m - 1)
        BY <3>2
      <4>2. g[i] = IF i = 0 THEN 1
                   ELSE IF g[i - 1] <= 0 THEN g[i - 1]
                   ELSE value_fn(f, g[i - 1], seen[<<p[i], p[i + 1]>>], i - 1)
        BY <2>1, <4>1 DEF Folds
      <4>3. h[i] = g[i]
        BY <3>2
      <4> QED
        BY <3>1, <4>2, <4>3
    <3>3. CASE i = m
      <4>1. h[i] = IF g[i - 1] <= 0 THEN g[i - 1]
                   ELSE value_fn(f, g[i - 1], seen[<<p[i], p[i + 1]>>], i - 1)
        BY <3>3
      <4> QED
        BY <1>2, <3>1, <3>3, <4>1
    <3> QED
      BY <3>2, <3>3
  <2> HIDE DEF h
  <2>3. h = [i \in 0 .. m |-> h[i]]
    BY DEF h
  <2>4. Folds(h, f, p, seen, m)
    BY <2>2, <2>3 DEF Folds
  <2> QED
    BY <2>4
<1> HIDE DEF Good
<1>3. \A m \in 0 .. n : m \in Good
  BY <1>1, <1>2, IndexInduction
<1> QED
  BY <1>3 DEF Good

LEMMA PathLength == ASSUME NEW p \in Paths PROVE Len(p) \in Nat /\ Len(p) - 1 \in Nat
<1>1. p \in Seq(Nodes) /\ Len(p) > 1
  BY GraphAssumption
<1>2. Len(p) \in Nat
  BY <1>1
<1> QED
  BY <1>1, <1>2

\* The edges of a path, each by its place.
LEMMA PathEdges ==
    ASSUME NEW p \in Paths
    PROVE  /\ Len(p) \in Nat /\ Len(p) > 1 /\ p \in Seq(Nodes) /\ DOMAIN p = 1 .. Len(p)
           /\ \A i \in 1 .. Len(p) - 1 : /\ p[i] \in Nodes /\ p[i + 1] \in Nodes
                                         /\ <<p[i], p[i + 1]>> \in EdgesOf(p)
                                         /\ <<p[i], p[i + 1]>> \in Edges
                                         /\ p[i] = Me <=> i = 1
           /\ Relayed(p) = {<<p[i], p[i + 1]>> : i \in 2 .. Len(p) - 1}
           /\ Loop(p) \in ValueFns /\ Loop(p).penalty = Penalty
           /\ Route(p) \in ValueFns /\ Route(p).penalty = Penalty
<1>1. /\ p \in Seq(Nodes) /\ Len(p) > 1 /\ p[1] = Me
      /\ \A i, j \in DOMAIN p : p[i] = p[j] => i = j
  BY GraphAssumption
<1>2. Len(p) \in Nat /\ DOMAIN p = 1 .. Len(p)
  BY <1>1
<1>3. ASSUME NEW i \in 1 .. Len(p) - 1
      PROVE  /\ p[i] \in Nodes /\ p[i + 1] \in Nodes
             /\ <<p[i], p[i + 1]>> \in EdgesOf(p)
             /\ <<p[i], p[i + 1]>> \in Edges
             /\ p[i] = Me <=> i = 1
  <2>1. i \in DOMAIN p /\ i + 1 \in DOMAIN p /\ 1 \in DOMAIN p
    BY <1>1, <1>2
  <2>2. <<p[i], p[i + 1]>> \in EdgesOf(p)
    BY DEF EdgesOf
  <2> QED
    BY <1>1, <2>1, <2>2 DEF Edges
<1>4. Relayed(p) = {<<p[i], p[i + 1]>> : i \in 2 .. Len(p) - 1}
  <2>1. \A i \in 2 .. Len(p) - 1 : i \in 1 .. Len(p) - 1 /\ i # 1
    BY <1>2
  <2>2. \A i \in 1 .. Len(p) - 1 : i # 1 => i \in 2 .. Len(p) - 1
    BY <1>2
  <2>3. \A i \in 2 .. Len(p) - 1 : <<p[i], p[i + 1]>> \in Relayed(p)
    BY <1>3, <2>1 DEF Relayed
  <2>4. \A e \in Relayed(p) : \E i \in 2 .. Len(p) - 1 : e = <<p[i], p[i + 1]>>
    BY <1>3, <2>2 DEF Relayed, EdgesOf
  <2> QED
    BY <2>3, <2>4
<1>5. /\ Loop(p) \in ValueFns /\ Loop(p).penalty = Penalty
      /\ Route(p) \in ValueFns /\ Route(p).penalty = Penalty
  <2>1. Penalty \in Factors /\ MinAckRate \in Factors /\ Penalty \in Int /\ MinAckRate \in Int
    BY GraphAssumption DEF Factors
  <2>2. Len(p) \in Nat \ {0} /\ Len(p) - 1 \in Nat \ {0}
    BY <1>1, <1>2
  <2>3. /\ "forward_without_self_loopback" \in Directions /\ "forward" \in Directions
        /\ None \in (0 .. Word - 1) \cup {None}
    BY DEF Directions
  <2>4. \A d \in Directions, n \in Nat \ {0} :
           /\ Build(d, n, Penalty, MinAckRate, None) \in ValueFns
           /\ Build(d, n, Penalty, MinAckRate, None).penalty = Penalty
    <3> SUFFICES ASSUME NEW d \in Directions, NEW n \in Nat \ {0}
                 PROVE  /\ Build(d, n, Penalty, MinAckRate, None) \in ValueFns
                        /\ Build(d, n, Penalty, MinAckRate, None).penalty = Penalty
      OBVIOUS
    <3>1. PICK a, b : a = Penalty /\ b = MinAckRate
      OBVIOUS
    <3>2. PICK none \in (0 .. Word - 1) \cup {None} : none = None
      OBVIOUS
    <3>3. a \in Int /\ b \in Int /\ a \in Factors
      BY <2>1, <3>1
    <3>4. Build(d, n, a, b, none) \in ValueFns /\ Build(d, n, a, b, none).penalty = a
      BY <3>3, BuildIsValueFn
    <3> QED
      BY <3>1, <3>2, <3>4
  <2>5. Loop(p) \in ValueFns /\ Loop(p).penalty = Penalty
    BY <2>2, <2>3, <2>4 DEF Loop
  <2>6. Route(p) \in ValueFns /\ Route(p).penalty = Penalty
    BY <2>2, <2>3, <2>4 DEF Route
  <2> QED
    BY <2>5, <2>6
<1> QED
  BY <1>1, <1>2, <1>3, <1>4, <1>5

At(p, seen, i) == seen[<<p[i], p[i + 1]>>]

\* The values of the first n parts of a path: a number per edge, as long as it is not pruned.
Values(g, f, p, seen, n) ==
    /\ g[0] = 1
    /\ \A i \in 1 .. n : g[i] = IF g[i - 1] <= 0 THEN g[i - 1]
                               ELSE value_fn(f, g[i - 1], At(p, seen, i), i - 1)

LEMMA PathFold ==
    ASSUME NEW f, NEW p \in Paths, NEW seen
    PROVE  \E g : PathValue(f, p, seen) = g[Len(p) - 1] /\ Values(g, f, p, seen, Len(p) - 1)
<1>1. PICK n \in Nat : n = Len(p) - 1
  BY PathLength
<1>2. PICK g : g = CHOOSE h : Folds(h, f, p, seen, n)
  OBVIOUS
<1>3. Folds(g, f, p, seen, n)
  BY <1>2, FoldExists
<1>4. PathValue(f, p, seen) = g[n]
  BY <1>1, <1>2 DEF PathValue, Folds
<1>5. Values(g, f, p, seen, n)
  BY <1>3 DEF Folds, At, Values
<1> QED
  BY <1>1, <1>4, <1>5

AllPass(f, p, seen, n) == \A i \in 1 .. n : Passes(f, At(p, seen, i), i - 1)

\* A path, of any length, is selected exactly if each of its edges passes by itself: no
\* edge makes up for another (function.rs, the value functions; traits.rs, ValueFn).
THEOREM SelectedIfAllPass ==
    ASSUME NEW f \in ValueFns, NEW p \in Paths, NEW seen,
           \A i \in 1 .. Len(p) - 1 : At(p, seen, i) \in Observations
    PROVE  PathValue(f, p, seen) > 0 <=> AllPass(f, p, seen, Len(p) - 1)
<1>1. PICK n \in Nat : n = Len(p) - 1
  BY PathLength
<1>2. PICK g : /\ PathValue(f, p, seen) = g[n] /\ g[0] = 1
               /\ \A i \in 1 .. n : g[i] = IF g[i - 1] <= 0 THEN g[i - 1]
                                           ELSE value_fn(f, g[i - 1], At(p, seen, i), i - 1)
  <2>1. PICK g : /\ PathValue(f, p, seen) = g[Len(p) - 1]
                 /\ Values(g, f, p, seen, Len(p) - 1)
    BY PathFold
  <2> QED
    BY <1>1, <2>1 DEF Values
<1> DEFINE Good == {i \in 0 .. n : g[i] \in Int /\ (g[i] > 0 <=> AllPass(f, p, seen, i))}
<1>3. 0 \in Good
  BY <1>2 DEF AllPass
<1>4. ASSUME NEW i \in 0 .. n, i > 0, i - 1 \in Good PROVE i \in Good
  <2>1. i \in 1 .. n /\ i - 1 \in Nat
    BY <1>4
  <2>2. PICK o \in Observations : o = At(p, seen, i)
    BY <1>1, <2>1
  <2>3. g[i] = IF g[i - 1] <= 0 THEN g[i - 1] ELSE value_fn(f, g[i - 1], o, i - 1)
    BY <1>2, <2>1, <2>2
  <2>4. g[i - 1] \in Int /\ (g[i - 1] > 0 <=> AllPass(f, p, seen, i - 1))
    BY <1>4
  <2>5. AllPass(f, p, seen, i) <=> AllPass(f, p, seen, i - 1) /\ Passes(f, o, i - 1)
    BY <2>1, <2>2 DEF AllPass
  <2>6. CASE g[i - 1] <= 0
    BY <2>3, <2>4, <2>5, <2>6
  <2>7. CASE ~(g[i - 1] <= 0)
    <3>1. g[i - 1] \in Nat \ {0}
      BY <2>4, <2>7
    <3>2. PICK v : v = value_fn(f, g[i - 1], o, i - 1)
      OBVIOUS
    <3>3. v \in Int /\ (v > 0 <=> Passes(f, o, i - 1))
      BY <2>1, <3>1, <3>2, EdgeDecides
    <3> QED
      BY <2>3, <2>4, <2>5, <2>7, <3>2, <3>3
  <2> QED
    BY <2>6, <2>7
<1> HIDE DEF Good
<1>5. \A i \in 0 .. n : i \in Good
  BY <1>3, <1>4, IndexInduction
<1> QED
  BY <1>1, <1>2, <1>5 DEF Good

\* Two observations of a loop all of whose edges pass, the first edge seen alike: if the
\* other edges count at least as much in one as in the other, and some edge more, so does
\* the loop.
LEMMA LoopsOrdered ==
    ASSUME NEW p \in Paths, NEW seen, NEW other,
           \A i \in 1 .. Len(p) - 1 : /\ At(p, seen, i) \in Observations
                                      /\ At(p, other, i) \in Observations,
           AllPass(Loop(p), p, seen, Len(p) - 1), AllPass(Loop(p), p, other, Len(p) - 1),
           value_fn(Loop(p), 1, At(p, seen, 1), 0) = value_fn(Loop(p), 1, At(p, other, 1), 0),
           \A i \in 2 .. Len(p) - 1 :
              /\ At(p, seen, i).health = At(p, other, i).health
              /\ Counted(At(p, other, i).intermediate_score, Penalty)
                    <= Counted(At(p, seen, i).intermediate_score, Penalty),
           \E i \in 2 .. Len(p) - 1 :
              Counted(At(p, other, i).intermediate_score, Penalty)
                    < Counted(At(p, seen, i).intermediate_score, Penalty)
    PROVE  PathValue(Loop(p), p, seen) > PathValue(Loop(p), p, other)
<1>1. PICK n \in Nat : n = Len(p) - 1
  BY PathLength
<1>2. PICK f \in ValueFns : f = Loop(p)
  BY PathEdges
<1>3. f.direction = "forward_without_self_loopback" /\ f.penalty = Penalty
  BY <1>2, PathEdges DEF Loop, Build
<1>4. PICK g : /\ PathValue(f, p, seen) = g[n] /\ g[0] = 1
               /\ \A i \in 1 .. n : g[i] = IF g[i - 1] <= 0 THEN g[i - 1]
                                           ELSE value_fn(f, g[i - 1], At(p, seen, i), i - 1)
  <2>1. PICK g : /\ PathValue(f, p, seen) = g[Len(p) - 1]
                 /\ Values(g, f, p, seen, Len(p) - 1)
    BY PathFold
  <2> QED
    BY <1>1, <2>1 DEF Values
<1>5. PICK h : /\ PathValue(f, p, other) = h[n] /\ h[0] = 1
               /\ \A i \in 1 .. n : h[i] = IF h[i - 1] <= 0 THEN h[i - 1]
                                           ELSE value_fn(f, h[i - 1], At(p, other, i), i - 1)
  <2>1. PICK h : /\ PathValue(f, p, other) = h[Len(p) - 1]
                 /\ Values(h, f, p, other, Len(p) - 1)
    BY PathFold
  <2> QED
    BY <1>1, <2>1 DEF Values
<1> DEFINE More(i) == Counted(At(p, other, i).intermediate_score, f.penalty)
                        < Counted(At(p, seen, i).intermediate_score, f.penalty)
           Good == {i \in 0 .. n : /\ g[i] \in Nat \ {0} /\ h[i] \in Nat \ {0} /\ h[i] <= g[i]
                                   /\ (\E j \in 2 .. i : More(j)) => h[i] < g[i]}
<1>6. 0 \in Good
  BY <1>4, <1>5
<1>7. ASSUME NEW i \in 0 .. n, i > 0, i - 1 \in Good PROVE i \in Good
  <2>1. i \in 1 .. n /\ i - 1 \in Nat
    BY <1>7
  <2>2. PICK o \in Observations, q \in Observations :
           o = At(p, seen, i) /\ q = At(p, other, i)
    BY <1>1, <2>1
  <2>3. Passes(f, o, i - 1) /\ Passes(f, q, i - 1)
    BY <1>1, <1>2, <2>1, <2>2 DEF AllPass
  <2>4. /\ g[i - 1] \in Nat \ {0} /\ h[i - 1] \in Nat \ {0} /\ h[i - 1] <= g[i - 1]
        /\ (\E j \in 2 .. (i - 1) : More(j)) => h[i - 1] < g[i - 1]
    BY <1>7
  <2>5. PICK v, w : /\ v = value_fn(f, g[i - 1], o, i - 1)
                    /\ w = value_fn(f, h[i - 1], q, i - 1)
    OBVIOUS
  <2>6. g[i] = v /\ h[i] = w
    BY <1>4, <1>5, <2>1, <2>2, <2>4, <2>5
  <2>7. CASE i = 1
    <3>1. v = w
      BY <1>2, <1>4, <1>5, <2>2, <2>5, <2>7
    <3>2. v \in Nat \ {0}
      <4>1. v \in Int /\ (v > 0 <=> Passes(f, o, i - 1))
        BY <2>1, <2>4, <2>5, EdgeDecides
      <4> QED
        BY <2>3, <4>1
    <3>3. ~\E j \in 2 .. i : More(j)
      BY <2>7
    <3> QED
      BY <2>6, <3>1, <3>2, <3>3
  <2>8. CASE i # 1
    <3>1. i - 1 \in Nat \ {0} /\ i \in 2 .. n
      BY <2>1, <2>8
    <3>2. /\ o.health = q.health
          /\ Counted(q.intermediate_score, f.penalty) <= Counted(o.intermediate_score, f.penalty)
      BY <1>1, <1>3, <2>2, <3>1
    <3>3. /\ v \in Nat \ {0} /\ w \in Nat \ {0} /\ w <= v
          /\ h[i - 1] < g[i - 1] \/ More(i) => w < v
      BY <1>3, <2>2, <2>3, <2>4, <2>5, <3>1, <3>2, RelayedEdgesOrdered
    <3>4. (\E j \in 2 .. i : More(j)) => More(i) \/ \E j \in 2 .. (i - 1) : More(j)
      <4> SUFFICES ASSUME NEW j \in 2 .. i, More(j)
                   PROVE  More(i) \/ \E k \in 2 .. (i - 1) : More(k)
        OBVIOUS
      <4>1. j = i \/ j \in 2 .. (i - 1)
        OBVIOUS
      <4> HIDE DEF More
      <4> QED
        BY <4>1
    <3> HIDE DEF More
    <3> QED
      BY <2>4, <2>6, <3>3, <3>4
  <2> QED
    BY <2>7, <2>8
<1> HIDE DEF Good
<1>8. \A i \in 0 .. n : i \in Good
  BY <1>6, <1>7, IndexInduction
<1>9. \E j \in 2 .. n : More(j)
  BY <1>1, <1>3
<1>10. h[n] < g[n] /\ h[n] \in Nat /\ g[n] \in Nat
  BY <1>8, <1>9 DEF Good
<1> QED
  BY <1>2, <1>4, <1>5, <1>10

--------------------------------------------------------------------------------
(* Streams. *)

ImmediateRecord == [is_connected : {"unknown", "yes", "no"},
                    score : Factors \cup {None}, ack_rate : Factors \cup {None}]
IntermediateRecord == [balance : (0 .. Word - 1) \cup {None}, score : Factors \cup {None}]

\* A stream is not allocated, or one record.
IsStream(st, Records) == st \subseteq Records /\ \A r, s \in st : r = s

LEMMA FieldOfRecord ==
    ASSUME NEW st, NEW r \in st, \A s \in st : s = r, NEW f, NEW none
    PROVE  Field(st, f, none) = r[f]
<1>1. (CHOOSE s \in st : TRUE) = r
  OBVIOUS
<1> QED
  BY <1>1 DEF Field

LEMMA CombinedScore ==
    ASSUME NEW x \in Factors \cup {None}, NEW y \in Factors \cup {None}
    PROVE  Combined(x, y) \in Factors \cup {None}
<1>1. CASE x = None \/ y = None
  BY <1>1 DEF Combined
<1>2. CASE x # None /\ y # None
  <2>1. x \in Nat /\ y \in Nat /\ x <= One /\ y <= One /\ One \in Nat
    BY <1>2, EdgeValueAssumption DEF Factors
  <2>2. (x + y) \div 2 \in 0 .. One
    BY <2>1
  <2> QED
    BY <1>2, <2>2 DEF Combined, Factors
<1> QED
  BY <1>1, <1>2

\* What the fields of a stream are, allocated or not.
LEMMA ImmediateFields ==
    ASSUME NEW imm, IsStream(imm, ImmediateRecord)
    PROVE  /\ Field(imm, "is_connected", "unknown") \in {"unknown", "yes", "no"}
           /\ Field(imm, "score", None) \in Factors \cup {None}
           /\ Field(imm, "ack_rate", None) \in Factors \cup {None}
           /\ imm = {} => Field(imm, "ack_rate", None) = None
<1>1. CASE imm = {}
  BY <1>1 DEF Field
<1>2. CASE imm # {}
  <2>1. PICK r \in ImmediateRecord : r \in imm /\ \A s \in imm : s = r
    BY <1>2 DEF IsStream
  <2>2. \A f, none : Field(imm, f, none) = r[f]
    BY <2>1, FieldOfRecord
  <2>3. /\ Field(imm, "is_connected", "unknown") = r.is_connected
        /\ Field(imm, "score", None) = r.score
        /\ Field(imm, "ack_rate", None) = r.ack_rate
    BY <2>2
  <2> QED
    BY <1>2, <2>1, <2>3 DEF ImmediateRecord
<1> QED
  BY <1>1, <1>2

LEMMA IntermediateFields ==
    ASSUME NEW int, IsStream(int, IntermediateRecord)
    PROVE  /\ Field(int, "balance", None) \in (0 .. Word - 1) \cup {None}
           /\ Field(int, "score", None) \in Factors \cup {None}
           /\ int = {} => Field(int, "balance", None) = None
<1>1. CASE int = {}
  BY <1>1 DEF Field
<1>2. CASE int # {}
  <2>1. PICK r \in IntermediateRecord : r \in int /\ \A s \in int : s = r
    BY <1>2 DEF IsStream
  <2>2. \A f, none : Field(int, f, none) = r[f]
    BY <2>1, FieldOfRecord
  <2>3. /\ Field(int, "balance", None) = r.balance
        /\ Field(int, "score", None) = r.score
    BY <2>2
  <2> QED
    BY <1>2, <2>1, <2>3 DEF IntermediateRecord
<1> QED
  BY <1>1, <1>2

LEMMA ObservedType ==
    ASSUME NEW imm, NEW int, NEW h \in Int,
           IsStream(imm, ImmediateRecord), IsStream(int, IntermediateRecord)
    PROVE  Observed(imm, int, h) \in Observations
<1>1. /\ Field(imm, "is_connected", "unknown") \in {"unknown", "yes", "no"}
      /\ Field(imm, "score", None) \in Factors \cup {None}
      /\ Field(imm, "ack_rate", None) \in Factors \cup {None}
      /\ Field(int, "balance", None) \in (0 .. Word - 1) \cup {None}
      /\ Field(int, "score", None) \in Factors \cup {None}
  BY ImmediateFields, IntermediateFields
<1>2. Combined(Field(imm, "score", None), Field(int, "score", None)) \in Factors \cup {None}
  BY <1>1, CombinedScore
<1>3. (imm # {}) \in BOOLEAN /\ (int # {}) \in BOOLEAN
  OBVIOUS
<1> QED
  BY <1>1, <1>2, <1>3 DEF Observed, Observations

\* Recording leaves one record, changed in one field.
LEMMA WithOne ==
    ASSUME NEW st, NEW fresh, NEW f, NEW v, NEW r,
           IF st = {} THEN fresh = {r} ELSE st = {r}
    PROVE  With(st, fresh, f, v) = {[r EXCEPT ![f] = v]}
BY DEF With

FitsImmediate(f, v) == \/ f = "is_connected" /\ v \in {"unknown", "yes", "no"}
                       \/ f \in {"score", "ack_rate"} /\ v \in Factors \cup {None}
FitsIntermediate(f, v) == \/ f = "balance" /\ v \in (0 .. Word - 1) \cup {None}
                          \/ f = "score" /\ v \in Factors \cup {None}

LEMMA WithImmediate ==
    ASSUME NEW imm, IsStream(imm, ImmediateRecord), NEW f, NEW v, FitsImmediate(f, v)
    PROVE  LET new == With(imm, Immediate("unknown", None, None), f, v)
           IN  /\ IsStream(new, ImmediateRecord) /\ new # {}
               /\ f = "score" =>
                     /\ Field(new, "is_connected", "unknown") = Field(imm, "is_connected", "unknown")
                     /\ Field(new, "ack_rate", None) = Field(imm, "ack_rate", None)
<1>1. PICK r \in ImmediateRecord :
         /\ IF imm = {} THEN Immediate("unknown", None, None) = {r} ELSE imm = {r}
         /\ Field(imm, "is_connected", "unknown") = r.is_connected
         /\ Field(imm, "ack_rate", None) = r.ack_rate
  <2>1. CASE imm = {}
    <3>1. PICK r : r = [is_connected |-> "unknown", score |-> None, ack_rate |-> None]
      OBVIOUS
    <3>2. r \in ImmediateRecord /\ Immediate("unknown", None, None) = {r}
      BY <3>1 DEF ImmediateRecord, Immediate
    <3> QED
      BY <2>1, <3>1, <3>2 DEF Field
  <2>2. CASE imm # {}
    <3>1. PICK r \in ImmediateRecord : imm = {r}
      BY <2>2 DEF IsStream
    <3>2. \A g, none : Field(imm, g, none) = r[g]
      BY <3>1, FieldOfRecord
    <3>3. /\ Field(imm, "is_connected", "unknown") = r.is_connected
          /\ Field(imm, "ack_rate", None) = r.ack_rate
      BY <3>2
    <3> QED
      BY <2>2, <3>1, <3>3
  <2> QED
    BY <2>1, <2>2
<1>2. PICK s : s = [r EXCEPT ![f] = v]
  OBVIOUS
<1>3. With(imm, Immediate("unknown", None, None), f, v) = {s}
  BY <1>1, <1>2, WithOne
<1>4. s \in ImmediateRecord
  BY <1>2 DEF ImmediateRecord, FitsImmediate
<1>5. f = "score" => s.is_connected = r.is_connected /\ s.ack_rate = r.ack_rate
  BY <1>2 DEF ImmediateRecord
<1>6. \A g, none : Field({s}, g, none) = s[g]
  BY FieldOfRecord
<1>7. /\ Field({s}, "is_connected", "unknown") = s.is_connected
      /\ Field({s}, "ack_rate", None) = s.ack_rate
  BY <1>6
<1> QED
  BY <1>1, <1>3, <1>4, <1>5, <1>7 DEF IsStream

LEMMA WithIntermediate ==
    ASSUME NEW int, IsStream(int, IntermediateRecord), NEW f, NEW v, FitsIntermediate(f, v)
    PROVE  LET new == With(int, Intermediate(None, None), f, v)
           IN  /\ IsStream(new, IntermediateRecord) /\ new # {}
               /\ f = "score" => Field(new, "balance", None) = Field(int, "balance", None)
<1>1. PICK r \in IntermediateRecord :
         /\ IF int = {} THEN Intermediate(None, None) = {r} ELSE int = {r}
         /\ Field(int, "balance", None) = r.balance
  <2>1. CASE int = {}
    <3>1. PICK r : r = [balance |-> None, score |-> None]
      OBVIOUS
    <3>2. r \in IntermediateRecord /\ Intermediate(None, None) = {r}
      BY <3>1 DEF IntermediateRecord, Intermediate
    <3> QED
      BY <2>1, <3>1, <3>2 DEF Field
  <2>2. CASE int # {}
    <3>1. PICK r \in IntermediateRecord : int = {r}
      BY <2>2 DEF IsStream
    <3>2. \A g, none : Field(int, g, none) = r[g]
      BY <3>1, FieldOfRecord
    <3>3. Field(int, "balance", None) = r.balance
      BY <3>2
    <3> QED
      BY <2>2, <3>1, <3>3
  <2> QED
    BY <2>1, <2>2
<1>2. PICK s : s = [r EXCEPT ![f] = v]
  OBVIOUS
<1>3. With(int, Intermediate(None, None), f, v) = {s}
  BY <1>1, <1>2, WithOne
<1>4. s \in IntermediateRecord
  BY <1>2 DEF IntermediateRecord, FitsIntermediate
<1>5. f = "score" => s.balance = r.balance
  BY <1>2 DEF IntermediateRecord
<1>6. \A g, none : Field({s}, g, none) = s[g]
  BY FieldOfRecord
<1>7. Field({s}, "balance", None) = s.balance
  BY <1>6
<1> QED
  BY <1>1, <1>3, <1>4, <1>5, <1>7 DEF IsStream

\* Streams of an edge that differ in scores only.
SameButScores(imm, imm2, int, int2) ==
    /\ imm # {} => imm2 # {}
    /\ int # {} => int2 # {}
    /\ Field(imm2, "is_connected", "unknown") = Field(imm, "is_connected", "unknown")
    /\ Field(imm2, "ack_rate", None) = Field(imm, "ack_rate", None)
    /\ Field(int2, "balance", None) = Field(int, "balance", None)

LEMMA ObservedOnlyScored ==
    ASSUME NEW imm, NEW imm2, NEW int, NEW int2, NEW h,
           IsStream(imm, ImmediateRecord), IsStream(int, IntermediateRecord),
           SameButScores(imm, imm2, int, int2)
    PROVE  OnlyScored(Observed(imm, int, h), Observed(imm2, int2, h))
<1>1. /\ imm = {} => Field(imm, "ack_rate", None) = None
      /\ int = {} => Field(int, "balance", None) = None
  BY ImmediateFields, IntermediateFields
<1>2. PICK o, q : o = Observed(imm, int, h) /\ q = Observed(imm2, int2, h)
  OBVIOUS
<1>3. /\ q.is_connected = o.is_connected /\ q.ack_rate = o.ack_rate
      /\ q.balance = o.balance /\ q.health = o.health
  BY <1>2 DEF Observed, SameButScores
<1>4. /\ o.immediate <=> imm # {}
      /\ q.immediate <=> imm2 # {}
      /\ o.intermediate <=> int # {}
      /\ q.intermediate <=> int2 # {}
      /\ o.ack_rate = Field(imm, "ack_rate", None)
      /\ o.balance = Field(int, "balance", None)
  BY <1>2 DEF Observed
<1> QED
  BY <1>1, <1>2, <1>3, <1>4 DEF OnlyScored, SameButScores

--------------------------------------------------------------------------------
(* The invariant. *)

GraphSound(imm, int) ==
    \A e \in Edges : IsStream(imm[e], ImmediateRecord) /\ IsStream(int[e], IntermediateRecord)

\* Recording finds streams with at most one record, on edges of the graph.
IInv == /\ up \subseteq Edges /\ funds \in [Edges -> Balances]
        /\ DOMAIN immediate = Edges /\ DOMAIN intermediate = Edges
        /\ GraphSound(immediate, intermediate)
        /\ health \in [Nodes -> Factors \cup {None}]
        /\ probes \subseteq [path : Paths, kind : {"Loopback", "ProbeLoopbackTimeout"}]

LEMMA NodesOfEdges ==
    /\ \A e \in Edges : e[1] \in Nodes /\ e[2] \in Nodes
    /\ \A n \in Peers : <<Me, n>> \in Edges
<1>1. ASSUME NEW e \in Edges PROVE e[1] \in Nodes /\ e[2] \in Nodes /\ e = <<e[1], e[2]>>
  <2>1. PICK p \in Paths : e \in EdgesOf(p)
    BY DEF Edges
  <2>2. PICK i \in 1 .. Len(p) - 1 : e = <<p[i], p[i + 1]>>
    BY <2>1 DEF EdgesOf
  <2>3. p[i] \in Nodes /\ p[i + 1] \in Nodes
    BY PathEdges
  <2> QED
    BY <2>2, <2>3
<1>2. ASSUME NEW n \in Peers PROVE <<Me, n>> \in Edges
  <2>1. PICK e \in Edges : e[1] = Me /\ n = e[2]
    BY DEF Peers
  <2> QED
    BY <1>1, <2>1
<1> QED
  BY <1>1, <1>2

LEMMA HealthIsNumber == IInv => \A n \in Nodes : health[n] \in Int
BY EdgeValueAssumption DEF IInv, Factors, None

LEMMA EdgesObserved == IInv => \A e \in Edges : edge(e) \in Observations
<1> SUFFICES ASSUME IInv, NEW e \in Edges PROVE edge(e) \in Observations
  OBVIOUS
<1>1. health[e[2]] \in Int
  BY NodesOfEdges, HealthIsNumber
<1>2. IsStream(immediate[e], ImmediateRecord) /\ IsStream(intermediate[e], IntermediateRecord)
  BY DEF IInv, GraphSound
<1> QED
  BY <1>1, <1>2, ObservedType DEF edge

LEMMA InvariantInit == Init => IInv
<1> SUFFICES ASSUME Init PROVE IInv
  OBVIOUS
<1>1. IsStream({}, ImmediateRecord) /\ IsStream({}, IntermediateRecord)
  BY DEF IsStream
<1>2. GraphSound(immediate, intermediate)
  BY <1>1 DEF Init, GraphSound
<1> QED
  BY <1>2 DEF Init, IInv

\* What recording in one stream, or in one of each of some edges, leaves sound.
LEMMA RecordImmediateSound ==
    ASSUME IInv, NEW e \in Edges, NEW f, NEW v, FitsImmediate(f, v), RecordImmediate(e, f, v)
    PROVE  /\ DOMAIN immediate' = Edges /\ DOMAIN intermediate' = Edges
           /\ GraphSound(immediate', intermediate') /\ health' = health
           /\ f = "score" => \A d \in Edges : SameButScores(immediate[d], immediate'[d],
                                                           intermediate[d], intermediate'[d])
<1>1. PICK new : new = With(immediate[e], Immediate("unknown", None, None), f, v)
  OBVIOUS
<1>2. immediate' = [immediate EXCEPT ![e] = new] /\ UNCHANGED <<intermediate, health>>
  BY <1>1 DEF RecordImmediate
<1>3. /\ IsStream(new, ImmediateRecord) /\ new # {}
      /\ f = "score" =>
            /\ Field(new, "is_connected", "unknown") = Field(immediate[e], "is_connected", "unknown")
            /\ Field(new, "ack_rate", None) = Field(immediate[e], "ack_rate", None)
  <2>1. IsStream(immediate[e], ImmediateRecord)
    BY DEF IInv, GraphSound
  <2> QED
    BY <1>1, <2>1, WithImmediate
<1>4. \A d \in Edges : immediate'[d] = IF d = e THEN new ELSE immediate[d]
  BY <1>2 DEF IInv
<1>5. DOMAIN immediate' = Edges /\ DOMAIN intermediate' = Edges
  BY <1>2 DEF IInv
<1>6. GraphSound(immediate', intermediate')
  BY <1>2, <1>3, <1>4 DEF IInv, GraphSound
<1>7. ASSUME f = "score", NEW d \in Edges
      PROVE  SameButScores(immediate[d], immediate'[d], intermediate[d], intermediate'[d])
  BY <1>2, <1>3, <1>4, <1>7 DEF SameButScores
<1> QED
  BY <1>2, <1>5, <1>6, <1>7

LEMMA RecordIntermediateSound ==
    ASSUME IInv, NEW es, NEW f, NEW v, FitsIntermediate(f, v), RecordIntermediate(es, f, v)
    PROVE  /\ DOMAIN immediate' = Edges /\ DOMAIN intermediate' = Edges
           /\ GraphSound(immediate', intermediate') /\ health' = health
           /\ f = "score" => \A d \in Edges : SameButScores(immediate[d], immediate'[d],
                                                           intermediate[d], intermediate'[d])
<1>1. /\ intermediate' = [d \in Edges |-> IF d \notin es THEN intermediate[d] ELSE
                            With(intermediate[d], Intermediate(None, None), f, v)]
      /\ UNCHANGED <<immediate, health>>
  BY DEF RecordIntermediate
<1>2. ASSUME NEW d \in Edges
      PROVE  /\ IsStream(intermediate'[d], IntermediateRecord)
             /\ f = "score" => SameButScores(immediate[d], immediate'[d],
                                             intermediate[d], intermediate'[d])
  <2>1. IsStream(intermediate[d], IntermediateRecord)
    BY DEF IInv, GraphSound
  <2>2. CASE d \notin es
    BY <1>1, <2>1, <2>2 DEF SameButScores
  <2>3. CASE d \in es
    <3>1. PICK new : new = With(intermediate[d], Intermediate(None, None), f, v)
      OBVIOUS
    <3>2. intermediate'[d] = new
      BY <1>1, <2>3, <3>1
    <3>3. /\ IsStream(new, IntermediateRecord) /\ new # {}
          /\ f = "score" => Field(new, "balance", None) = Field(intermediate[d], "balance", None)
      BY <2>1, <3>1, WithIntermediate
    <3> QED
      BY <1>1, <3>2, <3>3 DEF SameButScores
  <2> QED
    BY <2>2, <2>3
<1>3. DOMAIN immediate' = Edges /\ DOMAIN intermediate' = Edges
  BY <1>1 DEF IInv
<1>4. GraphSound(immediate', intermediate')
  BY <1>1, <1>2 DEF IInv, GraphSound
<1> QED
  BY <1>1, <1>2, <1>3, <1>4

LEMMA ScoreFits == \A b : /\ FitsImmediate("score", Score(b)) /\ FitsIntermediate("score", Score(b))
                          /\ FitsImmediate("ack_rate", Score(b))
BY EdgeValueAssumption DEF FitsImmediate, FitsIntermediate, Score, Factors

\* What an outcome changes: the score of edges, whatever it was.
Scoring == /\ DOMAIN immediate' = Edges /\ DOMAIN intermediate' = Edges
           /\ GraphSound(immediate', intermediate') /\ health' = health
           /\ \A d \in Edges : SameButScores(immediate[d], immediate'[d],
                                             intermediate[d], intermediate'[d])

LEMMA LoopScored ==
    ASSUME IInv, NEW u, u.kind \in {"Loopback", "ProbeLoopbackTimeout"}, record_edge(u)
    PROVE  Scoring
<1>1. PICK b : RecordIntermediate(Relayed(u.path), "score", Score(b))
  BY DEF record_edge
<1> QED
  BY <1>1, ScoreFits, RecordIntermediateSound DEF Scoring

LEMMA NeighborScored == ASSUME IInv, NEW n \in Peers, ProbeNeighbor(n) PROVE Scoring
<1>1. PICK u : /\ u = [kind |-> IF <<Me, n>> \in up THEN "Neighbor" ELSE "ProbeNeighborTimeout",
                       peer |-> n]
               /\ record_edge(u)
  BY DEF ProbeNeighbor, Report
<1>2. u.kind \in {"Neighbor", "ProbeNeighborTimeout"} /\ u.peer = n
  BY <1>1
<1>3. PICK b : RecordImmediate(<<Me, n>>, "score", Score(b))
  BY <1>1, <1>2 DEF record_edge
<1> QED
  BY <1>3, ScoreFits, NodesOfEdges, RecordImmediateSound DEF Scoring

LEMMA SurbsScored == ASSUME IInv, NEW p \in Paths, ReportSurbs(p) PROVE Scoring
<1>1. PICK u : u.kind = "Surb" /\ record_edge(u)
  BY DEF ReportSurbs, Report
<1>2. CASE u.expected > 0
  <2>1. PICK b : RecordIntermediate(Relayed(u.forward), "score", Score(b))
    BY <1>1, <1>2 DEF record_edge
  <2> QED
    BY <2>1, ScoreFits, RecordIntermediateSound DEF Scoring
<1>3. CASE UNCHANGED graphVars
  BY <1>3 DEF Scoring, SameButScores, graphVars, IInv
<1> QED
  BY <1>1, <1>2, <1>3 DEF record_edge

\* g applies the first m judgements of a list one after the other.
Applies(g, healths, m) ==
    g = [i \in 0 .. m |-> IF i = 0 THEN health
                          ELSE record_node_health(g[i - 1], healths[i][1], healths[i][2])]

LEMMA ApplyExists ==
    ASSUME NEW healths, NEW n \in Nat
    PROVE  \E g : Applies(g, healths, n)
<1> DEFINE Good == {m \in 0 .. n : \E g : Applies(g, healths, m)}
<1>1. 0 \in Good
  <2>1. Applies([i \in 0 .. 0 |-> health], healths, 0)
    BY DEF Applies
  <2> QED
    BY <2>1
<1>2. ASSUME NEW m \in 0 .. n, m > 0, m - 1 \in Good
      PROVE  m \in Good
  <2>1. PICK g : Applies(g, healths, m - 1)
    BY <1>2
  <2> DEFINE h == [i \in 0 .. m |->
                     IF i < m THEN g[i]
                     ELSE record_node_health(g[i - 1], healths[i][1], healths[i][2])]
  <2>2. ASSUME NEW i \in 0 .. m
        PROVE  h[i] = IF i = 0 THEN health
                      ELSE record_node_health(h[i - 1], healths[i][1], healths[i][2])
    <3>1. i > 0 => h[i - 1] = g[i - 1]
      OBVIOUS
    <3>2. CASE i < m
      <4>1. i \in 0 .. (m - 1)
        BY <3>2
      <4>2. g[i] = IF i = 0 THEN health
                   ELSE record_node_health(g[i - 1], healths[i][1], healths[i][2])
        BY <2>1, <4>1 DEF Applies
      <4>3. h[i] = g[i]
        BY <3>2
      <4> QED
        BY <3>1, <4>2, <4>3
    <3>3. CASE i = m
      <4>1. h[i] = record_node_health(g[i - 1], healths[i][1], healths[i][2])
        BY <3>3
      <4> QED
        BY <1>2, <3>1, <3>3, <4>1
    <3> QED
      BY <3>2, <3>3
  <2> HIDE DEF h
  <2>3. h = [i \in 0 .. m |-> h[i]]
    BY DEF h
  <2>4. Applies(h, healths, m)
    BY <2>2, <2>3 DEF Applies
  <2> QED
    BY <2>4
<1> HIDE DEF Good
<1>3. \A m \in 0 .. n : m \in Good
  BY <1>1, <1>2, IndexInduction
<1> QED
  BY <1>3 DEF Good

LEMMA JudgeSound ==
    ASSUME IInv, NEW healths \in Judgements, Judge(healths)
    PROVE  /\ health' \in [Nodes -> Factors \cup {None}]
           /\ UNCHANGED <<worldVars, immediate, intermediate, probes>>
<1> DEFINE H == [Nodes -> Factors \cup {None}]
<1>1. healths \in Seq(Nodes \X Factors)
  BY GraphAssumption
<1>2. PICK n \in Nat : n = Len(healths) /\ \A i \in 1 .. n : healths[i] \in Nodes \X Factors
  BY <1>1
<1>3. PICK g : g = CHOOSE k : Applies(k, healths, n)
  OBVIOUS
<1>4. Applies(g, healths, n)
  BY <1>3, ApplyExists
<1>5. health' = g[n] /\ UNCHANGED <<immediate, intermediate>>
  BY <1>2, <1>3 DEF Judge, record_nodes_health, Applies
<1> DEFINE Good == {i \in 0 .. n : g[i] \in H}
<1>6. 0 \in Good
  BY <1>4 DEF Applies, IInv
<1>7. ASSUME NEW i \in 0 .. n, i > 0, i - 1 \in Good PROVE i \in Good
  <2>1. g[i] = record_node_health(g[i - 1], healths[i][1], healths[i][2])
    BY <1>4, <1>7 DEF Applies
  <2>2. i \in 1 .. n
    BY <1>7
  <2>3. PICK node \in Nodes, v \in Factors : healths[i] = <<node, v>>
    BY <1>2, <2>2
  <2>4. g[i] = [g[i - 1] EXCEPT ![node] = v]
    BY <2>1, <2>3 DEF record_node_health
  <2> QED
    BY <1>7, <2>3, <2>4
<1> HIDE DEF Good
<1>8. n \in Good
  BY <1>6, <1>7, IndexInduction
<1>9. g[n] \in H
  BY <1>8 DEF Good
<1> QED
  BY <1>5, <1>9 DEF Judge

--------------------------------------------------------------------------------
(* Every step keeps the invariant. *)

\* Steps that record leave the world alone, and of the graph what recording leaves sound.
Recorded == /\ DOMAIN immediate' = Edges /\ DOMAIN intermediate' = Edges
            /\ GraphSound(immediate', intermediate') /\ health' = health

LEMMA RecordedKeeps ==
    ASSUME IInv, Recorded, UNCHANGED worldVars, probes' \subseteq probes
    PROVE  IInv'
BY DEF IInv, Recorded, worldVars

LEMMA BalanceRecorded == ASSUME IInv, NEW e \in Edges, ReportBalance(e) PROVE Recorded
<1>1. PICK b : b = funds[e]
  OBVIOUS
<1>2. PICK u : u = [kind |-> "Balance", edge |-> e, balance |-> b]
  OBVIOUS
<1>3. u.kind = "Balance" /\ u.edge = e /\ u.balance = b
  BY <1>2
<1>4. record_edge(u)
  BY <1>1, <1>2 DEF ReportBalance, Report
<1>5. RecordIntermediate({e}, "balance", b)
  BY <1>3, <1>4 DEF record_edge
<1>6. FitsIntermediate("balance", b)
  BY <1>1, GraphAssumption DEF IInv, FitsIntermediate
<1> QED
  BY <1>5, <1>6, RecordIntermediateSound DEF Recorded

LEMMA ConnectionRecorded == ASSUME IInv, NEW n \in Peers, ReportConnection(n) PROVE Recorded
<1>1. PICK c : c = (<<Me, n>> \in up)
  OBVIOUS
<1>2. PICK u : u = [kind |-> "ConnectionStatus", peer |-> n, connected |-> c]
  OBVIOUS
<1>3. u.kind = "ConnectionStatus" /\ u.peer = n
  BY <1>2
<1>4. record_edge(u)
  BY <1>1, <1>2 DEF ReportConnection, Report
<1>5. PICK v \in {"yes", "no"} : RecordImmediate(<<Me, n>>, "is_connected", v)
  BY <1>3, <1>4 DEF record_edge
<1>6. FitsImmediate("is_connected", v)
  BY DEF FitsImmediate
<1> QED
  BY <1>5, <1>6, NodesOfEdges, RecordImmediateSound DEF Recorded

LEMMA AcksRecorded == ASSUME IInv, NEW n \in Peers, ReportAcks(n) PROVE Recorded
<1>1. PICK b : RecordImmediate(<<Me, n>>, "ack_rate", Score(b))
  BY DEF ReportAcks, record_conformance
<1> QED
  BY <1>1, ScoreFits, NodesOfEdges, RecordImmediateSound DEF Recorded

LEMMA ProbeRecorded == ASSUME IInv, NEW p, RecordProbe(p) PROVE Scoring
<1>1. PICK u \in probes : record_edge(u)
  BY DEF RecordProbe
<1>2. u.kind \in {"Loopback", "ProbeLoopbackTimeout"}
  BY DEF IInv
<1> QED
  BY <1>1, <1>2, LoopScored

LEMMA InvariantStep == IInv /\ [Next]_vars => IInv'
<1> SUFFICES ASSUME IInv, [Next]_vars PROVE IInv'
  OBVIOUS
<1>1. ASSUME NEW e \in Edges, LinkChanges(e) PROVE IInv'
  BY <1>1 DEF LinkChanges, graphVars, IInv
<1>2. ASSUME NEW e \in Edges, FundsChange(e) PROVE IInv'
  BY <1>2 DEF FundsChange, graphVars, IInv
<1>3. ASSUME NEW e \in Edges, ReportBalance(e) PROVE IInv'
  BY <1>3, BalanceRecorded, RecordedKeeps DEF ReportBalance, Report
<1>4. ASSUME NEW n \in Peers, ProbeNeighbor(n) PROVE IInv'
  BY <1>4, NeighborScored, RecordedKeeps DEF ProbeNeighbor, Report, Scoring, Recorded
<1>5. ASSUME NEW n \in Peers, ReportConnection(n) PROVE IInv'
  BY <1>5, ConnectionRecorded, RecordedKeeps DEF ReportConnection, Report
<1>6. ASSUME NEW n \in Peers, ReportAcks(n) PROVE IInv'
  BY <1>6, AcksRecorded, RecordedKeeps DEF ReportAcks
<1>7. ASSUME NEW healths \in Judgements, Judge(healths) PROVE IInv'
  BY <1>7, JudgeSound DEF IInv, worldVars
<1>8. ASSUME NEW p \in Paths, ReportSurbs(p) PROVE IInv'
  BY <1>8, SurbsScored, RecordedKeeps DEF ReportSurbs, Report, Scoring, Recorded
<1>9. ASSUME NEW p \in Paths, ProbeLoop(p) PROVE IInv'
  <2>1. probes' \subseteq [path : Paths, kind : {"Loopback", "ProbeLoopbackTimeout"}]
    BY <1>9 DEF ProbeLoop, IInv
  <2> QED
    BY <1>9, <2>1 DEF ProbeLoop, worldVars, graphVars, IInv
<1>10. ASSUME NEW p \in Paths, RecordProbe(p) PROVE IInv'
  <2>1. probes' \subseteq probes /\ UNCHANGED worldVars
    BY <1>10 DEF RecordProbe
  <2> QED
    BY <1>10, <2>1, ProbeRecorded, RecordedKeeps DEF Scoring, Recorded
<1>11. CASE UNCHANGED vars
  BY <1>11 DEF vars, worldVars, graphVars, IInv
<1> QED
  BY <1>1, <1>2, <1>3, <1>4, <1>5, <1>6, <1>7, <1>8, <1>9, <1>10, <1>11 DEF Next

LEMMA InvariantHolds == Spec => []IInv
BY InvariantInit, InvariantStep, PTL DEF Spec

LEMMA InvariantIsTyped == IInv => TypeOK
<1> SUFFICES ASSUME IInv PROVE TypeOK
  OBVIOUS
<1>1. probes \subseteq [kind : {"Loopback", "ProbeLoopbackTimeout"}, path : Paths]
  BY DEF IInv
<1>2. probes \subseteq MeasurableEdge
  BY <1>1 DEF MeasurableEdge
<1> QED
  BY <1>2, EdgesObserved DEF IInv, TypeOK

\* What recording makes of an edge, in whatever order telemetry, acks, balances and
\* judgements arrive, is an observation the value functions are defined on: no stream
\* holds two records, no balance exceeds a word, health stays a factor (graph/traits.rs,
\* NetworkGraphUpdate).
THEOREM TypeCorrect == Spec => []TypeOK
BY InvariantHolds, InvariantIsTyped, PTL

--------------------------------------------------------------------------------
(* Selection. *)

\* What is seen of each edge of a path.
LEMMA SeenEdges ==
    ASSUME IInv, NEW p \in Paths
    PROVE  \A i \in 1 .. Len(p) - 1 :
              /\ <<p[i], p[i + 1]>> \in Edges
              /\ At(p, Seen(p), i) = edge(<<p[i], p[i + 1]>>)
              /\ At(p, Unproven(p), i) = [edge(<<p[i], p[i + 1]>>) EXCEPT !.intermediate_score = None]
              /\ edge(<<p[i], p[i + 1]>>) \in Observations
BY PathEdges, EdgesObserved DEF Seen, Unproven, At

LEMMA LoopIsRoute ==
    ASSUME NEW p \in Paths, NEW o \in Observations, NEW i \in 1 .. Len(p) - 1,
           Passes(Loop(p), o, i - 1)
    PROVE  Passes(Route(p), o, i - 1)
<1>1. PICK f \in ValueFns, g \in ValueFns : f = Loop(p) /\ g = Route(p)
  BY PathEdges
<1>2. /\ f.direction = "forward_without_self_loopback" /\ g.direction = "forward"
      /\ f.length = Len(p) /\ g.length = Len(p) - 1
      /\ g.penalty = f.penalty /\ g.min_ack_rate = f.min_ack_rate
      /\ g.ticket_face_value = f.ticket_face_value
  BY <1>1 DEF Loop, Route, Build
<1>3. i - 1 \in Nat /\ f.length = g.length + 1 /\ i - 1 < g.length
  BY <1>2, PathLength
<1> QED
  BY <1>1, <1>2, <1>3, LoopEdgesSuitRoutes

LEMMA LoopsRoutes == IInv => ProbedLoopsAreRoutes
<1> SUFFICES ASSUME IInv, NEW p \in Paths, PathValue(Loop(p), p, Seen(p)) > 0
             PROVE  PathValue(Route(p), p, Seen(p)) > 0
  BY DEF ProbedLoopsAreRoutes, simple_loopback_to_self, simple_paths
<1>1. \A i \in 1 .. Len(p) - 1 : At(p, Seen(p), i) \in Observations
  BY SeenEdges
<1>2. Loop(p) \in ValueFns /\ Route(p) \in ValueFns
  BY PathEdges
<1>3. AllPass(Loop(p), p, Seen(p), Len(p) - 1)
  BY <1>1, <1>2, SelectedIfAllPass
<1>4. AllPass(Route(p), p, Seen(p), Len(p) - 1)
  BY <1>1, <1>3, LoopIsRoute DEF AllPass
<1> QED
  BY <1>1, <1>2, <1>4, SelectedIfAllPass

\* Every loop that is selected for probing is a route that sessions can be given, of any
\* length and whatever the graph has recorded (function.rs: forward_without_self_loopback
\* accepts no edge that forward does not).
THEOREM LoopsAreRoutes == Spec => []ProbedLoopsAreRoutes
BY InvariantHolds, LoopsRoutes, PTL

--------------------------------------------------------------------------------
(* Outcomes take nothing away. *)

LEMMA ScoringKeepsEdges ==
    ASSUME IInv, IInv', Scoring, NEW e \in Edges
    PROVE  edge(e)' \in Observations /\ OnlyScored(edge(e), edge(e)')
<1>1. /\ edge(e)' = Observed(immediate'[e], intermediate'[e], health'[e[2]])
      /\ health'[e[2]] = health[e[2]]
  BY DEF edge, Scoring
<1>2. health[e[2]] \in Int
  BY NodesOfEdges, HealthIsNumber
<1>3. /\ IsStream(immediate[e], ImmediateRecord) /\ IsStream(intermediate[e], IntermediateRecord)
      /\ IsStream(immediate'[e], ImmediateRecord) /\ IsStream(intermediate'[e], IntermediateRecord)
      /\ SameButScores(immediate[e], immediate'[e], intermediate[e], intermediate'[e])
  BY DEF IInv, GraphSound, Scoring
<1>4. Observed(immediate'[e], intermediate'[e], health'[e[2]]) \in Observations
  BY <1>1, <1>2, <1>3, ObservedType
<1>5. OnlyScored(Observed(immediate[e], intermediate[e], health[e[2]]),
                 Observed(immediate'[e], intermediate'[e], health[e[2]]))
  BY <1>3, ObservedOnlyScored
<1> QED
  BY <1>1, <1>4, <1>5 DEF edge

LEMMA ScoringKeepsPaths ==
    ASSUME IInv, IInv', Scoring, NEW p \in Paths, NEW f \in ValueFns,
           f.penalty # 0 \/ f.length # 1,
           PathValue(f, p, Seen(p)) > 0
    PROVE  PathValue(f, p, Seen(p)') > 0
<1>1. PICK later : later = Seen(p)'
  OBVIOUS
<1>2. ASSUME NEW i \in 1 .. Len(p) - 1
      PROVE  /\ At(p, Seen(p), i) \in Observations /\ At(p, later, i) \in Observations
             /\ OnlyScored(At(p, Seen(p), i), At(p, later, i))
  <2>1. <<p[i], p[i + 1]>> \in Edges /\ <<p[i], p[i + 1]>> \in EdgesOf(p)
    BY PathEdges
  <2>2. PICK e \in Edges : e = <<p[i], p[i + 1]>> /\ e \in EdgesOf(p)
    BY <2>1
  <2>3. later = [d \in EdgesOf(p) |-> edge(d)']
    BY <1>1 DEF Seen
  <2>4. At(p, later, i) = edge(e)'
    BY <2>2, <2>3 DEF At
  <2>5. At(p, Seen(p), i) = edge(e) /\ edge(e) \in Observations
    BY <2>2, SeenEdges
  <2>6. edge(e)' \in Observations /\ OnlyScored(edge(e), edge(e)')
    BY <2>2, ScoringKeepsEdges
  <2> QED
    BY <2>4, <2>5, <2>6
<1>3. AllPass(f, p, Seen(p), Len(p) - 1)
  BY <1>2, SelectedIfAllPass
<1>4. ASSUME NEW i \in 1 .. Len(p) - 1
      PROVE  Passes(f, At(p, later, i), i - 1)
  <2>1. i - 1 \in Nat /\ Passes(f, At(p, Seen(p), i), i - 1)
    BY <1>3, PathLength DEF AllPass
  <2> QED
    BY <1>2, <2>1, ScoresPruneNothing
<1>5. AllPass(f, p, later, Len(p) - 1)
  BY <1>4 DEF AllPass
<1> QED
  BY <1>1, <1>2, <1>5, SelectedIfAllPass

LEMMA ScoringPrunesNothing ==
    ASSUME IInv, IInv', Scoring, Penalty # 0 \/ \A p \in Paths : Len(p) > 2
    PROVE  /\ simple_loopback_to_self \subseteq simple_loopback_to_self'
           /\ simple_paths \subseteq simple_paths'
<1>1. ASSUME NEW p \in Paths, PathValue(Loop(p), p, Seen(p)) > 0
      PROVE  PathValue(Loop(p), p, Seen(p)') > 0
  <2>1. Loop(p) \in ValueFns /\ Loop(p).length # 1
    BY PathEdges DEF Loop, Build
  <2> QED
    BY <1>1, <2>1, ScoringKeepsPaths
<1>2. ASSUME NEW p \in Paths, PathValue(Route(p), p, Seen(p)) > 0
      PROVE  PathValue(Route(p), p, Seen(p)') > 0
  <2>1. /\ Route(p) \in ValueFns /\ Route(p).penalty = Penalty
        /\ Route(p).length = Len(p) - 1 /\ Len(p) \in Nat
    BY PathEdges DEF Route, Build
  <2> QED
    BY <1>2, <2>1, ScoringKeepsPaths
<1>3. /\ simple_loopback_to_self' = {p \in Paths : PathValue(Loop(p), p, Seen(p)') > 0}
      /\ simple_paths' = {p \in Paths : PathValue(Route(p), p, Seen(p)') > 0}
  BY DEF simple_loopback_to_self, simple_paths
<1> QED
  BY <1>1, <1>2, <1>3 DEF simple_loopback_to_self, simple_paths

\* The outcome of no probe, of a neighbour or around a loop, and of no session's replies
\* takes a loop or a route from those selected: what is measured dead is still probed
\* (function.rs, MEASURED_DEAD_FLOOR). Only where routes are direct and a penalty of zero
\* makes an unknown ack rate cost everything, an outcome can be worse than none.
THEOREM PruningNeedsMore ==
    ASSUME Penalty # 0 \/ \A p \in Paths : Len(p) > 2
    PROVE  Spec => OutcomesPruneNothing
<1> DEFINE Outcome == /\ graphVars' # graphVars
                      /\ \/ \E n \in Peers : ProbeNeighbor(n)
                         \/ \E p \in Paths : ReportSurbs(p) \/ RecordProbe(p)
           Kept == /\ simple_loopback_to_self \subseteq simple_loopback_to_self'
                   /\ simple_paths \subseteq simple_paths'
<1>1. IInv /\ IInv' /\ Outcome => Kept
  <2> SUFFICES ASSUME IInv, IInv', Outcome PROVE Kept
    OBVIOUS
  <2>1. Scoring
    BY NeighborScored, SurbsScored, ProbeRecorded
  <2> QED
    BY <2>1, ScoringPrunesNothing
<1>2. IInv /\ IInv' => [Outcome => Kept]_vars
  BY <1>1
<1>3. Spec => [][Outcome => Kept]_vars
  BY <1>2, InvariantHolds, PTL
<1> QED
  BY <1>3 DEF OutcomesPruneNothing

--------------------------------------------------------------------------------
(* Outcomes order. *)

\* An observation without the score of relayed packets: it passes as before, and the
\* first edge of a loop never counted that score by itself.
LEMMA UnscoredEdge ==
    ASSUME NEW o \in Observations, NEW q, q = [o EXCEPT !.intermediate_score = None]
    PROVE  /\ q \in Observations /\ q.health = o.health /\ q.intermediate_score = None
           /\ \A f, i : Passes(f, o, i) <=> Passes(f, q, i)
           /\ \A p \in Paths : value_fn(Loop(p), 1, q, 0) = value_fn(Loop(p), 1, o, 0)
<1>1. q \in Observations /\ q.intermediate_score = None
  BY DEF Observations
<1>2. /\ q.immediate = o.immediate /\ q.is_connected = o.is_connected
      /\ q.ack_rate = o.ack_rate /\ q.intermediate = o.intermediate
      /\ q.balance = o.balance /\ q.score = o.score /\ q.health = o.health
  BY DEF Observations
<1>3. \A f, i : Passes(f, o, i) <=> Passes(f, q, i)
  BY <1>2 DEF Passes, EdgePasses, LastForwardPasses, Funded, Acks, connected
<1>4. ASSUME NEW p \in Paths
      PROVE  value_fn(Loop(p), 1, q, 0) = value_fn(Loop(p), 1, o, 0)
  <2>1. PICK f : f = Loop(p)
    OBVIOUS
  <2>2. f.direction = "forward_without_self_loopback"
    BY <2>1 DEF Loop, Build
  <2>3. first_edge(q, 1, f) = first_edge(o, 1, f)
    BY <1>2 DEF first_edge, connected
  <2>4. \A x : edge_value(f, 1, x, 0) = first_edge(x, 1, f)
    BY <2>2 DEF edge_value
  <2>5. \A x : value_fn(f, 1, x, 0) = scale_by_health(first_edge(x, 1, f), x.health)
    BY <2>2, <2>4 DEF value_fn, IntoRelayer
  <2> QED
    BY <1>2, <2>1, <2>3, <2>5
<1> QED
  BY <1>1, <1>2, <1>3, <1>4

LEMMA SuccessCountsMost ==
    ASSUME Floor < Penalty, Penalty < One
    PROVE  /\ \A s \in {0, None, One} : Counted(s, Penalty) \in Int
           /\ Counted(0, Penalty) < Counted(None, Penalty)
           /\ Counted(None, Penalty) < Counted(One, Penalty)
<1>1. One \in Nat /\ Floor \in Nat /\ Floor > 0 /\ Penalty \in Nat
  BY EdgeValueAssumption, GraphAssumption DEF Factors
<1> QED
  BY <1>1 DEF Counted, Greatest, None

LEMMA LoopsRanked ==
    ASSUME IInv, Floor < Penalty, Penalty < One
    PROVE  OutcomesRank
<1> SUFFICES ASSUME NEW p \in Paths, PathValue(Loop(p), p, Seen(p)) > 0
             PROVE  /\ One \in Outcomes(p) /\ Outcomes(p) \subseteq {None, One} =>
                          PathValue(Loop(p), p, Seen(p)) > PathValue(Loop(p), p, Unproven(p))
                    /\ 0 \in Outcomes(p) /\ Outcomes(p) \subseteq {None, 0} =>
                          PathValue(Loop(p), p, Unproven(p)) > PathValue(Loop(p), p, Seen(p))
  BY DEF OutcomesRank, simple_loopback_to_self
<1>1. PICK seen, bare : seen = Seen(p) /\ bare = Unproven(p)
  OBVIOUS
<1> DEFINE Of(i) == At(p, seen, i).intermediate_score
<1>2. ASSUME NEW i \in 1 .. Len(p) - 1
      PROVE  /\ At(p, seen, i) \in Observations /\ At(p, bare, i) \in Observations
             /\ At(p, bare, i).health = At(p, seen, i).health
             /\ At(p, bare, i).intermediate_score = None
             /\ Passes(Loop(p), At(p, seen, i), i - 1) <=> Passes(Loop(p), At(p, bare, i), i - 1)
             /\ value_fn(Loop(p), 1, At(p, bare, i), 0) = value_fn(Loop(p), 1, At(p, seen, i), 0)
  <2>1. PICK o \in Observations : o = edge(<<p[i], p[i + 1]>>)
    BY SeenEdges
  <2>2. At(p, seen, i) = o
    BY <1>1, <2>1, SeenEdges
  <2>3. PICK q : q = [o EXCEPT !.intermediate_score = None]
    OBVIOUS
  <2>4. At(p, bare, i) = q
    BY <1>1, <2>1, <2>3, SeenEdges
  <2> QED
    BY <2>1, <2>2, <2>3, <2>4, UnscoredEdge
<1>3. AllPass(Loop(p), p, seen, Len(p) - 1) /\ AllPass(Loop(p), p, bare, Len(p) - 1)
  <2>1. AllPass(Loop(p), p, seen, Len(p) - 1)
    BY <1>1, <1>2, PathEdges, SelectedIfAllPass
  <2> QED
    BY <1>2, <2>1 DEF AllPass
<1>4. value_fn(Loop(p), 1, At(p, seen, 1), 0) = value_fn(Loop(p), 1, At(p, bare, 1), 0)
  <2>1. 1 \in 1 .. Len(p) - 1
    BY PathEdges
  <2> QED
    BY <1>2, <2>1
<1>5. \A i \in 2 .. Len(p) - 1 : i \in 1 .. Len(p) - 1
  BY PathEdges
<1>6. Outcomes(p) = {Of(i) : i \in 2 .. Len(p) - 1}
  <2>1. Relayed(p) = {<<p[i], p[i + 1]>> : i \in 2 .. Len(p) - 1}
    BY PathEdges
  <2>2. \A i \in 2 .. Len(p) - 1 : edge(<<p[i], p[i + 1]>>).intermediate_score = Of(i)
    BY <1>1, <1>5, SeenEdges
  <2> HIDE DEF Of
  <2>3. \A i \in 2 .. Len(p) - 1 : Of(i) \in Outcomes(p)
    BY <2>1, <2>2 DEF Outcomes
  <2>4. \A s \in Outcomes(p) : \E i \in 2 .. Len(p) - 1 : s = Of(i)
    <3> SUFFICES ASSUME NEW e \in Relayed(p)
                 PROVE  \E i \in 2 .. Len(p) - 1 : edge(e).intermediate_score = Of(i)
      BY DEF Outcomes
    <3>1. PICK i \in 2 .. Len(p) - 1 : e = <<p[i], p[i + 1]>>
      BY <2>1
    <3> QED
      BY <2>2, <3>1
  <2> QED
    BY <2>3, <2>4
<1> DEFINE Worth(x, i) == Counted(At(p, x, i).intermediate_score, Penalty)
<1>7. \A i \in 2 .. Len(p) - 1 : Worth(bare, i) = Counted(None, Penalty)
  BY <1>2, <1>5
<1>8. \A s \in {0, None, One} : Counted(s, Penalty) \in Int
  BY SuccessCountsMost
<1>9. ASSUME One \in Outcomes(p), Outcomes(p) \subseteq {None, One}
      PROVE  PathValue(Loop(p), p, seen) > PathValue(Loop(p), p, bare)
  <2>1. \A i \in 2 .. Len(p) - 1 : Of(i) \in {None, One}
    BY <1>6, <1>9
  <2>2. \A i \in 2 .. Len(p) - 1 : Worth(bare, i) <= Worth(seen, i)
    BY <1>7, <1>8, <2>1, SuccessCountsMost
  <2>3. \E i \in 2 .. Len(p) - 1 : Worth(bare, i) < Worth(seen, i)
    BY <1>6, <1>7, <1>9, SuccessCountsMost
  <2> QED
    BY <1>2, <1>3, <1>4, <1>5, <2>2, <2>3, LoopsOrdered
<1>10. ASSUME 0 \in Outcomes(p), Outcomes(p) \subseteq {None, 0}
       PROVE  PathValue(Loop(p), p, bare) > PathValue(Loop(p), p, seen)
  <2>1. \A i \in 2 .. Len(p) - 1 : Of(i) \in {None, 0}
    BY <1>6, <1>10
  <2>2. \A i \in 2 .. Len(p) - 1 : Worth(seen, i) <= Worth(bare, i)
    BY <1>7, <1>8, <2>1, SuccessCountsMost
  <2>3. \E i \in 2 .. Len(p) - 1 : Worth(seen, i) < Worth(bare, i)
    BY <1>6, <1>7, <1>10, SuccessCountsMost
  <2> QED
    BY <1>2, <1>3, <1>4, <1>5, <2>2, <2>3, LoopsOrdered
<1> QED
  BY <1>1, <1>9, <1>10

\* Where an unproven edge counts more than one measured dead and less than a proven one,
\* outcomes order loops of any length: successes alone put one above what it is worth
\* untried, failures alone below, and mixed with unknowns they still do (function.rs,
\* score_or_penalize).
THEOREM OutcomesOrder == ASSUME Floor < Penalty, Penalty < One PROVE Spec => []OutcomesRank
<1>1. IInv => OutcomesRank
  BY LoopsRanked
<1> QED
  BY <1>1, InvariantHolds, PTL
================================================================================
