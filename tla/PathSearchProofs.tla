----------------------------- MODULE PathSearchProofs ---------------------------
(***************************************************************************)
(* Proofs about PathSearch, for any precision of the factors, parameters,  *)
(* observations and lengths of paths: a path that is kept has only edges   *)
(* that can be used, a path is pruned only for one that cannot, and its    *)
(* value never rises.                                                      *)
(***************************************************************************)
EXTENDS PathSearch, EdgeValueTheorems

--------------------------------------------------------------------------------
(* One edge: what passes is what can be used, if no factor is zero. *)

\* No balance covers a product that does not fit one.
LEMMA FundingExact ==
    ASSUME NEW o \in Observations, NEW remaining \in Nat, NEW price \in 0 .. Word - 1
    PROVE  o.intermediate /\ balance_suffices(o.balance, remaining, price)
               <=> Funds(o, remaining, price)
<1>1. PICK b : b = o.balance
  OBVIOUS
<1>2. b = None \/ (b \in Nat /\ b < Word)
  BY <1>1, EdgeValueAssumption DEF Observations
<1>3. price \in Nat /\ Word \in Nat
  BY EdgeValueAssumption
<1>4. PICK n : n = remaining * price
  OBVIOUS
<1>5. n \in Nat /\ (price = 0 => n = 0)
  BY <1>3, <1>4
<1>6. balance_suffices(b, remaining, price)
        <=> remaining = 0 \/ (b # None /\ b >= remaining * price)
  BY <1>2, <1>3, <1>4, <1>5 DEF balance_suffices
<1> QED
  BY <1>1, <1>6 DEF Funds

LEMMA AcksAreEnough ==
    ASSUME NEW f \in ValueFns, NEW o \in Observations
    PROVE  /\ Acks(f, o) => AckedEnough(f, o)
           /\ AckedEnough(f, o) /\ f.penalty # 0 /\ o.ack_rate # 0 => Acks(f, o)
BY DEF Acks, AckedEnough

LEMMA LastForwardUsable ==
    ASSUME NEW f \in ValueFns, NEW o \in Observations
    PROVE  LET usable == f.length = 1 /\ o.immediate /\ Scored(o) => AckedEnough(f, o)
           IN  /\ LastForwardPasses(f, o) => usable
               /\ usable /\ f.penalty # 0 /\ o.ack_rate # 0 => LastForwardPasses(f, o)
BY AcksAreEnough DEF LastForwardPasses, Scored, connected

LEMMA UsableIsPassed ==
    ASSUME NEW f \in ValueFns, NEW o \in Observations, NEW index \in Nat
    PROVE  /\ Passes(f, o, index) => Usable(f, o, index)
           /\ Usable(f, o, index) /\ f.penalty # 0 /\ o.ack_rate # 0 => Passes(f, o, index)
<1>1. index < f.length => (Funded(f, o, f.length - index - 1)
                             <=> Funds(o, f.length - index - 1, f.ticket_face_value))
  <2> SUFFICES ASSUME index < f.length
               PROVE  Funded(f, o, f.length - index - 1)
                         <=> Funds(o, f.length - index - 1, f.ticket_face_value)
    OBVIOUS
  <2>1. f.length - index - 1 \in Nat /\ f.ticket_face_value \in 0 .. Word - 1
    BY DEF ValueFns
  <2> QED
    BY <2>1, FundingExact DEF Funded
<1> QED
  BY <1>1, AcksAreEnough, LastForwardUsable DEF Passes, EdgePasses, Usable

--------------------------------------------------------------------------------
(* The search. *)

\* A path is kept while its value is positive, which only its last edge can end.
IInv == /\ TypeOK
        /\ kept <=> value > 0
        /\ KeptPathsAreUsable
        /\ PrunedForCause

LEMMA InvariantInit == Init => IInv
<1> SUFFICES ASSUME Init PROVE IInv
  OBVIOUS
<1>1. TypeOK
  <2>1. kept \in BOOLEAN /\ clean \in BOOLEAN /\ silent \in BOOLEAN
    BY Zenon DEF Init
  <2>2. hops \in Nat /\ value \in Int /\ fn \subseteq ValueFns
    BY DEF Init
  <2> QED
    BY <2>1, <2>2 DEF Init, TypeOK
<1>2. value > 0 /\ kept /\ clean
  BY DEF Init
<1> QED
  BY <1>1, <1>2 DEF IInv, KeptPathsAreUsable, PrunedForCause

LEMMA BuildType ==
    ASSUME TypeOK, NEW d \in Directions, NEW n \in 1 .. MaxLength,
           NEW p \in Parameters, NEW a \in Parameters
    PROVE  Build(d, n, p, a, face) \in ValueFns
<1>1. p \in Int /\ a \in Int /\ n \in Nat \ {0}
  BY PathSearchAssumption
<1>2. clamp(p) \in Factors /\ clamp(a) \in Factors
  BY <1>1, ClampInRange
<1>3. (IF face = None THEN default_ticket_face_value ELSE face) \in 0 .. Word - 1
  BY EdgeValueAssumption DEF TypeOK, default_ticket_face_value
<1> QED
  BY <1>1, <1>2, <1>3 DEF Build, ValueFns

\* What folding in an edge does to a path that was not pruned.
LEMMA ExtendDecides ==
    ASSUME IInv, NEW o \in Edges, NEW f \in fn, kept, hops' = hops + 1,
           value' = value_fn(f, value, o, hops)
    PROVE  /\ value' \in Int /\ value' <= value * One * One * One
           /\ value' > 0 => Usable(f, o, hops)
           /\ Usable(f, o, hops) /\ f.penalty # 0 /\ o.ack_rate # 0 => value' > 0
<1>1. /\ value \in Nat \ {0} /\ f \in ValueFns /\ o \in Observations /\ hops \in Nat
  BY PathSearchAssumption DEF IInv, TypeOK
<1>2. /\ value' \in Int /\ value' <= value * One * One * One
      /\ value' > 0 <=> Passes(f, o, hops)
  BY <1>1, EdgeDecides
<1> QED
  BY <1>1, <1>2, UsableIsPassed

LEMMA InvariantStep == IInv /\ [Next]_vars => IInv'
<1> SUFFICES ASSUME IInv, [Next]_vars PROVE IInv'
  OBVIOUS
<1>1. ASSUME NEW v \in FaceValues \ {None}, set_ticket_face_value(v) PROVE IInv'
  BY <1>1, PathSearchAssumption
  DEF set_ticket_face_value, IInv, TypeOK, KeptPathsAreUsable, PrunedForCause
<1>2. CASE Start
  BY <1>2, BuildType DEF Start, IInv, TypeOK, KeptPathsAreUsable, PrunedForCause
<1>3. ASSUME NEW o \in Edges, Extend(o) PROVE IInv'
  <2>1. PICK f \in fn : /\ kept /\ hops' = hops + 1
                        /\ value' = value_fn(f, value, o, hops)
                        /\ kept' = (value' > 0)
                        /\ clean' = (clean /\ Usable(f, o, hops))
                        /\ silent' = (o.ack_rate = 0)
                        /\ UNCHANGED <<face, fn>>
    BY <1>3 DEF Extend
  <2>2. /\ value' \in Int
        /\ value' > 0 => Usable(f, o, hops)
        /\ Usable(f, o, hops) /\ f.penalty # 0 /\ o.ack_rate # 0 => value' > 0
    BY <2>1, ExtendDecides
  <2>3. clean
    BY <2>1 DEF IInv, KeptPathsAreUsable
  <2>4. TypeOK'
    BY <2>1, <2>2 DEF IInv, TypeOK
  <2>5. KeptPathsAreUsable'
    BY <2>1, <2>2, <2>3 DEF KeptPathsAreUsable
  <2>6. PrunedForCause'
    BY <2>1, <2>2, <2>3 DEF PrunedForCause
  <2> QED
    BY <2>1, <2>4, <2>5, <2>6 DEF IInv
<1>4. CASE UNCHANGED vars
  BY <1>4 DEF vars, IInv, TypeOK, KeptPathsAreUsable, PrunedForCause
<1> QED
  BY <1>1, <1>2, <1>3, <1>4 DEF Next

LEMMA InvariantHolds == Spec => []IInv
BY InvariantInit, InvariantStep, PTL DEF Spec

\* The parameters of a value function are in their ranges whatever a caller supplies,
\* and the value of a path is a number.
THEOREM TypeCorrect == Spec => []TypeOK
<1>1. IInv => TypeOK
  BY DEF IInv
<1> QED
  BY <1>1, InvariantHolds, PTL

\* A path that was not pruned has no edge that had to be rejected: negated values never
\* cancel out, however many edges follow.
THEOREM KeptUsable == Spec => []KeptPathsAreUsable
<1>1. IInv => KeptPathsAreUsable
  BY DEF IInv
<1> QED
  BY <1>1, InvariantHolds, PTL

\* A path is pruned only for an edge that had to be rejected, or for an ack rate or a
\* penalty of zero: the floor keeps edges of the worst score in the search.
THEOREM PrunedRightly == Spec => []PrunedForCause
<1>1. IInv => PrunedForCause
  BY DEF IInv
<1> QED
  BY <1>1, InvariantHolds, PTL

\* One more edge never makes a path more attractive, so that pruning a prefix by its
\* value loses nothing.
THEOREM NeverRises == Spec => ValueNeverRises
<1>1. IInv /\ [Next]_vars => [hops' # hops => value' <= value * One * One * One]_vars
  <2> SUFFICES ASSUME IInv, Next, hops' # hops
               PROVE  value' <= value * One * One * One
    BY DEF vars
  <2>1. PICK o \in Edges : Extend(o)
    BY DEF Next, set_ticket_face_value, Start
  <2> QED
    BY <2>1, ExtendDecides DEF Extend
<1> QED
  BY <1>1, InvariantHolds, PTL DEF Spec, ValueNeverRises
================================================================================
