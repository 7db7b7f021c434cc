--------------------------- MODULE EdgeValueTheorems ---------------------------
(***************************************************************************)
(* Facts about the value functions of EdgeValue, for any precision of the  *)
(* factors: which edges each of them lets pass, that no edge makes a path  *)
(* more attractive, and by which factors an edge counts.                   *)
(***************************************************************************)
EXTENDS EdgeValue, TLAPS

--------------------------------------------------------------------------------
(* Products of factors. *)

\* A factor takes nothing from the sign of a positive value and never enlarges it.
LEMMA Scaled ==
    ASSUME NEW c \in Nat \ {0}, NEW x \in Factors
    PROVE  /\ c * x \in Int
           /\ c * x <= c * One
           /\ 0 <= c * x
           /\ x # 0 => 0 < c * x
<1>1. x \in Nat /\ One \in Nat /\ x <= One
  BY EdgeValueAssumption DEF Factors
<1>2. c * x <= c * One
  BY <1>1
<1>3. 0 <= c * x
  BY <1>1
<1>4. x # 0 => 0 < c * x
  BY <1>1
<1> QED
  BY <1>1, <1>2, <1>3, <1>4

\* A bound on a value is one on what a factor, or none, leaves of it.
LEMMA BoundScaled ==
    ASSUME NEW v \in Int, NEW b \in Nat, v <= b
    PROVE  /\ v * One \in Int /\ b * One \in Nat
           /\ v * One <= b * One
           /\ v > 0 <=> v * One > 0
<1>1. One \in Nat /\ One > 0
  BY EdgeValueAssumption
<1>2. b * One \in Nat
  BY <1>1
<1>3. v * One <= b * One
  BY <1>1
<1>4. v > 0 <=> v * One > 0
  BY <1>1
<1> QED
  BY <1>1, <1>2, <1>3, <1>4

LEMMA ClampInRange == \A x \in Int : clamp(x) \in Factors
BY EdgeValueAssumption DEF clamp, Factors, Greatest, Least

\* The floor keeps every score, and every penalty for a missing one, above zero.
LEMMA ScorePositive ==
    ASSUME NEW c \in Nat \ {0}, NEW s \in Factors \cup {None}, NEW p \in Factors
    PROVE  /\ score_or_penalize(c, s, p) \in Nat \ {0}
           /\ score_or_penalize(c, s, p) <= c * One
<1>1. PICK x : x = Greatest(IF s = None THEN p ELSE s, Floor)
  OBVIOUS
<1>2. x \in Factors /\ x # 0
  BY <1>1, EdgeValueAssumption DEF Greatest, Factors
<1>3. score_or_penalize(c, s, p) = c * x
  BY <1>1 DEF score_or_penalize
<1> QED
  BY <1>2, <1>3, Scaled

\* An ack rate passes that is not below the minimum nor zero, and an unknown one unless
\* the penalty for it is zero.
Acks(f, o) == IF o.ack_rate = None THEN f.penalty # 0
              ELSE o.ack_rate >= f.min_ack_rate /\ o.ack_rate # 0

LEMMA AckRate ==
    ASSUME NEW c \in Nat \ {0}, NEW o \in Observations, NEW f \in ValueFns
    PROVE  LET v == apply_ack_rate(o.ack_rate, c, f.min_ack_rate, f.penalty)
           IN  v \in Int /\ v <= c * One /\ (v > 0 <=> Acks(f, o))
<1>1. /\ f.penalty \in Factors /\ f.min_ack_rate \in Factors
      /\ o.ack_rate \in Factors \cup {None}
  BY DEF ValueFns, Observations
<1>2. 0 \in Factors
  BY EdgeValueAssumption DEF Factors
<1>3. CASE o.ack_rate = None
  <2>1. PICK v : v = c * f.penalty
    OBVIOUS
  <2>2. v \in Int /\ v <= c * One /\ (v > 0 <=> f.penalty # 0)
    BY <1>1, <2>1, Scaled
  <2>3. apply_ack_rate(o.ack_rate, c, f.min_ack_rate, f.penalty) = v
    BY <1>3, <2>1 DEF apply_ack_rate
  <2> QED
    BY <1>3, <2>2, <2>3 DEF Acks
<1>4. CASE o.ack_rate # None /\ o.ack_rate < f.min_ack_rate
  <2>1. One \in Factors /\ One # 0
    BY EdgeValueAssumption DEF Factors
  <2>2. c * One \in Int /\ 0 < c * One
    BY <2>1, Scaled
  <2>3. /\ apply_ack_rate(o.ack_rate, c, f.min_ack_rate, f.penalty) = -(c * One)
        /\ o.ack_rate \in Int /\ f.min_ack_rate \in Int
    BY <1>1, <1>4, EdgeValueAssumption DEF apply_ack_rate, Factors
  <2> QED
    BY <1>4, <2>2, <2>3 DEF Acks
<1>5. CASE o.ack_rate # None /\ ~(o.ack_rate < f.min_ack_rate)
  <2>1. o.ack_rate \in Factors /\ o.ack_rate >= f.min_ack_rate
    BY <1>1, <1>5, EdgeValueAssumption DEF Factors
  <2>2. PICK v : v = c * o.ack_rate
    OBVIOUS
  <2>3. v \in Int /\ v <= c * One /\ (v > 0 <=> o.ack_rate # 0)
    BY <2>1, <2>2, Scaled
  <2>4. apply_ack_rate(o.ack_rate, c, f.min_ack_rate, f.penalty) = v
    BY <1>5, <2>2 DEF apply_ack_rate
  <2> QED
    BY <1>5, <2>1, <2>3, <2>4 DEF Acks
<1> QED
  BY <1>3, <1>4, <1>5

LEMMA RejectNegative ==
    ASSUME NEW c \in Nat \ {0}
    PROVE  reject(c) \in Int /\ reject(c) < 0 /\ c * One * One \in Nat
<1>1. One \in Factors /\ One # 0 /\ One \in Nat
  BY EdgeValueAssumption DEF Factors
<1>2. c * One \in Nat \ {0}
  BY <1>1, Scaled
<1>3. c * One * One \in Nat \ {0}
  BY <1>1, <1>2, Scaled
<1> QED
  BY <1>3 DEF reject

--------------------------------------------------------------------------------
(* One edge. *)

\* An edge that is good makes a positive value of a positive value, any other edge one
\* that is not.
Judges(v, c, good) == v \in Int /\ v <= c * One * One /\ (v > 0 <=> good)

\* A score that is followed by no ack rate.
LEMMA ScoredOnly ==
    ASSUME NEW c \in Nat \ {0}, NEW s \in Factors \cup {None}, NEW f \in ValueFns
    PROVE  Judges(score_or_penalize(c, s, f.penalty) * One, c, TRUE)
<1>1. f.penalty \in Factors
  BY DEF ValueFns
<1>2. PICK v : v = score_or_penalize(c, s, f.penalty)
  OBVIOUS
<1>3. v \in Nat \ {0} /\ v <= c * One
  BY <1>1, <1>2, ScorePositive
<1>4. c * One \in Nat
  BY EdgeValueAssumption
<1>5. v * One \in Int /\ v * One <= c * One * One /\ v * One > 0
  BY <1>3, <1>4, BoundScaled
<1> QED
  BY <1>2, <1>5 DEF Judges

LEMMA ScoredAndAcked ==
    ASSUME NEW c \in Nat \ {0}, NEW s \in Factors \cup {None}, NEW f \in ValueFns,
           NEW o \in Observations
    PROVE  Judges(apply_ack_rate(o.ack_rate, score_or_penalize(c, s, f.penalty),
                                 f.min_ack_rate, f.penalty),
                  c, Acks(f, o))
<1>1. f.penalty \in Factors
  BY DEF ValueFns
<1>2. PICK v : v = score_or_penalize(c, s, f.penalty)
  OBVIOUS
<1>3. v \in Nat \ {0} /\ v <= c * One
  BY <1>1, <1>2, ScorePositive
<1>4. PICK w : w = apply_ack_rate(o.ack_rate, v, f.min_ack_rate, f.penalty)
  OBVIOUS
<1>5. w \in Int /\ w <= v * One /\ (w > 0 <=> Acks(f, o))
  BY <1>3, <1>4, AckRate
<1>6. v * One \in Int /\ v * One <= c * One * One /\ c * One * One \in Int
  <2>1. c * One \in Nat
    BY EdgeValueAssumption
  <2> QED
    BY <1>3, <2>1, BoundScaled
<1> QED
  BY <1>2, <1>4, <1>5, <1>6 DEF Judges

LEMMA Rejected == ASSUME NEW c \in Nat \ {0} PROVE Judges(reject(c), c, FALSE)
BY RejectNegative DEF Judges

\* The last edge to a destination is lost to nothing but zeros, or to its acks on a
\* direct route.
LastForwardPasses(f, o) ==
    IF o.intermediate /\ o.balance # None THEN f.length = 1 /\ o.immediate => Acks(f, o)
    ELSE IF connected(o) THEN f.length = 1 => Acks(f, o)
    ELSE f.penalty # 0

LEMMA LastForwardJudged ==
    ASSUME NEW c \in Nat \ {0}, NEW f \in ValueFns, NEW o \in Observations
    PROVE  Judges(last_edge_forward(o, c, f), c, LastForwardPasses(f, o))
<1>1. /\ o.intermediate_score \in Factors \cup {None}
      /\ o.immediate_score \in Factors \cup {None}
      /\ f.penalty \in Factors
  BY DEF Observations, ValueFns
<1>2. CASE o.intermediate /\ o.balance # None
  BY <1>1, <1>2, ScoredOnly, ScoredAndAcked
  DEF last_edge_forward, Judges, LastForwardPasses
<1>3. CASE ~(o.intermediate /\ o.balance # None) /\ connected(o)
  BY <1>1, <1>3, ScoredOnly, ScoredAndAcked
  DEF last_edge_forward, Judges, LastForwardPasses
<1>4. CASE ~(o.intermediate /\ o.balance # None) /\ ~connected(o)
  <2>1. last_edge_forward(o, c, f) = c * f.penalty * One
    BY <1>4 DEF last_edge_forward
  <2>2. PICK v : v = c * f.penalty
    OBVIOUS
  <2>3. v \in Int /\ v <= c * One /\ (f.penalty # 0 <=> v > 0) /\ c * One \in Nat
    BY <1>1, <2>2, Scaled, EdgeValueAssumption
  <2>4. v * One \in Int /\ v * One <= c * One * One /\ (v > 0 <=> v * One > 0)
    BY <2>3, BoundScaled
  <2> QED
    BY <1>4, <2>1, <2>2, <2>3, <2>4 DEF Judges, LastForwardPasses
<1> QED
  BY <1>2, <1>3, <1>4

LEMMA LastReturningJudged ==
    ASSUME NEW c \in Nat \ {0}, NEW f \in ValueFns, NEW o \in Observations
    PROVE  Judges(last_edge_returning(o, c, f), c, connected(o) /\ Acks(f, o))
<1>1. o.immediate_score \in Factors \cup {None}
  BY DEF Observations
<1> QED
  BY <1>1, ScoredAndAcked, Rejected DEF last_edge_returning, Judges

Funded(f, o, remaining) ==
    o.intermediate /\ balance_suffices(o.balance, remaining, f.ticket_face_value)

LEMMA FirstJudged ==
    ASSUME NEW c \in Nat \ {0}, NEW f \in ValueFns, NEW o \in Observations
    PROVE  Judges(first_edge(o, c, f), c,
                  connected(o) /\ Acks(f, o) /\ Funded(f, o, f.length - 1))
<1>1. o.score \in Factors \cup {None}
  BY DEF Observations
<1> QED
  BY <1>1, ScoredAndAcked, Rejected DEF first_edge, Judges, Funded

LEMMA FundingJudged ==
    ASSUME NEW c \in Nat \ {0}, NEW f \in ValueFns, NEW o \in Observations, NEW n \in Nat
    PROVE  Judges(require_funding(o, c, f, n), c, Funded(f, o, n))
<1>1. o.intermediate_score \in Factors \cup {None}
  BY DEF Observations
<1> QED
  BY <1>1, ScoredOnly, Rejected DEF require_funding, Judges, Funded

\* Passes, but for the health of the relayer.
EdgePasses(f, o, index) ==
    /\ index < f.length
    /\ IF index = f.length - 1 /\ f.direction = "forward" THEN LastForwardPasses(f, o)
       ELSE IF index = f.length - 1 /\ f.direction = "returning"
       THEN connected(o) /\ Acks(f, o)
       ELSE /\ Funded(f, o, f.length - index - 1)
            /\ index = 0 /\ f.direction # "returning" => connected(o) /\ Acks(f, o)

LEMMA EdgeJudged ==
    ASSUME NEW c \in Nat \ {0}, NEW f \in ValueFns, NEW o \in Observations, NEW index \in Nat
    PROVE  Judges(edge_value(f, c, o, index), c, EdgePasses(f, o, index))
<1>1. f.length \in Nat \ {0}
  BY DEF ValueFns
<1>2. CASE index = f.length - 1 /\ f.direction = "forward"
  <2>1. edge_value(f, c, o, index) = last_edge_forward(o, c, f)
    BY <1>2 DEF edge_value
  <2>2. EdgePasses(f, o, index)
          <=> LastForwardPasses(f, o)
    BY <1>1, <1>2 DEF EdgePasses
  <2> QED
    BY <2>1, <2>2, LastForwardJudged DEF Judges
<1>3. CASE index = f.length - 1 /\ f.direction = "returning"
  <2>1. edge_value(f, c, o, index) = last_edge_returning(o, c, f)
    BY <1>3 DEF edge_value
  <2>2. EdgePasses(f, o, index) <=> connected(o) /\ Acks(f, o)
    BY <1>1, <1>3 DEF EdgePasses
  <2> QED
    BY <2>1, <2>2, LastReturningJudged DEF Judges
<1>4. CASE /\ ~(index = f.length - 1 /\ f.direction = "forward")
           /\ ~(index = f.length - 1 /\ f.direction = "returning")
           /\ index = 0 /\ f.direction # "returning"
  <2>1. f.length - index - 1 = f.length - 1 /\ index < f.length
    BY <1>1, <1>4
  <2>2. edge_value(f, c, o, index) = first_edge(o, c, f)
    BY <1>4 DEF edge_value
  <2>3. EdgePasses(f, o, index) <=> /\ connected(o) /\ Acks(f, o)
                                    /\ Funded(f, o, f.length - 1)
    BY <1>4, <2>1 DEF EdgePasses
  <2> QED
    BY <2>2, <2>3, FirstJudged DEF Judges
<1>5. CASE /\ ~(index = f.length - 1 /\ f.direction = "forward")
           /\ ~(index = f.length - 1 /\ f.direction = "returning")
           /\ ~(index = 0 /\ f.direction # "returning")
  <2>1. CASE index >= f.length
    BY <1>1, <1>5, <2>1, Rejected DEF edge_value, EdgePasses, Judges
  <2>2. CASE index < f.length
    <3>1. f.length - index - 1 \in Nat /\ ~(index >= f.length)
      BY <1>1, <2>2
    <3>2. edge_value(f, c, o, index) = require_funding(o, c, f, f.length - index - 1)
      BY <1>5, <3>1 DEF edge_value
    <3>3. EdgePasses(f, o, index) <=> Funded(f, o, f.length - index - 1)
      BY <1>5, <2>2 DEF EdgePasses
    <3> QED
      BY <3>1, <3>2, <3>3, FundingJudged DEF Judges
  <2> QED
    BY <1>1, <2>1, <2>2
<1> QED
  BY <1>2, <1>3, <1>4, <1>5

\* Health neither makes a rejected value positive again nor enlarges one.
LEMMA HealthScaled ==
    ASSUME NEW v \in Int, NEW b \in Nat, v <= b, NEW h \in Int
    PROVE  LET w == scale_by_health(v, h)
           IN  /\ w \in Int /\ w <= b * One
               /\ w > 0 <=> v > 0 /\ (h = None \/ h > 0)
<1>1. One \in Nat /\ One > 0
  BY EdgeValueAssumption
<1>2. /\ v * One \in Int /\ b * One \in Nat /\ v * One <= b * One
      /\ v > 0 <=> v * One > 0
  BY BoundScaled
<1>3. CASE v <= 0 \/ h = None
  BY <1>2, <1>3 DEF scale_by_health
<1>4. CASE v > 0 /\ h # None /\ h <= 0
  BY <1>2, <1>4 DEF scale_by_health
<1>5. CASE v > 0 /\ h # None /\ h > 0
  <2>1. PICK x : x = Least(h, One)
    OBVIOUS
  <2>2. x \in Factors /\ x # 0 /\ v \in Nat \ {0}
    BY <1>1, <1>5, <2>1 DEF Least, Factors
  <2>3. v * x \in Int /\ v * x <= v * One /\ v * x > 0
    BY <2>2, Scaled
  <2>4. scale_by_health(v, h) = v * x
    BY <1>5, <2>1 DEF scale_by_health
  <2> QED
    BY <1>2, <1>5, <2>3, <2>4
<1> QED
  BY <1>3, <1>4, <1>5

Passes(f, o, index) ==
    /\ EdgePasses(f, o, index)
    /\ IntoRelayer(f, index) => o.health = None \/ o.health > 0

\* What a value function makes of a positive value: one that is not larger, and positive
\* exactly for an edge that passes.
THEOREM EdgeDecides ==
    ASSUME NEW c \in Nat \ {0}, NEW f \in ValueFns, NEW o \in Observations, NEW index \in Nat
    PROVE  LET v == value_fn(f, c, o, index)
           IN  v \in Int /\ v <= c * One * One * One /\ (v > 0 <=> Passes(f, o, index))
<1>1. PICK e : e = edge_value(f, c, o, index)
  OBVIOUS
<1>2. e \in Int /\ e <= c * One * One /\ (e > 0 <=> EdgePasses(f, o, index))
  BY <1>1, EdgeJudged DEF Judges
<1>3. c * One * One \in Nat
  BY RejectNegative
<1>4. o.health \in Int
  BY DEF Observations
<1>5. CASE IntoRelayer(f, index)
  <2>1. value_fn(f, c, o, index) = scale_by_health(e, o.health)
    BY <1>1, <1>5 DEF value_fn
  <2>2. PICK w : w = scale_by_health(e, o.health)
    OBVIOUS
  <2>3. /\ w \in Int /\ w <= c * One * One * One
        /\ w > 0 <=> e > 0 /\ (o.health = None \/ o.health > 0)
    BY <1>2, <1>3, <1>4, <2>2, HealthScaled
  <2> QED
    BY <1>2, <1>5, <2>1, <2>2, <2>3 DEF Passes
<1>6. CASE ~IntoRelayer(f, index)
  <2>1. value_fn(f, c, o, index) = e * One
    BY <1>1, <1>6 DEF value_fn
  <2> QED
    BY <1>2, <1>3, <1>6, <2>1, BoundScaled DEF Passes
<1> QED
  BY <1>5, <1>6

--------------------------------------------------------------------------------
(* What the functions have in common. *)

\* A constructor gives a value function, and keeps a penalty that is in its range.
THEOREM BuildIsValueFn ==
    ASSUME NEW d \in Directions, NEW n \in Nat \ {0}, NEW p \in Int, NEW a \in Int,
           NEW face \in (0 .. Word - 1) \cup {None}
    PROVE  /\ Build(d, n, p, a, face) \in ValueFns
           /\ p \in Factors => Build(d, n, p, a, face).penalty = p
<1>1. clamp(p) \in Factors /\ clamp(a) \in Factors
  BY ClampInRange
<1>2. (IF face = None THEN default_ticket_face_value ELSE face) \in 0 .. Word - 1
  BY EdgeValueAssumption DEF default_ticket_face_value
<1>3. Build(d, n, p, a, face) \in ValueFns
  BY <1>1, <1>2 DEF Build, ValueFns
<1>4. p \in Factors => clamp(p) = p
  BY EdgeValueAssumption DEF clamp, Factors, Greatest, Least
<1> QED
  BY <1>3, <1>4 DEF Build

LEMMA FewerHopsAreFunded ==
    ASSUME NEW o \in Observations, NEW price \in 0 .. Word - 1,
           NEW more \in Nat \ {0}, NEW fewer \in Nat, fewer <= more,
           balance_suffices(o.balance, more, price)
    PROVE  balance_suffices(o.balance, fewer, price) /\ o.balance # None
<1>1. PICK b : b = o.balance
  OBVIOUS
<1>2. b # None
  BY <1>1 DEF balance_suffices
<1>3. b \in Nat /\ price \in Nat /\ Word \in Nat
  BY <1>1, <1>2, EdgeValueAssumption DEF Observations
<1>4. PICK x, y : x = more * price /\ y = fewer * price
  OBVIOUS
<1>5. x \in Nat /\ y \in Nat /\ y <= x
  BY <1>3, <1>4
<1>6. CASE price = 0 \/ fewer = 0
  BY <1>1, <1>2, <1>6 DEF balance_suffices
<1>7. CASE price # 0 /\ fewer # 0
  <2>1. x < Word /\ b >= x
    BY <1>1, <1>4, <1>7 DEF balance_suffices
  <2>2. y < Word /\ b >= y
    BY <1>3, <1>5, <2>1
  <2> QED
    BY <1>1, <1>2, <1>4, <1>7, <2>2 DEF balance_suffices
<1> QED
  BY <1>1, <1>2, <1>6, <1>7

\* An edge that the function for loops lets pass, the one for routes does, at the same
\* place of a route that ends where the loop turns back.
THEOREM LoopEdgesSuitRoutes ==
    ASSUME NEW f \in ValueFns, NEW g \in ValueFns, NEW o \in Observations, NEW index \in Nat,
           f.direction = "forward_without_self_loopback", g.direction = "forward",
           f.length = g.length + 1, index < g.length,
           g.penalty = f.penalty, g.min_ack_rate = f.min_ack_rate,
           g.ticket_face_value = f.ticket_face_value,
           Passes(f, o, index)
    PROVE  Passes(g, o, index)
<1>1. /\ f.length \in Nat /\ g.length \in Nat /\ f.ticket_face_value \in 0 .. Word - 1
  BY DEF ValueFns
<1>2. PICK m, n : m = f.length - index - 1 /\ n = g.length - index - 1
  OBVIOUS
<1>3. m \in Nat \ {0} /\ n \in Nat /\ n <= m
  BY <1>1, <1>2
<1>4. /\ Funded(f, o, m)
      /\ index = 0 => connected(o) /\ Acks(f, o)
      /\ o.health = None \/ o.health > 0
  BY <1>2 DEF Passes, EdgePasses, IntoRelayer
<1>5. /\ Funded(g, o, n) /\ o.intermediate /\ o.balance # None
      /\ Acks(f, o) = Acks(g, o)
  BY <1>1, <1>3, <1>4, FewerHopsAreFunded DEF Funded, Acks
<1>6. CASE index = g.length - 1
  <2>1. g.length = 1 => index = 0
    BY <1>1, <1>6
  <2>2. LastForwardPasses(g, o)
    BY <1>4, <1>5, <2>1 DEF LastForwardPasses
  <2> QED
    BY <1>4, <1>6, <2>2 DEF Passes, EdgePasses
<1>7. CASE index # g.length - 1
  BY <1>2, <1>4, <1>5, <1>7 DEF Passes, EdgePasses
<1> QED
  BY <1>6, <1>7

\* Observations of an edge that differ in what was scored only: a stream that a score
\* has allocated says nothing else.
OnlyScored(o, q) ==
    /\ q.is_connected = o.is_connected /\ q.ack_rate = o.ack_rate
    /\ q.balance = o.balance /\ q.health = o.health
    /\ IF o.immediate THEN q.immediate ELSE o.ack_rate = None
    /\ IF o.intermediate THEN q.intermediate ELSE o.balance = None

\* Whatever score is recorded of an edge, it still passes; only for a direct route, with
\* a penalty of zero, can a new stream without an ack rate be worse than none.
THEOREM ScoresPruneNothing ==
    ASSUME NEW f \in ValueFns, NEW o \in Observations, NEW q \in Observations, NEW index \in Nat,
           OnlyScored(o, q), Passes(f, o, index),
           f.penalty # 0 \/ f.length # 1
    PROVE  Passes(f, q, index)
<1>1. Acks(f, q) = Acks(f, o) /\ (connected(o) => connected(q))
  BY DEF OnlyScored, Acks, connected
<1>2. \A n : Funded(f, o, n) => Funded(f, q, n)
  BY DEF OnlyScored, Funded
<1>3. f.direction = "forward" /\ LastForwardPasses(f, o) => LastForwardPasses(f, q)
  <2> SUFFICES ASSUME f.direction = "forward", LastForwardPasses(f, o)
               PROVE  LastForwardPasses(f, q)
    OBVIOUS
  <2>1. f.length # 1 => (connected(q) \/ f.penalty # 0 => LastForwardPasses(f, q))
    BY DEF LastForwardPasses
  <2>2. ~o.immediate /\ f.penalty # 0 => Acks(f, q)
    BY DEF OnlyScored, Acks
  <2>3. CASE o.intermediate /\ o.balance # None
    BY <1>1, <2>2, <2>3 DEF LastForwardPasses, OnlyScored
  <2>4. CASE ~(o.intermediate /\ o.balance # None)
    <3>1. ~(q.intermediate /\ q.balance # None)
      BY <2>4 DEF OnlyScored
    <3>2. connected(q) /\ ~connected(o) => ~o.immediate
      BY DEF connected, OnlyScored
    <3> QED
      BY <1>1, <2>1, <2>2, <2>4, <3>1, <3>2 DEF LastForwardPasses
  <2> QED
    BY <2>3, <2>4
<1>4. EdgePasses(f, q, index)
  BY <1>1, <1>2, <1>3 DEF Passes, EdgePasses
<1>5. q.health = o.health
  BY DEF OnlyScored
<1> QED
  BY <1>4, <1>5 DEF Passes

--------------------------------------------------------------------------------
(* Comparing paths. *)

\* What a score counts, and the health of a relayer that is not unusable.
Counted(score, penalty) == Greatest(IF score = None THEN penalty ELSE score, Floor)
HealthCounted(h) == IF h = None THEN One ELSE Least(h, One)

LEMMA CountedPositive ==
    ASSUME NEW s \in Factors \cup {None}, NEW p \in Factors
    PROVE  Counted(s, p) \in Nat \ {0}
BY EdgeValueAssumption DEF Counted, Greatest, Factors

\* The factors of an edge of a loop that is relayed.
THEOREM RelayedEdgeCounts ==
    ASSUME NEW c \in Nat \ {0}, NEW f \in ValueFns, NEW o \in Observations,
           NEW index \in Nat \ {0}, f.direction = "forward_without_self_loopback",
           Passes(f, o, index)
    PROVE  /\ HealthCounted(o.health) \in Nat \ {0}
           /\ value_fn(f, c, o, index) = c * Counted(o.intermediate_score, f.penalty) * One
                                           * HealthCounted(o.health)
<1>1. One \in Nat \ {0} /\ f.length \in Nat /\ f.penalty \in Factors
  BY EdgeValueAssumption DEF ValueFns
<1>2. o.health \in Int /\ o.intermediate_score \in Factors \cup {None}
  BY DEF Observations
<1>3. o.health = None \/ o.health > 0
  BY DEF Passes, IntoRelayer
<1>4. HealthCounted(o.health) \in Nat \ {0}
  BY <1>1, <1>2, <1>3 DEF HealthCounted, Least, None
<1>5. PICK x : x = Counted(o.intermediate_score, f.penalty)
  OBVIOUS
<1>6. x \in Nat \ {0}
  BY <1>1, <1>2, <1>5, CountedPositive
<1>7. PICK v : v = c * x * One
  OBVIOUS
<1>8. v \in Nat \ {0}
  <2>1. c * x \in Nat \ {0}
    BY <1>6
  <2> QED
    BY <1>1, <1>7, <2>1
<1>9. edge_value(f, c, o, index) = v
  <2>1. index < f.length /\ Funded(f, o, f.length - index - 1)
    BY DEF Passes, EdgePasses
  <2>2. edge_value(f, c, o, index) = require_funding(o, c, f, f.length - index - 1)
    BY <1>1, <2>1 DEF edge_value
  <2> QED
    BY <1>5, <1>7, <2>1, <2>2 DEF require_funding, Funded, score_or_penalize, Counted
<1>10. value_fn(f, c, o, index) = scale_by_health(v, o.health)
  BY <1>9 DEF value_fn, IntoRelayer
<1>11. scale_by_health(v, o.health) = v * HealthCounted(o.health)
  BY <1>2, <1>3, <1>8 DEF scale_by_health, HealthCounted
<1> QED
  BY <1>4, <1>5, <1>7, <1>10, <1>11

LEMMA ProductsOrdered ==
    ASSUME NEW x \in Nat \ {0}, NEW y \in Nat \ {0}, NEW a \in Nat \ {0}, NEW b \in Nat \ {0},
           x >= y, a >= b
    PROVE  /\ x * a \in Nat \ {0} /\ y * b \in Nat \ {0} /\ x * a >= y * b
           /\ x > y \/ a > b => x * a > y * b
<1>1. PICK d, e \in Nat : x = y + d /\ a = b + e
  <2>1. x - y \in Nat /\ a - b \in Nat
    OBVIOUS
  <2> QED
    BY <2>1
<1>2. x * a = y * b + y * e + d * b + d * e
  BY <1>1
<1>3. /\ y * b \in Nat \ {0} /\ y * e \in Nat /\ d * b \in Nat /\ d * e \in Nat
      /\ e > 0 => y * e > 0
      /\ d > 0 => d * b > 0
  BY <1>1
<1>4. (x > y => d > 0) /\ (a > b => e > 0)
  BY <1>1
<1> QED
  BY <1>2, <1>3, <1>4

\* Of two relayed edges of the same health, one that counts more makes more of more.
THEOREM RelayedEdgesOrdered ==
    ASSUME NEW c \in Nat \ {0}, NEW d \in Nat \ {0}, d <= c,
           NEW f \in ValueFns, NEW o \in Observations, NEW q \in Observations,
           NEW index \in Nat \ {0}, f.direction = "forward_without_self_loopback",
           Passes(f, o, index), Passes(f, q, index), o.health = q.health,
           Counted(q.intermediate_score, f.penalty) <= Counted(o.intermediate_score, f.penalty)
    PROVE  LET v == value_fn(f, c, o, index)
               w == value_fn(f, d, q, index)
           IN  /\ v \in Nat \ {0} /\ w \in Nat \ {0} /\ w <= v
               /\ \/ d < c
                  \/ Counted(q.intermediate_score, f.penalty)
                        < Counted(o.intermediate_score, f.penalty)
                  => w < v
<1>1. PICK x, y : /\ x = Counted(o.intermediate_score, f.penalty)
                  /\ y = Counted(q.intermediate_score, f.penalty)
  OBVIOUS
<1>2. x \in Nat \ {0} /\ y \in Nat \ {0} /\ y <= x
  BY <1>1, CountedPositive DEF ValueFns, Observations
<1>3. PICK h : h = HealthCounted(o.health)
  OBVIOUS
<1>4. /\ h \in Nat \ {0} /\ One \in Nat \ {0}
      /\ value_fn(f, c, o, index) = c * x * One * h
      /\ value_fn(f, d, q, index) = d * y * One * h
  BY <1>1, <1>3, RelayedEdgeCounts, EdgeValueAssumption
<1>5. PICK s, t : s = c * x /\ t = d * y
  OBVIOUS
<1>6. s \in Nat \ {0} /\ t \in Nat \ {0} /\ t <= s /\ (d < c \/ y < x => t < s)
  BY <1>2, <1>5, ProductsOrdered
<1>7. PICK k, l : k = s * One /\ l = t * One
  OBVIOUS
<1>8. k \in Nat \ {0} /\ l \in Nat \ {0} /\ l <= k /\ (t < s => l < k)
  BY <1>4, <1>6, <1>7, ProductsOrdered
<1>9. k * h \in Nat \ {0} /\ l * h \in Nat \ {0} /\ l * h <= k * h /\ (l < k => l * h < k * h)
  BY <1>4, <1>8, ProductsOrdered
<1> QED
  BY <1>1, <1>4, <1>5, <1>6, <1>7, <1>8, <1>9
================================================================================
