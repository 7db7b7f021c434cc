------------------------------- MODULE EdgeValue -------------------------------
(***************************************************************************)
(* The edge value functions of src/src/graph/function.rs, which score a    *)
(* path edge by edge: a positive value says how attractive the path is, a  *)
(* value that is not positive makes the traversal prune it.                *)
(*                                                                         *)
(* Numbers are exact. The code multiplies an f64 by factors from [0, 1];   *)
(* here a factor is a numerator 0..One over the denominator One, and a     *)
(* value that went through n edges is a numerator over One^(3n): each edge *)
(* multiplies by exactly three factors (score, ack rate, health), One for  *)
(* one that the code does not apply. Rounding, overflow to infinity and    *)
(* underflow to zero of f64 are left out; NaN health counts as unknown.    *)
(***************************************************************************)
EXTENDS Integers

CONSTANTS One,    \* the factor 1.0
          Floor,  \* MEASURED_DEAD_FLOOR
          Word    \* balances are below this, 2^256

None == -1

ASSUME EdgeValueAssumption == /\ One \in Nat \ {0}
                              /\ Floor \in 1 .. One
                              /\ Word \in Nat \ {0, 1}

Factors == 0 .. One

\* What the graph knows of an edge. A quality stream that was not allocated is
\* FALSE and everything it would tell None.
Observations ==
    [immediate : BOOLEAN,                        \* immediate_qos()
     is_connected : {"unknown", "yes", "no"},
     immediate_score : Factors \cup {None},
     ack_rate : Factors \cup {None},
     intermediate : BOOLEAN,                     \* intermediate_qos()
     balance : (0 .. Word - 1) \cup {None},
     intermediate_score : Factors \cup {None},
     score : Factors \cup {None},                \* of both streams together
     health : Int]                               \* None also for NaN

Directions == {"forward", "returning", "forward_without_self_loopback"}

\* A value function, its parameters resolved by the constructor.
ValueFns == [direction : Directions, length : Nat \ {0},
             penalty : Factors, min_ack_rate : Factors,
             ticket_face_value : 0 .. Word - 1]

Least(x, y) == IF x <= y THEN x ELSE y
Greatest(x, y) == IF x >= y THEN x ELSE y

\* Flawed variant: nothing keeps a penalty from being negative.
flawed_clamp(x) == Least(x, One)

clamp(x) == Greatest(0, Least(x, One))

default_ticket_face_value == 1

\* The three constructors: length, clamped penalty and ack rate, and the face
\* value, which stays what it was when the function was built.
Build(direction, length, penalty, min_ack_rate, face) ==
    [direction |-> direction, length |-> length,
     penalty |-> clamp(penalty), min_ack_rate |-> clamp(min_ack_rate),
     ticket_face_value |-> IF face = None THEN default_ticket_face_value ELSE face]

\* Flawed variants: nothing is floored; measured dead is taken for unobserved.
flawed_score_or_penalize(cost, score, penalty) ==
    cost * (IF score = None THEN penalty ELSE score)

flawed_score_collapsed(cost, score, penalty) ==
    cost * Greatest(IF score \in {None, 0} THEN penalty ELSE score, Floor)

score_or_penalize(cost, score, penalty) ==
    cost * Greatest(IF score = None THEN penalty ELSE score, Floor)

\* Flawed variants: a value rejected already is negated again, and health is
\* not cut off at 1.0.
flawed_scale_by_health(value, health) ==
    IF health = None THEN value * One
    ELSE IF health <= 0 THEN -(value * One)
    ELSE value * Least(health, One)

flawed_scale_unclamped(value, health) ==
    IF value <= 0 \/ health = None THEN value * One
    ELSE IF health <= 0 THEN -(value * One)
    ELSE value * health

scale_by_health(value, health) ==
    IF value <= 0 \/ health = None THEN value * One
    ELSE IF health <= 0 THEN -(value * One)
    ELSE value * Least(health, One)

apply_ack_rate(rate, cost, min_ack_rate, penalty) ==
    IF rate = None THEN cost * penalty
    ELSE IF rate < min_ack_rate THEN -(cost * One)
    ELSE cost * rate

\* checked_mul: a product that does not fit a balance is one no balance covers.
balance_suffices(balance, remaining, face) ==
    \/ remaining = 0
    \/ face = 0 /\ balance # None
    \/ /\ face # 0 /\ balance # None
       /\ remaining * face < Word
       /\ balance >= remaining * face

\* Rejects, with the two factors of an edge value not applied.
reject(cost) == -(cost * One * One)

connected(o) == o.immediate /\ o.is_connected # "no"

require_funding(o, cost, fn, remaining) ==
    IF o.intermediate /\ balance_suffices(o.balance, remaining, fn.ticket_face_value)
    THEN score_or_penalize(cost, o.intermediate_score, fn.penalty) * One
    ELSE reject(cost)

\* Flawed variant: scored by the better of the two streams, which masks a dead one.
flawed_first_edge(o, cost, fn) ==
    IF connected(o) /\ o.intermediate
         /\ balance_suffices(o.balance, fn.length - 1, fn.ticket_face_value)
    THEN apply_ack_rate(o.ack_rate,
            score_or_penalize(cost, Greatest(o.immediate_score, o.intermediate_score), fn.penalty),
            fn.min_ack_rate, fn.penalty)
    ELSE reject(cost)

\* The first edge of a path this node sends on.
first_edge(o, cost, fn) ==
    IF connected(o) /\ o.intermediate
         /\ balance_suffices(o.balance, fn.length - 1, fn.ticket_face_value)
    THEN apply_ack_rate(o.ack_rate, score_or_penalize(cost, o.score, fn.penalty),
                        fn.min_ack_rate, fn.penalty)
    ELSE reject(cost)

\* Flawed variant: needs a link, as the last edge of a return path.
flawed_last_edge_forward(o, cost, fn) ==
    IF connected(o) THEN score_or_penalize(cost, o.immediate_score, fn.penalty) * One
                    ELSE reject(cost)

\* The last edge forward, to the destination: never rejected for its own sake,
\* but a direct route answers for its ack rate.
last_edge_forward(o, cost, fn) ==
    LET ByChannel == score_or_penalize(cost, o.intermediate_score, fn.penalty)
        ByLink == score_or_penalize(cost, o.immediate_score, fn.penalty)
        Acked(base) == apply_ack_rate(o.ack_rate, base, fn.min_ack_rate, fn.penalty)
    IN IF o.intermediate /\ o.balance # None
       THEN IF fn.length = 1 /\ o.immediate THEN Acked(ByChannel) ELSE ByChannel * One
       ELSE IF connected(o)
       THEN IF fn.length = 1 THEN Acked(ByLink) ELSE ByLink * One
       ELSE cost * fn.penalty * One

\* The last edge of a return path, to this node.
last_edge_returning(o, cost, fn) ==
    IF connected(o)
    THEN apply_ack_rate(o.ack_rate, score_or_penalize(cost, o.immediate_score, fn.penalty),
                        fn.min_ack_rate, fn.penalty)
    ELSE reject(cost)

edge_value(fn, cost, o, index) ==
    IF index = fn.length - 1 /\ fn.direction = "forward"
    THEN last_edge_forward(o, cost, fn)
    ELSE IF index = fn.length - 1 /\ fn.direction = "returning"
    THEN last_edge_returning(o, cost, fn)
    ELSE IF index = 0 /\ fn.direction # "returning"
    THEN first_edge(o, cost, fn)
    ELSE IF index >= fn.length
    THEN reject(cost)
    ELSE require_funding(o, cost, fn, fn.length - index - 1)

\* Does the edge at this index lead into a relayer, whose health counts?
IntoRelayer(fn, index) ==
    index + 1 < fn.length \/ fn.direction = "forward_without_self_loopback"

value_fn(fn, cost, o, index) ==
    LET value == edge_value(fn, cost, o, index)
    IN IF IntoRelayer(fn, index) THEN scale_by_health(value, o.health) ELSE value * One
================================================================================
