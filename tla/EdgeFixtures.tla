------------------------------ MODULE EdgeFixtures -----------------------------
(***************************************************************************)
(* The unit tests of src/src/graph/function.rs, replayed on EdgeValue: the *)
(* stub observations they build, the tables of edges they evaluate with    *)
(* the values their snapshots record (src/src/graph/snapshots), and what   *)
(* they assert of values relative to each other. To be instantiated with   *)
(* One a multiple of 200, so that all of the tests' factors and their      *)
(* averages are exact, with Floor far below it and Word above 20 000.      *)
(***************************************************************************)
EXTENDS EdgeStreams

Percent(n) == (n * One) \div 100

TEST_PENALTY == Percent(50)
TEST_MIN_ACK_RATE == Percent(10)
GOOD_SCORE == Percent(95)
GOOD_ACK == Percent(90)
FUNDED == 1000

--------------------------------------------------------------------------------
\* The fixtures: streams, and the edges made of them.

with_immediate(score, ack_rate) == Immediate("yes", score, ack_rate)
with_intermediate(balance, score) == Intermediate(balance, score)

Probed == with_immediate(GOOD_SCORE, GOOD_ACK)
Relaying == with_intermediate(FUNDED, GOOD_SCORE)

healthy == Observed(Probed, Relaying, None)
immediate_only == Observed(Probed, {}, None)
relayed_only == Observed({}, Relaying, None)
balance_only == Observed({}, with_intermediate(FUNDED, None), None)
unfunded == Observed({}, with_intermediate(None, GOOD_SCORE), None)
unobserved == Observed({}, {}, None)
acking(ack_rate) == Observed(with_immediate(GOOD_SCORE, ack_rate), Relaying, None)
dead_intermediate == Observed(Probed, with_intermediate(FUNDED, 0), None)
funded_with(balance) == Observed(Probed, with_intermediate(balance, GOOD_SCORE), None)
connectivity_unknown ==
    Observed(Immediate("unknown", None, None), with_intermediate(FUNDED, None), None)
connectivity_down ==
    Observed(Immediate("no", None, None), with_intermediate(FUNDED, None), None)

--------------------------------------------------------------------------------
\* The harness.

build(direction, length, face) ==
    Build(direction, length, TEST_PENALTY, TEST_MIN_ACK_RATE, face)

\* The value of one edge, from a unit incoming value.
valued(direction, length, index, o) == value_fn(build(direction, length, None), 1, o, index)

\* Ten-thousandths, as the value of one edge.
Value(n) == n * ((One * One * One) \div 10000)

\* The cases of a table at one position: incoming value, edge, recorded result.
At(direction, length, index, rows) ==
    {[direction |-> direction, path_length |-> length, path_index |-> index,
      initial_value |-> r[1], observations |-> r[2], result_value |-> r[3]] : r \in rows}

AssertEdgeValue(c) ==
    value_fn(build(c.direction, c.path_length, None), c.initial_value,
             c.observations, c.path_index) = c.result_value

--------------------------------------------------------------------------------
\* The tables, with the results of the snapshots.

ForwardCases ==
    At("forward", 3, 0,
         {<<1, healthy, Value(8550)>>, <<2, healthy, Value(17100)>>,
          <<1, dead_intermediate, Value(4275)>>, <<1, relayed_only, Value(-10000)>>,
          <<1, immediate_only, Value(-10000)>>,
          <<1, Observed(Probed, with_intermediate(None, GOOD_SCORE), None), Value(-10000)>>,
          <<1, unobserved, Value(-10000)>>, <<1, acking(Percent(5)), Value(-9500)>>,
          <<1, acking(None), Value(4750)>>, <<1, acking(0), Value(-9500)>>,
          <<-1, unobserved, Value(10000)>>})
    \cup At("forward", 3, 1,
         {<<1, healthy, Value(9500)>>, <<2, healthy, Value(19000)>>,
          <<1, immediate_only, Value(-10000)>>, <<1, unfunded, Value(-10000)>>,
          <<1, balance_only, Value(5000)>>, <<1, unobserved, Value(-10000)>>})
    \cup At("forward", 3, 2,
         {<<1, healthy, Value(9500)>>, <<2, healthy, Value(19000)>>,
          <<1, balance_only, Value(5000)>>, <<1, relayed_only, Value(9500)>>,
          <<1, immediate_only, Value(9500)>>, <<1, unfunded, Value(5000)>>,
          <<1, unobserved, Value(5000)>>})
    \cup At("forward", 1, 0,
         {<<1, healthy, Value(8550)>>, <<1, acking(Percent(5)), Value(-9500)>>})
    \cup At("forward", 2, 1, {<<1, healthy, Value(9500)>>, <<1, unobserved, Value(5000)>>})

ReturningCases ==
    At("returning", 2, 0,
         {<<1, relayed_only, Value(9500)>>, <<1, healthy, Value(9500)>>,
          <<2, relayed_only, Value(19000)>>, <<1, balance_only, Value(5000)>>,
          <<1, immediate_only, Value(-10000)>>, <<1, unobserved, Value(-10000)>>})
    \cup At("returning", 2, 1,
         {<<1, healthy, Value(8550)>>, <<1, relayed_only, Value(-10000)>>,
          <<1, Observed(Probed, with_intermediate(None, 0), None), Value(8550)>>,
          <<1, Observed(with_immediate(0, GOOD_ACK), {}, None), Floor * GOOD_ACK * One>>,
          <<1, acking(Percent(5)), Value(-9500)>>})
    \cup At("returning", 3, 1, {<<1, balance_only, Value(5000)>>})

LoopbackCases ==
    At("forward_without_self_loopback", 3, 0,
         {<<1, acking(Percent(5)), Value(-9500)>>, <<1, healthy, Value(8550)>>})

\* Two edges folded: direction, edges, and the value after each of them.
PathCosts ==
    {<<"forward", healthy, Value(8550), balance_only, Value(4275)>>,
     <<"forward", relayed_only, Value(-10000), healthy, Value(-9500)>>,
     <<"returning", relayed_only, Value(9500), healthy, Value(8122) + (Value(1) \div 2)>>,
     <<"returning", balance_only, Value(5000), healthy, Value(4275)>>}

\* The first value, a multiple of One^2, is passed on divided by it, which keeps the
\* second one small.
AssertPathCost(p) ==
    LET fn == build(p[1], 2, None)
        after_first_edge == value_fn(fn, 1, p[2], 0)
    IN /\ after_first_edge = p[3]
       /\ value_fn(fn, after_first_edge \div (One * One), p[4], 1) = One * p[5]

--------------------------------------------------------------------------------
\* Tests that compare values.

EndpointsDiffer == /\ valued("forward", 2, 1, relayed_only) > 0
                   /\ valued("returning", 2, 1, relayed_only) < 0

Judged(o, health) == [o EXCEPT !.health = health]

\* Relayer health scales or rejects an edge on the way, and leaves the last one alone.
HealthCounts ==
    /\ \A d \in Directions :
          LET edge(h) == valued(d, 3, 1, Judged(healthy, h))
          IN edge(None) > 0 /\ edge(0) < 0 /\ edge(Percent(25)) * 4 = edge(None)
    /\ \A d \in {"forward", "returning"} :
          valued(d, 3, 2, healthy) = valued(d, 3, 2, Judged(healthy, 0))
    /\ valued("forward", 3, 1, healthy) = valued("forward", 3, 1, Judged(healthy, One))

RejectedStaysRejected ==
    \A d \in Directions, h \in {None, 0, Percent(50), One, -12323, 12323} :
        valued(d, 3, 1, Judged(unfunded, h)) < 0

\* Value, health and what comes out, over One; infinities are the largest numbers.
ScaleCases ==
    {<<-12323, 0, -12323 * One>>, <<-12323, -12323, -12323 * One>>,
     <<-12323, One, -12323 * One>>, <<0, 0, 0>>, <<10, 0, -10 * One>>,
     <<10, -12323, -10 * One>>, <<10, Percent(25), 10 * Percent(25)>>,
     <<10, One, 10 * One>>, <<10, 12323, 10 * One>>, <<10, None, 10 * One>>}

MiddlesAgree == valued("forward", 3, 1, healthy) = valued("returning", 3, 1, healthy)

\* A first edge is scored by the average of both streams, so that a dead one counts.
DeadStreamCounts ==
    LET with(i) == valued("forward", 3, 0, Observed(with_immediate(GOOD_SCORE, One), i, None))
        masked == with(with_intermediate(FUNDED, 0))
    IN masked < with(Relaying) /\ masked = Value(4750)

EmptyStreamIgnored == valued("forward", 2, 0, funded_with(FUNDED))
    = valued("forward", 2, 0, Observed(Probed, with_intermediate(FUNDED, None), None))

MoreAcksRankHigher == valued("forward", 3, 0, acking(GOOD_ACK))
                        > valued("forward", 3, 0, acking(Percent(30)))

MiddlesAreObserved == valued("forward", 3, 1, unobserved) # valued("forward", 3, 1, healthy)

\* Measured dead is not unobserved: last of all, and yet not pruned.
DeadIsStarved ==
    LET relayed(score) ==
            valued("forward", 3, 1, Observed({}, with_intermediate(FUNDED, score), None))
    IN 0 < relayed(0) /\ relayed(0) < relayed(Percent(3)) /\ relayed(Percent(3)) < relayed(None)

\* An edge never checked can be selected, and so be probed; one that is down cannot.
UncheckedIsPenalized == \A d \in {"forward", "forward_without_self_loopback"} :
    valued(d, 3, 0, connectivity_unknown) > 0 /\ valued(d, 3, 0, connectivity_down) < 0

\* Balance, hops to go, face value, and whether that is enough.
FundingCases ==
    {<<None, 0, 1, TRUE>>, <<0, 0, 1, TRUE>>, <<0, 0, 0, TRUE>>, <<None, 1, 1, FALSE>>,
     <<0, 1, 1, FALSE>>, <<2, 2, 1, TRUE>>, <<1, 2, 1, FALSE>>, <<1, 1, 1, TRUE>>,
     <<0, 3, 0, TRUE>>, <<None, 3, 0, FALSE>>, <<1, 1, 1000, FALSE>>}

FundingScales == \A hops \in 1 .. 3, face \in {1, 1000} :
    balance_suffices(hops * face, hops, face) /\ ~balance_suffices(hops * face - 1, hops, face)

UnderfundedIsRejected == \A index \in {0, 1} :
    /\ valued("forward", 3, index, funded_with(1 - index)) < 0
    /\ valued("forward", 3, index, funded_with(FUNDED)) > 0

DrainedLastIsScored ==
    valued("forward", 3, 2, Observed({}, with_intermediate(0, GOOD_SCORE), None)) > Value(5000)

FaceOutgrowsBalance ==
    LET at(face) == value_fn(build("forward", 3, face), 1, funded_with(1000), 0)
    IN at(None) > 0 /\ at(10000) < 0

PastLengthIsRejected == \A d \in Directions, index \in {2, 5}, face \in {None, 0} :
    value_fn(build(d, 2, face), 1, funded_with(0), index) < 0

--------------------------------------------------------------------------------
\* EdgeValue gives what the unit tests found the code to give: each value they recorded,
\* to the last digit, and the comparisons translated above.
TestsPass ==
    /\ \A c \in ForwardCases \cup ReturningCases \cup LoopbackCases : AssertEdgeValue(c)
    /\ \A p \in PathCosts : AssertPathCost(p)
    /\ \A c \in ScaleCases : scale_by_health(c[1], c[2]) = c[3]
    /\ \A c \in FundingCases : balance_suffices(c[1], c[2], c[3]) = c[4]
    /\ EndpointsDiffer /\ HealthCounts /\ RejectedStaysRejected /\ MiddlesAgree
    /\ DeadStreamCounts /\ EmptyStreamIgnored /\ MoreAcksRankHigher /\ MiddlesAreObserved
    /\ DeadIsStarved /\ UncheckedIsPenalized
    /\ FundingScales /\ UnderfundedIsRejected /\ DrainedLastIsScored
    /\ FaceOutgrowsBalance /\ PastLengthIsRejected
================================================================================
