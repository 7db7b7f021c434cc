----------------------------- MODULE NetworkGraph ------------------------------
(***************************************************************************)
(* The feedback between a node's network graph and its path selection: the *)
(* graph records what probes, session traffic, the chain and the transport *)
(* tell of its edges (src/src/graph/traits.rs and types.rs), the functions *)
(* of EdgeValue value paths by what is recorded, and only paths that are   *)
(* not pruned are used and probed, which is what lets the graph record     *)
(* anything new.                                                           *)
(*                                                                         *)
(* The graph, the prober and the network are external. A score and an ack  *)
(* rate are those of the last report, averages over a window of one. The   *)
(* network changes while a probe is on its way, and when its outcome is    *)
(* recorded it can be out of date.                                         *)
(***************************************************************************)
EXTENDS EdgeStreams, Sequences

CONSTANTS Me,      \* this node
          Paths,   \* loops to probe, as nodes from Me on, without the way back
          Judgements, \* lists of nodes and how usable the graph's owner finds them
          Balances, \* of channels, None for a closed one
          Penalty, MinAckRate \* of the value functions

Nodes == UNION {{p[i] : i \in DOMAIN p} : p \in Paths}
EdgesOf(p) == {<<p[i], p[i + 1]>> : i \in 1 .. Len(p) - 1}
Edges == UNION {EdgesOf(p) : p \in Paths}
Peers == {e[2] : e \in {f \in Edges : f[1] = Me}}

ASSUME GraphAssumption ==
    /\ Paths \subseteq Seq(Nodes) /\ Judgements \subseteq Seq(Nodes \X Factors)
    /\ \A p \in Paths : /\ Len(p) > 1 /\ p[1] = Me
                       /\ \A i, j \in DOMAIN p : p[i] = p[j] => i = j
    /\ Penalty \in Factors /\ MinAckRate \in Factors
    /\ Balances \subseteq (0 .. Word - 1) \cup {None}

VARIABLES up,           \* edges that forward packets
          funds,        \* balances of the edges' channels on chain
          immediate,    \* immediate_qos() of each edge
          intermediate, \* intermediate_qos() of each edge
          health,       \* of each node
          probes        \* outcomes of probes that are still to be recorded

worldVars == <<up, funds>>
graphVars == <<immediate, intermediate, health>>
vars == <<worldVars, graphVars, probes>>

\* The telemetry of edges: an outcome of a probe with or without a timeout, session
\* replies that came or not, a channel's balance, and a peer's connection.
MeasurableEdge ==
    [kind : {"Neighbor", "ProbeNeighborTimeout"}, peer : Peers]
    \cup [kind : {"Loopback", "ProbeLoopbackTimeout"}, path : Paths]
    \cup [kind : {"Surb"}, forward : Paths, expected : {0, 1}, observed : {0, 1}]
    \cup [kind : {"Balance"}, edge : Edges, balance : Balances]
    \cup [kind : {"ConnectionStatus"}, peer : Peers, connected : BOOLEAN]

Init == /\ up \in SUBSET Edges
        /\ funds \in [Edges -> Balances]
        /\ immediate = [e \in Edges |-> {}] /\ intermediate = [e \in Edges |-> {}]
        /\ health = [n \in Nodes |-> None]
        /\ probes = {}

--------------------------------------------------------------------------------
\* Recording. A stream is allocated by the first update of it, whatever that is.

With(stream, fresh, f, v) == {[s EXCEPT ![f] = v] : s \in IF stream = {} THEN fresh ELSE stream}

RecordImmediate(e, f, v) ==
    /\ immediate' = [immediate EXCEPT ![e] = With(@, Immediate("unknown", None, None), f, v)]
    /\ UNCHANGED <<intermediate, health>>

RecordIntermediate(es, f, v) ==
    /\ intermediate' = [e \in Edges |-> IF e \notin es THEN intermediate[e] ELSE
                          With(intermediate[e], Intermediate(None, None), f, v)]
    /\ UNCHANGED <<immediate, health>>

\* Edges from this node are left to its own probes: a loop tells of the others.
Relayed(p) == {e \in EdgesOf(p) : e[1] # Me}

Score(success) == IF success THEN One ELSE 0

record_edge(u) ==
    \/ /\ u.kind \in {"Neighbor", "ProbeNeighborTimeout"}
       /\ RecordImmediate(<<Me, u.peer>>, "score", Score(u.kind = "Neighbor"))
    \/ /\ u.kind \in {"Loopback", "ProbeLoopbackTimeout"}
       /\ RecordIntermediate(Relayed(u.path), "score", Score(u.kind = "Loopback"))
    \/ /\ u.kind = "Surb" /\ u.expected > 0
       /\ RecordIntermediate(Relayed(u.forward), "score", Score(u.observed = u.expected))
    \/ /\ u.kind = "Surb" /\ u.expected = 0 /\ UNCHANGED graphVars
    \/ /\ u.kind = "Balance"
       /\ RecordIntermediate({u.edge}, "balance", u.balance)
    \/ /\ u.kind = "ConnectionStatus"
       /\ RecordImmediate(<<Me, u.peer>>, "is_connected", IF u.connected THEN "yes" ELSE "no")

\* Acks a peer sent for packets, recorded without telemetry.
record_conformance(n, acked) == RecordImmediate(<<Me, n>>, "ack_rate", Score(acked))

\* What an implementation does; the trait's default ignores it.
record_node_health(h, n, v) == [h EXCEPT ![n] = v]

\* Flawed variant: adds up what is listed.
flawed_record_nodes_health(healths) ==
    LET after[i \in 0 .. Len(healths)] ==
            IF i = 0 THEN health
            ELSE [after[i - 1] EXCEPT ![healths[i][1]] = @ + healths[i][2]]
    IN health' = after[Len(healths)] /\ UNCHANGED <<immediate, intermediate>>

\* One after the other, as listed.
record_nodes_health(healths) ==
    LET after[i \in 0 .. Len(healths)] ==
            IF i = 0 THEN health
            ELSE record_node_health(after[i - 1], healths[i][1], healths[i][2])
    IN health' = after[Len(healths)] /\ UNCHANGED <<immediate, intermediate>>

--------------------------------------------------------------------------------
\* Selection.

edge(e) == Observed(immediate[e], intermediate[e], health[e[2]])

\* The edges of p, and as if none of the packets they relayed had been observed.
Seen(p) == [e \in EdgesOf(p) |-> edge(e)]
Unproven(p) == [e \in EdgesOf(p) |-> [edge(e) EXCEPT !.intermediate_score = None]]

\* The value of p with what is seen of its edges, up to where it is pruned.
PathValue(fn, p, seen) ==
    LET value[i \in 0 .. Len(p) - 1] ==
            IF i = 0 THEN 1
            ELSE IF value[i - 1] <= 0 THEN value[i - 1]
            ELSE value_fn(fn, value[i - 1], seen[<<p[i], p[i + 1]>>], i - 1)
    IN value[Len(p) - 1]

\* A loop's last edge, back to this node, is appended by the prober.
Loop(p) == Build("forward_without_self_loopback", Len(p), Penalty, MinAckRate, None)
Route(p) == Build("forward", Len(p) - 1, Penalty, MinAckRate, None)

simple_loopback_to_self == {p \in Paths : PathValue(Loop(p), p, Seen(p)) > 0}
simple_paths == {p \in Paths : PathValue(Route(p), p, Seen(p)) > 0}

--------------------------------------------------------------------------------
\* The network, and those who tell of it.

LinkChanges(e) == /\ up' = IF e \in up THEN up \ {e} ELSE up \cup {e}
                  /\ UNCHANGED <<funds, graphVars, probes>>

FundsChange(e) == /\ \E b \in Balances : funds' = [funds EXCEPT ![e] = b]
                  /\ UNCHANGED <<up, graphVars, probes>>

Report(u) == record_edge(u) /\ UNCHANGED <<worldVars, probes>>

ProbeNeighbor(n) == Report([kind |-> IF <<Me, n>> \in up THEN "Neighbor"
                                     ELSE "ProbeNeighborTimeout", peer |-> n])

ReportConnection(n) ==
    Report([kind |-> "ConnectionStatus", peer |-> n, connected |-> <<Me, n>> \in up])

ReportBalance(e) == Report([kind |-> "Balance", edge |-> e, balance |-> funds[e]])

ReportAcks(n) == /\ record_conformance(n, <<Me, n>> \in up)
                 /\ UNCHANGED <<worldVars, probes>>

Judge(healths) == record_nodes_health(healths) /\ UNCHANGED <<worldVars, probes>>

\* A session's traffic over a route that was selected for it.
ReportSurbs(p) == /\ p \in simple_paths
                  /\ \E n \in {0, 1} :
                       Report([kind |-> "Surb", forward |-> p, expected |-> n,
                               observed |-> IF EdgesOf(p) \subseteq up THEN n ELSE 0])

\* One probe at a time goes around a loop.
ProbeLoop(p) ==
    /\ \A u \in probes : u.path # p
    /\ probes' = probes \cup {[path |-> p, kind |-> IF EdgesOf(p) \subseteq up THEN "Loopback"
                                                    ELSE "ProbeLoopbackTimeout"]}
    /\ p \in simple_loopback_to_self
    /\ UNCHANGED <<worldVars, graphVars>>

RecordProbe(p) == \E u \in probes : /\ u.path = p
                                    /\ record_edge(u)
                                    /\ probes' = probes \ {u}
                                    /\ UNCHANGED worldVars

Next == \/ \E e \in Edges : LinkChanges(e) \/ FundsChange(e) \/ ReportBalance(e)
        \/ \E n \in Peers : ProbeNeighbor(n) \/ ReportConnection(n) \/ ReportAcks(n)
        \/ \E healths \in Judgements : Judge(healths)
        \/ \E p \in Paths : ReportSurbs(p) \/ ProbeLoop(p) \/ RecordProbe(p)

Spec == Init /\ [][Next]_vars

\* Everything is reported again and again. A loop is probed if it is a candidate again
\* and again; nothing makes a session use a route.
Fairness == /\ \A e \in Edges : WF_vars(ReportBalance(e))
            /\ \A n \in Peers : /\ WF_vars(ProbeNeighbor(n))
                                /\ WF_vars(ReportConnection(n))
                                /\ WF_vars(ReportAcks(n))
            /\ \A p \in Paths : SF_vars(ProbeLoop(p)) /\ WF_vars(RecordProbe(p))

FairSpec == Spec /\ Fairness

--------------------------------------------------------------------------------
\* What is to be shown.

TypeOK ==
    /\ up \subseteq Edges /\ funds \in [Edges -> Balances]
    /\ \A e \in Edges : edge(e) \in Observations
    /\ health \in [Nodes -> Factors \cup {None}]
    /\ probes \subseteq MeasurableEdge

\* "Probe generation shares these value functions, so a pruned edge stops being probed and
\* can never recover" (MEASURED_DEAD_FLOOR): what the graph changes by the outcome of a
\* probe, or of replies in a session, takes no loop and no route from those selected.
OutcomesPruneNothing ==
    [][/\ graphVars' # graphVars
       /\ \/ \E n \in Peers : ProbeNeighbor(n)
          \/ \E p \in Paths : ReportSurbs(p) \/ RecordProbe(p)
       => /\ simple_loopback_to_self \subseteq simple_loopback_to_self'
          /\ simple_paths \subseteq simple_paths']_vars

Outcomes(p) == {edge(e).intermediate_score : e \in Relayed(p)}

\* Outcomes order the loops that are left: one that something is known of, and nothing
\* but successes, is valued above what it would be untried, and one of nothing but
\* failures below it.
OutcomesRank == \A p \in simple_loopback_to_self :
    /\ One \in Outcomes(p) /\ Outcomes(p) \subseteq {None, One} =>
           PathValue(Loop(p), p, Seen(p)) > PathValue(Loop(p), p, Unproven(p))
    /\ 0 \in Outcomes(p) /\ Outcomes(p) \subseteq {None, 0} =>
           PathValue(Loop(p), p, Seen(p)) < PathValue(Loop(p), p, Unproven(p))

\* Probes go where sessions can: a loop that the function for loops selects is a route
\* that the one for routes does, each with conditions of its own for every edge.
ProbedLoopsAreRoutes == simple_loopback_to_self \subseteq simple_paths

\* The path works: its edges forward packets, its channels fund what is left of the
\* loop, and none of its relayers is judged unusable.
Sound(p) == /\ EdgesOf(p) \subseteq up
            /\ \A i \in 1 .. Len(p) - 1 : /\ funds[<<p[i], p[i + 1]>>] >= Len(p) - i
                                          /\ health[p[i + 1]] # 0

\* Whatever was recorded of a path before, once it works for good it is valued above
\* one that nothing is known of: being measured dead, unreachable or without funds
\* never ends the probing that is needed to find out that it no longer is. (Of a single
\* relayer, a loop tells nothing.)
SoundPathsRecover == \A p \in {q \in Paths : Relayed(q) # {}} :
    <>[]Sound(p) => <>[](PathValue(Loop(p), p, Seen(p)) > PathValue(Loop(p), p, Unproven(p)))

\* A path broken for good is eventually always pruned, or valued below one that nothing
\* is known of: successes recorded late do not keep it up.
BrokenPathsStarve == \A p \in Paths :
    <>[](~(EdgesOf(p) \subseteq up)) =>
        <>[](\/ p \notin simple_loopback_to_self
             \/ PathValue(Loop(p), p, Seen(p)) < PathValue(Loop(p), p, Unproven(p)))
================================================================================
