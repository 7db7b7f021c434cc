------------------------------- MODULE PathSearch ------------------------------
(***************************************************************************)
(* A path search with one of the value functions of EdgeValue: built with  *)
(* the face value of tickets then known to the graph, folded over one edge *)
(* after the other, and pruned by its value.                               *)
(*                                                                         *)
(* The traversal is external (NetworkGraphTraverse has no implementation   *)
(* here). It is taken to prune a path of value zero, as function.rs counts *)
(* on; ValueFn::min_value, the least value not pruned, does not ask for    *)
(* it. What the graph knows of the next edge can be anything. The search   *)
(* may go on past the length the function was built with: a caller can     *)
(* understate it.                                                          *)
(***************************************************************************)
EXTENDS EdgeValue

CONSTANTS Edges,      \* the observations an edge can have, a subset of Observations
          MaxLength,  \* bound on the length a value function is built with
          Overrun,    \* and on the edges folded past it
          Parameters, \* penalties and minimal ack rates callers supply
          FaceValues  \* ticket face values, None while the graph has none

ASSUME PathSearchAssumption ==
    /\ Edges \subseteq Observations
    /\ MaxLength \in Nat \ {0} /\ Overrun \in Nat
    /\ Parameters \subseteq Int
    /\ FaceValues \subseteq (0 .. Word - 1) \cup {None}

VARIABLES face,  \* the graph's current ticket face value
          fn,    \* the value function of the search, an Option
          hops,  \* edges folded so far
          value, \* their value, over One^(3 * hops)
          kept,  \* has the path not been pruned?
          clean, \* history: could all of its edges be used?
          silent \* history: was the last one's ack rate known to be zero?

vars == <<face, fn, hops, value, kept, clean, silent>>

\* The channel funds the ticket its owner must issue with so many hops to go.
Funds(o, remaining, price) ==
    o.intermediate /\ (remaining = 0 \/ (o.balance # None /\ o.balance >= remaining * price))

AckedEnough(f, o) == o.ack_rate = None \/ o.ack_rate >= f.min_ack_rate

\* The channel or the link to a destination by which its edge is scored.
Scored(o) == (o.intermediate /\ o.balance # None) \/ connected(o)

\* What the constructors document an edge to need, to be part of a path. The one
\* to a destination needs nothing; if it is the only one and scored, acks.
Usable(f, o, index) ==
    /\ index < f.length
    /\ IntoRelayer(f, index) => o.health = None \/ o.health > 0
    /\ IF index = f.length - 1 /\ f.direction = "forward"
       THEN f.length = 1 /\ o.immediate /\ Scored(o) => AckedEnough(f, o)
       ELSE IF index = f.length - 1 /\ f.direction = "returning"
       THEN connected(o) /\ AckedEnough(f, o)
       ELSE /\ Funds(o, f.length - index - 1, f.ticket_face_value)
            /\ index = 0 /\ f.direction # "returning"
                  => connected(o) /\ AckedEnough(f, o)

--------------------------------------------------------------------------------

Init == /\ face = None /\ fn = {} /\ hops = 0 /\ value = 1
        /\ kept = TRUE /\ clean = TRUE /\ silent = FALSE

set_ticket_face_value(v) == /\ face' = v
                            /\ UNCHANGED <<fn, hops, value, kept, clean, silent>>

Start == /\ fn = {}
         /\ \E d \in Directions, n \in 1 .. MaxLength, p \in Parameters, a \in Parameters :
              fn' = {Build(d, n, p, a, face)}
         /\ UNCHANGED <<face, hops, value, kept, clean, silent>>

\* The next edge is folded in, at the index that is the number of edges before.
Extend(o) == \E f \in fn :
    /\ kept /\ hops < f.length + Overrun
    /\ hops' = hops + 1
    /\ value' = value_fn(f, value, o, hops)
    /\ kept' = (value' > 0)
    /\ clean' = (clean /\ Usable(f, o, hops))
    /\ silent' = (o.ack_rate = 0)
    /\ UNCHANGED <<face, fn>>

Next == \/ \E v \in FaceValues \ {None} : set_ticket_face_value(v)
        \/ Start
        \/ \E o \in Edges : Extend(o)

Spec == Init /\ [][Next]_vars

--------------------------------------------------------------------------------
\* What is to be shown.

TypeOK == /\ face \in (0 .. Word - 1) \cup {None}
          /\ fn \subseteq ValueFns
          /\ hops \in Nat
          /\ value \in Int
          /\ kept \in BOOLEAN /\ clean \in BOOLEAN /\ silent \in BOOLEAN

\* A path that was not pruned has no edge that had to be rejected: no relayer
\* that cannot fund its ticket at the face value the search was started with, is
\* unreachable, dead, or does not acknowledge. Negations never cancel out: "a
\* non-positive fold result must prune the path" (test in function.rs).
KeptPathsAreUsable == kept => clean

\* An edge that can be used is not lost to probing: a path is pruned only for an
\* edge that had to be rejected, unless a factor that is not floored is zero, a
\* penalty or an ack rate.
PrunedForCause == ~kept => ~clean \/ silent \/ \E f \in fn : f.penalty = 0

\* One more edge never makes a path more attractive, so nothing is lost by
\* pruning a prefix on its value.
ValueNeverRises == [][hops' # hops => value' <= value * One * One * One]_vars

\* function.rs floors an unobserved score's penalty because "a configured 0.0 would
\* drive the cost to zero and prune the edge - the same outcome the floor exists to
\* prevent, reachable by configuration alone".
PenaltyPrunesNothing == ~kept => ~clean \/ silent

\* EdgeValueFn::forward: "Edges with an ack rate below this threshold are rejected",
\* and a direct route too: "When length == 1 the single edge is both first and last;
\* the ack rate modifier is applied when immediate QoS data is available".
DirectRoutesAreAcked == [][\A o \in Edges, f \in fn :
    Extend(o) /\ hops = 0 /\ f.length = 1 /\ f.direction = "forward"
              /\ o.immediate /\ ~AckedEnough(f, o) => ~kept']_vars
================================================================================
