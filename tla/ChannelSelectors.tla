--------------------------- MODULE ChannelSelectors ---------------------------
(***************************************************************************)
(* ChannelSelector of src/src/chain/channels.rs: the builder methods as    *)
(* operators from selector to selector, and satisfies().                   *)
(*                                                                         *)
(* An Option is a set of at most one element. A range of closure times is  *)
(* the set of times it contains, so the default, unbounded on both sides,  *)
(* is Times. A channel is identified by its parties, as                    *)
(* generate_channel_id derives the id from them.                           *)
(***************************************************************************)
EXTENDS Naturals

CONSTANTS Addresses, \* on-chain addresses of nodes
          Times      \* the instants a closure time can be, a set of numbers

ChannelIds == Addresses \X Addresses

ChannelStatuses == {"Open", "PendingToClose", "Closed"}

\* ChannelEntry; the closure time means something only while PendingToClose.
ChannelEntries == [id : ChannelIds, status : ChannelStatuses, closure : Times]

ChannelSelector == [source : SUBSET Addresses, destination : SUBSET Addresses,
                    id : SUBSET ChannelIds,
                    allowed_states : SUBSET ChannelStatuses,
                    closure_time_range : SUBSET Times]

Default == [source |-> {}, destination |-> {}, id |-> {},
            allowed_states |-> {}, closure_time_range |-> Times]

with_source(s, a) == [s EXCEPT !.source = {a}, !.id = {}]

with_destination(s, a) == [s EXCEPT !.destination = {a}, !.id = {}]

with_id(s, i) == [s EXCEPT !.id = {i}, !.source = {}, !.destination = {}]

\* The states add up: a second call widens what the first one allowed.
with_allowed_states(s, states) == [s EXCEPT !.allowed_states = @ \cup states]

with_closure_time_range(s, range) == [s EXCEPT !.closure_time_range = range]

\* Flawed variant: allows what closes within the grace period as well.
flawed_with_redeemable_channels(s, now, grace) ==
    with_closure_time_range(with_allowed_states(s, {"Open", "PendingToClose"}),
                            {t \in Times : t >= now})

\* "Now" is read here, when the selector is built.
with_redeemable_channels(s, now, grace) ==
    with_closure_time_range(with_allowed_states(s, {"Open", "PendingToClose"}),
                            {t \in Times : t >= now + grace})

\* An id, once set, is compared instead of the parties.
PartiesMatch(s, c) == IF s.id # {} THEN c.id \in s.id
                      ELSE /\ s.source \subseteq {c.id[1]}
                           /\ s.destination \subseteq {c.id[2]}

\* No allowed state at all allows every state.
StateMatches(s, c) == s.allowed_states = {} \/ c.status \in s.allowed_states

ClosureMatches(s, c) ==
    c.status = "PendingToClose" /\ "PendingToClose" \in s.allowed_states
        => c.closure \in s.closure_time_range

satisfies(s, c) == PartiesMatch(s, c) /\ StateMatches(s, c) /\ ClosureMatches(s, c)
==============================================================================
