---------------------------- MODULE ChannelLedger ----------------------------
(***************************************************************************)
(* Payment channels as the node's channel operations see them: the status  *)
(* of a channel, the operations a node can submit, the chain event each    *)
(* one causes, and the predicates with which IncentiveChannelOperations    *)
(* (src/src/node/incentive.rs) recognises "its" event on the event bus.    *)
(*                                                                         *)
(* The contract itself is not part of the repository: what it accepts and  *)
(* which event it emits is taken from the way incentive.rs uses it.        *)
(* Amounts occur only where a predicate compares them.                     *)
(***************************************************************************)
EXTENDS Naturals

CONSTANTS Channels, \* identifiers of the channels operated on
          Amounts,  \* stakes a channel is opened or funded with
          Calls     \* identifiers of calls of the three operations

Statuses == {"NoChannel", "Open", "PendingToClose", "Closed"}

\* An operation as submitted: close carries no amount.
Operations == [kind : {"open", "fund"}, channel : Channels, amount : Amounts]
                \cup [kind : {"close"}, channel : Channels]

EventTypes == {"ChannelOpened", "ChannelBalanceIncreased",
               "ChannelClosureInitiated", "ChannelClosed"}

\* Status the channel entry inside an event shows.
StatusIn(type) == IF type = "ChannelClosureInitiated" THEN "PendingToClose"
                  ELSE IF type = "ChannelClosed" THEN "Closed" ELSE "Open"

\* Does the contract execute o on a channel in status s, or does it revert?
Accepts(o, s) == \/ o.kind = "open"  /\ s \in {"NoChannel", "Closed"}
                 \/ o.kind = "fund"  /\ s = "Open"
                 \/ o.kind = "close" /\ s \in {"Open", "PendingToClose"}

\* Type of the event o causes on a channel in status s that accepts it. Closing
\* an open channel starts the notice period, closing a pending one ends it.
EventType(o, s) ==
    IF o.kind = "open" THEN "ChannelOpened"
    ELSE IF o.kind = "fund" THEN "ChannelBalanceIncreased"
    ELSE IF s = "Open" THEN "ChannelClosureInitiated" ELSE "ChannelClosed"

\* The event, with the call whose transaction emitted it. The code never sees
\* that last field: chain events carry no transaction hash it compares.
EventOf(c, o, s) ==
    [type |-> EventType(o, s), channel |-> o.channel, by |-> {c},
     amount |-> IF o.kind = "fund" THEN {o.amount} ELSE {}]

\* The counterparty, who can close a channel on its own, emitted this one.
ForeignClosed(ch) ==
    [type |-> "ChannelClosed", channel |-> ch, by |-> {}, amount |-> {}]

Events == [type : EventTypes, channel : Channels,
           by : SUBSET Calls, amount : SUBSET Amounts]

\* Flawed variant: close waits for the start of the closure only.
FlawedMatches(o, e) ==
    /\ e.channel = o.channel
    /\ \/ o.kind = "open"  /\ e.type = "ChannelOpened"
       \/ o.kind = "fund"  /\ e.type = "ChannelBalanceIncreased"
                           /\ e.amount = {o.amount}
       \/ o.kind = "close" /\ e.type = "ChannelClosureInitiated"

\* The three predicates handed to wait_for_on_chain_event.
Matches(o, e) ==
    /\ e.channel = o.channel
    /\ \/ o.kind = "open"  /\ e.type = "ChannelOpened"
       \/ o.kind = "fund"  /\ e.type = "ChannelBalanceIncreased"
                           /\ e.amount = {o.amount}
       \/ o.kind = "close" /\ e.type \in {"ChannelClosureInitiated", "ChannelClosed"}
==============================================================================
