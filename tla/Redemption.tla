------------------------------ MODULE Redemption ------------------------------
(***************************************************************************)
(* Ticket redemption: redeem_in_channels (src/src/tickets/mod.rs), called  *)
(* by redeem_all_tickets and redeem_tickets_with_counterparty              *)
(* (src/src/node/incentive.rs), which collect the results with try_collect.*)
(*                                                                         *)
(* A call builds a selector, awaits the stream of channels it queries the  *)
(* chain for, and opens a redemption stream in each that satisfies it when *)
(* it is looked at. It polls the streams concurrently until all have       *)
(* ended, or one yields an error: then the call returns it, and drops the  *)
(* other streams and the results collected so far.                         *)
(*                                                                         *)
(* External, modelled from the contracts of TicketManagement and           *)
(* ChainWriteTicketOperations: a queue of winning tickets per channel, of  *)
(* which a stream redeems the first or neglects it as too low; one         *)
(* redemption at a time per channel; other clients that insert and neglect *)
(* tickets; the chain, on which channels open and close and redemptions    *)
(* land, and whose stream of channels goes through all there are, each     *)
(* as it is when its turn comes.                                           *)
(***************************************************************************)
EXTENDS ChannelSelectors, Sequences

CONSTANTS Me,        \* the node's address
          Ids,       \* the channels that exist
          Requests,  \* selectors the calls are given, as Options; {} is None
          Redeemers, \* the calls
          Grace,     \* PENDING_TO_CLOSE_REDEMPTION_TOLERANCE
          Notice,    \* channel closure notice period
          Values,    \* ticket values
          MaxIndex   \* bound on the tickets that come in on a channel

ASSUME RedemptionAssumption ==
    /\ Me \in Addresses /\ Ids \subseteq ChannelIds
    /\ \A q \in Requests : q = {} \/ \E s \in q : s \in ChannelSelector /\ q = {s}
    /\ Times \subseteq Nat /\ 0 \in Times /\ Values \subseteq Nat
    /\ Grace \in Nat /\ Notice \in Nat /\ MaxIndex \in Nat

VARIABLES
    now,      \* the clock
    channels, \* entry of each channel, as the chain has it
    issued,   \* index of the last ticket that came in on each channel
    queue,    \* its winning tickets that were not extracted yet, in order
    attempt,  \* the redemption under way in each channel, an Option
    orphans,  \* redemptions sent that no stream waits for any more
    paid,     \* tickets redeemed on the chain
    pc,       \* "idle", "running", or the outcome of each call
    minimum,  \* its min_value
    selector, \* what its query asks for, an Option: None once that has ended
    unread,   \* channels its query has still to look at
    streams,  \* channels whose stream is open
    found,    \* tickets its streams found in the queues when they were opened
    results   \* what it has collected

callVars == <<pc, minimum, selector, unread, streams, found, results>>
chainVars == <<channels, orphans, paid>>
vars == <<now, channels, issued, queue, attempt, orphans, paid,
          pc, minimum, selector, unread, streams, found, results>>

Tickets == [channel : Ids, index : 1 .. MaxIndex, value : Values]

\* RedemptionResult: a ticket and what became of it.
Results == [ticket : Tickets, kind : {"Redeemed", "ValueTooLow", "RejectedOnChain"}]

Attempts == [by : Redeemers, ticket : Tickets,
             state : {"sent", "Redeemed", "RejectedOnChain"}]

InQueue(ch) == {queue[ch][i] : i \in DOMAIN queue[ch]}

Entry(ch, status, t) == [id |-> ch, status |-> status, closure |-> t]

Init == /\ now = 0
        /\ channels = [ch \in Ids |-> Entry(ch, "Open", 0)]
        /\ issued = [ch \in Ids |-> 0]
        /\ queue = [ch \in Ids |-> <<>>]
        /\ attempt = [ch \in Ids |-> {}]
        /\ orphans = {} /\ paid = {}
        /\ pc = [r \in Redeemers |-> "idle"]
        /\ minimum = [r \in Redeemers |-> 0]
        /\ selector = [r \in Redeemers |-> {}]
        /\ unread = [r \in Redeemers |-> {}]
        /\ streams = [r \in Redeemers |-> {}]
        /\ found = [r \in Redeemers |-> {}]
        /\ results = [r \in Redeemers |-> {}]

--------------------------------------------------------------------------------
\* The calls.

\* The selector the chain is queried with, from the one the call was given.
QuerySelector(q) ==
    with_redeemable_channels(
        with_destination(IF q = {} THEN Default ELSE CHOOSE s \in q : TRUE, Me),
        now, Grace)

\* The call with selector q and minimum m: what q was does not matter any more. The
\* clock is read here, once, and the stream of channels opened.
RedeemWith(r, q, m) ==
    /\ pc[r] = "idle"
    /\ pc' = [pc EXCEPT ![r] = "running"]
    /\ minimum' = [minimum EXCEPT ![r] = m]
    /\ selector' = [selector EXCEPT ![r] = {QuerySelector(q)}]
    /\ unread' = [unread EXCEPT ![r] = Ids]
    /\ UNCHANGED <<now, chainVars, issued, queue, attempt, streams, found, results>>

Redeem(r) == \E q \in Requests, m \in Values : RedeemWith(r, q, m)

QueryFails(r) == /\ pc[r] = "idle"
                 /\ pc' = [pc EXCEPT ![r] = "left"]
                 /\ UNCHANGED <<now, chainVars, issued, queue, attempt, minimum,
                                selector, unread, streams, found, results>>

\* The stream of channels comes to ch, any of those that are left.
Read(r, ch) ==
    /\ pc[r] = "running" /\ ch \in unread[r]
    /\ unread' = [unread EXCEPT ![r] = @ \ {ch}]
    /\ selector' = [selector EXCEPT ![r] = IF unread[r] = {ch} THEN {} ELSE @]
    /\ UNCHANGED <<now, chainVars, issued, queue, attempt, pc, minimum, results>>

\* What the selector says of the channel as it is by now.
Selected(r, ch) == \E s \in selector[r] : satisfies(s, channels[ch])

PassOver(r, ch) == /\ Read(r, ch) /\ ~Selected(r, ch)
                   /\ UNCHANGED <<streams, found>>

OpenStream(r, ch) == /\ Read(r, ch) /\ Selected(r, ch)
                     /\ streams' = [streams EXCEPT ![r] = @ \cup {ch}]
                     /\ found' = [found EXCEPT ![r] = @ \cup InQueue(ch)]

\* Flawed variant: the first stream that cannot be opened ends the query.
FlawedSkipStream(r, ch) ==
    /\ pc[r] = "running" /\ ch \in unread[r] /\ Selected(r, ch)
    /\ unread' = [unread EXCEPT ![r] = {}]
    /\ selector' = [selector EXCEPT ![r] = {}]
    /\ UNCHANGED <<now, chainVars, issued, queue, attempt,
                   pc, minimum, streams, found, results>>

\* A stream that cannot be opened is logged and skipped.
SkipStream(r, ch) == /\ Read(r, ch) /\ Selected(r, ch)
                     /\ UNCHANGED <<streams, found>>

\* The group is polled once every stream was inserted.
Polled(r, ch) == pc[r] = "running" /\ unread[r] = {} /\ ch \in streams[r]

\* The stream of ch extracts the first ticket and yields the result to r.
Yield(r, ch, kind) ==
    /\ queue' = [queue EXCEPT ![ch] = Tail(@)]
    /\ results' = [results EXCEPT ![r] =
                      @ \cup {[ticket |-> Head(queue[ch]), kind |-> kind]}]
    /\ UNCHANGED <<now, chainVars, issued, pc, minimum, selector, unread, streams, found>>

TooLow(r, ch) == /\ Polled(r, ch)
                 /\ queue[ch] # <<>> /\ attempt[ch] = {}
                 /\ Head(queue[ch]).value < minimum[r]
                 /\ Yield(r, ch, "ValueTooLow")
                 /\ UNCHANGED attempt

Send(r, ch) ==
    /\ Polled(r, ch)
    /\ queue[ch] # <<>> /\ attempt[ch] = {}
    /\ Head(queue[ch]).value >= minimum[r]
    /\ attempt' = [attempt EXCEPT ![ch] =
            {[by |-> r, ticket |-> Head(queue[ch]), state |-> "sent"]}]
    /\ UNCHANGED <<now, chainVars, issued, queue, callVars>>

Answer(r, ch) == \E a \in attempt[ch] :
    /\ Polled(r, ch)
    /\ a.by = r /\ a.state # "sent"
    /\ Yield(r, ch, a.state)
    /\ attempt' = [attempt EXCEPT ![ch] = {}]

\* What becomes of redemptions that nobody waits for any more.
Abandoned(attempts) == {a.ticket : a \in {b \in attempts : b.state = "sent"}}

\* Flawed variants: the stream with the error is taken for one that has ended, goes
\* on and tries again, or its error is collected with the results.
FlawedStreamFailsSkipped(r, ch) ==
    /\ Polled(r, ch)
    /\ queue[ch] # <<>>
    /\ attempt[ch] = {} \/ \E a \in attempt[ch] : a.by = r
    /\ streams' = [streams EXCEPT ![r] = @ \ {ch}]
    /\ attempt' = [attempt EXCEPT ![ch] = {}]
    /\ orphans' = orphans \cup Abandoned(attempt[ch])
    /\ UNCHANGED <<now, channels, paid, issued, queue, pc,
                   minimum, selector, unread, found, results>>

FlawedStreamFailsRetries(r, ch) ==
    /\ Polled(r, ch)
    /\ \E a \in attempt[ch] : a.by = r
    /\ attempt' = [attempt EXCEPT ![ch] = {}]
    /\ orphans' = orphans \cup Abandoned(attempt[ch])
    /\ UNCHANGED <<now, channels, paid, issued, queue, callVars>>

FlawedStreamFailsCollected(r, ch) ==
    /\ Polled(r, ch)
    /\ queue[ch] # <<>>
    /\ \E a \in attempt[ch] : a.by = r
    /\ results' = [results EXCEPT ![r] =
                      @ \cup {[ticket |-> Head(queue[ch]), kind |-> "ProcessingError"]}]
    /\ streams' = [streams EXCEPT ![r] = @ \ {ch}]
    /\ attempt' = [attempt EXCEPT ![ch] = {}]
    /\ orphans' = orphans \cup Abandoned(attempt[ch])
    /\ UNCHANGED <<now, channels, paid, issued, queue, pc,
                   minimum, selector, unread, found>>

\* A processing error, before or after the redemption was sent. try_collect
\* returns it: all streams and results of the call are dropped, and whatever
\* its other streams have sent goes unobserved. The ticket stays in its queue.
StreamFails(r, ch) ==
    /\ Polled(r, ch)
    /\ queue[ch] # <<>>
    /\ attempt[ch] = {} \/ \E a \in attempt[ch] : a.by = r
    /\ pc' = [pc EXCEPT ![r] = "right"]
    /\ streams' = [streams EXCEPT ![r] = {}]
    /\ results' = [results EXCEPT ![r] = {}]
    /\ LET own == {c \in Ids : \E a \in attempt[c] : a.by = r}
       IN /\ attempt' = [c \in Ids |-> IF c \in own THEN {} ELSE attempt[c]]
          /\ orphans' = orphans \cup Abandoned(UNION {attempt[c] : c \in own})
    /\ UNCHANGED <<now, channels, paid, issued, queue,
                   minimum, selector, unread, found>>

\* A stream ends when it finds no more tickets.
StreamEnds(r, ch) ==
    /\ Polled(r, ch)
    /\ queue[ch] = <<>>
    /\ streams' = [streams EXCEPT ![r] = @ \ {ch}]
    /\ UNCHANGED <<now, chainVars, issued, queue, attempt,
                   pc, minimum, selector, unread, found, results>>

Return(r) == /\ pc[r] = "running" /\ unread[r] = {} /\ streams[r] = {}
             /\ pc' = [pc EXCEPT ![r] = "ok"]
             /\ UNCHANGED <<now, chainVars, issued, queue, attempt,
                            minimum, selector, unread, streams, found, results>>

--------------------------------------------------------------------------------
\* Other clients of the ticket queues.

insert_incoming_ticket(ch, v) ==
    /\ ch[2] = Me /\ issued[ch] < MaxIndex
    /\ issued' = [issued EXCEPT ![ch] = @ + 1]
    /\ queue' = [queue EXCEPT ![ch] =
            Append(@, [channel |-> ch, index |-> issued[ch] + 1, value |-> v])]
    /\ UNCHANGED <<now, chainVars, attempt, callVars>>

\* Takes precedence over a stream: what it has sent may still land.
neglect_tickets(ch, max) ==
    /\ \E n \in DOMAIN queue[ch] :
          /\ \A i \in DOMAIN queue[ch] : i <= n <=> queue[ch][i].index <= max
          /\ queue' = [queue EXCEPT ![ch] = SubSeq(@, n + 1, Len(@))]
    /\ attempt' = [attempt EXCEPT ![ch] = {}]
    /\ orphans' = orphans \cup Abandoned(attempt[ch])
    /\ UNCHANGED <<now, channels, paid, issued, callVars>>

--------------------------------------------------------------------------------
\* The chain. It redeems a ticket once, and not in a closed channel; it may
\* reject one for other reasons.

Redeemable(t) == channels[t.channel].status # "Closed" /\ t \notin paid

Land(ch) == \E a \in attempt[ch] :
    /\ a.state = "sent"
    /\ \/ /\ Redeemable(a.ticket)
          /\ paid' = paid \cup {a.ticket}
          /\ attempt' = [attempt EXCEPT ![ch] = {[a EXCEPT !.state = "Redeemed"]}]
       \/ /\ attempt' = [attempt EXCEPT ![ch] = {[a EXCEPT !.state = "RejectedOnChain"]}]
          /\ UNCHANGED paid
    /\ UNCHANGED <<now, channels, orphans, issued, queue, callVars>>

OrphanLands(t) == /\ t \in orphans
                  /\ orphans' = orphans \ {t}
                  /\ \/ Redeemable(t) /\ paid' = paid \cup {t}
                     \/ UNCHANGED paid
                  /\ UNCHANGED <<now, channels, issued, queue, attempt, callVars>>

\* Only incoming channels need to close and open: no call redeems in another.
InitiateClosure(ch) == /\ ch[2] = Me /\ channels[ch].status = "Open"
                       /\ now + Notice \in Times
                       /\ channels' = [channels EXCEPT ![ch] =
                                          Entry(ch, "PendingToClose", now + Notice)]
                       /\ UNCHANGED <<now, orphans, paid, issued, queue, attempt, callVars>>

FinalizeClosure(ch) == /\ channels[ch].status = "PendingToClose"
                       /\ channels[ch].closure <= now
                       /\ channels' = [channels EXCEPT ![ch] = Entry(ch, "Closed", 0)]
                       /\ UNCHANGED <<now, orphans, paid, issued, queue, attempt, callVars>>

\* A closed channel is opened again. A later life of a channel numbers its tickets
\* anew: the model has those of one life only, so none have come in before.
OpenChannel(ch) == /\ ch[2] = Me /\ channels[ch].status = "Closed" /\ issued[ch] = 0
                   /\ channels' = [channels EXCEPT ![ch] = Entry(ch, "Open", 0)]
                   /\ UNCHANGED <<now, orphans, paid, issued, queue, attempt, callVars>>

Tick == /\ now + 1 \in Times
        /\ now' = now + 1
        /\ UNCHANGED <<chainVars, issued, queue, attempt, callVars>>

StreamStep(r, ch) == \/ TooLow(r, ch) \/ Send(r, ch) \/ Answer(r, ch)
                     \/ StreamFails(r, ch) \/ StreamEnds(r, ch)

QueryStep(r, ch) == PassOver(r, ch) \/ OpenStream(r, ch) \/ SkipStream(r, ch)

CallStep(r) == \/ Redeem(r) \/ QueryFails(r) \/ Return(r)
               \/ \E ch \in Ids : QueryStep(r, ch) \/ StreamStep(r, ch)

ClientStep == \E ch \in Ids : \/ \E v \in Values : insert_incoming_ticket(ch, v)
                              \/ \E max \in 1 .. MaxIndex : neglect_tickets(ch, max)

ChannelStep(ch) == InitiateClosure(ch) \/ FinalizeClosure(ch) \/ OpenChannel(ch)

ChainStep == \/ \E ch \in Ids : Land(ch) \/ ChannelStep(ch)
             \/ \E t \in orphans : OrphanLands(t)
             \/ Tick

Next == (\E r \in Redeemers : CallStep(r)) \/ ClientStep \/ ChainStep

Spec == Init /\ [][Next]_vars

\* The query and the streams are polled, and the chain decides on what was sent.
Fairness == /\ \A r \in Redeemers : WF_vars(Return(r))
            /\ \A r \in Redeemers, ch \in Ids : /\ WF_vars(QueryStep(r, ch))
                                               /\ WF_vars(StreamStep(r, ch))
            /\ \A ch \in Ids : WF_vars(Land(ch))

FairSpec == Spec /\ Fairness

--------------------------------------------------------------------------------
\* What is to be shown.

TypeOK ==
    /\ now \in Times
    /\ channels \in [Ids -> ChannelEntries]
    /\ issued \in [Ids -> 0 .. MaxIndex]
    /\ queue \in [Ids -> Seq(Tickets)]
    /\ attempt \in [Ids -> SUBSET Attempts]
    /\ orphans \subseteq Tickets /\ paid \subseteq Tickets
    /\ pc \in [Redeemers -> {"idle", "running", "ok", "left", "right"}]
    /\ minimum \in [Redeemers -> Values \cup {0}]
    /\ selector \in [Redeemers -> SUBSET ChannelSelector]
    /\ unread \in [Redeemers -> SUBSET Ids]
    /\ streams \in [Redeemers -> SUBSET Ids]
    /\ found \in [Redeemers -> SUBSET Tickets]
    /\ results \in [Redeemers -> SUBSET Results]

\* A call that returns Ok has drained the channels it opened: no ticket that was
\* in the queues then is still there.
OkDrains == \A r \in Redeemers :
    pc[r] = "ok" => \A ch \in Ids : found[r] \cap InQueue(ch) = {}

\* What calls report is what became of the tickets, however they overlap: no
\* ticket is reported twice, none reported is still queued, Redeemed ones are
\* paid, those below the minimum never are, and those rejected are paid only if a
\* call has failed: it drops the streams that still wait for redemptions sent,
\* and the tickets of these are sent again later.
ReportsAreTrue == \A r \in Redeemers : \A x \in results[r] :
    /\ \A s \in Redeemers : \A y \in results[s] :
          x.ticket = y.ticket => r = s /\ x = y
    /\ x.ticket \notin InQueue(x.ticket.channel)
    /\ x.kind = "Redeemed" => x.ticket \in paid
    /\ x.kind = "ValueTooLow" => x.ticket.value < minimum[r]
    /\ x.kind = "RejectedOnChain" /\ x.ticket \in paid
          => \E s \in Redeemers : pc[s] = "right"

\* Every call returns once the chain decides on what was sent.
RedeemersReturn == \A r \in Redeemers : pc[r] = "running" ~> pc[r] # "running"
==============================================================================
