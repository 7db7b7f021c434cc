# hopr-api in TLA+

`hopr-api` is the crate of traits between the parts of a HOPR node: chain, tickets,
network graph, network, cover traffic, sessions. Most of it is signatures. What it
implements itself, in provided methods and blanket implementations, is small and
concurrent, and mistakes in it cost money: channel operations that wait for chain
events, ticket redemption over many channels, the value functions that decide over
which relayers a path may go, and batches of deposits. These are what this project
models, and with them the loop they are part of where the crate fixes what goes around
in it: what the graph records of a path decides whether it is probed again. Paths below
are relative to `src/`.

## 1. Inventory

| Component | State | Operations | Hard behaviour |
|---|---|---|---|
| **Channel operations**, `src/node/incentive.rs` (`IncentiveChannelOperations`), on `HasChainApi` of `accessors.rs` | per call: the await it has reached, its event waiter, its transaction | `open_channel`, `fund_channel`, `close_channel_by_id`; `withdraw`; reads | events before receipts, timeouts racing events, failed or lost receipts, dropped futures, several calls on one channel, the counterparty closing it |
| **Ticket redemption**, `src/tickets/mod.rs` (`redeem_in_channels`), `incentive.rs` (`IncentiveRedeemOperations`) | per call: the streams it polls, the results it has collected; ticket queues and chain outside | `redeem_all_tickets`, `redeem_tickets_with_counterparty`, `redeem_in_channels` | overlapping calls, channels that close and open while they are queried, an error that drops the other streams, tickets neglected meanwhile |
| **Channel selector**, `src/chain/channels.rs` | a filter | `with_*`, `satisfies` | builder calls that undo each other |
| **Edge value functions**, `src/graph/function.rs` | a closure with resolved parameters | `forward`, `returning`, `forward_without_self_loopback` | sign as rejection, zero, 256-bit products, indices past the length |
| **Path search**, `src/graph/traits.rs` (`ValueFn`, `NetworkGraphTraverse`, `set_ticket_face_value`) | the path so far and its value; the graph's face value | fold and prune | a face value that changes during the search, lengths that were understated |
| **Deposit pool**, `src/chain/deposit_pool.rs` | per batch: the outcomes of its operations | `deposit_funds_to_multiple`, `withdraw_multiple_deposits`, `pool_transfer_multiple` | some operations fail, batches overlap, a batch is dropped, a pool leaves items out and reorders outcomes, a caller retries |
| **Session admission**, `src/node/session/server.rs` | a request, a decision | `admit`, `with_*`, `process` | terms that override, terms that only narrow, in either order |
| Ticket values and factory, `src/chain/tickets.rs`, `src/tickets/mod.rs` | none | `outgoing_ticket_values` | - |
| **Registry queries**, `incentive.rs`, with the selectors of `src/chain/{accounts,services,safe}.rs` and the `ChainPathResolver` of `src/chain/mod.rs` | a filter; the entries collected | `channels_to`, `channels_from`, `announced_peers`, `get_channel`; `with_*`, `satisfies` | registries that change while a stream is collected or a hop resolved, orphaned services, refined selectors |
| **Graph updates**, `src/graph/{traits,types}.rs` | observations of edges, health of nodes | `record_edge`, `record_nodes_health`, loopback and route selection | outcomes recorded late, edges that are rejected and so never observed again |
| PIX events, `src/node/types.rs` | none here: what an event and its channels carry | types | - |
| Chain reads, events, keys; node state, status, events, transport; network; cover traffic | none here | signatures | - |

How they interact: a channel operation calls the chain (`ChainWriteChannelOperations`)
and subscribes to its event bus (`wait_for_on_chain_event`). Redemption queries the
chain with a channel selector and drives streams of the ticket manager, which in turn
send redemptions to the chain. A path search folds a value function over the
observations of the graph; what it keeps is used and probed, and that is what the graph
records next. The transport asks a session server for the terms of a session; deposits are
made and swept in batches by callers outside. Nothing in the crate shares memory between
calls: they meet on the chain, on the event bus, in the ticket queues and in the funds of a
deposit pool, which are implemented outside and modelled as environments.

What makes the parts correct:

* channel operations: no call misses its own event; the result tells whether the
  operation took effect; nothing is left running without cause; every call returns;
* redemption: each ticket is reported once and truthfully; Ok means that the queues
  are drained; of the channels that were asked for and can be redeemed in none is passed
  over, and no other is touched;
* value functions: an edge that must be rejected cannot end up in a path, and an edge
  that can be used is not lost;
* graph: nothing that was recorded keeps a working path from being probed, or a broken
  one valued above an untried one; outcomes of probes order paths and take none away; what
  is probed is what sessions can use;
* sessions: admitted on the server's terms within the node's;
* queries: nothing that was there throughout is missed, nothing made up;
* batches: all operations have ended and are accounted for when the batch returns, and a
  caller can tell from the outcomes what to repeat.

The hazards behind them are listed, each at its line, in `PROJECT.json`.

## 2. Modules

| Module | Models | State and actions |
|---|---|---|
| `ChannelLedger` | operations, events and the three event predicates | definitions only; `Matches` is the code's, the contract (`Accepts`, `EventType`) is external |
| `ChannelOps` | the three channel operations | `pc` is the await a call has reached, `waiter` the spawned future, `tx` its transaction; one action per await and outcome, the chain, the bus and the clock as environment |
| `AtomicLedger` | what callers may rely on | an operation takes effect in one step between call and return |
| `ChannelOpsProofs`, `RedemptionProofs`, `PathSearchProofs`, `NetworkGraphProofs`, `NodeQueriesProofs`, `BatchProofs`, `SessionAdmissionProofs` | theorems about `ChannelOps`, `Redemption` and `RedemptionQueries`, `PathSearch`, `NetworkGraph`, `NodeQueries`, `DepositBatch` and `SessionAdmission` | section 5 |
| `EdgeValueTheorems` | theorems about the operators of `EdgeValue`, which the proofs about searches and the graph share | section 5 |
| `ChannelSelectors` | `ChannelSelector` | each builder method an operator from selector to selector |
| `Redemption` | redemption | `selector` (built once, with the clock read then) and `unread` (the stream of channels, looked at one by one), `streams` (the `StreamGroup`), `results` (`try_collect`); ticket queues and chain as environment |
| `RedemptionQueries` | the queries of redemption | `Redemption` with history: what each call was `asked` for, where it `tried` to open a stream, what it wanted `always` or `ever` during its query |
| `EdgeValue` | `function.rs` | one operator per function; the branches of the constructors are `first_edge`, `last_edge_forward`, `last_edge_returning` |
| `EdgeStreams` | how an edge's two streams make up an observation | definitions only, of the stubs in the tests of `function.rs` |
| `EdgeFixtures` | the unit tests of `function.rs` with the values of their snapshots | definitions only: fixtures, tables, comparisons |
| `NetworkGraph` | the graph's records and what is selected by them | `immediate`, `intermediate` and `health` are what an edge reports; links, channels, prober, transport and chain are the environment |
| `PathSearch` | a search | `Start` builds the function, `Extend` folds one edge and prunes |
| `DepositBatch` | the three batches | `Call`, `Answer`, `Return` and `Drop` are `join_all`; `Native` batches are a pool's own; the pool and the caller that retries are the environment |
| `SessionAdmission` | requests, offers, decisions, the default `admit` | the builder methods are operators; `stage`, `asked`, `answer` and `quota` are a negotiation; the server that overrides `admit` and the transport that applies its decision are external |
| `RegistrySelectors` | `AccountSelector`, `ServiceSelector`, `SafeSelector` | operators, as in `ChannelSelectors` |
| `NodeQueries` | queries with these selectors | `call`, `selector`, `unread` and `found` are a query and its stream; the registries are the environment |
| `MCRedemption`, `MCRedemptionQueries`, `MCPathSearch`, `MCNetworkGraph`, `MCPix`, `MCNodeQueries` | small instances | constants; `MCPix` puts `SessionAdmission` and `DepositBatch`, which share nothing, into one run |

`ChannelOps` and `AtomicLedger` extend `ChannelLedger`; `ChannelOps` instantiates
`AtomicLedger` under the refinement mapping (`Ledger`). `Redemption` extends
`ChannelSelectors`, `RedemptionQueries` extends `Redemption`, `NodeQueries` extends
`RegistrySelectors` and with it `ChannelSelectors`, `PathSearch` extends `EdgeValue`,
`NetworkGraph` extends `EdgeStreams` and with it `EdgeValue`. Definitions named `Flawed...` or
`flawed_...` are variants with a plausible mistake; no specification uses them. They stand
beside the definitions they vary and show that the properties can fail.

### Abstractions

* A waiter is subscribed from the moment `wait_for_on_chain_event` returns, as its
  documentation has it ("Spawns an asynchronous waiter that subscribes").
* Calls of channel operations are made once each; a retry is another call.
  `typical_resolution_time` is the same for all calls. Amounts occur only where a predicate
  compares them: a contract that reverts for lack of funds is `Revert`, which is always
  possible.
* A call in `Lossy` can be told of an error although its transaction has left the node, when
  it submits or while it waits for the receipt. For the other calls an error means what the
  chain reported.
* A redemption looks at every channel there is once, in any order and at any time after its
  selector was built, and the group of streams is polled when it has looked at all. A closed
  channel can open again, but only before tickets have come in, as those of a channel's later
  life have indices of their own. Streams are polled in any order. The ticket manager has one
  redemption at a time under way per channel, so that tickets are redeemed in order; a stream
  ends when the queue is empty.
* f64 is replaced by exact fractions: an edge multiplies by three factors (score, ack rate,
  health) with a common denominator `One`, so a value is an integer over `One^(3n)`. NaN
  health is "unknown", as in the code.
* The traversal prunes values that are not positive, as `function.rs` and its tests count on.
  `ValueFn` itself says "below `min_value`", which is 0.0, and would keep zero; the traversal
  is not in the repository.
* A stream of entries of `NodeQueries` looks at the entries there were when it was opened, at
  each of them at a later time; a snapshot is the case in which nothing changes meanwhile.
  `always` and `ever` are history: what the caller wanted throughout a query, or at some time.
* Withdrawals and transfers of a batch are of the whole deposit, as the code passes `None`. A
  single operation moves funds or fails, not both. A pool's own deposit batch is that of the
  `ReorderingPool` in the tests.
* The graph averages over a window of one: a score or ack rate is that of the last report.
  Larger windows react later and to more reports, in the same direction. Connection and
  balance are stored as reported. A loop's outcome counts for the edges that do not start at
  this node, which has probes of its own for those.
* The transport applies a decision as its documentation says: `enforce_pix` replaces the
  node's setting, `pix_quota_range` and the node's range both have to hold. A session without
  an offer is admitted if nothing enforces one, whatever the ranges are.
* A hop of a path is resolved as `get_channel` and its callers need it: key, address, channel.
  Bindings of keys are not undone.

## 3. Runs

| Run | Instance | Shows |
|---|---|---|
| `ChannelOps` | 2 calls, 1 channel, 1 amount; one call lossy, one droppable; all initial channel states; a timeout of one tick | types, `NoMissedEvent`, `ResultTellsEffect`, `LeftBehind`, refinement of `AtomicLedger`; `AwaitReturns`, `CallsReturn` |
| `ChannelOpsTimed` | 2 amounts, nothing lossy, prompt chain with bounds 1+1+1 and timeout 2*2 | `PromptNeverTimesOut` |
| `ChannelOpsOutput` | nothing lossy or dropped | violation of `OutputOfOwnTransaction` |
| `Redemption` | 2 calls, one incoming and one outgoing channel, 2 tickets, 2 values | types, `ReportsAreTrue` |
| `RedemptionStreams` | 2 calls, two incoming channels that stay open and an outgoing one, a ticket each | `OkDrains`, `ReportsAreTrue` with an error in one of two streams, `RedeemersReturn` |
| `RedemptionQueries` | 1 call, two incoming channels and an outgoing one, no tickets, times 0 to 3 with a grace period and a notice of one; the node's two requests, and one that names the states to redeem in | `QueryMissesNothing`, `QueryFindsWanted` |
| `PathSearch` | lengths 1 to 3 and one edge more; factors 0, 1/2, 1; 2-bit balances; face value unknown, 0 or 2; penalties and thresholds inside and outside [0, 1] | `KeptPathsAreUsable`, `PrunedForCause`, `ValueNeverRises`; `AgreesWithTests`: with a denominator of 200 the value functions give what the unit tests recorded |
| `PathSearchPenalty`, `PathSearchDirect` | the same | violations, below |
| `NetworkGraph` | one loop over two relays, judged in lists of two, in one of which the second is judged twice; factors in quarters; channels closed or worth two hops | `OutcomesPruneNothing`, `OutcomesRank`, `ProbedLoopsAreRoutes`; `SoundPathsRecover`, `BrokenPathsStarve` |
| `Pix`, deposits | 3 allocations; 2 batches of 2 items, an allocation twice, a transfer to itself, more requested than there is, one batch native | `ReceiptsAccountForFunds`, `DepositedOnce`, `ReturnedIsFinal`, `BatchesReturn` |
| `Pix`, sessions | a server with terms for 3 of 4 targets; no offer, or one of quotas in and out of the ranges, of enough shares and too few | `AdmissionTypeOK`, with nothing kept of a refused session; `AdmittedOnTerms` |
| `NodeQueries` | a channel each way, two nodes, two service types, a Safe that can bind both nodes; a query of each kind and the resolution of a hop | `QueriesMissNothing`, `QueriesFindWanted` |

Why the bounds are enough: two calls on one channel are the smallest instance in which an
event matches two waiters, a call is answered by another's event, and the ledger refuses what
another call has made impossible; further calls interact only in pairs, and the theorems cover
every number of them. One amount is enough there: with the same amount two fundings match each
other's events, which is the case in question; two amounts occur in `ChannelOpsTimed`, and the
theorems cover all. Two tickets and two calls are needed for a stale answer to a later ticket,
two incoming channels for a stream dropped because of another. A query concerns its own call
only, so one is enough; four times put a closure before, at and after the end of the grace
period, both as the clock was when the selector was built and as it is when the channel is
looked at. 2-bit balances make 2 hops at a face value of 2 overflow. Denominator 2 has a
factor strictly between 0 and 1, and the floor is the least positive factor. A batch of two
has one that failed and one that moved funds, and two batches race for a deposit or are a
batch and its retry. A loop with two relays has an edge of each kind: this node's own, one
between relays, and one whose end is judged; the outcome of a probe can be recorded after any
other change. In a behaviour of `Pix` either sessions are negotiated or batches run: the two
have no variable and no step in common, so that interleaving them shows nothing new. Queries
of registries do not meet, so one is enough, with entries that match it and entries that do
not in each registry.

Runs that allow the system to stop (`CHECK_DEADLOCK FALSE`) are those in which all calls
may have returned: redemption, searches, sessions and batches. In the others it is checked,
which says little: in `ChannelOps` time goes on and in `NodeQueries` and `NetworkGraph` the
environment does. That calls return is what the liveness properties are for.

### What the violations say

* `ChannelOpsOutput`: `close_channel_by_id` returns its own transaction hash with the
  status of whichever closure event of the channel came first. If the counterparty or
  another call closes the channel meanwhile, the `ChainOutput` mixes two transactions
  (`incentive.rs:123-127, 154-160`; `types.rs:28-30`).
* `PathSearchPenalty`: the floor that keeps a penalty of 0.0 from pruning an edge is
  missing in two places (`function.rs:63, 237`).
* `PathSearchDirect`: a direct route to a peer that was observed disconnected, with no
  known balance, is kept whatever its ack rate is (`function.rs:225-237`), against
  lines 180-188.

Two related divergences have no run of their own. On the last of these lines a last hop that
is known to be disconnected and was measured dead gets the penalty of an untried edge, whereas
`EdgeLinkObservable::score` has measured-dead edges starved; `NetworkGraph` shows that
first and middle edges are starved. And `redeem_in_channels` does not only narrow the selector
it is given, as its documentation has it ("optionally also matching the given `selector`",
`tickets/mod.rs:127-128`): `with_destination` unsets an id, and `with_redeemable_channels` adds
`Open` and `PendingToClose` to the allowed states and replaces the range of closure times
(`channels.rs:68-72, 87-112`), so that requests for a channel by id, or for those about to close
only, redeem in all. With `Requests` set to one of these, `RedemptionQueries` finds
`QueryFindsWanted` violated; the node's own requests are not affected.

## 4. Fairness

* `TimerSpec`: the clock goes on, timers that are due fire, and a call whose waiter has ended
  is polled. This is what an async executor does with spawned futures. The chain and the bus
  may be mute. `AwaitReturns` needs no more. The timer is also what ends a waiter that nobody
  awaits any more.
* `ChainFairness` (only a premise of `CallsReturn`): the chain answers
  `typical_resolution_time` and submissions, confirms or reverts transactions and delivers
  receipts. Those awaits have no timeout in the code, so a chain that stays silent blocks the
  call. The bus need not publish anything.
* `Redemption`: the query and the streams of a call are polled until they end, and the chain
  decides on redemptions that were sent; tickets that arrive are bounded (`MaxIndex`),
  otherwise a stream might never run out.
* `DepositBatch`: the pool answers every operation ("best effort" with its own retries, in the
  words of the trait), and `join_all` is polled when it does. An operation that never answers
  keeps its batch from returning; nothing in the code bounds it.
* `NetworkGraph`: neighbours are probed, connections, balances and acks reported again and
  again, by the background tasks that the traits are made for. A loop is probed if it is a
  candidate again and again (strong fairness: the prober takes turns among candidates, and a
  loop can stop being one), and the outcome is recorded. Links, channels and judges change as
  they please, and no session has to use a route.

## 5. Proofs

`ChannelOpsProofs` proves about `ChannelOps`, for every set of calls, channels and
amounts and all timing constants that satisfy `TimingAssumption` and `CallsAssumption`
(they are numbers, and `Lossy` and `Droppable` are sets of calls):

* `TypeCorrect`, `NoEventIsMissed`, `ResultsTellEffects`, `FewWaitersAreLeft`. None of
  the three properties is inductive. `Inv` strengthens them with the relation between a
  call's await, its request, its waiter and its transaction (`Phase`), and with the
  statement that the event still queued for a call is one its predicate matches
  (`EventAhead`): without it `Publish` could remove the event and leave the waiter
  waiting. `InvStep` has one step per action; only `Confirm`, `CounterpartyCloses` and
  `Publish` touch the queue.
* `PromptChainsNeverTimeOut`: a second invariant (`Aged`) bounds the age of a waiter by
  the phase of its call: it is at most what the chain has had so far to submit, to
  resolve and to publish. Since the bounds add up to less than the timeout, a waiter
  that times out cannot belong to a transaction that took effect.
* `ChannelOpsRefinesLedger`: under the mapping `Ledger` every step is a step of
  `AtomicLedger` or changes nothing of it. `Confirm` is the step in which an operation
  takes effect; the last step of a call is its response; all others stutter.

`RedemptionProofs` proves about `Redemption`, for every set of calls, channels, tickets
and requests (`RedemptionAssumption`: times, values and bounds are numbers, a request is
an Option of a selector):

* `TypeCorrect`, `ReportsTrue`, `OkIsDrained`. The invariant (`IInv`) says that every
  queue is in the order of the tickets' indices (`QueuesInOrder`) and holds nothing that
  has not come in (`AllCameIn`); that a ticket a call has reported is out of its queue and
  is reported once (`ReportsOnce`); that, unless a call has failed, a ticket the
  chain has paid is waited for or is out of its queue and reported as redeemed
  (`ChainKnown`, with `Failed`); and that a call which goes on has a stream, or has drained
  the queue, for each channel it opened (`StreamsKept`). The proof has a step for each action
  of calls, client and chain.
* `NoChannelMissed`, of `RedemptionQueries`: a channel wanted from the time a call builds its
  selector to the end of the query is one that the selector selects at any time in between
  (`WantedIsSelected`), as "now" only grows and the selector keeps the earlier one. The
  invariant (`NothingMissed`) says that what was wanted so far was tried or is unread. The
  hypothesis is that requests are made by the builder methods: an id excludes a source.
* `NoChannelMadeUp`: what satisfies the selector by now was wanted at some time of the query
  (`NothingMadeUp`): a channel that began to close since then did so while it was open, hence
  wanted, and one that was opened is wanted now. The hypothesis is that requests are those of
  the two callers in the node (`NodeRequests`: no selector, or that of a counterparty); for
  requests by id or by state it is false (section 3).

`PathSearchProofs` proves about `PathSearch`, for any denominator, floor and word
(`EdgeValueAssumption`) and any observations, parameters and face values:

* `TypeCorrect`, `KeptUsable`, `PrunedRightly`, `NeverRises`. By `EdgeDecides` (below) the
  value of a path with one more edge is positive exactly if the value before was, and the
  edge is usable and no factor of it is zero, and it is at most the value before. The
  invariant then says that the path was kept exactly if its value is positive, for paths of
  any length.

`EdgeValueTheorems` proves about the functions of `EdgeValue`, for any denominator, floor
and word (`EdgeValueAssumption`) and any observation, parameters and index:

* `EdgeDecides`: each operator has a lemma that says by which factor it scales a value and
  when it turns it negative; together, a value function makes a positive value of a positive
  value exactly for an edge that `Passes`, and never a larger one.
* `LoopEdgesSuitRoutes`: what passes `forward_without_self_loopback` passes `forward` with
  one edge less and the same parameters, the last edge and direct routes included. The two
  constructors repeat the conditions in closures of their own.
* `ScoresPruneNothing`: observations that differ in what was scored only (`OnlyScored`, which
  includes that a stream has been allocated by the score) pass alike, except where the route
  is direct and the penalty zero: there the new stream's unknown ack rate costs everything.
* `RelayedEdgesOrdered`: of two relayed edges of the same health the one whose score counts
  more makes more of more (`RelayedEdgeCounts` has the factors).

`NetworkGraphProofs` proves about `NetworkGraph`, for any loops of any length from this
node that do not cross themselves, any nodes, balances and parameters (`GraphAssumption`):

* The value of a path is a recursive function over its edges. `FoldExists` proves that the
  function exists, `PathFold` what it is at each edge, by induction on sets of indices
  (`IndexInduction`); with `EdgeDecides` a path is selected exactly if each of its edges
  passes (`SelectedIfAllPass`), and of two records of a loop one is valued above the other if
  its edges are, one by one (`LoopsOrdered`).
* `TypeCorrect`: the invariant (`IInv`) says more than `TypeOK`, which speaks of edges as
  they are observed: that a stream holds at most one record, of the right fields, for each
  edge of the graph (`GraphSound`). Recording finds it so and leaves it so
  (`RecordImmediateSound`, `RecordIntermediateSound`).
* `LoopsAreRoutes`: `ProbedLoopsAreRoutes`, from `LoopEdgesSuitRoutes` edge by edge.
* `PruningNeedsMore`: `OutcomesPruneNothing`. A step that records an outcome changes scores
  only (`Scoring`), so that each edge passes as before. The hypothesis is that the penalty
  is not 0 or all routes have a relay, and it is needed: with a penalty of 0, a first
  successful probe of a neighbour that is sent to directly and has a channel takes the
  direct route away until there are acks, because a stream without an ack rate is worse than
  no stream (`function.rs:63, 216-220`, a case of the finding of `PathSearchPenalty`).
* `OutcomesOrder`: `OutcomesRank`, where `Floor < Penalty` and `Penalty < One`. The floor is
  1e-9 and the penalty a configured fraction, 0.5 in the tests; at a penalty of the floor or
  of one, untried edges count like dead or like proven ones.

`NodeQueriesProofs` proves about `NodeQueries`, for any registries, calls and Safes
(`QueriesAssumption`):

* `TypeCorrect`, `MissesNothing`, `FindsWanted`. For each registry a lemma says that the
  selector that a call builds selects what its caller wants (`ChannelSelected`,
  `AccountSelected`, `KeySelected`, `TypeSelected`, `NodeSelected`). `QuerySound` relates
  what was found and what is still unread to `always` and `ever`; `RegistriesSound` is
  what the resolution of a hop rests on: a key is bound to one address, once.

`BatchProofs` proves about `DepositBatch`, for every finite set of allocations and of
batches, requests of any length and any pools with a deposit batch of their own
(`DepositAssumption`):

* Sums, in the first section: what `SumFunction` of the community modules gives. Sums of
  finitely many numbers are numbers, change by what one item changes, can leave out zeros,
  and do not depend on names or order. The
  fold behind it is a recursive function over subsets, whose existence and value are proved
  by induction over subsets (`SubsetInduction`, with sets for predicates).
* `TypeCorrect` and `BatchesAreFinal`. `ReturnedIsFinal` says nothing of an operation that
  is on its way when a batch returns; `BatchInv` says there is none, that the operations of
  a batch are those of its items, and that its outcomes are what `Outcomes` makes of them.
* `ReceiptsAccount`: `ReceiptsAccountForFunds` holds only when all batches have returned. The
  invariant `Conserved` holds always, and of what was moved instead of what receipts
  say, so that a failed, dropped or running batch counts too. Every step moves
  nothing (`Quiet`) or one amount from one place to another (`Flow`). When a batch has
  returned, its receipts are what it moved (`ReceiptsTellMoves`), also if a native batch
  reverses them and leaves the first item out.
* `DepositsOnce`: `RetriedOnce` says that a retry is of a returned batch, the only one of it,
  and asks for nothing its outcomes name; `WithinAmounts` that no operation deposits more than
  its item says. A batch that has moved funds to an allocation names it in an outcome, so that no
  later retry names it (`RetriesLeaveOut`), and retries form a chain (`FamilyIsChain`): at most
  one of them deposits, within what was asked. The run has one retry of one batch, the
  theorem chains of any length.

`SessionAdmissionProofs` proves about `SessionAdmission`, for any policy, range and requests
(`AdmissionAssumption`: terms are Options, quotas offered are numbers):

* `SessionsAdmittedOnTerms`: a decision says the server's terms for the target in
  whichever order it was built (`DecisionSaysTerms`), and the decision that the transport
  applies is one on the request that is being negotiated (`TermsInv`).
* `TypeCorrect`, with what is kept of a session at each stage.

Only model-checked: all liveness, which with ENABLED is out of reach of the prover, among
it that the graph finds out what works (`SoundPathsRecover`) and what does not
(`BrokenPathsStarve`), of which the theorems prove the steps: probing does not end by its
own outcomes, and outcomes order; and `AgreesWithTests`, which is about the numbers of the
unit tests and has nothing to generalise. Every other invariant and action property of a
passing run is a theorem.
No module declares a RECURSIVE operator.

## 6. Not modelled

The events of PIX (`types.rs`) are types: who raises them, how deposits are noticed and
summed, and when they are compared with a price is decided in the protocol, which is not in
the repository. The deposit batches that its Entry and Exit call are modelled by themselves,
called at will, and so is the admission of a session.

`withdraw` is one await of submission and receipt and returns the chain's answer.
`outgoing_ticket_values` takes what is not configured from one read;
`remaining_incoming_channel_stake` returns a field. Reads that pass on one answer
(balances, `chain_info`) and `ticket_statistics` change no state. The traits of chain,
network, transport, session clients and cover traffic without a body, and the graph's
topology (`remove_node`, `remove_edge`, `connected_edges`), have nothing to translate.
`EitherErr` is modelled by which side a result is on. Wording of errors and logs is left
out, and of a session request what the properties do not tell apart (ids, sealed hosts,
capability bits).

## 7. Plan

Done, in this order: channel operations with the atomic ledger and their proofs;
selectors and redemption; value functions and path search, with the unit tests; the
graph's feedback; registry selectors, queries and path resolution; deposit batches and the
admission of sessions; the queries of redemption.

Then proofs, in modules of their own: of the selectors and queries, of the value functions and
searches, of redemption and its queries, of batches and sessions, and of the graph, so that
every safety property of those runs but the replay of unit tests is a theorem.

Left: longer averages for scores and ack rates in `NetworkGraph`, in place of the last
report, and the return paths of a session beside its routes.
