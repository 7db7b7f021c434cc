----------------------------- MODULE ChannelOps ------------------------------
(***************************************************************************)
(* open_channel, fund_channel and close_channel_by_id of the trait         *)
(* IncentiveChannelOperations (src/src/node/incentive.rs): concurrent      *)
(* calls, each an async function that                                      *)
(*                                                                         *)
(*   1. awaits typical_resolution_time() of the chain,                     *)
(*   2. spawns a waiter for the event it expects, with a timeout,          *)
(*   3. awaits the submission of its transaction,                          *)
(*   4. awaits the receipt, aborting the waiter if that is an error,       *)
(*   5. awaits the waiter, and returns Ok, or an EitherErr: Left for an    *)
(*      error of the chain, Right for one of the node (the timeout).       *)
(*                                                                         *)
(* Each element of Calls is one call; a retry is another call made after   *)
(* the first returned. The chain and its event bus are external: they      *)
(* answer, confirm, revert and publish at any time and in any order across *)
(* calls, except that events are published in the order they occurred.     *)
(***************************************************************************)
EXTENDS ChannelLedger, Sequences

CONSTANTS Typical,        \* typical_resolution_time, in ticks
          Multiplier,     \* CHAIN_OPERATION_TIMEOUT_MULTIPLIER
          Lossy,          \* calls whose error may hide a transaction in flight
          Droppable,      \* calls whose future the caller may drop
          Prompt,         \* does the chain keep to the three bounds below?
          SubmitBound,    \* ticks to answer a submission,
          ResolveBound,   \* to confirm or revert a transaction,
          PublishBound    \* and to publish its event

ASSUME TimingAssumption ==
    /\ Typical \in Nat /\ Multiplier \in Nat
    /\ SubmitBound \in Nat /\ ResolveBound \in Nat /\ PublishBound \in Nat
    /\ Prompt \in BOOLEAN

ASSUME CallsAssumption == Lossy \subseteq Calls /\ Droppable \subseteq Calls

VARIABLES
    pc,      \* the await each call has reached
    request, \* its arguments, once called
    result,  \* how it ended
    waiter,  \* its event waiter
    matched, \* the event the waiter resolved with
    age,     \* ticks since the waiter was spawned
    tx,      \* its transaction, as the chain knows it
    since,   \* ticks since the chain owes it an answer
    chan,    \* status of each channel on the ledger
    queue    \* events that occurred and are not yet published

callVars == <<pc, request, result>>
waiterVars == <<waiter, matched, age>>
chainVars == <<tx, since, chan, queue>>
vars == <<pc, request, result, waiter, matched, age, tx, since, chan, queue>>

\* Flawed variant: the multiplier is forgotten.
FlawedTimeout == Typical

Timeout == Multiplier * Typical

\* Has the chain confirmed c's transaction without publishing its event yet?
Queued(c) == \E i \in DOMAIN queue : queue[i].by = {c}

Init == /\ pc = [c \in Calls |-> "idle"]
        /\ request = [c \in Calls |-> {}]
        /\ result = [c \in Calls |-> "none"]
        /\ waiter = [c \in Calls |-> "none"]
        /\ matched = [c \in Calls |-> {}]
        /\ age = [c \in Calls |-> 0]
        /\ tx = [c \in Calls |-> "none"]
        /\ since = [c \in Calls |-> 0]
        /\ chan \in [Channels -> Statuses]
        /\ queue = <<>>

--------------------------------------------------------------------------------
\* The calls.

Goto(c, from, to) == pc[c] = from /\ pc' = [pc EXCEPT ![c] = to]

Return(c, from, r) == /\ Goto(c, from, "returned")
                      /\ result' = [result EXCEPT ![c] = r]

Call(c) == /\ Goto(c, "idle", "resolving")
           /\ \E o \in Operations : request' = [request EXCEPT ![c] = {o}]
           /\ UNCHANGED <<result, waiterVars, chainVars>>

\* typical_resolution_time() or wait_for_on_chain_event() fails: nothing to undo.
ResolutionFails(c) == /\ Return(c, "resolving", "left")
                      /\ UNCHANGED <<request, waiterVars, chainVars>>

\* The waiter is subscribed before the transaction is submitted.
SpawnWaiter(c) == /\ Goto(c, "resolving", "submitting")
                  /\ waiter' = [waiter EXCEPT ![c] = "waiting"]
                  /\ since' = [since EXCEPT ![c] = 0]
                  /\ UNCHANGED <<request, result, matched, age, tx, chan, queue>>

Broadcast(c) == /\ tx' = [tx EXCEPT ![c] = "pending"]
                /\ since' = [since EXCEPT ![c] = 0]

Submitted(c) == /\ Goto(c, "submitting", "confirming")
                /\ Broadcast(c)
                /\ UNCHANGED <<request, result, waiterVars, chan, queue>>

\* The error returns at once; nobody calls event_abort, the waiter stays.
SubmitFails(c) == /\ Return(c, "submitting", "left")
                  /\ \/ UNCHANGED <<tx, since>>
                     \/ c \in Lossy /\ Broadcast(c)
                  /\ UNCHANGED <<request, waiterVars, chan, queue>>

\* Flawed variant: the confirmation is taken for granted.
FlawedReceiptArrives(c) == /\ tx[c] \in {"pending", "confirmed"}
                           /\ Goto(c, "confirming", "awaiting")
                           /\ UNCHANGED <<request, result, waiterVars, chainVars>>

ReceiptArrives(c) == /\ tx[c] = "confirmed"
                     /\ Goto(c, "confirming", "awaiting")
                     /\ UNCHANGED <<request, result, waiterVars, chainVars>>

\* AbortHandle::abort: without effect on a waiter that has resolved.
Abort(c) == waiter' = [waiter EXCEPT ![c] = IF @ = "waiting" THEN "aborted" ELSE @]

\* Flawed variants: the waiter is not aborted, the error is ignored, the
\* transaction is submitted again.
FlawedReceiptFailsNoAbort(c) == /\ tx[c] = "reverted" \/ c \in Lossy
                                /\ Return(c, "confirming", "left")
                                /\ UNCHANGED <<request, waiterVars, chainVars>>

FlawedReceiptFailsIgnored(c) ==
    /\ tx[c] = "reverted" \/ c \in Lossy
    /\ Goto(c, "confirming", "awaiting")
    /\ UNCHANGED <<request, result, waiterVars, chainVars>>

FlawedReceiptFailsRetries(c) ==
    /\ tx[c] = "reverted" \/ c \in Lossy
    /\ Goto(c, "confirming", "submitting")
    /\ UNCHANGED <<request, result, waiterVars, chainVars>>

ReceiptFails(c) == /\ tx[c] = "reverted" \/ c \in Lossy
                   /\ Return(c, "confirming", "left")
                   /\ Abort(c)
                   /\ UNCHANGED <<request, matched, age, chainVars>>

\* Flawed variant: the outcome of the waiter is not mapped to Ok, Left or Right.
FlawedWaiterResult(w) == w

WaiterResult(w) == IF w = "matched" THEN "ok"
                   ELSE IF w = "broken" THEN "left" ELSE "right"

\* Flawed variant: goes on waiting after a timeout.
FlawedAwaitEvent(c) == /\ waiter[c] \in {"matched", "broken"}
                       /\ Return(c, "awaiting", WaiterResult(waiter[c]))
                       /\ UNCHANGED <<request, waiterVars, chainVars>>

AwaitEvent(c) == /\ waiter[c] # "waiting"
                 /\ Return(c, "awaiting", WaiterResult(waiter[c]))
                 /\ UNCHANGED <<request, waiterVars, chainVars>>

\* The caller drops the future at one of its awaits. The waiter was spawned and
\* lives on; a submission under way may or may not have left the node.
Drop(c) == /\ c \in Droppable
           /\ pc[c] \in {"resolving", "submitting", "confirming", "awaiting"}
           /\ pc' = [pc EXCEPT ![c] = "returned"]
           /\ result' = [result EXCEPT ![c] = "dropped"]
           /\ \/ UNCHANGED <<tx, since>>
              \/ pc[c] = "submitting" /\ Broadcast(c)
           /\ UNCHANGED <<request, waiterVars, chan, queue>>

--------------------------------------------------------------------------------
\* The chain and the event bus.

Confirm(c) ==
    /\ tx[c] = "pending"
    /\ \E o \in request[c] :
         /\ Accepts(o, chan[o.channel])
         /\ queue' = Append(queue, EventOf(c, o, chan[o.channel]))
         /\ chan' = [chan EXCEPT ![o.channel] =
                        StatusIn(EventType(o, chan[o.channel]))]
    /\ tx' = [tx EXCEPT ![c] = "confirmed"]
    /\ since' = [since EXCEPT ![c] = 0]
    /\ UNCHANGED <<callVars, waiterVars>>

Revert(c) == /\ tx[c] = "pending"
             /\ tx' = [tx EXCEPT ![c] = "reverted"]
             /\ UNCHANGED <<callVars, waiterVars, since, chan, queue>>

CounterpartyCloses(ch) ==
    /\ chan[ch] \in {"Open", "PendingToClose"}
    /\ chan' = [chan EXCEPT ![ch] = "Closed"]
    /\ queue' = Append(queue, ForeignClosed(ch))
    /\ UNCHANGED <<callVars, waiterVars, tx, since>>

\* Every waiter subscribed by now sees the event; one it matches resolves.
Publish ==
    /\ queue # <<>>
    /\ LET e == Head(queue)
           hit == {c \in Calls : waiter[c] = "waiting"
                                 /\ \E o \in request[c] : Matches(o, e)}
       IN /\ waiter' = [c \in Calls |-> IF c \in hit THEN "matched" ELSE waiter[c]]
          /\ matched' = [c \in Calls |-> IF c \in hit THEN {e} ELSE matched[c]]
    /\ queue' = Tail(queue)
    /\ UNCHANGED <<callVars, age, tx, since, chan>>

--------------------------------------------------------------------------------
\* The waiters, and time.

WaiterTimesOut(c) == /\ waiter[c] = "waiting"
                     /\ age[c] >= Timeout
                     /\ waiter' = [waiter EXCEPT ![c] = "timedout"]
                     /\ UNCHANGED <<callVars, matched, age, chainVars>>

\* The event stream ends with an error of the chain, the Left of its result.
WaiterBreaks(c) == /\ waiter[c] = "waiting"
                   /\ waiter' = [waiter EXCEPT ![c] = "broken"]
                   /\ UNCHANGED <<callVars, matched, age, chainVars>>

\* The chain owes call c an answer: to its submission, its transaction, or the
\* event of that transaction. Due when it has been owed for as long as promised.
Owed(c) == pc[c] = "submitting" \/ tx[c] = "pending" \/ Queued(c)

Due(c) == \/ pc[c] = "submitting" /\ since[c] >= SubmitBound
          \/ tx[c] = "pending" /\ since[c] >= ResolveBound
          \/ Queued(c) /\ since[c] >= PublishBound

\* The clock. A prompt chain answers what is due before time goes on.
Tick == /\ Prompt => \A c \in Calls : ~Due(c)
        /\ age' = [c \in Calls |-> IF waiter[c] = "waiting" /\ age[c] < Timeout
                                   THEN age[c] + 1 ELSE age[c]]
        /\ since' = [c \in Calls |-> IF Prompt /\ Owed(c)
                                     THEN since[c] + 1 ELSE since[c]]
        /\ UNCHANGED <<callVars, waiter, matched, tx, chan, queue>>

CallStep(c) == \/ Call(c) \/ ResolutionFails(c) \/ SpawnWaiter(c)
               \/ Submitted(c) \/ SubmitFails(c)
               \/ ReceiptArrives(c) \/ ReceiptFails(c)
               \/ AwaitEvent(c) \/ Drop(c)

ChainStep == \/ \E c \in Calls : Confirm(c) \/ Revert(c)
             \/ \E ch \in Channels : CounterpartyCloses(ch)
             \/ Publish

TimeStep == \/ \E c \in Calls : WaiterTimesOut(c) \/ WaiterBreaks(c)
            \/ Tick

Next == (\E c \in Calls : CallStep(c)) \/ ChainStep \/ TimeStep

Spec == Init /\ [][Next]_vars

\* The executor polls what is ready and the timer fires; the chain may be mute.
TimerFairness == /\ WF_vars(Tick)
                 /\ \A c \in Calls : /\ WF_vars(WaiterTimesOut(c))
                                     /\ WF_vars(AwaitEvent(c))

\* Besides, the chain answers every request and settles every transaction.
\* Nothing makes the bus publish: the waiter's timeout has to do.
ChainFairness ==
    \A c \in Calls : /\ WF_vars(ResolutionFails(c) \/ SpawnWaiter(c))
                    /\ WF_vars(Submitted(c) \/ SubmitFails(c))
                    /\ WF_vars(Confirm(c) \/ Revert(c))
                    /\ WF_vars(ReceiptArrives(c) \/ ReceiptFails(c))

TimerSpec == Spec /\ TimerFairness

--------------------------------------------------------------------------------
\* What is to be shown.

TypeOK ==
    /\ pc \in [Calls -> {"idle", "resolving", "submitting", "confirming",
                         "awaiting", "returned"}]
    /\ request \in [Calls -> SUBSET Operations]
    /\ result \in [Calls -> {"none", "ok", "left", "right", "dropped"}]
    /\ waiter \in [Calls -> {"none", "waiting", "matched", "timedout",
                             "broken", "aborted"}]
    /\ matched \in [Calls -> SUBSET Events]
    /\ age \in [Calls -> 0 .. Timeout]
    /\ tx \in [Calls -> {"none", "pending", "confirmed", "reverted"}]
    /\ since \in [Calls -> Nat]
    /\ chan \in [Channels -> Statuses]
    /\ queue \in Seq(Events)

\* No call misses its own event: as long as its waiter still waits, either its
\* transaction has not been confirmed or the event is still to be published.
\* This is why the waiter is spawned before the transaction is submitted.
NoMissedEvent == \A c \in Calls :
    tx[c] = "confirmed" /\ waiter[c] = "waiting" => Queued(c)

\* The result tells whether the operation took effect. Ok and Right (the event
\* did not come in time) are returned only after the transaction is confirmed,
\* so a caller that repeats a timed-out fund_channel funds the channel twice. An
\* error that is not the waiter's own, of a call that loses no receipts, means
\* that the transaction is not and will not be on the ledger.
ResultTellsEffect == \A c \in Calls :
    /\ result[c] \in {"ok", "right"} => tx[c] = "confirmed"
    /\ result[c] = "left" /\ waiter[c] # "broken" /\ c \notin Lossy
          => tx[c] \in {"none", "reverted"}

\* A call leaves a waiter running behind it, subscribed to the bus until its
\* timeout, only when the submission failed or its caller dropped it; a failed
\* receipt aborts the waiter.
LeftBehind == \A c \in Calls \ Lossy :
    pc[c] = "returned" /\ waiter[c] = "waiting"
        => result[c] = "dropped" \/ tx[c] = "none"

\* Why the timeout is a multiple of the typical resolution time: if the chain
\* answers, confirms and publishes within bounds that add up to less than it, no
\* call reports a timeout for a transaction that took effect.
PromptNeverTimesOut ==
    Prompt /\ SubmitBound + ResolveBound + PublishBound < Multiplier * Typical
        => \A c \in Calls : result[c] # "right"

\* close_channel_by_id returns a ChainOutput, the output of one write operation
\* with its transaction hash: the status would be the one that transaction left.
OutputOfOwnTransaction == \A c \in Calls :
    \A o \in request[c], e \in matched[c] :
        result[c] = "ok" /\ o.kind = "close" => e.by = {c}

\* The three operations implement the atomic ones.
Ledger == INSTANCE AtomicLedger WITH
    Late <- Lossy \cup Droppable,
    effect <- {c \in Calls : tx[c] = "confirmed"},
    outcome <- [c \in Calls |-> IF pc[c] = "idle" THEN "idle"
                              ELSE IF pc[c] = "returned" THEN result[c]
                              ELSE "running"]

ImplementsAtomicLedger == Ledger!ASpec

\* Once the receipt is there, a call returns without any help from the chain.
AwaitReturns == \A c \in Calls : pc[c] = "awaiting" ~> pc[c] = "returned"

\* Every call returns if the chain answers, whether or not events arrive.
CallsReturn == ChainFairness =>
    \A c \in Calls : pc[c] = "resolving" ~> pc[c] = "returned"
==============================================================================
