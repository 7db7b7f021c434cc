--------------------------- MODULE ChannelOpsProofs ---------------------------
(***************************************************************************)
(* Proofs about ChannelOps, for any number of calls, channels and amounts. *)
(*                                                                         *)
(* The inductive invariant Inv is TypeOK and, for each call, how far its   *)
(* transaction and its waiter can be at each of its awaits (Phase), that   *)
(* the event a waiter still needs is in the queue (EventAhead), and how    *)
(* long a waiter can have waited if the chain is prompt (Aged).            *)
(***************************************************************************)
EXTENDS ChannelOps, TLAPS

\* Request, transaction and waiter of a call, by the await it has reached.
Phase(c) ==
    /\ pc[c] = "idle" => request[c] = {}
    /\ pc[c] # "idle" => \E o \in Operations : request[c] = {o}
    /\ pc[c] \in {"idle", "resolving"} => waiter[c] = "none"
    /\ pc[c] \in {"idle", "resolving", "submitting"} => tx[c] = "none"
    /\ pc[c] \in {"submitting", "confirming", "awaiting"}
          => waiter[c] \notin {"none", "aborted"}
    /\ pc[c] = "confirming" => tx[c] # "none"
    /\ pc[c] = "awaiting" => tx[c] = "confirmed"
    /\ tx[c] = "pending" => pc[c] = "confirming" \/ c \in Lossy \cup Droppable
    /\ pc[c] = "returned" <=> result[c] # "none"

Told(c) ==
    /\ result[c] \in {"ok", "right"} => tx[c] = "confirmed"
    /\ result[c] = "left" /\ waiter[c] # "broken" /\ c \notin Lossy
          => tx[c] \in {"none", "reverted"}
    /\ c \notin Lossy /\ pc[c] = "returned" /\ waiter[c] = "waiting"
          => result[c] = "dropped" \/ tx[c] = "none"

\* The event a confirmed call still waits for is on its way, and will match.
EventAhead(c) ==
    tx[c] = "confirmed" /\ waiter[c] = "waiting"
        => \E i \in DOMAIN queue : /\ queue[i].by = {c}
                                   /\ \E o \in request[c] : Matches(o, queue[i])

Inv == /\ TypeOK
       /\ \A c \in Calls : Phase(c) /\ Told(c) /\ EventAhead(c)

\* What the contract emits for an operation is what its caller waits for.
LEMMA EventMatches ==
    ASSUME NEW c \in Calls, NEW o \in Operations, NEW s \in Statuses, Accepts(o, s)
    PROVE  /\ EventOf(c, o, s) \in Events
           /\ EventOf(c, o, s).by = {c}
           /\ Matches(o, EventOf(c, o, s))
           /\ StatusIn(EventType(o, s)) \in Statuses
BY DEF Operations, Statuses, Accepts, EventOf, Events, EventTypes, EventType,
       Matches, StatusIn

--------------------------------------------------------------------------------
\* The operations and the environment keep the types.
LEMMA TypeStep ==
    ASSUME TypeOK, [Next]_vars
    PROVE  TypeOK'
<1> USE DEF TypeOK
<1>1. ASSUME NEW c \in Calls, Call(c) PROVE TypeOK'
  BY <1>1 DEF Call, Goto, callVars, waiterVars, chainVars
<1>2. ASSUME NEW c \in Calls, ResolutionFails(c) PROVE TypeOK'
  BY <1>2 DEF ResolutionFails, Return, Goto, callVars, waiterVars, chainVars
<1>3. ASSUME NEW c \in Calls, SpawnWaiter(c) PROVE TypeOK'
  BY <1>3 DEF SpawnWaiter, Goto, callVars, waiterVars, chainVars
<1>4. ASSUME NEW c \in Calls, Submitted(c) PROVE TypeOK'
  BY <1>4 DEF Submitted, Goto, Broadcast, callVars, waiterVars, chainVars
<1>5. ASSUME NEW c \in Calls, SubmitFails(c) PROVE TypeOK'
  <2>1. /\ tx' \in [Calls -> {"none", "pending", "confirmed", "reverted"}]
        /\ since' \in [Calls -> Nat]
    <3>1. CASE UNCHANGED <<tx, since>>
      BY <3>1
    <3>2. CASE Broadcast(c)
      BY <3>2 DEF Broadcast
    <3> QED
      BY <1>5, <3>1, <3>2 DEF SubmitFails
  <2> QED
    BY <1>5, <2>1 DEF SubmitFails, Return, Goto, waiterVars
<1>6. ASSUME NEW c \in Calls, ReceiptArrives(c) PROVE TypeOK'
  BY <1>6 DEF ReceiptArrives, Goto, callVars, waiterVars, chainVars
<1>7. ASSUME NEW c \in Calls, ReceiptFails(c) PROVE TypeOK'
  BY <1>7 DEF ReceiptFails, Return, Goto, Abort, callVars, waiterVars, chainVars
<1>8. ASSUME NEW c \in Calls, AwaitEvent(c) PROVE TypeOK'
  BY <1>8 DEF AwaitEvent, Return, Goto, WaiterResult, callVars, waiterVars, chainVars
<1>9. ASSUME NEW c \in Calls, Drop(c) PROVE TypeOK'
  <2>1. /\ tx' \in [Calls -> {"none", "pending", "confirmed", "reverted"}]
        /\ since' \in [Calls -> Nat]
    <3>1. CASE UNCHANGED <<tx, since>>
      BY <3>1
    <3>2. CASE Broadcast(c)
      BY <3>2 DEF Broadcast
    <3> QED
      BY <1>9, <3>1, <3>2 DEF Drop
  <2> QED
    BY <1>9, <2>1 DEF Drop, waiterVars
<1>10. ASSUME NEW c \in Calls, Confirm(c) PROVE TypeOK'
  <2>1. PICK o \in request[c] : /\ Accepts(o, chan[o.channel])
                                /\ queue' = Append(queue, EventOf(c, o, chan[o.channel]))
                                /\ chan' = [chan EXCEPT ![o.channel] =
                                              StatusIn(EventType(o, chan[o.channel]))]
    BY <1>10 DEF Confirm
  <2>2. o \in Operations /\ o.channel \in Channels
    BY DEF Operations
  <2>3. EventOf(c, o, chan[o.channel]) \in Events
        /\ StatusIn(EventType(o, chan[o.channel])) \in Statuses
    BY <2>1, <2>2, EventMatches
  <2>4. queue' \in Seq(Events) /\ chan' \in [Channels -> Statuses]
    BY <2>1, <2>2, <2>3
  <2> QED
    BY <1>10, <2>4 DEF Confirm, callVars, waiterVars
<1>11. ASSUME NEW c \in Calls, Revert(c) PROVE TypeOK'
  BY <1>11 DEF Revert, callVars, waiterVars
<1>12. ASSUME NEW ch \in Channels, CounterpartyCloses(ch) PROVE TypeOK'
  <2>1. ForeignClosed(ch) \in Events
    BY DEF ForeignClosed, Events, EventTypes
  <2> QED
    BY <1>12, <2>1 DEF CounterpartyCloses, callVars, waiterVars, Statuses
<1>13. CASE Publish
  <2>1. Head(queue) \in Events /\ Tail(queue) \in Seq(Events)
    BY <1>13 DEF Publish
  <2> QED
    BY <1>13, <2>1 DEF Publish, callVars
<1>14. ASSUME NEW c \in Calls, WaiterTimesOut(c) \/ WaiterBreaks(c) PROVE TypeOK'
  BY <1>14 DEF WaiterTimesOut, WaiterBreaks, callVars, chainVars
<1>15. CASE Tick
  BY <1>15, TimingAssumption DEF Tick, Timeout, callVars
<1>16. CASE UNCHANGED vars
  BY <1>16 DEF vars
<1> QED
  BY <1>1, <1>2, <1>3, <1>4, <1>5, <1>6, <1>7, <1>8, <1>9, <1>10, <1>11, <1>12, <1>13, <1>14, <1>15, <1>16 DEF Next, CallStep, ChainStep, TimeStep

\* They keep Inv. Only the three steps of the chain that touch the queue can
\* disturb EventAhead.
LEMMA InvStep ==
    ASSUME Inv, [Next]_vars
    PROVE  Inv'
<1>1. TypeOK'
  BY TypeStep DEF Inv
<1>2. SUFFICES ASSUME NEW d \in Calls
               PROVE  Phase(d)' /\ Told(d)' /\ EventAhead(d)'
  BY <1>1 DEF Inv
<1> USE DEF Inv, TypeOK
<1>3. ASSUME NEW c \in Calls, Call(c) PROVE Phase(d)' /\ Told(d)' /\ EventAhead(d)'
  <2>1. queue' = queue
    BY <1>3 DEF Call, callVars, waiterVars, chainVars
  <2>2. Phase(d)' /\ Told(d)'
    BY <1>3 DEF Call, Goto, callVars, waiterVars, chainVars, Phase, Told
  <2>3. EventAhead(d)'
    BY <1>3, <2>1 DEF Call, Goto, callVars, waiterVars, chainVars, EventAhead, Phase
  <2> QED
    BY <2>2, <2>3
<1>4. ASSUME NEW c \in Calls, ResolutionFails(c) PROVE Phase(d)' /\ Told(d)' /\ EventAhead(d)'
  <2>1. queue' = queue
    BY <1>4 DEF ResolutionFails, callVars, waiterVars, chainVars
  <2>2. Phase(d)' /\ Told(d)'
    BY <1>4 DEF ResolutionFails, Return, Goto, callVars, waiterVars, chainVars, Phase, Told
  <2>3. EventAhead(d)'
    BY <1>4, <2>1 DEF ResolutionFails, Return, Goto, callVars, waiterVars, chainVars, EventAhead, Phase
  <2> QED
    BY <2>2, <2>3
<1>5. ASSUME NEW c \in Calls, SpawnWaiter(c) PROVE Phase(d)' /\ Told(d)' /\ EventAhead(d)'
  <2>1. queue' = queue
    BY <1>5 DEF SpawnWaiter, callVars, waiterVars, chainVars
  <2>2. Phase(d)' /\ Told(d)'
    BY <1>5 DEF SpawnWaiter, Goto, callVars, waiterVars, chainVars, Phase, Told
  <2>3. EventAhead(d)'
    BY <1>5, <2>1 DEF SpawnWaiter, Goto, callVars, waiterVars, chainVars, EventAhead, Phase
  <2> QED
    BY <2>2, <2>3
<1>6. ASSUME NEW c \in Calls, Submitted(c) PROVE Phase(d)' /\ Told(d)' /\ EventAhead(d)'
  <2>1. queue' = queue
    BY <1>6 DEF Submitted, callVars, waiterVars, chainVars
  <2>2. Phase(d)' /\ Told(d)'
    BY <1>6 DEF Submitted, Goto, Broadcast, callVars, waiterVars, chainVars, Phase, Told
  <2>3. EventAhead(d)'
    BY <1>6, <2>1 DEF Submitted, Goto, Broadcast, callVars, waiterVars, chainVars, EventAhead, Phase
  <2> QED
    BY <2>2, <2>3
<1>7. ASSUME NEW c \in Calls, SubmitFails(c) PROVE Phase(d)' /\ Told(d)' /\ EventAhead(d)'
  <2>1. queue' = queue
    BY <1>7 DEF SubmitFails, callVars, waiterVars, chainVars
  <2>2. Phase(d)' /\ Told(d)'
    BY <1>7 DEF SubmitFails, Return, Goto, Broadcast, callVars, waiterVars, chainVars, Phase, Told
  <2>3. EventAhead(d)'
    BY <1>7, <2>1, ZenonT(30) DEF SubmitFails, Return, Goto, Broadcast, callVars, waiterVars, chainVars, EventAhead, Phase
  <2> QED
    BY <2>2, <2>3
<1>8. ASSUME NEW c \in Calls, ReceiptArrives(c) PROVE Phase(d)' /\ Told(d)' /\ EventAhead(d)'
  <2>1. queue' = queue
    BY <1>8 DEF ReceiptArrives, callVars, waiterVars, chainVars
  <2>2. Phase(d)' /\ Told(d)'
    BY <1>8 DEF ReceiptArrives, Goto, callVars, waiterVars, chainVars, Phase, Told
  <2>3. EventAhead(d)'
    BY <1>8, <2>1 DEF ReceiptArrives, Goto, callVars, waiterVars, chainVars, EventAhead, Phase
  <2> QED
    BY <2>2, <2>3
<1>9. ASSUME NEW c \in Calls, ReceiptFails(c) PROVE Phase(d)' /\ Told(d)' /\ EventAhead(d)'
  <2>1. queue' = queue
    BY <1>9 DEF ReceiptFails, callVars, waiterVars, chainVars
  <2>2. Phase(d)' /\ Told(d)'
    BY <1>9 DEF ReceiptFails, Return, Goto, Abort, callVars, waiterVars, chainVars, Phase, Told
  <2>3. EventAhead(d)'
    BY <1>9, <2>1 DEF ReceiptFails, Return, Goto, Abort, callVars, waiterVars, chainVars, EventAhead, Phase
  <2> QED
    BY <2>2, <2>3
<1>10. ASSUME NEW c \in Calls, AwaitEvent(c) PROVE Phase(d)' /\ Told(d)' /\ EventAhead(d)'
  <2>1. queue' = queue
    BY <1>10 DEF AwaitEvent, callVars, waiterVars, chainVars
  <2>2. Phase(d)' /\ Told(d)'
    BY <1>10 DEF AwaitEvent, Return, Goto, WaiterResult, callVars, waiterVars, chainVars, Phase, Told
  <2>3. EventAhead(d)'
    BY <1>10, <2>1 DEF AwaitEvent, Return, Goto, WaiterResult, callVars, waiterVars, chainVars, EventAhead, Phase
  <2> QED
    BY <2>2, <2>3
<1>11. ASSUME NEW c \in Calls, Drop(c) PROVE Phase(d)' /\ Told(d)' /\ EventAhead(d)'
  <2>1. queue' = queue
    BY <1>11 DEF Drop, callVars, waiterVars, chainVars
  <2>2. Phase(d)' /\ Told(d)'
    BY <1>11 DEF Drop, Broadcast, callVars, waiterVars, chainVars, Phase, Told
  <2>3. EventAhead(d)'
    BY <1>11, <2>1 DEF Drop, Broadcast, callVars, waiterVars, chainVars, EventAhead, Phase
  <2> QED
    BY <2>2, <2>3
<1>12. ASSUME NEW c \in Calls, Revert(c) PROVE Phase(d)' /\ Told(d)' /\ EventAhead(d)'
  <2>1. queue' = queue
    BY <1>12 DEF Revert, callVars, waiterVars, chainVars
  <2>2. Phase(d)' /\ Told(d)'
    BY <1>12 DEF Revert, callVars, waiterVars, chainVars, Phase, Told
  <2>3. EventAhead(d)'
    BY <1>12, <2>1 DEF Revert, callVars, waiterVars, chainVars, EventAhead, Phase
  <2> QED
    BY <2>2, <2>3
<1>13. ASSUME NEW c \in Calls, Confirm(c) PROVE Phase(d)' /\ Told(d)' /\ EventAhead(d)'
  <2>1. PICK o \in request[c] : /\ Accepts(o, chan[o.channel])
                                /\ queue' = Append(queue, EventOf(c, o, chan[o.channel]))
    BY <1>13 DEF Confirm
  <2>2. o \in Operations /\ chan[o.channel] \in Statuses
    BY DEF Operations
  <2> DEFINE e == EventOf(c, o, chan[o.channel])
  <2>3. e \in Events /\ e.by = {c} /\ Matches(o, e)
    BY <2>1, <2>2, EventMatches
  <2>4. Phase(d)' /\ Told(d)'
    BY <1>13 DEF Confirm, callVars, waiterVars, Phase, Told
  <2> HIDE DEF e
  <2>5. /\ Len(queue') = Len(queue) + 1
        /\ queue'[Len(queue')] = e
        /\ \A i \in DOMAIN queue : i \in DOMAIN queue' /\ queue'[i] = queue[i]
        /\ Len(queue') \in DOMAIN queue'
    BY <2>1, <2>3 DEF e
  <2>6. EventAhead(d)'
    <3>1. CASE d = c
      BY <1>13, <2>3, <2>5, <3>1 DEF EventAhead, Confirm, callVars
    <3>2. CASE d # c
      BY <1>13, <2>5, <3>2 DEF EventAhead, Confirm, callVars, waiterVars
    <3> QED BY <3>1, <3>2
  <2> QED
    BY <2>4, <2>6
<1>14. ASSUME NEW ch \in Channels, CounterpartyCloses(ch) PROVE Phase(d)' /\ Told(d)' /\ EventAhead(d)'
  <2>1. ForeignClosed(ch) \in Events
    BY DEF ForeignClosed, Events, EventTypes
  <2>2. \A i \in DOMAIN queue : i \in DOMAIN queue' /\ queue'[i] = queue[i]
    BY <1>14, <2>1 DEF CounterpartyCloses
  <2> QED
    BY <1>14, <2>2 DEF CounterpartyCloses, callVars, waiterVars, Phase, Told, EventAhead
<1>15. CASE Publish
  <2>1. /\ waiter'[d] \in {waiter[d], "matched"}
        /\ waiter[d] # "waiting" => waiter'[d] = waiter[d]
        /\ waiter[d] = "waiting" /\ (\E o \in request[d] : Matches(o, queue[1]))
              => waiter'[d] = "matched"
    BY <1>15 DEF Publish
  <2>2. Phase(d)' /\ Told(d)'
    BY <1>15, <2>1 DEF Publish, callVars, Phase, Told
  <2>3. ASSUME tx'[d] = "confirmed", waiter'[d] = "waiting"
        PROVE  \E i \in DOMAIN queue' : /\ queue'[i].by = {d}
                                        /\ \E o \in request'[d] : Matches(o, queue'[i])
    <3>1. PICK i \in DOMAIN queue : /\ queue[i].by = {d}
                                    /\ \E o \in request[d] : Matches(o, queue[i])
      BY <1>15, <2>1, <2>3 DEF Publish, EventAhead
    <3>2. i # 1
      BY <2>1, <2>3, <3>1
    <3>3. i - 1 \in DOMAIN queue' /\ queue'[i - 1] = queue[i]
      BY <1>15, <3>2 DEF Publish
    <3> QED
      BY <1>15, <3>1, <3>3 DEF Publish, callVars
  <2> QED
    BY <2>2, <2>3 DEF EventAhead
<1>16. ASSUME NEW c \in Calls, WaiterTimesOut(c) \/ WaiterBreaks(c) PROVE Phase(d)' /\ Told(d)' /\ EventAhead(d)'
  <2>1. /\ waiter[d] # "waiting" => waiter'[d] = waiter[d]
        /\ waiter[d] = "waiting" => waiter'[d] \in {"waiting", "timedout", "broken"}
        /\ UNCHANGED <<pc, request, result, tx, queue>>
    BY <1>16 DEF WaiterTimesOut, WaiterBreaks, callVars, chainVars
  <2> QED
    BY <2>1 DEF Phase, Told, EventAhead
<1>17. CASE Tick
  BY <1>17 DEF Tick, callVars, Phase, Told, EventAhead
<1>18. CASE UNCHANGED vars
  BY <1>18 DEF vars, Phase, Told, EventAhead
<1> QED
  BY <1>3, <1>4, <1>5, <1>6, <1>7, <1>8, <1>9, <1>10, <1>11, <1>12, <1>13, <1>14, <1>15, <1>16, <1>17, <1>18 DEF Next, CallStep, ChainStep, TimeStep

\* The initial states satisfy the invariant: nothing is submitted or confirmed yet.
LEMMA InvInit == Init => Inv
BY TimingAssumption DEF Init, Inv, TypeOK, Timeout, Phase, Told, EventAhead

\* Type correctness: the domains of ChannelOps are those of the code's states.
THEOREM TypeCorrect == Spec => []TypeOK
<1>1. Inv => TypeOK
  BY DEF Inv
<1> QED
  BY InvInit, InvStep, <1>1, PTL DEF Spec

\* No interleaving of calls, chain and bus makes a call miss its own event.
THEOREM NoEventIsMissed == Spec => []NoMissedEvent
<1>1. Inv => NoMissedEvent
  BY DEF Inv, EventAhead, NoMissedEvent, Queued
<1> QED
  BY InvInit, InvStep, <1>1, PTL DEF Spec

\* Ok and Right always mean that the operation took effect, a Left of the chain
\* on a call that loses no receipts that it never will.
THEOREM ResultsTellEffects == Spec => []ResultTellsEffect
<1>1. Inv => ResultTellsEffect
  BY DEF Inv, Told, ResultTellsEffect
<1> QED
  BY InvInit, InvStep, <1>1, PTL DEF Spec

\* Only a failed submission or a dropped future leaves a waiter behind.
THEOREM FewWaitersAreLeft == Spec => []LeftBehind
<1>1. Inv => LeftBehind
  BY DEF Inv, Told, LeftBehind
<1> QED
  BY InvInit, InvStep, <1>1, PTL DEF Spec

--------------------------------------------------------------------------------
\* How long the waiter of c can have waited, if the chain is prompt: no longer
\* than the bounds of the answers that had to come since it was spawned. With
\* their sum below the timeout, it times out only for operations without effect.
Aged(c) ==
    /\ pc[c] \in {"idle", "resolving"} => age[c] = 0
    /\ pc[c] = "submitting" => /\ since[c] <= SubmitBound
                               /\ age[c] <= since[c]
    /\ tx[c] = "pending" => /\ since[c] <= ResolveBound
                            /\ age[c] <= SubmitBound + since[c]
    /\ Queued(c) => /\ tx[c] = "confirmed"
                    /\ since[c] <= PublishBound
                    /\ age[c] <= SubmitBound + ResolveBound + since[c]
    /\ tx[c] \in {"pending", "confirmed"} \/ pc[c] = "submitting"
          => waiter[c] # "timedout"
    /\ result[c] = "right" => waiter[c] = "timedout"

\* A further event makes only the call that caused it a queued one, and
\* publishing one makes none.
LEMMA QueuedAfterAppend ==
    ASSUME queue \in Seq(Events), NEW e \in Events, queue' = Append(queue, e),
           NEW d, e.by # {d}
    PROVE  Queued(d)' <=> Queued(d)
<1>1. /\ DOMAIN queue' = DOMAIN queue \cup {Len(queue) + 1}
      /\ \A i \in DOMAIN queue : queue'[i] = queue[i]
      /\ queue'[Len(queue) + 1] = e
  OBVIOUS
<1> QED
  BY <1>1 DEF Queued

\* Taking the head off the queue leaves the other calls' events queued.
LEMMA QueuedAfterTail ==
    ASSUME queue \in Seq(Events), queue # <<>>, queue' = Tail(queue), NEW d
    PROVE  Queued(d)' => Queued(d)
<1>1. \A i \in DOMAIN queue' : i + 1 \in DOMAIN queue /\ queue'[i] = queue[i + 1]
  OBVIOUS
<1> QED
  BY <1>1 DEF Queued

\* The timeout is a number: ages compare with it.
LEMMA TimeoutIsNat == Timeout \in Nat
BY TimingAssumption DEF Timeout

\* Each step keeps Aged, provided the bounds add up to less than the timeout.
LEMMA AgedStep ==
    ASSUME Prompt, SubmitBound + ResolveBound + PublishBound < Timeout,
           Inv, NEW d \in Calls, Aged(d), [Next]_vars
    PROVE  Aged(d)'
<1> USE TimingAssumption, TimeoutIsNat DEF Inv, TypeOK
<1>q. ASSUME queue' = queue PROVE Queued(d)' <=> Queued(d)
  BY <1>q DEF Queued
<1>1. ASSUME NEW c \in Calls, Call(c) PROVE Aged(d)'
  <2>1. Queued(d)' <=> Queued(d)
    BY <1>1, <1>q DEF Call, callVars, waiterVars, chainVars
  <2> QED
    BY <1>1, <2>1 DEF Call, Goto, callVars, waiterVars, chainVars, Phase, Aged
<1>2. ASSUME NEW c \in Calls, ResolutionFails(c) PROVE Aged(d)'
  <2>1. Queued(d)' <=> Queued(d)
    BY <1>2, <1>q DEF ResolutionFails, callVars, waiterVars, chainVars
  <2> QED
    BY <1>2, <2>1 DEF ResolutionFails, Return, Goto, callVars, waiterVars, chainVars, Phase, Aged
<1>3. ASSUME NEW c \in Calls, SpawnWaiter(c) PROVE Aged(d)'
  <2>1. Queued(d)' <=> Queued(d)
    BY <1>3, <1>q DEF SpawnWaiter, callVars, waiterVars, chainVars
  <2> QED
    BY <1>3, <2>1 DEF SpawnWaiter, Goto, callVars, waiterVars, chainVars, Phase, Aged
<1>4. ASSUME NEW c \in Calls, Submitted(c) PROVE Aged(d)'
  <2>1. Queued(d)' <=> Queued(d)
    BY <1>4, <1>q DEF Submitted, callVars, waiterVars, chainVars
  <2> QED
    BY <1>4, <2>1 DEF Submitted, Goto, Broadcast, callVars, waiterVars, chainVars, Phase, Aged
<1>5. ASSUME NEW c \in Calls, SubmitFails(c) PROVE Aged(d)'
  <2>1. Queued(d)' <=> Queued(d)
    BY <1>5, <1>q DEF SubmitFails, callVars, waiterVars, chainVars
  <2> QED
    BY <1>5, <2>1 DEF SubmitFails, Return, Goto, Broadcast, callVars, waiterVars, chainVars, Phase, Aged
<1>6. ASSUME NEW c \in Calls, ReceiptArrives(c) PROVE Aged(d)'
  <2>1. Queued(d)' <=> Queued(d)
    BY <1>6, <1>q DEF ReceiptArrives, callVars, waiterVars, chainVars
  <2> QED
    BY <1>6, <2>1 DEF ReceiptArrives, Goto, callVars, waiterVars, chainVars, Phase, Aged
<1>7. ASSUME NEW c \in Calls, ReceiptFails(c) PROVE Aged(d)'
  <2>1. Queued(d)' <=> Queued(d)
    BY <1>7, <1>q DEF ReceiptFails, callVars, waiterVars, chainVars
  <2> QED
    BY <1>7, <2>1 DEF ReceiptFails, Return, Goto, Abort, callVars, waiterVars, chainVars, Phase, Aged
<1>8. ASSUME NEW c \in Calls, AwaitEvent(c) PROVE Aged(d)'
  <2>1. Queued(d)' <=> Queued(d)
    BY <1>8, <1>q DEF AwaitEvent, callVars, waiterVars, chainVars
  <2> QED
    BY <1>8, <2>1 DEF AwaitEvent, Return, Goto, WaiterResult, callVars, waiterVars, chainVars, Phase, Aged
<1>9. ASSUME NEW c \in Calls, Drop(c) PROVE Aged(d)'
  <2>1. Queued(d)' <=> Queued(d)
    BY <1>9, <1>q DEF Drop, callVars, waiterVars, chainVars
  <2> QED
    BY <1>9, <2>1 DEF Drop, Broadcast, callVars, waiterVars, chainVars, Phase, Aged
<1>10. ASSUME NEW c \in Calls, Revert(c) PROVE Aged(d)'
  <2>1. Queued(d)' <=> Queued(d)
    BY <1>10, <1>q DEF Revert, callVars, waiterVars, chainVars
  <2> QED
    BY <1>10, <2>1 DEF Revert, callVars, waiterVars, chainVars, Phase, Aged
<1>11. ASSUME NEW c \in Calls, Confirm(c) PROVE Aged(d)'
  <2>1. PICK o \in request[c] : /\ Accepts(o, chan[o.channel])
                                /\ queue' = Append(queue, EventOf(c, o, chan[o.channel]))
    BY <1>11 DEF Confirm
  <2>2. o \in Operations /\ chan[o.channel] \in Statuses
    BY DEF Operations
  <2> DEFINE e == EventOf(c, o, chan[o.channel])
  <2>3. e \in Events /\ e.by = {c}
    BY <2>1, <2>2, EventMatches
  <2> HIDE DEF e
  <2>4. d # c => (Queued(d)' <=> Queued(d))
    BY <2>1, <2>3, QueuedAfterAppend DEF e
  <2> QED
    BY <1>11, <2>4 DEF Confirm, callVars, waiterVars, Phase, Aged
<1>12. ASSUME NEW ch \in Channels, CounterpartyCloses(ch) PROVE Aged(d)'
  <2>1. ForeignClosed(ch) \in Events /\ ForeignClosed(ch).by = {}
    BY DEF ForeignClosed, Events, EventTypes
  <2>2. Queued(d)' <=> Queued(d)
    BY <1>12, <2>1, QueuedAfterAppend DEF CounterpartyCloses
  <2> QED
    BY <1>12, <2>2 DEF CounterpartyCloses, callVars, waiterVars, Aged
<1>13. CASE Publish
  <2>1. Queued(d)' => Queued(d)
    BY <1>13, QueuedAfterTail DEF Publish
  <2>2. waiter'[d] \in {waiter[d], "matched"}
    BY <1>13 DEF Publish
  <2>3. result[d] = "right" => waiter'[d] = waiter[d]
    BY <1>13 DEF Publish, Aged
  <2> QED
    BY <1>13, <2>1, <2>2, <2>3 DEF Publish, callVars, Aged
<1>14. ASSUME NEW c \in Calls, WaiterTimesOut(c) \/ WaiterBreaks(c) PROVE Aged(d)'
  <2>1. Queued(d)' <=> Queued(d)
    BY <1>14, <1>q DEF WaiterTimesOut, WaiterBreaks, chainVars
  <2>2. EventAhead(d) /\ (tx[d] = "confirmed" /\ waiter[d] = "waiting" => Queued(d))
    BY DEF EventAhead, Queued
  <2>3. d = c /\ WaiterTimesOut(c) =>
           pc[d] # "submitting" /\ tx[d] \notin {"pending", "confirmed"}
    BY <2>2 DEF WaiterTimesOut, Aged
  <2>4. result[d] = "right" => waiter'[d] = waiter[d]
    BY <1>14 DEF WaiterTimesOut, WaiterBreaks, Aged
  <2>5. waiter'[d] = "timedout" => waiter[d] = "timedout" \/ (d = c /\ WaiterTimesOut(c))
    BY <1>14 DEF WaiterTimesOut, WaiterBreaks
  <2>6. UNCHANGED <<pc, result, age, tx, since>>
    BY <1>14 DEF WaiterTimesOut, WaiterBreaks, callVars, chainVars
  <2> QED
    BY <2>1, <2>3, <2>4, <2>5, <2>6 DEF Aged
<1>15. CASE Tick
  <2>1. Queued(d)' <=> Queued(d)
    BY <1>15, <1>q DEF Tick
  <2>2. ~Due(d) /\ age'[d] \in {age[d], age[d] + 1}
        /\ (waiter[d] = "none" => age'[d] = age[d])
        /\ (Owed(d) => since'[d] = since[d] + 1)
    BY <1>15 DEF Tick
  <2> QED
    BY <1>15, <2>1, <2>2 DEF Tick, callVars, Aged, Phase, Due, Owed
<1>16. CASE UNCHANGED vars
  <2>1. Queued(d)' <=> Queued(d)
    BY <1>16, <1>q DEF vars
  <2> QED
    BY <1>16, <2>1 DEF vars, Aged
<1> QED
  BY <1>1, <1>2, <1>3, <1>4, <1>5, <1>6, <1>7, <1>8, <1>9, <1>10, <1>11, <1>12, <1>13, <1>14, <1>15, <1>16 DEF Next, CallStep, ChainStep, TimeStep

\* A chain that answers, confirms and publishes within bounds that add up to less
\* than CHAIN_OPERATION_TIMEOUT_MULTIPLIER typical resolution times never makes an
\* operation that took effect look like a timeout.
THEOREM PromptChainsNeverTimeOut == Spec => []PromptNeverTimesOut
<1>1. CASE Prompt /\ SubmitBound + ResolveBound + PublishBound < Timeout
  <2> DEFINE J == \A c \in Calls : Aged(c)
  <2>1. Init => J
    BY TimingAssumption DEF Init, Aged, Queued
  <2>2. Inv /\ J /\ [Next]_vars => J'
    BY <1>1, AgedStep
  <2>3. Inv /\ J => PromptNeverTimesOut
    BY DEF Inv, Told, Aged, PromptNeverTimesOut
  <2> QED
    BY InvInit, InvStep, <2>1, <2>2, <2>3, PTL DEF Spec
<1>2. CASE ~(Prompt /\ SubmitBound + ResolveBound + PublishBound < Timeout)
  <2>1. PromptNeverTimesOut
    BY <1>2 DEF PromptNeverTimesOut, Timeout
  <2> QED
    BY <2>1, PTL
<1> QED
  BY <1>1, <1>2

--------------------------------------------------------------------------------
\* The refinement: which calls have taken effect, and how each has ended.

Effect == {c \in Calls : tx[c] = "confirmed"}

Outcome == [c \in Calls |-> IF pc[c] = "idle" THEN "idle"
                           ELSE IF pc[c] = "returned" THEN result[c]
                           ELSE "running"]

\* A step of a call that is neither its first nor its last, a step of a waiter,
\* of the bus or of time changes nothing that the atomic ledger has.
LEMMA InnerStep ==
    ASSUME TypeOK, NEW c \in Calls, UNCHANGED <<chan, request, result>>,
           \A d \in Calls : tx'[d] = "confirmed" <=> tx[d] = "confirmed",
           \A d \in Calls : \/ pc'[d] = pc[d]
                            \/ /\ pc[d] \notin {"idle", "returned"}
                               /\ pc'[d] \notin {"idle", "returned"}
    PROVE  UNCHANGED <<chan, request, Outcome, Effect>>
BY DEF TypeOK, Outcome, Effect

\* The last step of a call is a response of the atomic ledger.
LEMMA LastStep ==
    ASSUME TypeOK, NEW c \in Calls, NEW r \in {"ok", "left", "right", "dropped"},
           pc[c] \notin {"idle", "returned"},
           r \in {"ok", "right"} => tx[c] = "confirmed",
           pc' = [pc EXCEPT ![c] = "returned"],
           result' = [result EXCEPT ![c] = r],
           \A d \in Calls : tx'[d] = "confirmed" <=> tx[d] = "confirmed",
           UNCHANGED <<chan, request>>
    PROVE  Ledger!Respond(c)
<1>1. Effect' = Effect
  BY DEF Effect
<1>2. Outcome[c] = "running" /\ Outcome' = [Outcome EXCEPT ![c] = r]
  BY DEF TypeOK, Outcome
<1>3. r \in {"ok", "right"} => c \in Effect
  BY DEF Effect
<1> QED
  BY <1>1, <1>2, <1>3 DEF Ledger!Respond, Ledger!Outcomes, Outcome, Effect

\* Every step of the operations, the chain or time is a step of the atomic ledger or
\* changes nothing of it.
LEMMA AtomicStep ==
    ASSUME Inv, [Next]_vars
    PROVE  [Ledger!ANext]_(Ledger!avars)
<1> DEFINE Goal == [Ledger!ANext]_(Ledger!avars)
<1>r. ASSUME NEW c \in Calls, Ledger!Respond(c) PROVE Goal
  BY <1>r DEF Ledger!ANext
<1>u. ASSUME UNCHANGED <<chan, request, Outcome, Effect>> PROVE Goal
  BY <1>u DEF Ledger!avars, Outcome, Effect
<1> HIDE DEF Goal
<1> USE DEF Inv, TypeOK
<1>1. ASSUME NEW c \in Calls, Call(c) PROVE Goal
  <2>1. Outcome[c] = "idle" /\ Outcome' = [Outcome EXCEPT ![c] = "running"]
    BY <1>1 DEF Call, Goto, Outcome
  <2>2. Effect' = Effect
    BY <1>1 DEF Call, chainVars, Effect
  <2>3. Ledger!Invoke(c)
    BY <1>1, <2>1, <2>2 DEF Call, chainVars, Ledger!Invoke, Ledger!Operations,
                             Operations, Outcome, Effect
  <2> QED
    BY <2>3 DEF Goal, Ledger!ANext
<1>2. ASSUME NEW c \in Calls, ResolutionFails(c) PROVE Goal
  <2>1. \A d \in Calls : tx'[d] = "confirmed" <=> tx[d] = "confirmed"
    BY <1>2 DEF ResolutionFails, chainVars
  <2>3. /\ pc[c] \notin {"idle", "returned"}
        /\ pc' = [pc EXCEPT ![c] = "returned"]
        /\ result' = [result EXCEPT ![c] = "left"]
        /\ UNCHANGED <<chan, request>>
    BY <1>2 DEF ResolutionFails, Return, Goto, chainVars
  <2>4. Ledger!Respond(c)
    BY <2>1, <2>3, LastStep
  <2> QED
    BY <1>r, <2>4
<1>3. ASSUME NEW c \in Calls, SubmitFails(c) PROVE Goal
  <2>1. \A d \in Calls : tx'[d] = "confirmed" <=> tx[d] = "confirmed"
    <3>1. CASE UNCHANGED <<tx, since>>
      BY <3>1
    <3>2. CASE pc[c] = "submitting" /\ Broadcast(c)
      BY <3>2 DEF Broadcast, Phase
    <3> QED
      BY <1>3, <3>1, <3>2 DEF SubmitFails, Return, Goto
  <2>3. /\ pc[c] \notin {"idle", "returned"}
        /\ pc' = [pc EXCEPT ![c] = "returned"]
        /\ result' = [result EXCEPT ![c] = "left"]
        /\ UNCHANGED <<chan, request>>
    BY <1>3 DEF SubmitFails, Return, Goto, chainVars
  <2>4. Ledger!Respond(c)
    BY <2>1, <2>3, LastStep
  <2> QED
    BY <1>r, <2>4
<1>4. ASSUME NEW c \in Calls, ReceiptFails(c) PROVE Goal
  <2>1. \A d \in Calls : tx'[d] = "confirmed" <=> tx[d] = "confirmed"
    BY <1>4 DEF ReceiptFails, chainVars
  <2>3. /\ pc[c] \notin {"idle", "returned"}
        /\ pc' = [pc EXCEPT ![c] = "returned"]
        /\ result' = [result EXCEPT ![c] = "left"]
        /\ UNCHANGED <<chan, request>>
    BY <1>4 DEF ReceiptFails, Return, Goto, chainVars
  <2>4. Ledger!Respond(c)
    BY <2>1, <2>3, LastStep
  <2> QED
    BY <1>r, <2>4
<1>5. ASSUME NEW c \in Calls, AwaitEvent(c) PROVE Goal
  <2>1. \A d \in Calls : tx'[d] = "confirmed" <=> tx[d] = "confirmed"
    BY <1>5 DEF AwaitEvent, chainVars
  <2>2. WaiterResult(waiter[c]) \in {"ok", "left", "right"} /\ tx[c] = "confirmed"
    BY <1>5 DEF AwaitEvent, Return, Goto, WaiterResult, Phase
  <2>3. /\ pc[c] \notin {"idle", "returned"}
        /\ pc' = [pc EXCEPT ![c] = "returned"]
        /\ result' = [result EXCEPT ![c] = WaiterResult(waiter[c])]
        /\ UNCHANGED <<chan, request>>
    BY <1>5 DEF AwaitEvent, Return, Goto, chainVars
  <2>4. Ledger!Respond(c)
    BY <2>1, <2>2, <2>3, LastStep
  <2> QED
    BY <1>r, <2>4
<1>6. ASSUME NEW c \in Calls, Drop(c) PROVE Goal
  <2>1. \A d \in Calls : tx'[d] = "confirmed" <=> tx[d] = "confirmed"
    <3>1. CASE UNCHANGED <<tx, since>>
      BY <3>1
    <3>2. CASE pc[c] = "submitting" /\ Broadcast(c)
      BY <3>2 DEF Broadcast, Phase
    <3> QED
      BY <1>6, <3>1, <3>2 DEF Drop, Return, Goto
  <2>3. /\ pc[c] \notin {"idle", "returned"}
        /\ pc' = [pc EXCEPT ![c] = "returned"]
        /\ result' = [result EXCEPT ![c] = "dropped"]
        /\ UNCHANGED <<chan, request>>
    BY <1>6 DEF Drop, chainVars
  <2>4. Ledger!Respond(c)
    BY <2>1, <2>3, LastStep
  <2> QED
    BY <1>r, <2>4
<1>7. ASSUME NEW c \in Calls, SpawnWaiter(c) PROVE Goal
  <2>1. /\ UNCHANGED <<chan, request, result>>
        /\ \A d \in Calls : tx'[d] = "confirmed" <=> tx[d] = "confirmed"
        /\ \A d \in Calls : \/ pc'[d] = pc[d]
                             \/ /\ pc[d] \notin {"idle", "returned"}
                                /\ pc'[d] \notin {"idle", "returned"}
    BY <1>7 DEF SpawnWaiter, Goto, callVars, waiterVars, chainVars, Phase
  <2> QED
    BY <2>1, <1>u, InnerStep
<1>8. ASSUME NEW c \in Calls, Submitted(c) PROVE Goal
  <2>1. /\ UNCHANGED <<chan, request, result>>
        /\ \A d \in Calls : tx'[d] = "confirmed" <=> tx[d] = "confirmed"
        /\ \A d \in Calls : \/ pc'[d] = pc[d]
                             \/ /\ pc[d] \notin {"idle", "returned"}
                                /\ pc'[d] \notin {"idle", "returned"}
    BY <1>8 DEF Submitted, Goto, Broadcast, callVars, waiterVars, chainVars, Phase
  <2> QED
    BY <2>1, <1>u, InnerStep
<1>9. ASSUME NEW c \in Calls, ReceiptArrives(c) PROVE Goal
  <2>1. /\ UNCHANGED <<chan, request, result>>
        /\ \A d \in Calls : tx'[d] = "confirmed" <=> tx[d] = "confirmed"
        /\ \A d \in Calls : \/ pc'[d] = pc[d]
                             \/ /\ pc[d] \notin {"idle", "returned"}
                                /\ pc'[d] \notin {"idle", "returned"}
    BY <1>9 DEF ReceiptArrives, Goto, callVars, waiterVars, chainVars, Phase
  <2> QED
    BY <2>1, <1>u, InnerStep
<1>10. ASSUME NEW c \in Calls, Revert(c) PROVE Goal
  <2>1. /\ UNCHANGED <<chan, request, result>>
        /\ \A d \in Calls : tx'[d] = "confirmed" <=> tx[d] = "confirmed"
        /\ \A d \in Calls : \/ pc'[d] = pc[d]
                             \/ /\ pc[d] \notin {"idle", "returned"}
                                /\ pc'[d] \notin {"idle", "returned"}
    BY <1>10 DEF Revert, callVars, waiterVars, chainVars, Phase
  <2> QED
    BY <2>1, <1>u, InnerStep
<1>11. ASSUME NEW c \in Calls, WaiterTimesOut(c) PROVE Goal
  <2>1. /\ UNCHANGED <<chan, request, result>>
        /\ \A d \in Calls : tx'[d] = "confirmed" <=> tx[d] = "confirmed"
        /\ \A d \in Calls : \/ pc'[d] = pc[d]
                             \/ /\ pc[d] \notin {"idle", "returned"}
                                /\ pc'[d] \notin {"idle", "returned"}
    BY <1>11 DEF WaiterTimesOut, callVars, waiterVars, chainVars, Phase
  <2> QED
    BY <2>1, <1>u, InnerStep
<1>12. ASSUME NEW c \in Calls, WaiterBreaks(c) PROVE Goal
  <2>1. /\ UNCHANGED <<chan, request, result>>
        /\ \A d \in Calls : tx'[d] = "confirmed" <=> tx[d] = "confirmed"
        /\ \A d \in Calls : \/ pc'[d] = pc[d]
                             \/ /\ pc[d] \notin {"idle", "returned"}
                                /\ pc'[d] \notin {"idle", "returned"}
    BY <1>12 DEF WaiterBreaks, callVars, waiterVars, chainVars, Phase
  <2> QED
    BY <2>1, <1>u, InnerStep
<1>13. ASSUME NEW c \in Calls, Confirm(c) PROVE Goal
  <2>1. /\ Outcome' = Outcome
        /\ \/ Outcome[c] = "running"
           \/ c \in Lossy \cup Droppable /\ Outcome[c] \in {"left", "dropped"}
    BY <1>13 DEF Confirm, callVars, Outcome, Phase, Told
  <2>2. c \notin Effect /\ Effect' = Effect \cup {c}
    BY <1>13 DEF Confirm, Effect
  <2>3. Ledger!TakeEffect(c)
    BY <1>13, <2>1, <2>2 DEF Confirm, callVars, Ledger!TakeEffect, Outcome, Effect,
          Accepts, Ledger!Accepts, StatusIn, Ledger!StatusIn, EventType, Ledger!EventType
  <2> QED
    BY <2>3 DEF Goal, Ledger!ANext
<1>14. ASSUME NEW ch \in Channels, CounterpartyCloses(ch) PROVE Goal
  <2>1. Ledger!CounterpartyCloses(ch)
    BY <1>14 DEF CounterpartyCloses, callVars, Ledger!CounterpartyCloses
  <2> QED
    BY <2>1 DEF Goal, Ledger!ANext
<1>15. ASSUME Publish \/ Tick \/ UNCHANGED vars PROVE Goal
  <2>1. UNCHANGED <<chan, request, pc, result, tx>>
    BY <1>15 DEF Publish, Tick, vars, callVars
  <2>2. UNCHANGED <<chan, request, Outcome, Effect>>
    BY <2>1 DEF Outcome, Effect
  <2> QED
    BY <2>2, <1>u
<1> QED
  BY <1>1, <1>2, <1>3, <1>4, <1>5, <1>6, <1>7, <1>8, <1>9, <1>10, <1>11, <1>12, <1>13, <1>14, <1>15
     DEF Goal, Next, CallStep, ChainStep, TimeStep

\* Waiters, receipts and timeouts implement the atomic ledger: an operation takes
\* effect at most once, between the call and its return unless its receipt is lost
\* or its future dropped, and Ok or Right come after the effect.
THEOREM ChannelOpsRefinesLedger == Spec => ImplementsAtomicLedger
<1>1. Init => Ledger!AInit
  BY DEF Init, Ledger!AInit, Statuses, Ledger!Statuses
<1> QED
  BY <1>1, InvInit, InvStep, AtomicStep, PTL
     DEF Spec, ImplementsAtomicLedger, Ledger!ASpec
================================================================================
