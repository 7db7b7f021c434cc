----------------------------- MODULE DepositBatch ------------------------------
(***************************************************************************)
(* The batch operations that DepositPool (src/src/chain/deposit_pool.rs)   *)
(* provides: deposit_funds_to_multiple, withdraw_multiple_deposits and     *)
(* pool_transfer_multiple. Each builds one future per item and awaits them *)
(* all with join_all: the single operations run concurrently, and the      *)
(* batch returns one outcome per item once the last of them has ended.     *)
(*                                                                         *)
(* The single operations are external, modelled from their contract: one   *)
(* moves funds and answers with a receipt, or answers with an error and    *)
(* moves nothing. A withdrawal or transfer of a batch moves all that the   *)
(* allocation then holds. Batches overlap and can name an allocation twice.*)
(*                                                                         *)
(* A pool can override a batch with one of its own, which may leave items  *)
(* out and answer in any order. That of the ReorderingPool in the tests    *)
(* skips the first deposit and reverses the outcomes.                      *)
(*                                                                         *)
(* The trait leaves retries to the pool, but a caller has to be able to    *)
(* tell from the outcomes which items are still to be done: here it calls  *)
(* again for the allocations of a batch that no outcome names.             *)
(***************************************************************************)
EXTENDS Naturals, FiniteSetsExt, SequencesExt

CONSTANTS Ids,      \* allocations, PixAddressId
          Batches,  \* calls of the batch operations
          Native,   \* those of a pool with a deposit batch of its own
          Requests, \* what they are called with
          MaxItems, \* bound on the items of a batch
          Funds,    \* initially in the node's Safe
          Initial   \* and on each allocation

ASSUME DepositAssumption ==
    /\ IsFiniteSet(Ids) /\ IsFiniteSet(Batches) /\ Native \subseteq Batches
    /\ Funds \in Nat /\ Initial \in [Ids -> Nat] /\ MaxItems \in Nat
    /\ Requests \subseteq [kind : {"deposit", "withdraw", "transfer"}, to : Ids,
                           items : Seq([id : Ids, amount : Nat])]
    /\ \A q \in Requests : Len(q.items) <= MaxItems

VARIABLES safe,    \* funds in the node's Safe
          held,    \* funds of each allocation
          out,     \* funds withdrawn to Ethereum addresses
          phase,   \* of each batch: "idle", "running", "returned", "dropped"
          request, \* what it was called with, an Option
          retryOf, \* the batch whose items it repeats, an Option
          op,      \* its single operations, in the order of its items
          outcome  \* what it returned

poolVars == <<safe, held, out>>
vars == <<safe, held, out, phase, request, retryOf, op, outcome>>

Op(state, amount) == [state |-> state, amount |-> amount]

Init == /\ safe = Funds
        /\ held = Initial
        /\ out = 0
        /\ phase = [b \in Batches |-> "idle"]
        /\ request = [b \in Batches |-> {}]
        /\ retryOf = [b \in Batches |-> {}]
        /\ op = [b \in Batches |-> <<>>]
        /\ outcome = [b \in Batches |-> <<>>]

--------------------------------------------------------------------------------
\* The batch.

IsNative(b, q) == b \in Native /\ q.kind = "deposit"

\* The first poll of join_all starts all the operations.
Call(b, q, c) ==
    /\ phase[b] = "idle"
    /\ phase' = [phase EXCEPT ![b] = "running"]
    /\ request' = [request EXCEPT ![b] = {q}]
    /\ retryOf' = [retryOf EXCEPT ![b] = c]
    /\ op' = [op EXCEPT ![b] = [i \in DOMAIN q.items |->
                 Op(IF IsNative(b, q) /\ i = 1 THEN "skipped" ELSE "sent", 0)]]
    /\ UNCHANGED <<poolVars, outcome>>

Start(b, q) == q \in Requests /\ Call(b, q, {})

Named(c) == UNION {outcome[c][i].id : i \in DOMAIN outcome[c]}

\* What is left of request q of batch c, as its caller can tell.
Left(c, q) == {i \in DOMAIN q.items : q.items[i].id \notin Named(c)}

\* A set of positions in their order (the only member).
InOrder(S) == {f \in [1 .. Cardinality(S) -> S] : \A m, n \in DOMAIN f : m < n => f[m] < f[n]}

Unfinished(c) ==
    UNION {{[q EXCEPT !.items = [n \in DOMAIN f |-> q.items[f[n]]]] : f \in InOrder(Left(c, q))} :
              q \in request[c]}

\* The caller repeats, once, what a batch has not done.
Retry(b, c) == /\ phase[c] = "returned"
               /\ \A d \in Batches : c \notin retryOf[d]
               /\ \E q \in Unfinished(c) : q.items # <<>> /\ Call(b, q, {c})

Answered(b, i) == op[b][i].state \in {"ok", "failed"}

\* The answer of the operation reaches its future.
Answer(b, i) ==
    /\ phase[b] = "running" /\ i \in DOMAIN op[b]
    /\ op[b][i].state \in {"moved", "refused"}
    /\ op' = [op EXCEPT ![b][i].state = IF @ = "moved" THEN "ok" ELSE "failed"]
    /\ UNCHANGED <<poolVars, phase, request, retryOf, outcome>>

\* Flawed variant: the destination is named, which all the items share.
FlawedOutcome(q, i, o) ==
    IF o.state = "ok" THEN [id |-> {q.to}, receipt |-> o.amount]
                      ELSE [id |-> {}, receipt |-> 0]

\* A receipt goes with the allocation of its item; an error names none.
Outcome(q, i, o) ==
    IF o.state = "ok" THEN [id |-> {q.items[i].id}, receipt |-> o.amount]
                      ELSE [id |-> {}, receipt |-> 0]

AllOutcomes(b, q) == [i \in DOMAIN op[b] |-> Outcome(q, i, op[b][i])]

\* Flawed variant: what a native batch answers is named after the items in their order.
FlawedOutcomes(b, q) ==
    LET answer == Reverse(SubSeq(AllOutcomes(b, q), 2, Len(op[b])))
    IN IF IsNative(b, q)
       THEN [k \in DOMAIN answer |-> IF answer[k].id = {} THEN answer[k]
                                     ELSE [answer[k] EXCEPT !.id = {q.items[k].id}]]
       ELSE AllOutcomes(b, q)

\* join_all keeps the order of the items.
Outcomes(b, q) == IF IsNative(b, q) THEN Reverse(SubSeq(AllOutcomes(b, q), 2, Len(op[b])))
                  ELSE AllOutcomes(b, q)

Ended(b, i) == Answered(b, i) \/ op[b][i].state = "skipped"

Finish(b) ==
    /\ phase' = [phase EXCEPT ![b] = "returned"]
    /\ \E q \in request[b] : outcome' = [outcome EXCEPT ![b] = Outcomes(b, q)]
    /\ UNCHANGED <<poolVars, request, retryOf, op>>

\* Flawed variants: the first error ends the batch (try_join_all), or the batch
\* waits until all operations have succeeded.
FlawedReturnEarly(b) ==
    /\ phase[b] = "running"
    /\ \/ \A i \in DOMAIN op[b] : Ended(b, i)
       \/ \E i \in DOMAIN op[b] : op[b][i].state = "failed"
    /\ Finish(b)

FlawedReturnLate(b) ==
    /\ phase[b] = "running"
    /\ \A i \in DOMAIN op[b] : op[b][i].state \in {"ok", "skipped"}
    /\ Finish(b)

Return(b) == /\ phase[b] = "running"
             /\ \A i \in DOMAIN op[b] : Ended(b, i)
             /\ Finish(b)

\* The caller drops the future, and with it the receipts that have come in.
Drop(b) == /\ phase[b] = "running"
           /\ phase' = [phase EXCEPT ![b] = "dropped"]
           /\ UNCHANGED <<poolVars, request, retryOf, op, outcome>>

--------------------------------------------------------------------------------
\* The pool. It also goes on with what a dropped batch has sent.

Sent(b, i) == i \in DOMAIN op[b] /\ op[b][i].state = "sent"

Moved(b, i, amount) == op' = [op EXCEPT ![b][i] = Op("moved", amount)]

\* Flawed variant: does not look at what the Safe has.
flawed_deposit_funds_to(b, i) == \E q \in request[b] :
    /\ q.kind = "deposit"
    /\ Sent(b, i)
    /\ LET item == q.items[i]
       IN /\ safe' = safe - item.amount
          /\ held' = [held EXCEPT ![item.id] = @ + item.amount]
          /\ Moved(b, i, item.amount)
    /\ UNCHANGED <<out, phase, request, retryOf, outcome>>

deposit_funds_to(b, i) == \E q \in request[b] :
    /\ q.kind = "deposit"
    /\ Sent(b, i)
    /\ LET item == q.items[i]
       IN /\ item.amount <= safe
          /\ safe' = safe - item.amount
          /\ held' = [held EXCEPT ![item.id] = @ + item.amount]
          /\ Moved(b, i, item.amount)
    /\ UNCHANGED <<out, phase, request, retryOf, outcome>>

withdraw_deposit(b, i) == \E q \in request[b] :
    /\ q.kind = "withdraw"
    /\ Sent(b, i)
    /\ LET id == q.items[i].id
       IN /\ held[id] > 0
          /\ out' = out + held[id]
          /\ held' = [held EXCEPT ![id] = 0]
          /\ Moved(b, i, held[id])
    /\ UNCHANGED <<safe, phase, request, retryOf, outcome>>

pool_transfer(b, i) == \E q \in request[b] :
    /\ q.kind = "transfer"
    /\ Sent(b, i)
    /\ LET id == q.items[i].id
       IN /\ held[id] > 0
          /\ held' = [a \in Ids |-> held[a] + (IF a = q.to THEN held[id] ELSE 0)
                                            - (IF a = id THEN held[id] ELSE 0)]
          /\ Moved(b, i, held[id])
    /\ UNCHANGED <<safe, out, phase, request, retryOf, outcome>>

Refuse(b, i) == /\ Sent(b, i)
                /\ op' = [op EXCEPT ![b][i] = Op("refused", 0)]
                /\ UNCHANGED <<poolVars, phase, request, retryOf, outcome>>

Moves(b, i) == deposit_funds_to(b, i) \/ withdraw_deposit(b, i) \/ pool_transfer(b, i)

BatchStep(b) == \/ Return(b) \/ Drop(b)
                \/ \E c \in Batches : Retry(b, c)
                \/ \E i \in 1 .. MaxItems : Answer(b, i)

PoolStep(b, i) == Moves(b, i) \/ Refuse(b, i)

Next == \E b \in Batches : \/ \E q \in Requests : Start(b, q)
                           \/ BatchStep(b)
                           \/ \E i \in 1 .. MaxItems : PoolStep(b, i)

Spec == Init /\ [][Next]_vars

\* The pool answers every operation, and the batch is polled when it does.
Fairness == \A b \in Batches :
    /\ WF_vars(Return(b))
    /\ \A i \in 1 .. MaxItems : WF_vars(PoolStep(b, i)) /\ WF_vars(Answer(b, i))

FairSpec == Spec /\ Fairness

--------------------------------------------------------------------------------
\* What is to be shown.

\* All of a request, or some of its items.
IsPart(q) == \E r \in Requests : /\ q = [r EXCEPT !.items = q.items]
                                 /\ ToSet(q.items) \subseteq ToSet(r.items)

TypeOK ==
    /\ safe \in Nat /\ out \in Nat /\ held \in [Ids -> Nat]
    /\ phase \in [Batches -> {"idle", "running", "returned", "dropped"}]
    /\ \A b \in Batches : \A q \in request[b] : IsPart(q)
    /\ retryOf \in [Batches -> SUBSET Batches]
    /\ op \in [Batches -> Seq([state : {"skipped", "sent", "moved", "refused", "ok", "failed"},
                               amount : Nat])]
    /\ outcome \in [Batches -> Seq([id : SUBSET Ids, receipt : Nat])]

\* What batch b has moved to allocation id from the Safe.
DepositedBy(b, id) ==
    LET of == {i \in DOMAIN op[b] :
                  \E q \in request[b] : q.kind = "deposit" /\ q.items[i].id = id}
    IN SumFunction([i \in of |-> op[b][i].amount])

\* The sum of the receipts for allocation id in returned batches of a kind, to the
\* given destinations.
ReceiptsOf(b, id) ==
    SumFunction([i \in {j \in DOMAIN outcome[b] : id \in outcome[b][j].id} |->
                    outcome[b][i].receipt])

Receipts(id, kind, to) ==
    SumFunction([b \in {c \in Batches : \E q \in request[c] : q.kind = kind /\ q.to \in to} |->
                    ReceiptsOf(b, id)])

\* No receipt is lost and none names the wrong allocation: what every allocation
\* holds is what the receipts say once all batches have returned, whichever of
\* their operations failed and however they overlapped.
ReceiptsAccountForFunds ==
    (\A b \in Batches : phase[b] \in {"idle", "returned"}) =>
        \A id \in Ids :
            held[id] + Receipts(id, "withdraw", Ids) + Receipts(id, "transfer", Ids)
                = Initial[id] + Receipts(id, "deposit", Ids)
                  + SumFunction([a \in Ids |-> Receipts(a, "transfer", {id})])

\* A batch and the retries of it, and of these: the least set that has them.
Family(b) ==
    LET hasRetries(S) == \A c \in Batches : retryOf[c] \cap S # {} => c \in S
    IN {c \in Batches : \A S \in SUBSET Batches : b \in S /\ hasRetries(S) => c \in S}

\* Retrying what no outcome names never deposits twice: the batch and its retries
\* move no more to an allocation than was asked for, even if the pool answers in
\* another order and leaves items out.
DepositedOnce == \A b \in Batches, id \in Ids : \A q \in request[b] :
    q.kind = "deposit" =>
        SumFunction([c \in Family(b) |-> DepositedBy(c, id)])
            <= SumFunction([i \in {j \in DOMAIN q.items : q.items[j].id = id} |->
                               q.items[i].amount])

\* Once a batch has returned, it moves no more funds: its caller can act on the
\* outcomes. A dropped batch still can.
ReturnedIsFinal == [][\A b \in Batches :
    phase[b] = "returned" => \A i \in 1 .. MaxItems : ~Moves(b, i)]_vars

\* Every batch returns, also when operations fail, as long as its caller waits.
BatchesReturn == \A b \in Batches :
    phase[b] = "running" ~> phase[b] \in {"returned", "dropped"}
================================================================================
