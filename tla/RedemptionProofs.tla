---------------------------- MODULE RedemptionProofs ---------------------------
(***************************************************************************)
(* Proofs about Redemption, for any channels, calls, requests, tickets and *)
(* times: what a call reports is what became of the tickets, a call that   *)
(* returns Ok has drained the queues it opened, and it redeems in all the  *)
(* channels that it is documented to; the node's own calls in no others.   *)
(***************************************************************************)
EXTENDS RedemptionQueries, SequenceTheorems, TLAPS

--------------------------------------------------------------------------------
(* Queues. *)

Elements(q) == {q[i] : i \in DOMAIN q}

Ascending(q) == \A i, j \in DOMAIN q : i < j => q[i].index < q[j].index

\* What is left of a queue of which the first n tickets are gone: neither these nor
\* anything that was not there.
LEMMA SuffixOfQueue ==
    ASSUME NEW q \in Seq(Tickets), Ascending(q), NEW n \in 1 .. Len(q),
           NEW s, s = SubSeq(q, n + 1, Len(q))
    PROVE  /\ s \in Seq(Tickets) /\ Ascending(s)
           /\ Elements(s) \subseteq Elements(q)
           /\ \A i \in 1 .. n : q[i] \notin Elements(s)
<1>1. /\ s \in Seq(Tickets)
      /\ Len(s) = Len(q) - n
      /\ \A i \in 1 .. Len(q) - n : s[i] = q[n + i]
  <2>1. \A i \in n + 1 .. Len(q) : q[i] \in Tickets
    BY ElementOfSeq, LenProperties
  <2>2. /\ SubSeq(q, n + 1, Len(q)) \in Seq(Tickets)
        /\ Len(SubSeq(q, n + 1, Len(q))) = IF n + 1 <= Len(q) THEN Len(q) - (n + 1) + 1 ELSE 0
        /\ \A i \in 1 .. Len(q) - (n + 1) + 1 : SubSeq(q, n + 1, Len(q))[i] = q[n + 1 + i - 1]
    BY <2>1, LenProperties, SubSeqProperties
  <2> QED
    BY <2>2, LenProperties
<1>2. DOMAIN s = 1 .. Len(q) - n /\ DOMAIN q = 1 .. Len(q) /\ Len(q) \in Nat
  BY <1>1, LenProperties
<1>3. \A i \in DOMAIN s : n + i \in DOMAIN q /\ s[i] = q[n + i]
  <2> SUFFICES ASSUME NEW i \in 1 .. Len(q) - n PROVE n + i \in 1 .. Len(q)
    BY <1>1, <1>2, Zenon
  <2> QED
    BY <1>2
<1>4. Ascending(s)
  <2> SUFFICES ASSUME NEW i \in DOMAIN s, NEW j \in DOMAIN s, i < j
               PROVE  s[i].index < s[j].index
    BY DEF Ascending
  <2>1. n + i < n + j
    BY <1>2
  <2> QED
    BY <1>3, <2>1 DEF Ascending
<1>5. Elements(s) \subseteq Elements(q)
  BY <1>3 DEF Elements
<1>6. \A i \in 1 .. n : q[i] \notin Elements(s)
  <2> SUFFICES ASSUME NEW i \in 1 .. n, NEW j \in DOMAIN s, q[i] = s[j] PROVE FALSE
    BY DEF Elements
  <2>1. i \in DOMAIN q /\ i < n + j
    BY <1>2
  <2>2. q[i].index < q[n + j].index
    BY <1>3, <2>1 DEF Ascending
  <2>3. q[i] \in Tickets
    BY <1>2, <2>1, ElementOfSeq
  <2>4. q[i].index \in Int
    <3>1. \A t \in Tickets : t.index \in 1 .. MaxIndex
      BY DEF Tickets
    <3> QED
      BY <2>3, <3>1
  <2> QED
    BY <1>3, <2>2, <2>4
<1> QED
  BY <1>1, <1>4, <1>5, <1>6

LEMMA TailOfQueue ==
    ASSUME NEW q \in Seq(Tickets), Ascending(q), q # <<>>
    PROVE  /\ Tail(q) \in Seq(Tickets) /\ Ascending(Tail(q))
           /\ Elements(Tail(q)) \subseteq Elements(q)
           /\ Head(q) \in Elements(q) /\ Head(q) \notin Elements(Tail(q))
<1>1. Len(q) \in Nat \ {0} /\ DOMAIN q = 1 .. Len(q) /\ 1 \in 1 .. Len(q)
  BY EmptySeq, LenProperties
<1>2. Tail(q) = SubSeq(q, 1 + 1, Len(q)) /\ Head(q) = q[1]
  BY TailIsSubSeq
<1>3. /\ Tail(q) \in Seq(Tickets) /\ Ascending(Tail(q))
      /\ Elements(Tail(q)) \subseteq Elements(q)
      /\ \A i \in 1 .. 1 : q[i] \notin Elements(Tail(q))
  BY <1>1, <1>2, SuffixOfQueue
<1> QED
  BY <1>1, <1>2, <1>3 DEF Elements

\* A ticket that comes in goes behind the others, with the next index.
LEMMA AppendToQueue ==
    ASSUME NEW q \in Seq(Tickets), Ascending(q), NEW t \in Tickets,
           \A u \in Elements(q) : u.index < t.index
    PROVE  /\ Append(q, t) \in Seq(Tickets) /\ Ascending(Append(q, t))
           /\ Elements(Append(q, t)) = Elements(q) \cup {t}
           /\ q # <<>> => Append(q, t) # <<>> /\ Head(Append(q, t)) = Head(q)
<1>1. /\ Append(q, t) \in Seq(Tickets)
      /\ Append(q, t) # <<>>
      /\ Len(Append(q, t)) = Len(q) + 1
      /\ \A i \in 1 .. Len(q) : Append(q, t)[i] = q[i]
      /\ Append(q, t)[Len(q) + 1] = t
  BY AppendProperties
<1>2. /\ Len(q) \in Nat /\ DOMAIN q = 1 .. Len(q)
      /\ DOMAIN Append(q, t) = 1 .. Len(q) + 1
  BY <1>1, LenProperties
<1>3. \A i \in 1 .. Len(q) : q[i] \in Elements(q)
  BY <1>2 DEF Elements
<1>4. Ascending(Append(q, t))
  BY <1>1, <1>2, <1>3 DEF Ascending
<1>5. Elements(Append(q, t)) = Elements(q) \cup {t}
  BY <1>1, <1>2 DEF Elements
<1>6. q # <<>> => Head(Append(q, t)) = Head(q)
  BY HeadTailAppend
<1> QED
  BY <1>1, <1>4, <1>5, <1>6

--------------------------------------------------------------------------------
(* The invariant. *)

\* A queue holds tickets of its channel in the order they came in; the redemption
\* under way in it is of the first of them.
QueuesInOrder == \A ch \in Ids :
    /\ Ascending(queue[ch])
    /\ \A t \in InQueue(ch) : t.channel = ch /\ t.index <= issued[ch]
    /\ \A a, b \in attempt[ch] : a = b
    /\ \A a \in attempt[ch] : queue[ch] # <<>> /\ a.ticket = Head(queue[ch])

Reported(t) == \E r \in Redeemers : \E x \in results[r] : x.ticket = t

\* Tickets that are known to anybody came in: the next one that does is none of them.
AllCameIn == \A t \in Tickets :
    Reported(t) \/ t \in orphans \/ t \in paid \/ (\E r \in Redeemers : t \in found[r])
        => t.index <= issued[t.channel]

Failed == \E s \in Redeemers : pc[s] = "right"

Gone(t) == t \notin InQueue(t.channel)

\* The redemption of a ticket that is still queued is one that a stream waits for, as
\* long as no call has failed: neglected tickets are out of the queue.
ChainKnown ==
    /\ \A ch \in Ids : \A a \in attempt[ch] : a.state = "Redeemed" => a.ticket \in paid
    /\ ~Failed =>
          /\ \A t \in orphans : Gone(t) /\ ~Reported(t)
          /\ \A t \in paid :
                \/ \E a \in attempt[t.channel] : a.ticket = t /\ a.state = "Redeemed"
                \/ /\ Gone(t)
                   /\ \A r \in Redeemers : \A x \in results[r] :
                         x.ticket = t => x.kind = "Redeemed"

\* ReportsAreTrue but for the last conjunct, which follows with ChainKnown.
ReportsOnce == \A r \in Redeemers : \A x \in results[r] :
    /\ \A s \in Redeemers : \A y \in results[s] : x.ticket = y.ticket => r = s /\ x = y
    /\ Gone(x.ticket)
    /\ x.kind = "Redeemed" => x.ticket \in paid
    /\ x.kind = "ValueTooLow" => x.ticket.value < minimum[r]

\* A call that has found tickets in a queue keeps its stream until they are gone.
StreamsKept == \A r \in Redeemers :
    /\ pc[r] = "idle" => results[r] = {} /\ found[r] = {}
    /\ pc[r] = "ok" => streams[r] = {}
    /\ pc[r] \in {"running", "ok"} =>
          \A ch \in Ids : found[r] \cap InQueue(ch) # {} => ch \in streams[r]

IInv == /\ TypeOK /\ QueuesInOrder /\ AllCameIn
        /\ ChainKnown /\ ReportsOnce /\ StreamsKept

LEMMA InvariantSuffices == IInv => ReportsAreTrue /\ OkDrains
<1> SUFFICES ASSUME IInv PROVE ReportsAreTrue /\ OkDrains
  OBVIOUS
<1>1. ASSUME NEW r \in Redeemers, NEW x \in results[r], x.kind = "RejectedOnChain",
             x.ticket \in paid
      PROVE  Failed
  <2>1. x.ticket.channel \in Ids /\ Gone(x.ticket)
    BY DEF IInv, TypeOK, Results, Tickets, ReportsOnce
  <2>2. \A a \in attempt[x.ticket.channel] : a.ticket # x.ticket
    <3> SUFFICES ASSUME NEW a \in attempt[x.ticket.channel] PROVE a.ticket # x.ticket
      OBVIOUS
    <3>1. /\ queue[x.ticket.channel] \in Seq(Tickets) /\ queue[x.ticket.channel] # <<>>
          /\ Ascending(queue[x.ticket.channel])
          /\ a.ticket = Head(queue[x.ticket.channel])
      BY <2>1 DEF IInv, TypeOK, QueuesInOrder
    <3>2. a.ticket \in InQueue(x.ticket.channel)
      BY <3>1, TailOfQueue DEF InQueue, Elements
    <3> QED
      BY <2>1, <3>2 DEF Gone
  <2> QED
    BY <1>1, <2>1, <2>2 DEF IInv, ChainKnown
<1>2. ReportsAreTrue
  BY <1>1 DEF IInv, ReportsOnce, ReportsAreTrue, Failed, Gone
<1>3. OkDrains
  BY DEF IInv, StreamsKept, OkDrains
<1> QED
  BY <1>2, <1>3

--------------------------------------------------------------------------------
(* Type correctness. *)

LEMMA TypeInit == Init => TypeOK
BY RedemptionAssumption DEF Init, TypeOK, Entry, ChannelEntries, ChannelStatuses

\* The builder methods make selectors of selectors.
LEMMA SelectorType ==
    /\ Default \in ChannelSelector
    /\ \A q \in Requests : QuerySelector(q) \in ChannelSelector
<1>1. \A s \in ChannelSelector, a \in Addresses : with_destination(s, a) \in ChannelSelector
  BY DEF with_destination, ChannelSelector
<1>2. \A s \in ChannelSelector : \A t, g : with_redeemable_channels(s, t, g) \in ChannelSelector
  BY DEF with_redeemable_channels, with_closure_time_range, with_allowed_states,
         ChannelSelector, ChannelStatuses
<1>3. Default \in ChannelSelector
  BY DEF Default, ChannelSelector
<1>4. ASSUME NEW q \in Requests PROVE QuerySelector(q) \in ChannelSelector
  <2>1. (IF q = {} THEN Default ELSE CHOOSE s \in q : TRUE) \in ChannelSelector
    BY <1>3, RedemptionAssumption
  <2> QED
    BY <1>1, <1>2, <2>1, RedemptionAssumption DEF QuerySelector
<1> QED
  BY <1>3, <1>4

\* What a step of a call does to the types.
LEMMA CallStepType ==
    ASSUME TypeOK, QueuesInOrder, NEW r \in Redeemers, CallStep(r)
    PROVE  TypeOK'
<1>1. CASE Redeem(r)
  <2>1. PICK q \in Requests, m \in Values : RedeemWith(r, q, m)
    BY <1>1 DEF Redeem
  <2>2. selector' \in [Redeemers -> SUBSET ChannelSelector]
    BY <2>1, SelectorType DEF TypeOK, RedeemWith
  <2> QED
    BY <2>1, <2>2 DEF TypeOK, RedeemWith, chainVars
<1>2. CASE QueryFails(r)
  BY <1>2 DEF TypeOK, QueryFails, chainVars
<1>3. CASE Return(r)
  BY <1>3 DEF TypeOK, Return, chainVars
<1>4. ASSUME NEW ch \in Ids, QueryStep(r, ch) PROVE TypeOK'
  <2>1. InQueue(ch) \subseteq Tickets
    BY ElementOfSeq, LenProperties DEF TypeOK, InQueue
  <2>2. /\ streams' \in [Redeemers -> SUBSET Ids]
        /\ found' \in [Redeemers -> SUBSET Tickets]
    <3>1. CASE UNCHANGED <<streams, found>>
      BY <3>1 DEF TypeOK
    <3>2. CASE OpenStream(r, ch)
      BY <2>1, <3>2 DEF TypeOK, OpenStream
    <3> QED
      BY <1>4, <3>1, <3>2 DEF QueryStep, PassOver, SkipStream
  <2>3. Read(r, ch)
    BY <1>4 DEF QueryStep, PassOver, OpenStream, SkipStream
  <2>4. selector' \in [Redeemers -> SUBSET ChannelSelector]
    BY <2>3 DEF TypeOK, Read
  <2> QED
    BY <2>2, <2>3, <2>4 DEF TypeOK, Read, chainVars
<1>5. ASSUME NEW ch \in Ids, NEW kind \in {"Redeemed", "ValueTooLow", "RejectedOnChain"},
             queue[ch] # <<>>, Yield(r, ch, kind),
             attempt' \in [Ids -> SUBSET Attempts]
      PROVE  TypeOK'
  <2>1. Head(queue[ch]) \in Tickets /\ Tail(queue[ch]) \in Seq(Tickets)
    BY <1>5, HeadTailProperties DEF TypeOK
  <2>2. queue' \in [Ids -> Seq(Tickets)]
    BY <1>5, <2>1 DEF TypeOK, Yield
  <2>3. results' \in [Redeemers -> SUBSET Results]
    <3>1. [ticket |-> Head(queue[ch]), kind |-> kind] \in Results
      BY <2>1 DEF Results
    <3> QED
      BY <1>5, <3>1 DEF TypeOK, Yield
  <2> QED
    BY <1>5, <2>2, <2>3 DEF TypeOK, Yield, chainVars
<1>6. ASSUME NEW ch \in Ids, TooLow(r, ch) PROVE TypeOK'
  BY <1>5, <1>6 DEF TooLow, TypeOK
<1>7. ASSUME NEW ch \in Ids, Send(r, ch) PROVE TypeOK'
  <2>1. [by |-> r, ticket |-> Head(queue[ch]), state |-> "sent"] \in Attempts
    BY <1>7, HeadTailProperties DEF Send, TypeOK, Attempts
  <2>2. attempt' \in [Ids -> SUBSET Attempts]
    BY <1>7, <2>1 DEF Send, TypeOK
  <2> QED
    BY <1>7, <2>2 DEF Send, TypeOK, chainVars, callVars
<1>8. ASSUME NEW ch \in Ids, Answer(r, ch) PROVE TypeOK'
  <2>1. PICK a \in attempt[ch] : /\ a.state # "sent" /\ Yield(r, ch, a.state)
                                 /\ attempt' = [attempt EXCEPT ![ch] = {}]
    BY <1>8 DEF Answer
  <2>2. a.state \in {"Redeemed", "ValueTooLow", "RejectedOnChain"}
    BY <2>1 DEF TypeOK, Attempts
  <2>3. queue[ch] # <<>> /\ attempt' \in [Ids -> SUBSET Attempts]
    BY <2>1 DEF QueuesInOrder, TypeOK
  <2> QED
    BY <1>5, <2>1, <2>2, <2>3
<1>9. ASSUME NEW ch \in Ids, StreamFails(r, ch) PROVE TypeOK'
  BY <1>9 DEF StreamFails, TypeOK, Abandoned, Attempts
<1>10. ASSUME NEW ch \in Ids, StreamEnds(r, ch) PROVE TypeOK'
  BY <1>10 DEF StreamEnds, TypeOK, chainVars
<1> QED
  BY <1>1, <1>2, <1>3, <1>4, <1>6, <1>7, <1>8, <1>9, <1>10 DEF CallStep, StreamStep

LEMMA ClientStepType ==
    ASSUME TypeOK, ClientStep
    PROVE  TypeOK'
<1>1. ASSUME NEW ch \in Ids, NEW v \in Values, insert_incoming_ticket(ch, v) PROVE TypeOK'
  <2>1. [channel |-> ch, index |-> issued[ch] + 1, value |-> v] \in Tickets
    BY <1>1, RedemptionAssumption DEF insert_incoming_ticket, TypeOK, Tickets
  <2>2. queue' \in [Ids -> Seq(Tickets)]
    BY <1>1, <2>1, AppendProperties DEF insert_incoming_ticket, TypeOK
  <2>3. issued' \in [Ids -> 0 .. MaxIndex]
    BY <1>1, RedemptionAssumption DEF insert_incoming_ticket, TypeOK
  <2> QED
    BY <1>1, <2>2, <2>3 DEF insert_incoming_ticket, TypeOK, chainVars, callVars
<1>2. ASSUME NEW ch \in Ids, NEW max, neglect_tickets(ch, max) PROVE TypeOK'
  <2>1. PICK n \in DOMAIN queue[ch] :
           queue' = [queue EXCEPT ![ch] = SubSeq(@, n + 1, Len(@))]
    BY <1>2 DEF neglect_tickets
  <2>2. SubSeq(queue[ch], n + 1, Len(queue[ch])) \in Seq(Tickets)
    <3>1. queue[ch] \in Seq(Tickets) /\ n \in 1 .. Len(queue[ch])
      BY LenProperties DEF TypeOK
    <3>2. \A i \in n + 1 .. Len(queue[ch]) : queue[ch][i] \in Tickets
      BY <3>1, ElementOfSeq
    <3> QED
      BY <3>1, <3>2, SubSeqProperties
  <2>3. queue' \in [Ids -> Seq(Tickets)]
    BY <2>1, <2>2 DEF TypeOK
  <2>4. attempt' \in [Ids -> SUBSET Attempts] /\ orphans' \subseteq Tickets
    BY <1>2 DEF neglect_tickets, TypeOK, Abandoned, Attempts
  <2> QED
    BY <1>2, <2>3, <2>4 DEF neglect_tickets, TypeOK, callVars
<1> QED
  BY <1>1, <1>2 DEF ClientStep

LEMMA ChainStepType ==
    ASSUME TypeOK, ChainStep
    PROVE  TypeOK'
<1>1. ASSUME NEW ch \in Ids, Land(ch) PROVE TypeOK'
  <2>1. PICK a \in attempt[ch] :
           /\ \/ /\ paid' = paid \cup {a.ticket}
                 /\ attempt' = [attempt EXCEPT ![ch] = {[a EXCEPT !.state = "Redeemed"]}]
              \/ /\ attempt' = [attempt EXCEPT ![ch] = {[a EXCEPT !.state = "RejectedOnChain"]}]
                 /\ UNCHANGED paid
    BY <1>1 DEF Land
  <2>2. /\ a.ticket \in Tickets
        /\ [a EXCEPT !.state = "Redeemed"] \in Attempts
        /\ [a EXCEPT !.state = "RejectedOnChain"] \in Attempts
    <3>1. a \in Attempts
      BY DEF TypeOK
    <3> QED
      BY <3>1 DEF Attempts
  <2>3. attempt' \in [Ids -> SUBSET Attempts]
    <3>1. \E b \in Attempts : attempt' = [attempt EXCEPT ![ch] = {b}]
      BY <2>1, <2>2
    <3> QED
      BY <3>1 DEF TypeOK
  <2>4. paid' \subseteq Tickets
    BY <2>1, <2>2 DEF TypeOK
  <2> QED
    BY <1>1, <2>3, <2>4 DEF Land, TypeOK, callVars
<1>2. ASSUME NEW ch \in Ids, InitiateClosure(ch) PROVE TypeOK'
  <2>1. Entry(ch, "PendingToClose", now + Notice) \in ChannelEntries
    BY <1>2, RedemptionAssumption DEF InitiateClosure, Entry, ChannelEntries, ChannelStatuses
  <2> QED
    BY <1>2, <2>1 DEF InitiateClosure, TypeOK, callVars
<1>3. ASSUME NEW ch \in Ids, FinalizeClosure(ch) PROVE TypeOK'
  <2>1. Entry(ch, "Closed", 0) \in ChannelEntries
    BY RedemptionAssumption DEF Entry, ChannelEntries, ChannelStatuses
  <2> QED
    BY <1>3, <2>1 DEF FinalizeClosure, TypeOK, callVars
<1>4. ASSUME NEW ch \in Ids, OpenChannel(ch) PROVE TypeOK'
  <2>1. Entry(ch, "Open", 0) \in ChannelEntries
    BY RedemptionAssumption DEF Entry, ChannelEntries, ChannelStatuses
  <2> QED
    BY <1>4, <2>1 DEF OpenChannel, TypeOK, callVars
<1>5. ASSUME NEW t \in orphans, OrphanLands(t) PROVE TypeOK'
  BY <1>5 DEF OrphanLands, TypeOK, callVars
<1>6. CASE Tick
  BY <1>6 DEF Tick, TypeOK, chainVars, callVars
<1> QED
  BY <1>1, <1>2, <1>3, <1>4, <1>5, <1>6 DEF ChainStep, ChannelStep

LEMMA TypeStep == TypeOK /\ QueuesInOrder /\ [Next]_vars => TypeOK'
<1> SUFFICES ASSUME TypeOK, QueuesInOrder, [Next]_vars PROVE TypeOK'
  OBVIOUS
<1>1. CASE UNCHANGED vars
  BY <1>1 DEF vars, TypeOK
<1> QED
  BY <1>1, CallStepType, ClientStepType, ChainStepType DEF Next

--------------------------------------------------------------------------------
(* The invariant is inductive. *)

LEMMA InvariantInit == Init => IInv
<1> SUFFICES ASSUME Init PROVE IInv
  OBVIOUS
<1>1. QueuesInOrder
  BY DEF Init, QueuesInOrder, Ascending, InQueue
<1>2. AllCameIn /\ ChainKnown /\ ReportsOnce /\ StreamsKept
  BY DEF Init, AllCameIn, Reported, ChainKnown, ReportsOnce, StreamsKept
<1> QED
  BY <1>1, <1>2, TypeInit DEF IInv

\* A step that leaves the queues and what is under way in them alone.
LEMMA QueuesUntouched ==
    ASSUME QueuesInOrder, UNCHANGED <<queue, issued, attempt>>
    PROVE  QueuesInOrder'
BY DEF QueuesInOrder, InQueue, Ascending

\* A step of a call that neither extracts a ticket nor collects a result.
LEMMA QuietStep ==
    ASSUME IInv, UNCHANGED <<queue, issued, attempt, orphans, paid, results>>,
           NEW r \in Redeemers,
           pc' = pc \/ (pc[r] # "right" /\ \E o \in {"ok", "left", "running"} :
                                               pc' = [pc EXCEPT ![r] = o]),
           minimum' = minimum \/ (pc[r] = "idle" /\ \E m : minimum' = [minimum EXCEPT ![r] = m]),
           \A s \in Redeemers : found'[s] \subseteq found[s] \cup UNION {InQueue(c) : c \in Ids}
    PROVE  /\ QueuesInOrder' /\ AllCameIn' /\ ChainKnown' /\ ReportsOnce'
           /\ \A ch : InQueue(ch)' = InQueue(ch)
<1>1. QueuesInOrder'
  BY QueuesUntouched DEF IInv
<1>2. \A ch : InQueue(ch)' = InQueue(ch)
  BY DEF InQueue
<1>3. AllCameIn'
  BY DEF AllCameIn, Reported, IInv, QueuesInOrder
<1>4. Failed' <=> Failed
  BY DEF Failed, IInv, TypeOK
<1>5. ChainKnown'
  BY <1>2, <1>4 DEF ChainKnown, IInv, Gone, Reported
<1>6. ReportsOnce'
  <2>1. \A s \in Redeemers : results[s] # {} => minimum'[s] = minimum[s]
    BY DEF IInv, StreamsKept, TypeOK
  <2> QED
    BY <1>2, <2>1 DEF ReportsOnce, IInv, Gone
<1> QED
  BY <1>1, <1>2, <1>3, <1>5, <1>6

LEMMA RedeemKeeps ==
    ASSUME IInv, NEW r \in Redeemers, Redeem(r)
    PROVE  IInv'
<1>1. PICK m \in Values : \E q \in Requests : RedeemWith(r, q, m)
  BY DEF Redeem
<1>2. /\ QueuesInOrder' /\ AllCameIn' /\ ChainKnown' /\ ReportsOnce'
      /\ \A ch : InQueue(ch)' = InQueue(ch)
  BY <1>1, QuietStep DEF RedeemWith, chainVars, IInv, TypeOK
<1>3. StreamsKept'
  BY <1>1, <1>2 DEF RedeemWith, IInv, TypeOK, StreamsKept
<1> QED
  BY <1>2, <1>3, CallStepType DEF IInv, CallStep

LEMMA QueryFailsKeeps ==
    ASSUME IInv, NEW r \in Redeemers, QueryFails(r)
    PROVE  IInv'
<1>1. /\ QueuesInOrder' /\ AllCameIn' /\ ChainKnown' /\ ReportsOnce'
      /\ \A ch : InQueue(ch)' = InQueue(ch)
  BY QuietStep DEF QueryFails, chainVars, IInv, TypeOK
<1>2. StreamsKept'
  BY <1>1 DEF QueryFails, IInv, TypeOK, StreamsKept
<1> QED
  BY <1>1, <1>2, CallStepType DEF IInv, CallStep

LEMMA ReturnKeeps ==
    ASSUME IInv, NEW r \in Redeemers, Return(r)
    PROVE  IInv'
<1>1. /\ QueuesInOrder' /\ AllCameIn' /\ ChainKnown' /\ ReportsOnce'
      /\ \A ch : InQueue(ch)' = InQueue(ch)
  BY QuietStep DEF Return, chainVars, IInv, TypeOK
<1>2. StreamsKept'
  BY <1>1 DEF Return, IInv, TypeOK, StreamsKept
<1> QED
  BY <1>1, <1>2, CallStepType DEF IInv, CallStep

LEMMA QueryStepKeeps ==
    ASSUME IInv, NEW r \in Redeemers, NEW ch \in Ids, QueryStep(r, ch)
    PROVE  IInv'
<1>1. /\ Read(r, ch)
      /\ \/ UNCHANGED <<streams, found>>
         \/ /\ streams' = [streams EXCEPT ![r] = @ \cup {ch}]
            /\ found' = [found EXCEPT ![r] = @ \cup InQueue(ch)]
  BY DEF QueryStep, PassOver, OpenStream, SkipStream
<1>2. \A s \in Redeemers : found'[s] \subseteq found[s] \cup InQueue(ch)
  BY <1>1 DEF IInv, TypeOK
<1>3. /\ QueuesInOrder' /\ AllCameIn' /\ ChainKnown' /\ ReportsOnce'
      /\ \A c : InQueue(c)' = InQueue(c)
  BY <1>1, <1>2, QuietStep DEF Read, chainVars, IInv, TypeOK
<1>4. \A s \in Redeemers, c \in Ids :
         found'[s] \cap InQueue(c) # {} =>
            found[s] \cap InQueue(c) # {} \/ (s = r /\ c = ch /\ ch \in streams'[r])
  <2>1. CASE UNCHANGED <<streams, found>>
    BY <2>1
  <2>2. CASE /\ streams' = [streams EXCEPT ![r] = @ \cup {ch}]
             /\ found' = [found EXCEPT ![r] = @ \cup InQueue(ch)]
    <3>1. \A c \in Ids : c # ch => InQueue(ch) \cap InQueue(c) = {}
      BY DEF IInv, QueuesInOrder
    <3> QED
      BY <2>2, <3>1 DEF IInv, TypeOK
  <2> QED
    BY <1>1, <2>1, <2>2
<1>5. \A s \in Redeemers : streams[s] \subseteq streams'[s] /\ (s # r => streams'[s] = streams[s])
  BY <1>1 DEF IInv, TypeOK
<1>6. \A s \in Redeemers : s # r => found'[s] = found[s]
  BY <1>1 DEF IInv, TypeOK
<1>7. StreamsKept'
  BY <1>1, <1>3, <1>4, <1>5, <1>6 DEF Read, IInv, StreamsKept
<1> QED
  BY <1>3, <1>7, CallStepType DEF IInv, CallStep

LEMMA StreamEndsKeeps ==
    ASSUME IInv, NEW r \in Redeemers, NEW ch \in Ids, StreamEnds(r, ch)
    PROVE  IInv'
<1>1. /\ QueuesInOrder' /\ AllCameIn' /\ ChainKnown' /\ ReportsOnce'
      /\ \A c : InQueue(c)' = InQueue(c)
  BY QuietStep DEF StreamEnds, chainVars, IInv, TypeOK
<1>2. InQueue(ch) = {}
  BY DEF StreamEnds, InQueue
<1>3. StreamsKept'
  BY <1>1, <1>2 DEF StreamEnds, Polled, IInv, TypeOK, StreamsKept
<1> QED
  BY <1>1, <1>3, CallStepType DEF IInv, CallStep, StreamStep

LEMMA SendKeeps ==
    ASSUME IInv, NEW r \in Redeemers, NEW ch \in Ids, Send(r, ch)
    PROVE  IInv'
<1>1. /\ attempt[ch] = {} /\ queue[ch] # <<>>
      /\ UNCHANGED <<now, channels, orphans, paid, issued, queue, callVars>>
      /\ attempt' = [attempt EXCEPT ![ch] =
                        {[by |-> r, ticket |-> Head(queue[ch]), state |-> "sent"]}]
  BY DEF Send, chainVars
<1>2. QueuesInOrder'
  BY <1>1 DEF IInv, TypeOK, QueuesInOrder, InQueue
<1>3. \A c : InQueue(c)' = InQueue(c)
  BY <1>1 DEF InQueue
<1>4. AllCameIn' /\ ReportsOnce' /\ StreamsKept'
  BY <1>1, <1>3 DEF callVars, IInv, AllCameIn, Reported, ReportsOnce, StreamsKept, Gone
<1>5. \A c \in Ids : c # ch => attempt'[c] = attempt[c]
  BY <1>1 DEF IInv, TypeOK
<1>6. \A a \in attempt'[ch] : a.state = "sent"
  BY <1>1 DEF IInv, TypeOK
<1>7. \A t \in paid : t.channel \in Ids
  BY DEF IInv, TypeOK, Tickets
<1>8. ChainKnown'
  <2>1. \A c \in Ids : \A a \in attempt'[c] : a.state = "Redeemed" => c # ch
    BY <1>6
  <2>2. \A t \in paid : (\E a \in attempt[t.channel] : a.ticket = t /\ a.state = "Redeemed")
                           => t.channel # ch
    BY <1>1
  <2> QED
    BY <1>1, <1>3, <1>5, <1>7, <2>1, <2>2 DEF callVars, IInv, ChainKnown, Failed, Gone, Reported
<1> QED
  BY <1>2, <1>4, <1>8, CallStepType DEF IInv, CallStep, StreamStep

\* A stream yields: the first ticket leaves the queue and is reported, as what the
\* stream knows of it. kind is what attempt and minimum say it is.
LEMMA YieldKeeps ==
    ASSUME IInv, IInv => TypeOK',
           NEW r \in Redeemers, NEW ch \in Ids, NEW kind, Polled(r, ch),
           queue[ch] # <<>>, Yield(r, ch, kind),
           attempt' = [attempt EXCEPT ![ch] = {}],
           kind = "Redeemed" <=> \E a \in attempt[ch] : a.state = "Redeemed",
           kind = "ValueTooLow" => Head(queue[ch]).value < minimum[r]
    PROVE  IInv'
<1>1. PICK h : h = Head(queue[ch])
  OBVIOUS
<1>2. PICK y : y = [ticket |-> h, kind |-> kind]
  OBVIOUS
<1>3. y.ticket = h /\ y.kind = kind
  BY <1>2
<1>4. /\ queue' = [queue EXCEPT ![ch] = Tail(@)]
      /\ results' = [results EXCEPT ![r] = @ \cup {y}]
      /\ UNCHANGED <<now, channels, orphans, paid, issued, pc, minimum, selector, unread, streams, found>>
  BY <1>1, <1>2 DEF Yield, chainVars
<1>5. /\ queue[ch] \in Seq(Tickets) /\ Ascending(queue[ch])
      /\ Tail(queue[ch]) \in Seq(Tickets) /\ Ascending(Tail(queue[ch]))
      /\ Elements(Tail(queue[ch])) \subseteq Elements(queue[ch])
      /\ h \in Elements(queue[ch]) /\ h \notin Elements(Tail(queue[ch]))
      /\ h \in Tickets
  BY <1>1, TailOfQueue, HeadTailProperties DEF IInv, TypeOK, QueuesInOrder
<1>6. /\ InQueue(ch)' \subseteq InQueue(ch) /\ h \in InQueue(ch) /\ h \notin InQueue(ch)'
      /\ h.channel = ch /\ h.index <= issued[ch]
  BY <1>4, <1>5 DEF InQueue, Elements, IInv, TypeOK, QueuesInOrder
<1>7. \A c \in Ids : c # ch => queue'[c] = queue[c] /\ InQueue(c)' = InQueue(c)
  BY <1>4 DEF IInv, TypeOK, InQueue
<1>8. \A c \in Ids : attempt'[c] = IF c = ch THEN {} ELSE attempt[c]
  BY DEF IInv, TypeOK
<1>9. \A s \in Redeemers : results'[s] = IF s = r THEN results[r] \cup {y} ELSE results[s]
  BY <1>4 DEF IInv, TypeOK
<1>10. ~Reported(h)
  BY <1>6 DEF IInv, ReportsOnce, Gone, Reported
<1>11. \A t : Reported(t)' <=> Reported(t) \/ t = h
  BY <1>9, <1>3 DEF Reported
<1>12. QueuesInOrder'
  <2>1. queue'[ch] = Tail(queue[ch])
    BY <1>4 DEF IInv, TypeOK
  <2> QED
    BY <1>4, <1>5, <1>6, <1>7, <1>8, <2>1 DEF IInv, QueuesInOrder
<1>13. AllCameIn'
  BY <1>4, <1>6, <1>11 DEF IInv, AllCameIn
<1>14. (\A t \in Tickets : Gone(t) => Gone(t)' /\ t # h) /\ Gone(h)'
  BY <1>6, <1>7 DEF Gone, Tickets
<1>15. \A a \in attempt[ch] : a.ticket = h
  BY <1>1 DEF IInv, QueuesInOrder
<1>16. ChainKnown'
  <2>1. \A c \in Ids : \A a \in attempt'[c] : a.state = "Redeemed" => a.ticket \in paid'
    BY <1>4, <1>8 DEF IInv, ChainKnown
  <2>2. Failed' <=> Failed
    BY <1>4 DEF Failed
  <2>3. ASSUME ~Failed, NEW t \in orphans PROVE Gone(t)' /\ ~Reported(t)'
    BY <2>3, <1>14, <1>11 DEF IInv, TypeOK, ChainKnown
  <2>4. ASSUME ~Failed, NEW t \in paid
        PROVE  \/ \E a \in attempt'[t.channel] : a.ticket = t /\ a.state = "Redeemed"
               \/ /\ Gone(t)'
                  /\ \A s \in Redeemers : \A x \in results'[s] :
                        x.ticket = t => x.kind = "Redeemed"
    <3>1. t \in Tickets /\ t.channel \in Ids
      BY DEF IInv, TypeOK, Tickets
    <3>2. CASE t = h
      <4>1. kind = "Redeemed"
        BY <2>4, <1>6, <1>10, <3>1, <3>2 DEF IInv, ChainKnown, Gone
      <4>2. \A s \in Redeemers : \A x \in results'[s] : x.ticket = h => x = y
        BY <1>9, <1>10 DEF Reported
      <4> QED
        BY <1>3, <1>14, <3>2, <4>1, <4>2
    <3>3. CASE t # h
      <4>1. \A s \in Redeemers : \A x \in results'[s] : x.ticket = t => x \in results[s]
        BY <1>9, <1>3, <3>3
      <4>2. CASE \E a \in attempt[t.channel] : a.ticket = t /\ a.state = "Redeemed"
        BY <1>8, <1>15, <3>1, <3>3, <4>2
      <4>3. CASE /\ Gone(t)
                 /\ \A s \in Redeemers : \A x \in results[s] : x.ticket = t => x.kind = "Redeemed"
        BY <1>14, <3>1, <4>1, <4>3
      <4> QED
        BY <2>4, <4>2, <4>3 DEF IInv, ChainKnown
    <3> QED
      BY <3>2, <3>3
  <2> QED
    BY <1>4, <2>1, <2>2, <2>3, <2>4 DEF ChainKnown
<1>17. ReportsOnce'
  <2>1. ASSUME NEW s \in Redeemers, NEW x \in results'[s]
        PROVE  /\ x.ticket \in Tickets
               /\ x.ticket = h => s = r /\ x = y
               /\ x.ticket # h => x \in results[s]
    BY <1>5, <1>9, <1>10, <1>3, <2>1 DEF Reported, IInv, TypeOK, Results
  <2>2. kind = "Redeemed" => h \in paid
    BY <1>15 DEF IInv, ChainKnown
  <2>3. kind = "ValueTooLow" => h.value < minimum[r]
    BY <1>1
  <2>4. ASSUME NEW s \in Redeemers, NEW x \in results'[s]
        PROVE  /\ \A u \in Redeemers : \A z \in results'[u] :
                     x.ticket = z.ticket => s = u /\ x = z
               /\ Gone(x.ticket)'
               /\ x.kind = "Redeemed" => x.ticket \in paid'
               /\ x.kind = "ValueTooLow" => x.ticket.value < minimum'[s]
    <3>1. CASE x.ticket = h
      BY <1>4, <1>3, <1>14, <2>1, <2>2, <2>3, <3>1
    <3>2. CASE x.ticket # h
      BY <1>4, <1>14, <2>1, <3>2 DEF IInv, ReportsOnce
    <3> QED
      BY <3>1, <3>2
  <2> QED
    BY <2>4 DEF ReportsOnce
<1>18. StreamsKept'
  BY <1>4, <1>6, <1>7, <1>9 DEF IInv, StreamsKept, Polled
<1> QED
  BY <1>12, <1>13, <1>16, <1>17, <1>18 DEF IInv

LEMMA TooLowKeeps ==
    ASSUME IInv, NEW r \in Redeemers, NEW ch \in Ids, TooLow(r, ch)
    PROVE  IInv'
<1>1. TypeOK'
  BY CallStepType DEF IInv, CallStep, StreamStep
<1>2. attempt[ch] = {} /\ attempt' = [attempt EXCEPT ![ch] = {}]
  BY DEF TooLow, IInv, TypeOK
<1> QED
  BY <1>1, <1>2, YieldKeeps DEF TooLow

LEMMA AnswerKeeps ==
    ASSUME IInv, NEW r \in Redeemers, NEW ch \in Ids, Answer(r, ch)
    PROVE  IInv'
<1>1. TypeOK'
  BY CallStepType DEF IInv, CallStep, StreamStep
<1>2. PICK a \in attempt[ch] : /\ a.state # "sent" /\ Yield(r, ch, a.state)
                               /\ Polled(r, ch) /\ attempt' = [attempt EXCEPT ![ch] = {}]
  BY DEF Answer
<1>3. queue[ch] # <<>> /\ \A b \in attempt[ch] : b = a
  BY DEF IInv, QueuesInOrder
<1>4. a.state # "ValueTooLow"
  <2>1. a \in Attempts
    BY DEF IInv, TypeOK
  <2> QED
    BY <2>1 DEF Attempts
<1> QED
  BY <1>1, <1>2, <1>3, <1>4, YieldKeeps

\* From now on the chain can decide on tickets that are still queued.
LEMMA StreamFailsKeeps ==
    ASSUME IInv, NEW r \in Redeemers, NEW ch \in Ids, StreamFails(r, ch)
    PROVE  IInv'
<1>1. /\ pc' = [pc EXCEPT ![r] = "right"]
      /\ results' = [results EXCEPT ![r] = {}]
      /\ streams' = [streams EXCEPT ![r] = {}]
      /\ \A c \in Ids : attempt'[c] = {} \/ attempt'[c] = attempt[c]
      /\ \A t \in orphans' : t \in orphans \/ \E c \in Ids : \E a \in attempt[c] : t = a.ticket
      /\ UNCHANGED <<now, channels, paid, issued, queue, minimum, selector, unread, found>>
  BY DEF StreamFails, Abandoned
<1>2. \A c : InQueue(c)' = InQueue(c)
  BY <1>1 DEF InQueue
<1>3. QueuesInOrder'
  BY <1>1, <1>2 DEF IInv, QueuesInOrder
<1>4. \A c \in Ids : \A a \in attempt[c] : a.ticket.index <= issued[a.ticket.channel]
  <2> SUFFICES ASSUME NEW c \in Ids, NEW a \in attempt[c]
               PROVE  a.ticket.index <= issued[a.ticket.channel]
    OBVIOUS
  <2>1. queue[c] \in Seq(Tickets) /\ Ascending(queue[c]) /\ queue[c] # <<>>
    BY DEF IInv, TypeOK, QueuesInOrder
  <2>2. a.ticket \in InQueue(c)
    BY <2>1, TailOfQueue DEF IInv, QueuesInOrder, InQueue, Elements
  <2> QED
    BY <2>2 DEF IInv, QueuesInOrder
<1>5. \A s \in Redeemers : results'[s] \subseteq results[s]
  BY <1>1 DEF IInv, TypeOK
<1>6. AllCameIn'
  BY <1>1, <1>4, <1>5 DEF IInv, AllCameIn, Reported
<1>7. Failed'
  BY <1>1 DEF Failed, IInv, TypeOK
<1>8. ChainKnown'
  BY <1>1, <1>7 DEF IInv, ChainKnown
<1>9. ReportsOnce'
  BY <1>1, <1>2, <1>5 DEF IInv, ReportsOnce, Gone
<1>10. StreamsKept'
  BY <1>1, <1>2 DEF IInv, TypeOK, StreamsKept
<1> QED
  BY <1>3, <1>6, <1>8, <1>9, <1>10, CallStepType DEF IInv, CallStep, StreamStep

LEMMA CallStepKeeps ==
    ASSUME IInv, NEW r \in Redeemers, CallStep(r)
    PROVE  IInv'
BY RedeemKeeps, QueryFailsKeeps, ReturnKeeps, QueryStepKeeps, TooLowKeeps, SendKeeps,
   AnswerKeeps, StreamFailsKeeps, StreamEndsKeeps DEF CallStep, StreamStep

LEMMA InsertKeeps ==
    ASSUME IInv, NEW ch \in Ids, NEW v \in Values, insert_incoming_ticket(ch, v)
    PROVE  IInv'
<1>1. PICK t : t = [channel |-> ch, index |-> issued[ch] + 1, value |-> v]
  OBVIOUS
<1>2. /\ issued' = [issued EXCEPT ![ch] = @ + 1]
      /\ queue' = [queue EXCEPT ![ch] = Append(@, t)]
      /\ UNCHANGED <<now, channels, orphans, paid, attempt, callVars>>
  BY <1>1 DEF insert_incoming_ticket, chainVars
<1>3. t \in Tickets /\ t.channel = ch /\ t.index = issued[ch] + 1
  BY <1>1, RedemptionAssumption DEF insert_incoming_ticket, IInv, TypeOK, Tickets
<1>4. \A c \in Ids : issued[c] \in Nat /\ issued'[c] = IF c = ch THEN issued[c] + 1 ELSE issued[c]
  BY <1>2, RedemptionAssumption DEF IInv, TypeOK
<1>5. /\ Ascending(Append(queue[ch], t))
      /\ Elements(Append(queue[ch], t)) = Elements(queue[ch]) \cup {t}
      /\ queue[ch] # <<>> => /\ Append(queue[ch], t) # <<>>
                             /\ Head(Append(queue[ch], t)) = Head(queue[ch])
  <2>1. queue[ch] \in Seq(Tickets) /\ Ascending(queue[ch])
    BY DEF IInv, TypeOK, QueuesInOrder
  <2>2. \A u \in Elements(queue[ch]) : u.index <= issued[ch] /\ u.index \in Nat
    <3>1. \A u \in Elements(queue[ch]) : u \in Tickets
      BY <2>1, ElementOfSeq, LenProperties DEF Elements
    <3> QED
      BY <3>1, RedemptionAssumption DEF IInv, QueuesInOrder, InQueue, Elements, Tickets
  <2> QED
    BY <1>3, <1>4, <2>1, <2>2, AppendToQueue
<1>6. /\ queue'[ch] = Append(queue[ch], t)
      /\ \A c \in Ids : c # ch => queue'[c] = queue[c]
  BY <1>2 DEF IInv, TypeOK
<1>7. /\ InQueue(ch)' = InQueue(ch) \cup {t}
      /\ \A c \in Ids : c # ch => InQueue(c)' = InQueue(c)
  BY <1>5, <1>6 DEF InQueue, Elements
<1>8. QueuesInOrder'
  <2>1. \A c \in Ids : Ascending(queue'[c])
    BY <1>5, <1>6 DEF IInv, QueuesInOrder
  <2>2. \A c \in Ids : \A u \in InQueue(c)' : u.channel = c /\ u.index <= issued'[c]
    <3>1. \A u \in InQueue(ch) : u.index \in Int
      <4>1. \A u \in InQueue(ch) : u \in Tickets
        BY ElementOfSeq, LenProperties DEF IInv, TypeOK, InQueue
      <4> QED
        BY <4>1, RedemptionAssumption DEF Tickets
    <3> QED
      BY <1>3, <1>4, <1>7, <3>1 DEF IInv, QueuesInOrder
  <2>3. \A c \in Ids : \A a \in attempt'[c] : queue'[c] # <<>> /\ a.ticket = Head(queue'[c])
    BY <1>2, <1>5, <1>6 DEF IInv, QueuesInOrder
  <2> QED
    BY <1>2, <2>1, <2>2, <2>3 DEF IInv, QueuesInOrder
<1>9. \A u \in Tickets : u.index <= issued[u.channel] => u.index <= issued'[u.channel] /\ u # t
  BY <1>3, <1>4, RedemptionAssumption DEF Tickets
<1>10. AllCameIn'
  BY <1>2, <1>9 DEF IInv, AllCameIn, Reported, callVars
<1>11. \A u \in Tickets : u # t /\ Gone(u) => Gone(u)'
  BY <1>7 DEF Gone, Tickets
<1>12. \A u \in orphans \cup paid : u \in Tickets /\ u # t
  BY <1>9 DEF IInv, AllCameIn, TypeOK
<1>13. \A r \in Redeemers : \A x \in results[r] : x.ticket \in Tickets /\ x.ticket # t
  BY <1>9 DEF IInv, AllCameIn, TypeOK, Reported, Results
<1>14. \A r \in Redeemers : t \notin found[r]
  BY <1>9 DEF IInv, AllCameIn, TypeOK
<1>15. ChainKnown'
  BY <1>2, <1>11, <1>12 DEF IInv, ChainKnown, Failed, Reported, callVars
<1>16. ReportsOnce'
  BY <1>2, <1>11, <1>13 DEF IInv, ReportsOnce, callVars
<1>17. StreamsKept'
  <2>1. \A r \in Redeemers, c \in Ids : found[r] \cap InQueue(c)' = found[r] \cap InQueue(c)
    BY <1>7, <1>14
  <2> QED
    BY <1>2, <2>1 DEF IInv, StreamsKept, callVars
<1> QED
  BY <1>8, <1>10, <1>15, <1>16, <1>17, ClientStepType DEF IInv, ClientStep

LEMMA NeglectKeeps ==
    ASSUME IInv, NEW ch \in Ids, NEW max \in 1 .. MaxIndex, neglect_tickets(ch, max)
    PROVE  IInv'
<1>1. PICK n \in DOMAIN queue[ch] :
         queue' = [queue EXCEPT ![ch] = SubSeq(@, n + 1, Len(@))]
  BY DEF neglect_tickets
<1>2. /\ attempt' = [attempt EXCEPT ![ch] = {}]
      /\ orphans \subseteq orphans'
      /\ \A t \in orphans' : t \in orphans \/ \E a \in attempt[ch] : t = a.ticket
      /\ UNCHANGED <<now, channels, paid, issued, callVars>>
  BY DEF neglect_tickets, Abandoned
<1>3. /\ Ascending(queue'[ch])
      /\ Elements(queue'[ch]) \subseteq Elements(queue[ch])
      /\ queue[ch] # <<>> /\ Head(queue[ch]) \in Elements(queue[ch])
      /\ Head(queue[ch]) \notin Elements(queue'[ch])
  <2>1. /\ queue[ch] \in Seq(Tickets) /\ Ascending(queue[ch]) /\ n \in 1 .. Len(queue[ch])
        /\ queue'[ch] = SubSeq(queue[ch], n + 1, Len(queue[ch]))
    BY <1>1, LenProperties, SMTT(20) DEF IInv, TypeOK, QueuesInOrder
  <2>2. 1 \in 1 .. n /\ 1 \in DOMAIN queue[ch] /\ queue[ch] # <<>>
    BY <2>1, EmptySeq, LenProperties
  <2>3. /\ Ascending(queue'[ch]) /\ Elements(queue'[ch]) \subseteq Elements(queue[ch])
        /\ \A i \in 1 .. n : queue[ch][i] \notin Elements(queue'[ch])
    BY <2>1, SuffixOfQueue
  <2>4. Head(queue[ch]) = queue[ch][1]
    OBVIOUS
  <2> QED
    BY <2>2, <2>3, <2>4 DEF Elements
<1>4. PICK h : h = Head(queue[ch])
  OBVIOUS
<1>5. /\ InQueue(ch)' \subseteq InQueue(ch) /\ h \in InQueue(ch) /\ h \notin InQueue(ch)'
      /\ h.channel = ch /\ h.index <= issued[ch]
  BY <1>3, <1>4 DEF InQueue, Elements, IInv, QueuesInOrder
<1>6. \A c \in Ids : c # ch => queue'[c] = queue[c] /\ InQueue(c)' = InQueue(c)
  BY <1>1 DEF IInv, TypeOK, InQueue
<1>7. \A c \in Ids : attempt'[c] = IF c = ch THEN {} ELSE attempt[c]
  BY <1>2 DEF IInv, TypeOK
<1>8. \A a \in attempt[ch] : a.ticket = h
  BY <1>4 DEF IInv, QueuesInOrder
<1>9. ~Reported(h)
  BY <1>5 DEF IInv, ReportsOnce, Gone, Reported
<1>10. QueuesInOrder'
  BY <1>2, <1>3, <1>5, <1>6, <1>7 DEF IInv, QueuesInOrder
<1>11. AllCameIn'
  BY <1>2, <1>5, <1>8 DEF IInv, AllCameIn, Reported, callVars
<1>12. (\A t \in Tickets : Gone(t) => Gone(t)') /\ Gone(h)'
  BY <1>5, <1>6 DEF Gone, Tickets
<1>13. ChainKnown'
  <2>1. \A c \in Ids : \A a \in attempt'[c] : a.state = "Redeemed" => a.ticket \in paid'
    BY <1>2, <1>7 DEF IInv, ChainKnown
  <2>2. (Failed' <=> Failed) /\ \A t : Reported(t)' <=> Reported(t)
    BY <1>2 DEF Failed, Reported, callVars
  <2>3. ASSUME ~Failed, NEW t \in orphans' PROVE Gone(t)' /\ ~Reported(t)'
    BY <2>2, <2>3, <1>2, <1>8, <1>9, <1>12 DEF IInv, TypeOK, ChainKnown
  <2>4. ASSUME ~Failed, NEW t \in paid
        PROVE  \/ \E a \in attempt'[t.channel] : a.ticket = t /\ a.state = "Redeemed"
               \/ /\ Gone(t)'
                  /\ \A s \in Redeemers : \A x \in results[s] :
                        x.ticket = t => x.kind = "Redeemed"
    <3>1. t \in Tickets /\ t.channel \in Ids
      BY DEF IInv, TypeOK, Tickets
    <3>2. CASE t = h
      BY <1>9, <1>12, <3>2 DEF Reported
    <3>3. CASE t # h
      BY <2>4, <1>7, <1>8, <1>12, <3>1, <3>3 DEF IInv, ChainKnown
    <3> QED
      BY <3>2, <3>3
  <2> QED
    BY <1>2, <2>1, <2>2, <2>3, <2>4 DEF ChainKnown, callVars
<1>14. ReportsOnce'
  <2>1. \A s \in Redeemers : \A x \in results[s] : x.ticket \in Tickets
    BY DEF IInv, TypeOK, Results
  <2> QED
    BY <1>2, <1>12, <2>1 DEF IInv, ReportsOnce, callVars
<1>15. StreamsKept'
  BY <1>2, <1>5, <1>6 DEF IInv, StreamsKept, callVars
<1> QED
  BY <1>10, <1>11, <1>13, <1>14, <1>15, ClientStepType DEF IInv, ClientStep

LEMMA LandKeeps ==
    ASSUME IInv, NEW ch \in Ids, Land(ch)
    PROVE  IInv'
<1>1. PICK a \in attempt[ch] :
         /\ a.state = "sent"
         /\ \/ /\ paid' = paid \cup {a.ticket}
               /\ attempt' = [attempt EXCEPT ![ch] = {[a EXCEPT !.state = "Redeemed"]}]
            \/ /\ attempt' = [attempt EXCEPT ![ch] = {[a EXCEPT !.state = "RejectedOnChain"]}]
               /\ UNCHANGED paid
         /\ UNCHANGED <<now, channels, orphans, issued, queue, callVars>>
  BY DEF Land
<1>2. a \in Attempts
  BY DEF IInv, TypeOK
<1>3. PICK b : /\ b.ticket = a.ticket
               /\ attempt' = [attempt EXCEPT ![ch] = {b}]
               /\ b.state = "Redeemed" => paid' = paid \cup {a.ticket}
               /\ b.state # "Redeemed" => paid' = paid
  <2>1. CASE /\ paid' = paid \cup {a.ticket}
             /\ attempt' = [attempt EXCEPT ![ch] = {[a EXCEPT !.state = "Redeemed"]}]
    <3>1. PICK b : b = [a EXCEPT !.state = "Redeemed"]
      OBVIOUS
    <3>2. b.ticket = a.ticket /\ b.state = "Redeemed"
      BY <1>2, <3>1 DEF Attempts
    <3> QED
      BY <2>1, <3>1, <3>2
  <2>2. CASE /\ attempt' = [attempt EXCEPT ![ch] = {[a EXCEPT !.state = "RejectedOnChain"]}]
             /\ UNCHANGED paid
    <3>1. PICK b : b = [a EXCEPT !.state = "RejectedOnChain"]
      OBVIOUS
    <3>2. b.ticket = a.ticket /\ b.state # "Redeemed"
      BY <1>2, <3>1 DEF Attempts
    <3> QED
      BY <2>2, <3>1, <3>2
  <2> QED
    BY <1>1, <2>1, <2>2
<1>4. \A c \in Ids : attempt'[c] = IF c = ch THEN {b} ELSE attempt[c]
  BY <1>3 DEF IInv, TypeOK
<1>5. PICK h : h = a.ticket
  OBVIOUS
<1>6. /\ h = Head(queue[ch]) /\ queue[ch] # <<>> /\ h \in Tickets
      /\ h \in InQueue(ch) /\ h.channel = ch /\ h.index <= issued[ch]
  <2>1. /\ queue[ch] \in Seq(Tickets) /\ Ascending(queue[ch]) /\ queue[ch] # <<>>
        /\ h = Head(queue[ch])
    BY <1>5 DEF IInv, TypeOK, QueuesInOrder
  <2>2. h \in InQueue(ch)
    BY <2>1, TailOfQueue DEF InQueue, Elements
  <2> QED
    BY <1>2, <1>5, <2>1, <2>2 DEF IInv, QueuesInOrder, Attempts
<1>7. \A c : InQueue(c)' = InQueue(c)
  BY <1>1 DEF InQueue
<1>8. QueuesInOrder'
  BY <1>1, <1>3, <1>4, <1>5, <1>6, <1>7 DEF IInv, QueuesInOrder
<1>9. paid \subseteq paid' /\ paid' \subseteq paid \cup {h}
  BY <1>3, <1>5
<1>10. AllCameIn'
  BY <1>1, <1>6, <1>9 DEF IInv, AllCameIn, Reported, callVars
<1>11. ~Reported(h)
  BY <1>6 DEF IInv, ReportsOnce, Gone, Reported
<1>12. \A d \in attempt[ch] : d = a
  BY DEF IInv, QueuesInOrder
<1>13. ChainKnown'
  <2>1. \A c \in Ids : \A d \in attempt'[c] : d.state = "Redeemed" => d.ticket \in paid'
    BY <1>3, <1>4, <1>9 DEF IInv, ChainKnown
  <2>2. (Failed' <=> Failed) /\ \A t : (Reported(t)' <=> Reported(t)) /\ (Gone(t)' <=> Gone(t))
    BY <1>1, <1>7 DEF Failed, Reported, Gone, callVars
  <2>3. ASSUME ~Failed, NEW t \in paid'
        PROVE  \/ \E d \in attempt'[t.channel] : d.ticket = t /\ d.state = "Redeemed"
               \/ /\ Gone(t)
                  /\ \A s \in Redeemers : \A x \in results[s] :
                        x.ticket = t => x.kind = "Redeemed"
    <3>1. t \in Tickets /\ t.channel \in Ids
      BY <1>6, <1>9 DEF IInv, TypeOK, Tickets
    <3>2. CASE t = h /\ b.state = "Redeemed"
      BY <1>3, <1>4, <1>5, <1>6, <3>2
    <3>3. CASE t \in paid /\ t.channel = ch
      BY <2>3, <1>1, <1>12, <3>1, <3>3 DEF IInv, ChainKnown
    <3>4. CASE t \in paid /\ t.channel # ch
      BY <2>3, <1>4, <3>1, <3>4 DEF IInv, ChainKnown
    <3> QED
      BY <1>3, <1>5, <3>2, <3>3, <3>4
  <2> QED
    BY <1>1, <2>1, <2>2, <2>3 DEF IInv, ChainKnown, callVars
<1>14. ReportsOnce' /\ StreamsKept'
  BY <1>1, <1>7, <1>9 DEF IInv, ReportsOnce, StreamsKept, Gone, callVars
<1> QED
  BY <1>8, <1>10, <1>13, <1>14, ChainStepType DEF IInv, ChainStep

\* What nobody waits for any more may land at any time: but for a failed call the
\* ticket was neglected, so no stream has it.
LEMMA OrphanLandsKeeps ==
    ASSUME IInv, NEW t \in orphans, OrphanLands(t)
    PROVE  IInv'
<1>1. /\ orphans' \subseteq orphans
      /\ paid \subseteq paid' /\ paid' \subseteq paid \cup {t}
      /\ UNCHANGED <<now, channels, issued, queue, attempt, callVars>>
  BY DEF OrphanLands
<1>2. \A c : InQueue(c)' = InQueue(c)
  BY <1>1 DEF InQueue
<1>3. QueuesInOrder'
  BY <1>1, QueuesUntouched DEF IInv
<1>4. AllCameIn'
  BY <1>1 DEF IInv, AllCameIn, Reported, callVars
<1>5. ChainKnown'
  <2>1. (Failed' <=> Failed) /\ \A u : (Reported(u)' <=> Reported(u)) /\ (Gone(u)' <=> Gone(u))
    BY <1>1, <1>2 DEF Failed, Reported, Gone, callVars
  <2>2. ~Failed => Gone(t) /\ \A r \in Redeemers : \A x \in results[r] : x.ticket # t
    BY DEF IInv, ChainKnown, Reported
  <2> QED
    BY <1>1, <2>1, <2>2 DEF IInv, ChainKnown, callVars
<1>6. ReportsOnce' /\ StreamsKept'
  BY <1>1, <1>2 DEF IInv, ReportsOnce, StreamsKept, Gone, callVars
<1> QED
  BY <1>3, <1>4, <1>5, <1>6, ChainStepType DEF IInv, ChainStep

\* Channels that close or open and the clock change nothing of what the invariant is about.
LEMMA TimeKeeps ==
    ASSUME IInv, Tick \/ \E ch \in Ids : ChannelStep(ch)
    PROVE  IInv'
<1>1. UNCHANGED <<orphans, paid, issued, queue, attempt, callVars>>
  BY DEF Tick, ChannelStep, InitiateClosure, FinalizeClosure, OpenChannel, chainVars
<1>2. \A c : InQueue(c)' = InQueue(c)
  BY <1>1 DEF InQueue
<1>3. QueuesInOrder' /\ AllCameIn'
  BY <1>1, QueuesUntouched DEF IInv, AllCameIn, Reported, callVars
<1>4. ChainKnown'
  BY <1>1, <1>2 DEF IInv, ChainKnown, Failed, Reported, Gone, callVars
<1>5. ReportsOnce' /\ StreamsKept'
  BY <1>1, <1>2 DEF IInv, ReportsOnce, StreamsKept, Gone, callVars
<1> QED
  BY <1>3, <1>4, <1>5, ChainStepType DEF IInv, ChainStep

LEMMA InvariantStep == IInv /\ [Next]_vars => IInv'
<1> SUFFICES ASSUME IInv, [Next]_vars PROVE IInv'
  OBVIOUS
<1>1. CASE UNCHANGED vars
  <2>1. \A c : InQueue(c)' = InQueue(c)
    BY <1>1 DEF vars, InQueue
  <2>2. TypeOK' /\ QueuesInOrder' /\ AllCameIn'
    BY <1>1, TypeStep, QueuesUntouched DEF IInv, vars, AllCameIn, Reported
  <2> QED
    BY <1>1, <2>1, <2>2
    DEF IInv, vars, ChainKnown, Failed, Reported, Gone, ReportsOnce, StreamsKept
<1>2. CASE \E r \in Redeemers : CallStep(r)
  BY <1>2, CallStepKeeps
<1>3. CASE ClientStep
  BY <1>3, InsertKeeps, NeglectKeeps DEF ClientStep
<1>4. CASE ChainStep
  BY <1>4, LandKeeps, OrphanLandsKeeps, TimeKeeps DEF ChainStep
<1> QED
  BY <1>1, <1>2, <1>3, <1>4 DEF Next

LEMMA InvariantHolds == Spec => []IInv
BY InvariantInit, InvariantStep, PTL DEF Spec

\* Every variable keeps its type: queues are sequences of tickets, and results are of
\* tickets that exist.
THEOREM TypeCorrect == Spec => []TypeOK
<1>1. IInv => TypeOK
  BY DEF IInv
<1> QED
  BY <1>1, InvariantHolds, PTL

\* What calls of redeem_in_channels report is what became of the tickets, however many
\* calls overlap, fail, and leave redemptions behind that land later.
THEOREM ReportsTrue == Spec => []ReportsAreTrue
BY InvariantSuffices, InvariantHolds, PTL

\* A call that returns Ok has drained the queues it opened a stream in.
THEOREM OkIsDrained == Spec => []OkDrains
BY InvariantSuffices, InvariantHolds, PTL

--------------------------------------------------------------------------------
(* Queries. *)

\* The selectors redeem_all_tickets and redeem_tickets_with_counterparty pass.
NodeRequests ==
    {{}} \cup {{with_destination(with_source(Default, a), Me)} : a \in Addresses}

\* A channel is under its id.
EntriesInPlace == /\ channels \in [Ids -> ChannelEntries]
                  /\ \A ch \in Ids : channels[ch].id = ch

LEMMA InPlace == Spec => []EntriesInPlace
<1>1. Init => EntriesInPlace
  BY TypeInit DEF Init, EntriesInPlace, TypeOK, Entry
<1>2. ASSUME EntriesInPlace, IInv, [Next]_vars PROVE EntriesInPlace'
  <2>1. TypeOK'
    BY <1>2, InvariantStep DEF IInv
  <2>2. CASE \E r \in Redeemers : CallStep(r)
    <3>1. UNCHANGED channels
      BY <2>2 DEF CallStep, Redeem, RedeemWith, QueryFails, Return, QueryStep, PassOver,
                  OpenStream, SkipStream, Read, StreamStep, TooLow, Send, Answer,
                  StreamFails, StreamEnds, Yield, chainVars
    <3> QED
      BY <1>2, <3>1 DEF EntriesInPlace
  <2>3. CASE ClientStep \/ UNCHANGED vars
    <3>1. UNCHANGED channels
      BY <2>3 DEF ClientStep, insert_incoming_ticket, neglect_tickets, chainVars, vars
    <3> QED
      BY <1>2, <3>1 DEF EntriesInPlace
  <2>4. ASSUME NEW ch \in Ids, NEW status, NEW t,
               channels' = [channels EXCEPT ![ch] = Entry(ch, status, t)]
        PROVE  EntriesInPlace'
    BY <1>2, <2>1, <2>4 DEF EntriesInPlace, TypeOK, Entry
  <2>5. CASE \E ch \in Ids : ChannelStep(ch)
    BY <2>4, <2>5 DEF ChannelStep, InitiateClosure, FinalizeClosure, OpenChannel
  <2>6. CASE Tick \/ (\E ch \in Ids : Land(ch)) \/ \E t \in orphans : OrphanLands(t)
    <3>1. UNCHANGED channels
      BY <2>6 DEF Tick, Land, OrphanLands, chainVars
    <3> QED
      BY <1>2, <3>1 DEF EntriesInPlace
  <2> QED
    BY <1>2, <2>2, <2>3, <2>5, <2>6 DEF Next, ChainStep
<1> QED
  BY <1>1, <1>2, InvariantHolds, PTL DEF Spec

\* A call asks for its own incoming channels that are open or redeemable for the grace
\* period, from the sources its request has and in the states it allows as well.
LEMMA QuerySelectorFields ==
    ASSUME NEW q \in Requests
    PROVE  \E s \in ChannelSelector :
              /\ (q = {} /\ s = Default) \/ q = {s}
              /\ QuerySelector(q).id = {}
              /\ QuerySelector(q).destination = {Me}
              /\ QuerySelector(q).source = s.source
              /\ QuerySelector(q).allowed_states = s.allowed_states \cup {"Open", "PendingToClose"}
              /\ QuerySelector(q).closure_time_range = {t \in Times : t >= now + Grace}
<1>1. PICK s \in ChannelSelector :
         /\ (q = {} /\ s = Default) \/ q = {s}
         /\ s = IF q = {} THEN Default ELSE CHOOSE u \in q : TRUE
  BY SelectorType, RedemptionAssumption
<1>2. PICK v : v = [s EXCEPT !.destination = {Me}]
  OBVIOUS
<1>3. v \in ChannelSelector /\ v.destination = {Me} /\ v.source = s.source
      /\ v.allowed_states = s.allowed_states
  BY <1>2, RedemptionAssumption DEF ChannelSelector
<1>4. PICK w : w = [v EXCEPT !.id = {}]
  OBVIOUS
<1>5. /\ w \in ChannelSelector /\ w.id = {} /\ w.destination = {Me}
      /\ w.source = s.source /\ w.allowed_states = s.allowed_states
  BY <1>3, <1>4 DEF ChannelSelector
<1>6. PICK x : x = [w EXCEPT !.allowed_states = w.allowed_states \cup {"Open", "PendingToClose"}]
  OBVIOUS
<1>7. /\ x \in ChannelSelector /\ x.id = {} /\ x.destination = {Me} /\ x.source = s.source
      /\ x.allowed_states = s.allowed_states \cup {"Open", "PendingToClose"}
  BY <1>5, <1>6 DEF ChannelSelector, ChannelStatuses
<1>8. QuerySelector(q) = [x EXCEPT !.closure_time_range = {t \in Times : t >= now + Grace}]
  BY <1>1, <1>2, <1>4, <1>6 DEF QuerySelector, with_destination, with_redeemable_channels,
                                with_closure_time_range, with_allowed_states
<1>9. /\ QuerySelector(q).id = {} /\ QuerySelector(q).destination = {Me}
      /\ QuerySelector(q).source = s.source
      /\ QuerySelector(q).allowed_states = s.allowed_states \cup {"Open", "PendingToClose"}
      /\ QuerySelector(q).closure_time_range = {t \in Times : t >= now + Grace}
  BY <1>7, <1>8 DEF ChannelSelector
<1> QED
  BY <1>1, <1>9

\* What a request q wants of a channel with the entry c.
WantedEntry(q, c) == /\ c.id[2] = Me
                     /\ \/ c.status = "Open"
                        \/ c.status = "PendingToClose" /\ c.closure >= now + Grace
                     /\ \A s \in q : satisfies(s, c)

LEMMA WantedEntries ==
    ASSUME EntriesInPlace, NEW q
    PROVE  Wanted(q) = {ch \in Ids : WantedEntry(q, channels[ch])}
BY DEF Wanted, WantedEntry, EntriesInPlace

\* Requests as the builder methods make them: the id and the parties exclude each other.
Built(q) == \A s \in q : s.id # {} => s.source = {}

LEMMA WantedIsSelected ==
    ASSUME now \in Nat, NEW q \in Requests, Built(q),
           NEW c \in ChannelEntries, WantedEntry(q, c)
    PROVE  satisfies(QuerySelector(q), c)
<1>1. PICK s \in ChannelSelector :
         /\ (q = {} /\ s = Default) \/ q = {s}
         /\ QuerySelector(q).id = {}
         /\ QuerySelector(q).destination = {Me}
         /\ QuerySelector(q).source = s.source
         /\ QuerySelector(q).allowed_states = s.allowed_states \cup {"Open", "PendingToClose"}
         /\ QuerySelector(q).closure_time_range = {t \in Times : t >= now + Grace}
  BY QuerySelectorFields
<1>2. s.source \subseteq {c.id[1]}
  <2>1. CASE q = {} /\ s = Default
    BY <2>1 DEF Default
  <2>2. CASE q = {s}
    BY <2>2 DEF Built, WantedEntry, satisfies, PartiesMatch
  <2> QED
    BY <1>1, <2>1, <2>2
<1>3. PartiesMatch(QuerySelector(q), c)
  BY <1>1, <1>2 DEF PartiesMatch, WantedEntry
<1>4. StateMatches(QuerySelector(q), c) /\ ClosureMatches(QuerySelector(q), c)
  BY <1>1 DEF StateMatches, ClosureMatches, WantedEntry, ChannelEntries
<1> QED
  BY <1>3, <1>4 DEF satisfies

--------------------------------------------------------------------------------
(* Steps of the history. *)

HistoryType == /\ asked \in [Redeemers -> Requests \cup {{}}]
               /\ tried \in [Redeemers -> SUBSET Ids]
               /\ always \in [Redeemers -> SUBSET Ids]
               /\ ever \in [Redeemers -> SUBSET Ids]

\* The history keeps to the steps of Redemption.
LEMMA HistoryKeepsSteps == QueriesSpec => Spec
<1>1. QueriesInit => Init
  BY DEF QueriesInit
<1>2. QueriesNext => Next
  BY DEF QueriesNext, Begin, Try, TryNothing, Next, CallStep, Redeem, QueryStep
<1>3. [QueriesNext]_<<vars, historyVars>> => [Next]_vars
  BY <1>2
<1> QED
  BY <1>1, <1>3, PTL DEF QueriesSpec, Spec

\* Of a query that goes on, a step looks at one channel or at none, and keeps track of
\* what is wanted.
LEMMA QueryMoves ==
    ASSUME TypeOK, HistoryType, NEW r \in Redeemers,
           TryNothing \/ \E s \in Redeemers, ch \in Ids : Try(s, ch)
    PROVE  /\ asked' = asked
           /\ always'[r] \subseteq always[r] /\ ever[r] \subseteq ever'[r]
           /\ Querying(r) => /\ always'[r] \subseteq Wanted(asked[r])'
                             /\ Wanted(asked[r])' \subseteq ever'[r]
           /\ \/ /\ unread'[r] = unread[r] /\ selector'[r] = selector[r]
                 /\ tried'[r] = tried[r]
              \/ \E ch \in unread[r] :
                    /\ unread'[r] = unread[r] \ {ch}
                    /\ selector'[r] = IF unread'[r] = {} THEN {} ELSE selector[r]
                    /\ tried'[r] = IF Selected(r, ch) THEN tried[r] \cup {ch} ELSE tried[r]
<1>1. Track
  BY DEF TryNothing, Try
<1>2. /\ asked' = asked
      /\ always'[r] = IF Querying(r) THEN always[r] \cap Wanted(asked[r])' ELSE always[r]
      /\ ever'[r] = IF Querying(r) THEN ever[r] \cup Wanted(asked[r])' ELSE ever[r]
  BY <1>1 DEF Track
<1>3. ASSUME NEW s \in Redeemers, NEW ch \in Ids, Read(s, ch),
             tried' = IF Selected(s, ch) THEN [tried EXCEPT ![s] = @ \cup {ch}] ELSE tried
      PROVE  \/ /\ unread'[r] = unread[r] /\ selector'[r] = selector[r]
                /\ tried'[r] = tried[r]
             \/ \E c \in unread[r] :
                   /\ unread'[r] = unread[r] \ {c}
                   /\ selector'[r] = IF unread'[r] = {} THEN {} ELSE selector[r]
                   /\ tried'[r] = IF Selected(r, c) THEN tried[r] \cup {c} ELSE tried[r]
  <2>1. CASE s = r
    <3>1. ch \in unread[r] /\ unread'[r] = unread[r] \ {ch}
      BY <1>3, <2>1 DEF Read, TypeOK
    <3>2. selector'[r] = IF unread[r] = {ch} THEN {} ELSE selector[r]
      BY <1>3, <2>1 DEF Read, TypeOK
    <3>3. unread[r] = {ch} <=> unread'[r] = {}
      BY <3>1
    <3>4. tried'[r] = IF Selected(r, ch) THEN tried[r] \cup {ch} ELSE tried[r]
      BY <1>3, <2>1 DEF HistoryType
    <3> QED
      BY <3>1, <3>2, <3>3, <3>4
  <2>2. CASE s # r
    BY <1>3, <2>2 DEF Read, TypeOK, HistoryType
  <2> QED
    BY <2>1, <2>2
<1>4. CASE \E s \in Redeemers, ch \in Ids : Try(s, ch)
  <2>1. PICK s \in Redeemers, ch \in Ids : Try(s, ch)
    BY <1>4
  <2>2. /\ Read(s, ch) /\ Selected(s, ch)
        /\ tried' = [tried EXCEPT ![s] = @ \cup {ch}]
    BY <2>1 DEF Try, OpenStream, SkipStream
  <2> QED
    BY <1>2, <1>3, <2>2
<1>5. CASE TryNothing
  <2>1. tried' = tried
    BY <1>5 DEF TryNothing
  <2>2. CASE \E s \in Redeemers, ch \in Ids : PassOver(s, ch)
    <3>1. PICK s \in Redeemers, ch \in Ids : Read(s, ch) /\ ~Selected(s, ch)
      BY <2>2 DEF PassOver
    <3> QED
      BY <1>2, <1>3, <2>1, <3>1
  <2>3. CASE ~ \E s \in Redeemers, ch \in Ids : PassOver(s, ch)
    <3>1. UNCHANGED <<unread, selector>>
      <4>1. CASE ClientStep
        BY <4>1 DEF ClientStep, insert_incoming_ticket, neglect_tickets, callVars
      <4>2. CASE ChainStep
        BY <4>2 DEF ChainStep, ChannelStep, Land, InitiateClosure, FinalizeClosure,
                    OpenChannel, OrphanLands, Tick, callVars
      <4>3. CASE \E s \in Redeemers : QueryFails(s) \/ Return(s)
        BY <4>3 DEF QueryFails, Return
      <4>4. CASE \E s \in Redeemers, ch \in Ids : StreamStep(s, ch)
        BY <4>4 DEF StreamStep, TooLow, Send, Answer, StreamFails, StreamEnds, Yield, callVars
      <4> QED
        BY <1>5, <2>3, <4>1, <4>2, <4>3, <4>4 DEF TryNothing
    <3> QED
      BY <1>2, <2>1, <3>1
  <2> QED
    BY <2>2, <2>3
<1> QED
  BY <1>4, <1>5

LEMMA HistoryTyped == TypeOK /\ HistoryType /\ [QueriesNext]_<<vars, historyVars>> => HistoryType'
<1> SUFFICES ASSUME TypeOK, HistoryType, [QueriesNext]_<<vars, historyVars>> PROVE HistoryType'
  OBVIOUS
<1>1. \A q : Wanted(q) \subseteq Ids
  BY DEF Wanted
<1>2. \A q : Wanted(q)' \subseteq Ids
  BY DEF Wanted
<1>3. CASE UNCHANGED <<vars, historyVars>>
  BY <1>3 DEF HistoryType, historyVars
<1>4. ASSUME NEW r \in Redeemers, NEW q \in Requests, Begin(r, q) PROVE HistoryType'
  BY <1>1, <1>4 DEF Begin, HistoryType
<1>5. ASSUME Track PROVE /\ asked' \in [Redeemers -> Requests \cup {{}}]
                         /\ always' \in [Redeemers -> SUBSET Ids]
                         /\ ever' \in [Redeemers -> SUBSET Ids]
  BY <1>2, <1>5 DEF Track, HistoryType
<1>6. ASSUME NEW r \in Redeemers, NEW ch \in Ids, Try(r, ch) PROVE HistoryType'
  BY <1>5, <1>6 DEF Try, HistoryType
<1>7. CASE TryNothing
  BY <1>5, <1>7 DEF TryNothing, HistoryType
<1> QED
  BY <1>3, <1>4, <1>6, <1>7 DEF QueriesNext

\* A call that begins: its query is built, and has all channels to look at.
LEMMA QueryBegins ==
    ASSUME TypeOK, HistoryType, NEW r \in Redeemers, NEW q \in Requests, Begin(r, q)
    PROVE  /\ UNCHANGED <<now, channels>>
           /\ tried'[r] = {} /\ asked'[r] = q /\ unread'[r] = Ids /\ selector'[r] = {QuerySelector(q)}
           /\ always'[r] = Wanted(q) /\ ever'[r] = Wanted(q)
           /\ \A s \in Redeemers : s # r =>
                 /\ tried'[s] = tried[s] /\ asked'[s] = asked[s]
                 /\ unread'[s] = unread[s]
                 /\ selector'[s] = selector[s]
                 /\ always'[s] = always[s] /\ ever'[s] = ever[s]
BY DEF Begin, RedeemWith, chainVars, TypeOK, HistoryType

\* The clock never goes back, and a channel that satisfies a query by a step began to
\* close or was opened in it.
LEMMA ChannelMoves ==
    ASSUME TypeOK, EntriesInPlace, [Next]_vars
    PROVE  /\ now \in Nat /\ now' \in Nat /\ now' >= now
           /\ \A ch \in Ids :
                 \/ channels'[ch] = channels[ch]
                 \/ channels[ch].status = "Open" /\ channels'[ch].status = "PendingToClose"
                 \/ channels'[ch].status \in {"Closed", "Open"}
<1>1. now \in Nat
  BY RedemptionAssumption DEF TypeOK
<1>2. CASE \E r \in Redeemers : CallStep(r)
  <2>1. UNCHANGED <<now, channels>>
    BY <1>2 DEF CallStep, Redeem, RedeemWith, QueryFails, Return, QueryStep, PassOver,
                OpenStream, SkipStream, Read, StreamStep, TooLow, Send, Answer,
                StreamFails, StreamEnds, Yield, chainVars
  <2> QED
    BY <1>1, <2>1
<1>3. CASE ClientStep \/ UNCHANGED vars
  <2>1. UNCHANGED <<now, channels>>
    BY <1>3 DEF ClientStep, insert_incoming_ticket, neglect_tickets, chainVars, vars
  <2> QED
    BY <1>1, <2>1
<1>4. CASE (\E ch \in Ids : Land(ch)) \/ \E t \in orphans : OrphanLands(t)
  <2>1. UNCHANGED <<now, channels>>
    BY <1>4 DEF Land, OrphanLands
  <2> QED
    BY <1>1, <2>1
<1>5. ASSUME NEW ch \in Ids, ChannelStep(ch)
      PROVE  /\ UNCHANGED now
             /\ \A c \in Ids :
                   \/ channels'[c] = channels[c]
                   \/ channels[c].status = "Open" /\ channels'[c].status = "PendingToClose"
                   \/ channels'[c].status \in {"Closed", "Open"}
  BY <1>5 DEF ChannelStep, InitiateClosure, FinalizeClosure, OpenChannel, Entry, TypeOK
<1>6. CASE Tick
  <2>1. now' = now + 1 /\ UNCHANGED channels
    BY <1>6 DEF Tick, chainVars
  <2> QED
    BY <1>1, <2>1
<1> QED
  BY <1>1, <1>2, <1>3, <1>4, <1>5, <1>6 DEF Next, ChainStep

--------------------------------------------------------------------------------
(* A query misses nothing. *)

\* What a call still wants, of what it wanted from the start, its query has still to
\* look at or has found; and whatever it wants by now satisfies its selector, since the
\* time a closure must leave only grows.
NothingMissed == \A r \in Redeemers :
    /\ always[r] \subseteq unread[r] \cup tried[r]
    /\ Querying(r) =>
          /\ always[r] \subseteq Wanted(asked[r])
          /\ \E s \in selector[r] : \A c \in ChannelEntries :
                WantedEntry(asked[r], c) => satisfies(s, c)

LEMMA MissesNothingStep ==
    ASSUME \A q \in Requests : Built(q),
           TypeOK, HistoryType, EntriesInPlace, EntriesInPlace', NothingMissed,
           [QueriesNext]_<<vars, historyVars>>, [Next]_vars
    PROVE  NothingMissed'
<1>1. CASE UNCHANGED <<vars, historyVars>>
  <2>1. \A q : Wanted(q)' = Wanted(q) /\ \A c : WantedEntry(q, c)' = WantedEntry(q, c)
    BY <1>1 DEF vars, Wanted, WantedEntry
  <2> QED
    BY <1>1, <2>1 DEF vars, historyVars, NothingMissed, Querying
<1>2. ASSUME NEW b \in Redeemers, NEW q \in Requests, Begin(b, q) PROVE NothingMissed'
  <2>1. \A p : Wanted(p)' = Wanted(p) /\ \A c : WantedEntry(p, c)' = WantedEntry(p, c)
    BY <1>2, QueryBegins DEF Wanted, WantedEntry
  <2>2. \A c \in ChannelEntries : WantedEntry(q, c) => satisfies(QuerySelector(q), c)
    BY WantedIsSelected, RedemptionAssumption DEF TypeOK
  <2>3. Wanted(q) \subseteq Ids
    BY DEF Wanted
  <2>4. ASSUME NEW r \in Redeemers
        PROVE  /\ always'[r] \subseteq unread'[r] \cup tried'[r]
               /\ Querying(r)' =>
                     /\ always'[r] \subseteq Wanted(asked[r])'
                     /\ \E s \in selector'[r] : \A c \in ChannelEntries :
                           WantedEntry(asked[r], c)' => satisfies(s, c)
    <3>1. CASE r = b
      BY <1>2, <2>1, <2>2, <2>3, <3>1, QueryBegins
    <3>2. CASE r # b
      BY <1>2, <2>1, <3>2, QueryBegins DEF NothingMissed, Querying
    <3> QED
      BY <3>1, <3>2
  <2> QED
    BY <2>4 DEF NothingMissed
<1>3. CASE TryNothing \/ \E s \in Redeemers, ch \in Ids : Try(s, ch)
  <2>1. \A c \in ChannelEntries : c.closure >= now' + Grace => c.closure >= now + Grace
    <3> SUFFICES ASSUME NEW c \in ChannelEntries
                 PROVE  c.closure >= now' + Grace => c.closure >= now + Grace
      OBVIOUS
    <3>1. /\ now \in Nat /\ now' \in Nat /\ now' >= now /\ Grace \in Nat /\ c.closure \in Nat
      BY ChannelMoves, RedemptionAssumption DEF ChannelEntries
    <3> QED
      BY <3>1
  <2>2. ASSUME NEW r \in Redeemers
        PROVE  /\ always'[r] \subseteq unread'[r] \cup tried'[r]
               /\ Querying(r)' =>
                     /\ always'[r] \subseteq Wanted(asked[r])'
                     /\ \E s \in selector'[r] : \A c \in ChannelEntries :
                           WantedEntry(asked[r], c)' => satisfies(s, c)
    <3>1. /\ asked' = asked /\ always'[r] \subseteq always[r]
          /\ Querying(r) => always'[r] \subseteq Wanted(asked[r])'
          /\ \/ /\ unread'[r] = unread[r] /\ selector'[r] = selector[r]
                /\ tried'[r] = tried[r]
             \/ \E ch \in unread[r] :
                   /\ unread'[r] = unread[r] \ {ch}
                   /\ selector'[r] = IF unread'[r] = {} THEN {} ELSE selector[r]
                   /\ tried'[r] = IF Selected(r, ch) THEN tried[r] \cup {ch} ELSE tried[r]
      BY <1>3, QueryMoves
    <3>2. ASSUME NEW ch \in unread[r], ch \in always[r] PROVE Selected(r, ch)
      <4>1. ch \in Wanted(asked[r]) /\ channels[ch] \in ChannelEntries
        BY <3>2 DEF NothingMissed, Querying, EntriesInPlace, HistoryType
      <4>2. WantedEntry(asked[r], channels[ch])
        BY <4>1, WantedEntries
      <4> QED
        BY <3>2, <4>1, <4>2 DEF NothingMissed, Querying, Selected
    <3>3. always'[r] \subseteq unread'[r] \cup tried'[r]
      BY <3>1, <3>2 DEF NothingMissed
    <3>4. ASSUME Querying(r)'
          PROVE  /\ always'[r] \subseteq Wanted(asked[r])'
                 /\ \E s \in selector'[r] : \A c \in ChannelEntries :
                       WantedEntry(asked[r], c)' => satisfies(s, c)
      <4>1. Querying(r) /\ selector'[r] = selector[r]
        BY <3>1, <3>4 DEF Querying
      <4>2. PICK s \in selector[r] :
               \A c \in ChannelEntries : WantedEntry(asked[r], c) => satisfies(s, c)
        BY <4>1 DEF NothingMissed
      <4>3. ASSUME NEW c \in ChannelEntries, WantedEntry(asked[r], c)'
            PROVE  WantedEntry(asked[r], c)
        BY <2>1, <3>1, <4>3 DEF WantedEntry
      <4> QED
        BY <3>1, <4>1, <4>2, <4>3
    <3> QED
      BY <3>3, <3>4
  <2> QED
    BY <2>2 DEF NothingMissed
<1> QED
  BY <1>1, <1>2, <1>3 DEF QueriesNext

--------------------------------------------------------------------------------
(* A query makes nothing up. *)

\* The selector of a query is satisfied only by channels that are open or about to
\* close, and whose parties the call asked for, which is all its request is about.
Narrow(s, q) ==
    /\ s.allowed_states = {"Open", "PendingToClose"}
    /\ \A c \in ChannelEntries :
          PartiesMatch(s, c) => c.id[2] = Me /\ \A u \in q : satisfies(u, c)

LEMMA NodeSelectorNarrow ==
    ASSUME Requests \subseteq NodeRequests, NEW q \in Requests
    PROVE  Narrow(QuerySelector(q), q)
<1>1. PICK s \in ChannelSelector :
         /\ (q = {} /\ s = Default) \/ q = {s}
         /\ QuerySelector(q).id = {}
         /\ QuerySelector(q).destination = {Me}
         /\ QuerySelector(q).source = s.source
         /\ QuerySelector(q).allowed_states = s.allowed_states \cup {"Open", "PendingToClose"}
  BY QuerySelectorFields
<1>2. s.allowed_states = {} /\ (q # {} => s.id = {} /\ s.destination = {Me})
  <2>1. CASE q = {}
    BY <1>1, <2>1 DEF Default
  <2>2. CASE q # {}
    <3>1. PICK a \in Addresses : s = with_destination(with_source(Default, a), Me)
      BY <1>1, <2>2 DEF NodeRequests
    <3>2. PICK d : d = Default
      OBVIOUS
    <3>3. PICK v : v = [d EXCEPT !.source = {a}]
      OBVIOUS
    <3>4. v \in ChannelSelector /\ v.allowed_states = {}
      BY <3>2, <3>3 DEF Default, ChannelSelector
    <3>5. PICK w : w = [v EXCEPT !.id = {}]
      OBVIOUS
    <3>6. w \in ChannelSelector /\ w.allowed_states = {}
      BY <3>4, <3>5 DEF ChannelSelector
    <3>7. PICK x : x = [w EXCEPT !.destination = {Me}]
      OBVIOUS
    <3>8. x \in ChannelSelector /\ x.allowed_states = {} /\ x.destination = {Me}
      BY <3>6, <3>7, RedemptionAssumption DEF ChannelSelector
    <3>9. s = [x EXCEPT !.id = {}]
      BY <3>1, <3>2, <3>3, <3>5, <3>7 DEF with_destination, with_source
    <3> QED
      BY <3>8, <3>9 DEF ChannelSelector
  <2> QED
    BY <2>1, <2>2
<1>3. ASSUME NEW c \in ChannelEntries, PartiesMatch(QuerySelector(q), c)
      PROVE  c.id[2] = Me /\ \A u \in q : satisfies(u, c)
  <2>1. c.id[2] = Me /\ s.source \subseteq {c.id[1]}
    BY <1>1, <1>3 DEF PartiesMatch
  <2>2. ASSUME q = {s} PROVE satisfies(s, c)
    BY <1>2, <2>1, <2>2 DEF satisfies, PartiesMatch, StateMatches, ClosureMatches
  <2> QED
    BY <1>1, <2>1, <2>2
<1> QED
  BY <1>1, <1>2, <1>3 DEF Narrow

\* The channels that the query of a call of the node finds are those it wants.
LEMMA SelectedIsWanted ==
    ASSUME Requests \subseteq NodeRequests, NEW q \in Requests,
           NEW c \in ChannelEntries, satisfies(QuerySelector(q), c)
    PROVE  WantedEntry(q, c)
<1>1. QuerySelector(q).closure_time_range = {t \in Times : t >= now + Grace}
  BY QuerySelectorFields
<1>2. Narrow(QuerySelector(q), q)
  BY NodeSelectorNarrow
<1> QED
  BY <1>1, <1>2 DEF Narrow, satisfies, StateMatches, ClosureMatches, WantedEntry

\* What satisfies the selector of a query by now was wanted at some time of it: a
\* channel that began to close since then did while it was open, and one that was
\* opened is wanted now.
NothingMadeUp == \A r \in Redeemers :
    /\ tried[r] \subseteq ever[r]
    /\ Querying(r) => \A s \in selector[r] :
          /\ Narrow(s, asked[r])
          /\ \A ch \in Ids : satisfies(s, channels[ch]) => ch \in ever[r]

LEMMA MakesNothingUpStep ==
    ASSUME Requests \subseteq NodeRequests,
           TypeOK, HistoryType, EntriesInPlace, EntriesInPlace', NothingMadeUp,
           [QueriesNext]_<<vars, historyVars>>, [Next]_vars
    PROVE  NothingMadeUp'
<1>1. CASE UNCHANGED <<vars, historyVars>>
  BY <1>1 DEF vars, historyVars, NothingMadeUp, Querying, Narrow
<1>2. ASSUME NEW b \in Redeemers, NEW q \in Requests, Begin(b, q) PROVE NothingMadeUp'
  <2>1. ASSUME NEW ch \in Ids, satisfies(QuerySelector(q), channels[ch])
        PROVE  ch \in Wanted(q)
    <3>1. channels[ch] \in ChannelEntries
      BY DEF EntriesInPlace
    <3> QED
      BY <2>1, <3>1, SelectedIsWanted, WantedEntries
  <2>2. Narrow(QuerySelector(q), q)
    BY NodeSelectorNarrow
  <2>3. ASSUME NEW r \in Redeemers
        PROVE  /\ tried'[r] \subseteq ever'[r]
               /\ Querying(r)' => \A s \in selector'[r] :
                     /\ Narrow(s, asked'[r])
                     /\ \A ch \in Ids : satisfies(s, channels'[ch]) => ch \in ever'[r]
    <3>1. CASE r = b
      BY <1>2, <2>1, <2>2, <3>1, QueryBegins
    <3>2. CASE r # b
      BY <1>2, <3>2, QueryBegins DEF NothingMadeUp, Querying
    <3> QED
      BY <3>1, <3>2
  <2> QED
    BY <2>3 DEF NothingMadeUp, Narrow
<1>3. CASE TryNothing \/ \E s \in Redeemers, ch \in Ids : Try(s, ch)
  <2>1. ASSUME NEW r \in Redeemers
        PROVE  /\ tried'[r] \subseteq ever'[r]
               /\ Querying(r)' => \A s \in selector'[r] :
                     /\ Narrow(s, asked'[r])
                     /\ \A ch \in Ids : satisfies(s, channels'[ch]) => ch \in ever'[r]
    <3>1. /\ asked' = asked /\ ever[r] \subseteq ever'[r]
          /\ Querying(r) => Wanted(asked[r])' \subseteq ever'[r]
          /\ \/ /\ unread'[r] = unread[r] /\ selector'[r] = selector[r]
                /\ tried'[r] = tried[r]
             \/ \E ch \in unread[r] :
                   /\ unread'[r] = unread[r] \ {ch}
                   /\ selector'[r] = IF unread'[r] = {} THEN {} ELSE selector[r]
                   /\ tried'[r] = IF Selected(r, ch) THEN tried[r] \cup {ch} ELSE tried[r]
      BY <1>3, QueryMoves
    <3>2. ASSUME NEW ch \in unread[r], Selected(r, ch) PROVE ch \in ever[r]
      BY <3>2 DEF NothingMadeUp, Selected, Querying, TypeOK
    <3>3. tried'[r] \subseteq ever'[r]
      BY <3>1, <3>2 DEF NothingMadeUp
    <3>4. ASSUME Querying(r)', NEW s \in selector'[r]
          PROVE  /\ Narrow(s, asked'[r])
                 /\ \A ch \in Ids : satisfies(s, channels'[ch]) => ch \in ever'[r]
      <4>1. Querying(r) /\ s \in selector[r]
        BY <3>1, <3>4 DEF Querying
      <4>2. Narrow(s, asked[r])
        BY <4>1 DEF NothingMadeUp
      <4>3. ASSUME NEW ch \in Ids, satisfies(s, channels'[ch]) PROVE ch \in ever'[r]
        <5>1. /\ channels[ch] \in ChannelEntries /\ channels[ch].id = ch
              /\ channels'[ch] \in ChannelEntries /\ channels'[ch].id = ch
          BY DEF EntriesInPlace
        <5>2. CASE channels'[ch] = channels[ch]
          BY <3>1, <4>1, <4>3, <5>2 DEF NothingMadeUp
        <5>3. CASE channels[ch].status = "Open" /\ channels'[ch].status = "PendingToClose"
          <6>1. satisfies(s, channels[ch])
            BY <4>2, <4>3, <5>1, <5>3
            DEF Narrow, satisfies, PartiesMatch, StateMatches, ClosureMatches
          <6> QED
            BY <3>1, <4>1, <6>1 DEF NothingMadeUp
        <5>4. CASE channels'[ch].status = "Open"
          <6>1. ch[2] = Me /\ \A u \in asked[r] : satisfies(u, channels'[ch])
            BY <4>2, <4>3, <5>1 DEF Narrow, satisfies
          <6>2. ch \in Wanted(asked[r])'
            BY <3>1, <5>4, <6>1 DEF Wanted
          <6> QED
            BY <3>1, <4>1, <6>2
        <5>5. channels'[ch].status # "Closed"
          BY <4>2, <4>3 DEF Narrow, satisfies, StateMatches
        <5> QED
          BY <5>2, <5>3, <5>4, <5>5, ChannelMoves
      <4> QED
        BY <3>1, <4>2, <4>3
    <3> QED
      BY <3>3, <3>4
  <2> QED
    BY <2>1 DEF NothingMadeUp, Narrow
<1> QED
  BY <1>1, <1>2, <1>3 DEF QueriesNext

--------------------------------------------------------------------------------
(* What is proved of the queries. *)

LEMMA QueriesInPlace == QueriesSpec => [](TypeOK /\ HistoryType /\ EntriesInPlace)
<1>1. QueriesInit => HistoryType
  BY DEF QueriesInit, HistoryType, None
<1>2. TypeOK /\ HistoryType /\ [QueriesNext]_<<vars, historyVars>> => HistoryType'
  BY HistoryTyped
<1>3. QueriesSpec => []TypeOK /\ []EntriesInPlace
  BY HistoryKeepsSteps, TypeCorrect, InPlace, PTL
<1> QED
  BY <1>1, <1>2, <1>3, PTL DEF QueriesSpec

\* A call misses no channel: it calls redeem_stream in all that are open or redeemable
\* for the grace period and match the selector it was given, from the time it builds
\* its own to the end of the query, whatever selector that was.
THEOREM NoChannelMissed ==
    ASSUME \A q \in Requests : Built(q)
    PROVE  QueriesSpec => []QueryMissesNothing
<1>1. QueriesInit => NothingMissed
  BY DEF QueriesInit, Init, None, NothingMissed, Querying
<1>2. /\ NothingMissed /\ TypeOK /\ HistoryType /\ EntriesInPlace /\ EntriesInPlace'
      /\ [QueriesNext]_<<vars, historyVars>> /\ [Next]_vars
      => NothingMissed'
  BY MissesNothingStep
<1>3. NothingMissed => QueryMissesNothing
  BY DEF NothingMissed, QueryMissesNothing, Querying
<1> QED
  BY <1>1, <1>2, <1>3, HistoryKeepsSteps, QueriesInPlace, PTL DEF QueriesSpec, Spec

\* A call of redeem_all_tickets or redeem_tickets_with_counterparty makes no channel
\* up: those it calls redeem_stream in were, at some time of the query, incoming, open
\* or redeemable for the grace period, and from the counterparty. Of a request with a
\* channel id or with states of its own this is not so: redeem_in_channels widens it.
THEOREM NoChannelMadeUp ==
    ASSUME Requests \subseteq NodeRequests
    PROVE  QueriesSpec => []QueryFindsWanted
<1>1. QueriesInit => NothingMadeUp
  BY DEF QueriesInit, Init, None, NothingMadeUp, Querying
<1>2. /\ NothingMadeUp /\ TypeOK /\ HistoryType /\ EntriesInPlace /\ EntriesInPlace'
      /\ [QueriesNext]_<<vars, historyVars>> /\ [Next]_vars
      => NothingMadeUp'
  BY MakesNothingUpStep
<1>3. NothingMadeUp => QueryFindsWanted
  BY DEF NothingMadeUp, QueryFindsWanted
<1> QED
  BY <1>1, <1>2, <1>3, HistoryKeepsSteps, QueriesInPlace, PTL DEF QueriesSpec, Spec
================================================================================
