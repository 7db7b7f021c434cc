--------------------------- MODULE RedemptionQueries ---------------------------
(***************************************************************************)
(* The queries of redeem_in_channels (src/src/tickets/mod.rs): the clock   *)
(* is read when a call builds its selector, the channels are looked at one *)
(* by one after that, and channels close and open in between.              *)
(*                                                                         *)
(* This is Redemption, with history variables that record what each call   *)
(* asked for, in which channels it called redeem_stream, and which ones it *)
(* wanted while its query went on: throughout, and at some time.           *)
(***************************************************************************)
EXTENDS Redemption

VARIABLES asked,  \* the selector each call was given, an Option
          tried,  \* channels it called redeem_stream for
          always, \* channels it wanted from the start of its query to the end
          ever    \* channels it wanted at some time of its query

historyVars == <<asked, tried, always, ever>>

\* The documentation of redeem_in_channels: it "queries the chain client for all
\* incoming channels that are open or have a ticket redemption window open (at least
\* min_grace_period in the future) and optionally also matching the given selector".
Wanted(q) == {ch \in Ids :
    /\ ch[2] = Me
    /\ \/ channels[ch].status = "Open"
       \/ channels[ch].status = "PendingToClose" /\ channels[ch].closure >= now + Grace
    /\ \A s \in q : satisfies(s, channels[ch])}

None == [r \in Redeemers |-> {}]

QueriesInit == Init /\ asked = None /\ tried = None /\ always = None /\ ever = None

Begin(r, q) == /\ \E m \in Values : RedeemWith(r, q, m)
               /\ asked' = [asked EXCEPT ![r] = q]
               /\ always' = [always EXCEPT ![r] = Wanted(q)]
               /\ ever' = [ever EXCEPT ![r] = Wanted(q)]
               /\ tried' = [tried EXCEPT ![r] = {}]

Querying(r) == unread[r] # {}

\* What is wanted by now, as the channels and the clock are after the step.
Track ==
    /\ UNCHANGED asked
    /\ always' = [r \in Redeemers |->
                    IF Querying(r) THEN always[r] \cap Wanted(asked[r])' ELSE always[r]]
    /\ ever' = [r \in Redeemers |->
                    IF Querying(r) THEN ever[r] \cup Wanted(asked[r])' ELSE ever[r]]

Try(r, ch) == /\ OpenStream(r, ch) \/ SkipStream(r, ch)
              /\ tried' = [tried EXCEPT ![r] = @ \cup {ch}]
              /\ Track

TryNothing == /\ \/ \E r \in Redeemers :
                       \/ QueryFails(r) \/ Return(r)
                       \/ \E ch \in Ids : PassOver(r, ch) \/ StreamStep(r, ch)
                 \/ ClientStep
                 \/ ChainStep
              /\ UNCHANGED tried
              /\ Track

QueriesNext == \/ \E r \in Redeemers, q \in Requests : Begin(r, q)
               \/ \E r \in Redeemers, ch \in Ids : Try(r, ch)
               \/ TryNothing

QueriesSpec == QueriesInit /\ [][QueriesNext]_<<vars, historyVars>>

--------------------------------------------------------------------------------
\* What is to be shown.

\* A query misses nothing: in every channel that a call wants from before its query
\* to the end it calls redeem_stream, whatever other channels do meanwhile and though
\* streams of others cannot be opened.
QueryMissesNothing ==
    \A r \in Redeemers : ~Querying(r) => always[r] \subseteq tried[r]

\* A query makes nothing up: a channel that a call redeems in is one that it wanted
\* at some time of its query, as the documentation has it, even if the channel began
\* to close or the clock went on between building the selector and looking at it.
QueryFindsWanted == \A r \in Redeemers : tried[r] \subseteq ever[r]
================================================================================
