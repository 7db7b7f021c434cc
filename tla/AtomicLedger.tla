---------------------------- MODULE AtomicLedger -----------------------------
(***************************************************************************)
(* What a caller of open_channel, fund_channel and close_channel_by_id may *)
(* rely on, without event waiters, receipts or timeouts: an operation      *)
(* takes effect on the ledger in one step, at most once, between the call  *)
(* and its return; a return that is Ok, or an error on the waiter's side   *)
(* (EitherErr::Right), comes only after the effect.                        *)
(***************************************************************************)
EXTENDS ChannelLedger

CONSTANT Late \* calls whose transaction may outlive their future

VARIABLES chan,    \* status of each channel on the ledger
          request, \* the operation of each call, once made
          outcome, \* "idle", "running", or how the call ended
          effect   \* calls whose operation has taken effect

avars == <<chan, request, outcome, effect>>

Outcomes == {"ok", "left", "right", "dropped"}

AInit == /\ chan \in [Channels -> Statuses]
         /\ request = [c \in Calls |-> {}]
         /\ outcome = [c \in Calls |-> "idle"]
         /\ effect = {}

Invoke(c) == /\ outcome[c] = "idle"
             /\ \E o \in Operations : request' = [request EXCEPT ![c] = {o}]
             /\ outcome' = [outcome EXCEPT ![c] = "running"]
             /\ UNCHANGED <<chan, effect>>

TakeEffect(c) ==
    /\ \/ outcome[c] = "running"
       \/ c \in Late /\ outcome[c] \in {"left", "dropped"}
    /\ c \notin effect
    /\ effect' = effect \cup {c}
    /\ \E o \in request[c] :
         /\ Accepts(o, chan[o.channel])
         /\ chan' = [chan EXCEPT ![o.channel] =
                        StatusIn(EventType(o, chan[o.channel]))]
    /\ UNCHANGED <<request, outcome>>

Respond(c) ==
    /\ outcome[c] = "running"
    /\ \E r \in Outcomes :
         /\ r \in {"ok", "right"} => c \in effect
         /\ outcome' = [outcome EXCEPT ![c] = r]
    /\ UNCHANGED <<chan, request, effect>>

CounterpartyCloses(ch) ==
    /\ chan[ch] \in {"Open", "PendingToClose"}
    /\ chan' = [chan EXCEPT ![ch] = "Closed"]
    /\ UNCHANGED <<request, outcome, effect>>

ANext == \/ \E c \in Calls : Invoke(c) \/ TakeEffect(c) \/ Respond(c)
         \/ \E ch \in Channels : CounterpartyCloses(ch)

ASpec == AInit /\ [][ANext]_avars
==============================================================================
