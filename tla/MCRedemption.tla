----------------------------- MODULE MCRedemption -----------------------------
(* Small instances of Redemption: two incoming channels and an outgoing one.  *)
EXTENDS Redemption

MCAddresses == {"me", "alice", "bob"}
MCTimes == 0 .. 1
MCTimesStill == {0}  \* no channel closes
MCIds == {<<"alice", "me">>, <<"me", "bob">>}
MCIdsMore == MCIds \cup {<<"bob", "me">>}

\* What redeem_all_tickets and redeem_tickets_with_counterparty ask for.
MCNodeRequests == {{}, {with_destination(with_source(Default, "alice"), "me")}}
==============================================================================
