-------------------------- MODULE MCRedemptionQueries --------------------------
(* A small instance of RedemptionQueries: closure times before, at and after    *)
(* the end of the grace period, requests of the node and of another client.     *)
EXTENDS MCRedemption, RedemptionQueries

MCTimesMore == 0 .. 3

\* The node's, and one of a client that names the states in which tickets are redeemed.
MCQueryRequests ==
    MCNodeRequests \cup {{with_allowed_states(Default, {"Open", "PendingToClose"})}}
================================================================================
