--------------------------------- MODULE MCPix ---------------------------------
(* Small instances of the two parts of PIX: the terms on which a session is      *)
(* admitted, by a server that has terms for three targets and leaves one to the  *)
(* node; and batches of two deposits, for two allocations and one of the         *)
(* caller's own. They share no state and no step, so that what is true of a      *)
(* behaviour of both is true of either alone: in a behaviour of this instance,   *)
(* one of the two does not start.                                                *)
EXTENDS SessionAdmission, DepositBatch

PixInit == AdmissionInit /\ Init

Negotiate == /\ \A b \in Batches : phase[b] = "idle"
             /\ AdmissionNext
             /\ UNCHANGED vars

Deposit == stage = "none" /\ Next /\ UNCHANGED admissionVars

PixSpec == PixInit /\ [][Negotiate \/ Deposit]_<<admissionVars, vars>> /\ Fairness

--------------------------------------------------------------------------------
\* Sessions.

Quotas(l, h) == [lo |-> l, hi |-> h]
MCNodeRange == Quotas(2, 3)
Charged(e, r) == [enforce_pix |-> e, pix_quota_range |-> r, shares |-> 2]

\* A range that overlaps the node's, one that does not, and none.
MCPolicy == [premium |-> Charged({TRUE}, {Quotas(1, 2)}), barred |-> Charged({}, {Quotas(4, 5)}),
             public |-> Charged({FALSE}, {})]

\* Offers of quotas inside and outside of the ranges, some with too few shares, and
\* none, for every target.
MCAsked ==
    LET bare == {SessionAdmissionRequest(t) : t \in {"premium", "barred", "public", "other"}}
    IN bare \cup {with_offer(r, OfferedIncentivization(s, q)) :
                     r \in bare, s \in {1, 2}, q \in 1 .. 4}

--------------------------------------------------------------------------------
\* Deposits.

MCIds == {"a", "b", "own"}
MCInitial == [id \in MCIds |-> IF id = "own" THEN 1 ELSE 0]

Items(x, m, y, n) == <<[id |-> x, amount |-> m], [id |-> y, amount |-> n]>>

\* An allocation can occur twice in a batch, and be the destination of its own
\* transfer.
MCRequests ==
    {[kind |-> "deposit", to |-> "own", items |-> Items("a", 1, "b", 2)],
     [kind |-> "deposit", to |-> "own", items |-> Items("a", 1, "a", 1)],
     [kind |-> "withdraw", to |-> "own", items |-> Items("b", 0, "b", 0)],
     [kind |-> "withdraw", to |-> "own", items |-> Items("own", 0, "b", 0)],
     [kind |-> "transfer", to |-> "own", items |-> Items("b", 0, "own", 0)]}
================================================================================
