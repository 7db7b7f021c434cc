--------------------------- MODULE SessionAdmission ----------------------------
(***************************************************************************)
(* The terms on which an Exit admits a session: the request, offer and     *)
(* decision of src/src/node/session/server.rs and the default admit().     *)
(* The server that overrides it and the transport that negotiates, applies *)
(* a decision and hands the session over are external, as the              *)
(* documentation of their contract has them.                               *)
(*                                                                         *)
(* An Option is a set of at most one element, a RangeInclusive the record  *)
(* of its ends. Of an offer, its quota and its shares are kept, of the     *)
(* capabilities nothing.                                                   *)
(***************************************************************************)
EXTENDS Naturals, FiniteSets

CONSTANTS NodeRange, \* the quotas that the node was built to honour
          Policy,    \* the server's terms by target; others it leaves to the node
          Asked      \* requests for a session that a peer makes

Ranges == [lo : Nat, hi : Nat]

Within(n, r) == r.lo <= n /\ n <= r.hi

IsOption(o, S) == o \subseteq S /\ \A x, y \in o : x = y

ASSUME AdmissionAssumption ==
    /\ NodeRange \in Ranges
    /\ \A target \in DOMAIN Policy :
          /\ IsOption(Policy[target].enforce_pix, BOOLEAN)
          /\ IsOption(Policy[target].pix_quota_range, Ranges)
          /\ Policy[target].shares \in Nat
    /\ \A r \in Asked : \A o \in r.offered : o.quota_per_ssa \in Nat

VARIABLES enforces, \* whether the node is set to require PIX, which is left open
          stage,    \* of the session: "none", "asked", "admitted", "processed", "refused"
          asked,    \* the request that is being negotiated, an Option
          answer,   \* the server's decision on it, an Option
          quota     \* what the session is to be paid for, an Option

admissionVars == <<enforces, stage, asked, answer, quota>>

--------------------------------------------------------------------------------
\* What the peer asks.

SessionAdmissionRequest(target) == [target |-> target, offered |-> {}]

OfferedIncentivization(shares, bytes) == [shares_per_part |-> shares, quota_per_ssa |-> bytes]

with_offer(request, offered) == [request EXCEPT !.offered = {offered}]

--------------------------------------------------------------------------------
\* What the server answers.

Default == [enforce_pix |-> {}, pix_quota_range |-> {}]

with_enforce_pix(decision, e) == [decision EXCEPT !.enforce_pix = {e}]

\* Flawed variant: starts from the default.
flawed_with_pix_quota_range(decision, r) == [Default EXCEPT !.pix_quota_range = {r}]

with_pix_quota_range(decision, r) == [decision EXCEPT !.pix_quota_range = {r}]

\* The default hook: no terms but the node's.
admit(request) == Default

\* A server that overrides it sets its terms for the target in either order.
Decided(t) ==
    LET enforce(d) == IF t.enforce_pix = {} THEN {d}
                      ELSE {with_enforce_pix(d, e) : e \in t.enforce_pix}
        narrow(d) == IF t.pix_quota_range = {} THEN {d}
                     ELSE {with_pix_quota_range(d, r) : r \in t.pix_quota_range}
    IN UNION ({narrow(d) : d \in enforce(Default)} \cup {enforce(d) : d \in narrow(Default)})

Decisions(request) == IF request.target \in DOMAIN Policy
                      THEN Decided(Policy[request.target]) ELSE {admit(request)}

\* It refuses an offer that holds too few shares for the target.
Refuses(request) == /\ request.target \in DOMAIN Policy
                    /\ \E o \in request.offered :
                          o.shares_per_part < Policy[request.target].shares

--------------------------------------------------------------------------------
\* How the transport applies it.

\* Whether PIX is required, where the node is set to require it or not.
Enforced(node, decision) == IF decision.enforce_pix = {} THEN node
                            ELSE TRUE \in decision.enforce_pix

\* The decision narrows the node's range; both have to hold.
Acceptable(decision, bytes) ==
    Within(bytes, NodeRange) /\ \A r \in decision.pix_quota_range : Within(bytes, r)

\* What the session is to be paid for, an Option; not admitted if there is none.
Terms(node, request, decision) ==
    IF request.offered = {} THEN (IF Enforced(node, decision) THEN {} ELSE {{}})
    ELSE {{o.quota_per_ssa} : o \in {p \in request.offered :
                                       Acceptable(decision, p.quota_per_ssa)}}

--------------------------------------------------------------------------------
\* The negotiation of a session.

AdmissionInit == /\ enforces \in BOOLEAN
        /\ stage = "none" /\ asked = {} /\ answer = {} /\ quota = {}

Ask == /\ stage = "none" /\ stage' = "asked"
       /\ \E r \in Asked : asked' = {r}
       /\ UNCHANGED <<enforces, answer, quota>>

Admit == /\ stage = "asked" /\ answer = {}
         /\ \E r \in asked : ~Refuses(r) /\ \E d \in Decisions(r) : answer' = {d}
         /\ UNCHANGED <<enforces, stage, asked, quota>>

\* Flawed variant: what was negotiated stays with a session that is refused.
FlawedRefuseSession == stage' = "refused" /\ UNCHANGED <<enforces, asked, answer, quota>>

RefuseSession == /\ stage' = "refused" /\ asked' = {} /\ answer' = {} /\ quota' = {}
                 /\ UNCHANGED enforces

\* The server answers with an error, or not before the transport's timeout.
Decline == stage = "asked" /\ answer = {} /\ RefuseSession

\* The transport applies the decision.
Establish == /\ stage = "asked" /\ stage' = "admitted"
             /\ \E r \in asked, d \in answer : \E t \in Terms(enforces, r, d) : quota' = t
             /\ UNCHANGED <<enforces, asked, answer>>

RejectTerms == /\ stage = "asked"
               /\ \E r \in asked, d \in answer : Terms(enforces, r, d) = {}
               /\ RefuseSession

\* The session is handed to the server.
process == /\ stage = "admitted" /\ stage' = "processed"
           /\ asked' = {} /\ answer' = {}
           /\ UNCHANGED <<enforces, quota>>

AdmissionNext == Ask \/ Admit \/ Decline \/ Establish \/ RejectTerms \/ process

AdmissionSpec == AdmissionInit /\ [][AdmissionNext]_admissionVars

--------------------------------------------------------------------------------
\* What is to be shown.

\* One request is negotiated at a time, and nothing is kept of a session that was
\* refused or handed over but what it is paid for.
AdmissionTypeOK ==
    /\ enforces \in BOOLEAN
    /\ stage \in {"none", "asked", "admitted", "processed", "refused"}
    /\ asked \subseteq Asked /\ Cardinality(asked) = IF stage \in {"asked", "admitted"} THEN 1 ELSE 0
    /\ \A d \in answer : /\ stage \in {"asked", "admitted"}
                         /\ IsOption(d.enforce_pix, BOOLEAN)
                         /\ IsOption(d.pix_quota_range, Ranges)
    /\ quota \subseteq Nat /\ (quota # {} => stage \in {"admitted", "processed"})

\* A session is admitted on the server's terms for its target within the node's: paid
\* for if the one or the other requires it and the server does not waive it, and never
\* for a quota that either of them excludes.
AdmittedOnTerms == stage = "admitted" => \A r \in asked :
    LET terms == IF r.target \in DOMAIN Policy THEN Policy[r.target]
                 ELSE [enforce_pix |-> {}, pix_quota_range |-> {}]
        required == TRUE \in terms.enforce_pix \/ (enforces /\ terms.enforce_pix = {})
    IN /\ required => quota # {}
       /\ \A n \in quota : /\ Within(n, NodeRange)
                           /\ \A s \in terms.pix_quota_range : Within(n, s)
================================================================================
