------------------------- MODULE SessionAdmissionProofs ------------------------
(***************************************************************************)
(* Proofs about SessionAdmission, for any policy of the server, range of   *)
(* the node and requests: what is negotiated stays of its type and is      *)
(* forgotten when a session is refused, and a session is admitted only on  *)
(* the terms of the server and of the node.                                *)
(***************************************************************************)
EXTENDS SessionAdmission, FiniteSetTheorems, TLAPS

--------------------------------------------------------------------------------
(* The terms of a session. *)

SessionDecision == [enforce_pix : SUBSET BOOLEAN, pix_quota_range : SUBSET Ranges]

LEMMA DefaultSaysNothing ==
    /\ Default \in SessionDecision
    /\ Default.enforce_pix = {} /\ Default.pix_quota_range = {}
BY DEF Default, SessionDecision

\* Each builder sets what it is named for, and leaves the other as it is.
LEMMA EnforceSays ==
    ASSUME NEW d \in SessionDecision, NEW e \in BOOLEAN
    PROVE  /\ with_enforce_pix(d, e) \in SessionDecision
           /\ with_enforce_pix(d, e).enforce_pix = {e}
           /\ with_enforce_pix(d, e).pix_quota_range = d.pix_quota_range
BY DEF with_enforce_pix, SessionDecision

LEMMA RangeSays ==
    ASSUME NEW d \in SessionDecision, NEW p \in Ranges
    PROVE  /\ with_pix_quota_range(d, p) \in SessionDecision
           /\ with_pix_quota_range(d, p).enforce_pix = d.enforce_pix
           /\ with_pix_quota_range(d, p).pix_quota_range = {p}
BY DEF with_pix_quota_range, SessionDecision

\* What a decision says, in whichever order it was built: the server's terms for the
\* target, or nothing if it has none.
LEMMA DecisionSaysTerms ==
    ASSUME NEW r, NEW d \in Decisions(r)
    PROVE  /\ r.target \in DOMAIN Policy =>
                 /\ d.enforce_pix = Policy[r.target].enforce_pix
                 /\ d.pix_quota_range = Policy[r.target].pix_quota_range
           /\ r.target \notin DOMAIN Policy =>
                 d.enforce_pix = {} /\ d.pix_quota_range = {}
<1>1. CASE r.target \notin DOMAIN Policy
  BY <1>1 DEF Decisions, admit, Default
<1>2. CASE r.target \in DOMAIN Policy
  <2> DEFINE t == Policy[r.target]
  <2>1. IsOption(t.enforce_pix, BOOLEAN) /\ IsOption(t.pix_quota_range, Ranges)
    BY <1>2, AdmissionAssumption
  <2>2. d \in Decided(t)
    BY <1>2 DEF Decisions
  <2> HIDE DEF t
  <2>3. ASSUME t.enforce_pix = {}, t.pix_quota_range = {}
        PROVE  d = Default
    BY <2>2, <2>3 DEF Decided
  <2>4. ASSUME NEW e, t.enforce_pix = {e}, t.pix_quota_range = {}
        PROVE  d = with_enforce_pix(Default, e)
    BY <2>2, <2>4 DEF Decided
  <2>5. ASSUME NEW p, t.enforce_pix = {}, t.pix_quota_range = {p}
        PROVE  d = with_pix_quota_range(Default, p)
    BY <2>2, <2>5 DEF Decided
  <2>6. ASSUME NEW e, NEW p, t.enforce_pix = {e}, t.pix_quota_range = {p}
        PROVE  \/ d = with_enforce_pix(with_pix_quota_range(Default, p), e)
               \/ d = with_pix_quota_range(with_enforce_pix(Default, e), p)
    BY <2>2, <2>6 DEF Decided
  <2>7. /\ d.enforce_pix = t.enforce_pix
        /\ d.pix_quota_range = t.pix_quota_range
    <3>1. CASE t.enforce_pix = {} /\ t.pix_quota_range = {}
      BY <3>1, <2>3, DefaultSaysNothing
    <3>2. CASE \E e \in BOOLEAN : t.enforce_pix = {e} /\ t.pix_quota_range = {}
      BY <3>2, <2>4, DefaultSaysNothing, EnforceSays
    <3>3. CASE \E p \in Ranges : t.enforce_pix = {} /\ t.pix_quota_range = {p}
      BY <3>3, <2>5, DefaultSaysNothing, RangeSays
    <3>4. CASE \E e \in BOOLEAN, p \in Ranges : t.enforce_pix = {e} /\ t.pix_quota_range = {p}
      <4>1. PICK e \in BOOLEAN, p \in Ranges : t.enforce_pix = {e} /\ t.pix_quota_range = {p}
        BY <3>4
      <4>2. /\ with_enforce_pix(with_pix_quota_range(Default, p), e).enforce_pix = {e}
            /\ with_enforce_pix(with_pix_quota_range(Default, p), e).pix_quota_range = {p}
        BY DefaultSaysNothing, EnforceSays, RangeSays
      <4>3. /\ with_pix_quota_range(with_enforce_pix(Default, e), p).enforce_pix = {e}
            /\ with_pix_quota_range(with_enforce_pix(Default, e), p).pix_quota_range = {p}
        BY DefaultSaysNothing, EnforceSays, RangeSays
      <4> QED
        BY <4>1, <4>2, <4>3, <2>6
    <3> QED
      BY <2>1, <3>1, <3>2, <3>3, <3>4 DEF IsOption
  <2> QED
    BY <1>2, <2>7 DEF t
<1> QED
  BY <1>1, <1>2

\* The invariant behind AdmittedOnTerms: one request is negotiated at a time, and the
\* decision the transport applies is one on that request.
TermsInv ==
    /\ stage = "none" => answer = {}
    /\ \A r, s \in asked : r = s
    /\ \A r \in asked, d \in answer : d \in Decisions(r)
    /\ AdmittedOnTerms

LEMMA TermsInvInit == AdmissionInit => TermsInv
BY DEF AdmissionInit, TermsInv, AdmittedOnTerms

LEMMA EstablishKeepsTerms ==
    ASSUME TermsInv, Establish
    PROVE  TermsInv'
<1>1. PICK r \in asked, d \in answer : \E t \in Terms(enforces, r, d) : quota' = t
  BY DEF Establish
<1>2. d \in Decisions(r) /\ \A s \in asked : s = r
  BY <1>1 DEF TermsInv
<1>3. Enforced(enforces, d) => quota' # {}
  BY <1>1 DEF Terms
<1>4. \A n \in quota' : /\ Within(n, NodeRange)
                        /\ \A s \in d.pix_quota_range : Within(n, s)
  BY <1>1 DEF Terms, Acceptable
<1>5. AdmittedOnTerms'
  BY <1>2, <1>3, <1>4, DecisionSaysTerms DEF AdmittedOnTerms, Establish, Enforced, Within
<1> QED
  BY <1>5 DEF TermsInv, Establish

LEMMA TermsInvStep == TermsInv /\ [AdmissionNext]_admissionVars => TermsInv'
<1> SUFFICES ASSUME TermsInv, [AdmissionNext]_admissionVars PROVE TermsInv'
  OBVIOUS
<1>1. CASE Ask
  BY <1>1 DEF TermsInv, AdmittedOnTerms, Ask
<1>2. CASE Admit
  BY <1>2 DEF TermsInv, AdmittedOnTerms, Admit
<1>3. CASE RefuseSession
  BY <1>3 DEF TermsInv, AdmittedOnTerms, RefuseSession
<1>4. CASE process
  BY <1>4 DEF TermsInv, AdmittedOnTerms, process
<1>5. CASE UNCHANGED admissionVars
  BY <1>5 DEF TermsInv, AdmittedOnTerms, admissionVars, Within
<1> QED
  BY <1>1, <1>2, <1>3, <1>4, <1>5, EstablishKeepsTerms DEF AdmissionNext, Decline, RejectTerms

\* A session is admitted only on terms that the server has for its target within the
\* node's: incentivized where required, and for a quota in both ranges.
THEOREM SessionsAdmittedOnTerms == AdmissionSpec => []AdmittedOnTerms
<1>1. TermsInv => AdmittedOnTerms
  BY DEF TermsInv
<1> QED
  BY <1>1, TermsInvInit, TermsInvStep, PTL DEF AdmissionSpec

--------------------------------------------------------------------------------
(* Types. *)

LEMMA DecisionTyped ==
    ASSUME NEW r, NEW d \in Decisions(r)
    PROVE  IsOption(d.enforce_pix, BOOLEAN) /\ IsOption(d.pix_quota_range, Ranges)
<1>1. CASE r.target \in DOMAIN Policy
  BY <1>1, DecisionSaysTerms, AdmissionAssumption
<1>2. CASE r.target \notin DOMAIN Policy
  BY <1>2, DecisionSaysTerms DEF IsOption
<1> QED
  BY <1>1, <1>2

LEMMA TermsTyped ==
    ASSUME NEW r \in Asked, NEW d, NEW t \in Terms(enforces, r, d)
    PROVE  t \in SUBSET Nat
BY AdmissionAssumption DEF Terms

LEMMA TypeInit == AdmissionInit => AdmissionTypeOK
BY FS_EmptySet DEF AdmissionInit, AdmissionTypeOK

LEMMA TypeStep == AdmissionTypeOK /\ [AdmissionNext]_admissionVars => AdmissionTypeOK'
<1> SUFFICES ASSUME AdmissionTypeOK, [AdmissionNext]_admissionVars PROVE AdmissionTypeOK'
  OBVIOUS
<1>1. CASE Ask
  <2>1. PICK r \in Asked : asked' = {r}
    BY <1>1 DEF Ask
  <2>2. Cardinality(asked') = 1
    BY <2>1, FS_Singleton
  <2>3. quota' = {} /\ quota' \subseteq Nat
    BY <1>1 DEF Ask, AdmissionTypeOK
  <2>4. \A d \in answer : FALSE
    BY <1>1 DEF Ask, AdmissionTypeOK
  <2> QED
    BY <1>1, <2>1, <2>2, <2>3, <2>4 DEF AdmissionTypeOK, Ask
<1>2. CASE Admit
  <2>1. PICK r \in asked : \E d \in Decisions(r) : answer' = {d}
    BY <1>2 DEF Admit
  <2>2. PICK d \in Decisions(r) : answer' = {d}
    BY <2>1
  <2>3. IsOption(d.enforce_pix, BOOLEAN) /\ IsOption(d.pix_quota_range, Ranges)
    BY DecisionTyped
  <2> QED
    BY <1>2, <2>2, <2>3 DEF AdmissionTypeOK, Admit
<1>3. CASE RefuseSession
  BY <1>3, FS_EmptySet DEF AdmissionTypeOK, RefuseSession
<1>4. CASE Establish
  <2>1. PICK r \in asked, d \in answer : \E t \in Terms(enforces, r, d) : quota' = t
    BY <1>4 DEF Establish
  <2>2. quota' \in SUBSET Nat
    BY <2>1, TermsTyped DEF AdmissionTypeOK
  <2> QED
    BY <1>4, <2>2 DEF AdmissionTypeOK, Establish
<1>5. CASE process
  BY <1>5, FS_EmptySet DEF AdmissionTypeOK, process
<1>6. CASE UNCHANGED admissionVars
  BY <1>6 DEF AdmissionTypeOK, admissionVars
<1> QED
  BY <1>1, <1>2, <1>3, <1>4, <1>5, <1>6 DEF AdmissionNext, Decline, RejectTerms

\* One request is negotiated at a time, by answers of the right shape and for quotas
\* that are counts; nothing of it is kept for a session that was refused.
THEOREM TypeCorrect == AdmissionSpec => []AdmissionTypeOK
BY TypeInit, TypeStep, PTL DEF AdmissionSpec
================================================================================
