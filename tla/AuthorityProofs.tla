-------------------------- MODULE AuthorityProofs --------------------------
(***************************************************************************)
(* Theorems about the owner's authority.  First the ordered tests of       *)
(* AuthorityBoundary, for all evidence; then AuthorityReview, for any      *)
(* evidence, ages, windows and times of the two looks; then                *)
(* AuthorizationLedger, for any number of processes, grants and pieces of  *)
(* evidence, and any time.                                                 *)
(***************************************************************************)
EXTENDS AuthorityReview, AuthorizationLedger, TLAPS

(* A nonempty set of test numbers has a first one.                         *)
LEMMA FirstExists ==
  ASSUME NEW S \in SUBSET (1 .. 26), S # {}
  PROVE  \E i \in S : \A j \in S : i <= j
<1> DEFINE Upto(n) == \A j \in S : j > n
<1>1. \A n \in 0 .. 25 : Upto(n) => n + 1 \in S \/ Upto(n + 1)
  OBVIOUS
<1>2. \A n \in 0 .. 25 : Upto(n) /\ n + 1 \in S => \E i \in S : \A j \in S : i <= j
  OBVIOUS
<1>3. Upto(0) /\ ~Upto(26)
  <2>1. PICK s : s \in S
    OBVIOUS
  <2>2. \A j \in S : j \in 1 .. 26
    OBVIOUS
  <2>3. ~(s > 26)
    BY <2>1, <2>2
  <2> QED
    BY <2>1, <2>2, <2>3
<1>4. CASE \E n \in 0 .. 25 : Upto(n) /\ ~Upto(n + 1)
  BY <1>1, <1>2, <1>4
<1>5. CASE \A n \in 0 .. 25 : Upto(n) => Upto(n + 1)
  <2> HIDE DEF Upto
  <2>1. Upto(13)
    BY <1>3, <1>5, SMTT(30)
  <2> QED
    BY <2>1, <1>3, <1>5, SMTT(30)
<1> QED
  BY <1>4, <1>5

(* A decision has the successful status exactly if it is valid: whichever  *)
(* test fails first has a status of its own.                               *)
THEOREM VerdictIsValid ==
  ASSUME NEW intent, NEW preflight, NEW grant, NEW asOf
  PROVE  Verdict(intent, preflight, grant, asOf) = "VALID"
           <=> Valid(intent, preflight, grant, asOf)
<1> DEFINE tests == Tests(intent, preflight, grant, asOf)
           failed == {i \in DOMAIN tests : tests[i].fails}
<1>1. DOMAIN tests = 1 .. 26
  BY DEF Tests
<1>2. \A i \in 1 .. 26 : tests[i].status # "VALID"
  BY SMTT(60) DEF Tests, Test
<1>3. Valid(intent, preflight, grant, asOf) <=> failed = {}
  BY DEF Valid
<1>4. CASE failed = {}
  BY <1>3, <1>4 DEF Verdict
<1>5. CASE failed # {}
  <2> DEFINE first == CHOOSE i \in failed : \A j \in failed : i <= j
  <2>1. first \in failed
    <3>1. failed \in SUBSET (1 .. 26)
      BY <1>1
    <3>2. \E i \in failed : \A j \in failed : i <= j
      BY <1>5, <3>1, FirstExists
    <3> QED
      BY <3>2
  <2>2. Verdict(intent, preflight, grant, asOf) = tests[first].status
    BY <1>5 DEF Verdict
  <2> QED
    BY <1>1, <1>2, <1>3, <1>5, <2>1, <2>2
<1> QED
  BY <1>4, <1>5

(* Every decision has one of the ten statuses.                             *)
LEMMA VerdictType ==
  ASSUME NEW intent, NEW preflight, NEW grant, NEW asOf
  PROVE  Verdict(intent, preflight, grant, asOf) \in AuthorityStatuses
<1> DEFINE tests == Tests(intent, preflight, grant, asOf)
           failed == {i \in DOMAIN tests : tests[i].fails}
<1>1. DOMAIN tests = 1 .. 26
  BY DEF Tests
<1>2. \A i \in 1 .. 26 : tests[i].status \in AuthorityStatuses
  BY SMTT(60) DEF Tests, Test, AuthorityStatuses
<1>3. CASE failed = {}
  BY <1>3 DEF Verdict, AuthorityStatuses
<1>4. CASE failed # {}
  <2>1. failed \in SUBSET (1 .. 26)
    BY <1>1
  <2>2. \E i \in failed : \A j \in failed : i <= j
    BY <1>4, <2>1, FirstExists
  <2> QED
    BY <1>1, <1>2, <1>4, <2>2 DEF Verdict
<1> QED
  BY <1>3, <1>4

(* What the 26 tests require, without an order.                            *)
LEMMA ValidParts ==
  ASSUME NEW i \in PilotIntent, NEW p \in PreflightEvidence,
         NEW g \in OwnerAuthorizationEvidence, NEW t \in Int
  PROVE  Valid(i, p, g, t) <=>
           /\ i.filled /\ i.workflow_valid /\ i.hashes_valid /\ ~i.wildcard
           /\ i.action_class \in ALLOWED_ACTIONS /\ i.preflight_contract = "EXACT"
           /\ p.ready /\ p.preflight_contract = "EXACT" /\ p.zoned
           /\ p.snapshot # "malformed" /\ Fresh(p.observed_at, t, MAX_PREFLIGHT_AGE)
           /\ g.genuine /\ g.sourced /\ g.identified /\ ~g.wildcard /\ g.zoned
           /\ Fresh(g.source_verified_at, t, MAX_AUTH_SOURCE_AGE)
           /\ ~g.revoked /\ g.max_dispatches = 1 /\ g.used_dispatches = 0
           /\ g.expires_at > g.issued_at /\ g.expires_at - g.issued_at <= MAX_GRANT_TTL
           /\ g.issued_at >= p.observed_at - CLOCK_SKEW
           /\ InWindow(g, t)
           /\ i = g.scope /\ g.snapshot = p.snapshot
<1> DEFINE T == Tests(i, p, g, t)
<1>1. DOMAIN T = 1 .. 26
  BY DEF Tests
<1>2. Valid(i, p, g, t) <=> \A n \in 1 .. 26 : ~T[n].fails
  BY <1>1 DEF Valid
<1>3. (\A n \in 1 .. 26 : ~T[n].fails) <=>
        /\ ~T[1].fails /\ ~T[2].fails /\ ~T[3].fails /\ ~T[4].fails /\ ~T[5].fails
        /\ ~T[6].fails /\ ~T[7].fails /\ ~T[8].fails /\ ~T[9].fails /\ ~T[10].fails
        /\ ~T[11].fails /\ ~T[12].fails /\ ~T[13].fails /\ ~T[14].fails /\ ~T[15].fails
        /\ ~T[16].fails /\ ~T[17].fails /\ ~T[18].fails /\ ~T[19].fails /\ ~T[20].fails
        /\ ~T[21].fails /\ ~T[22].fails /\ ~T[23].fails /\ ~T[24].fails /\ ~T[25].fails
        /\ ~T[26].fails
  <2> HIDE DEF T
  <2> QED
    BY SMTT(30)
<1>4. /\ T[1].fails = ~i.filled /\ T[2].fails = ~i.workflow_valid
      /\ T[3].fails = (i.action_class \notin ALLOWED_ACTIONS)
      /\ T[4].fails = ~i.hashes_valid /\ T[5].fails = i.wildcard
      /\ T[6].fails = ~p.ready
      /\ T[7].fails = (p.preflight_contract # "EXACT" \/ i.preflight_contract # "EXACT")
      /\ T[8].fails = (p.snapshot = "malformed" \/ ~p.zoned)
      /\ T[9].fails = ~Fresh(p.observed_at, t, MAX_PREFLIGHT_AGE)
  BY DEF Tests, Test
<1>5. /\ T[10].fails = ~g.genuine /\ T[11].fails = (~g.sourced \/ ~g.identified)
      /\ T[12].fails = g.wildcard /\ T[13].fails = ~g.zoned
      /\ T[14].fails = ~Fresh(g.source_verified_at, t, MAX_AUTH_SOURCE_AGE)
      /\ T[15].fails = g.revoked /\ T[16].fails = (g.max_dispatches # 1)
      /\ T[17].fails = (g.used_dispatches < 0) /\ T[18].fails = (g.used_dispatches >= 1)
  BY DEF Tests, Test
<1>6. /\ T[19].fails = (g.expires_at <= g.issued_at
                           \/ g.expires_at - g.issued_at > MAX_GRANT_TTL)
      /\ T[20].fails = (g.issued_at < p.observed_at - CLOCK_SKEW)
      /\ T[21].fails = (g.issued_at > t + CLOCK_SKEW)
      /\ T[22].fails = ~InWindow(g, t)
      /\ T[23].fails = (i.wildcard \/ g.scope.wildcard)
      /\ T[24].fails = ~ScopeExact(i, g)
      /\ T[25].fails = (g.scope.action_class \notin ALLOWED_ACTIONS)
      /\ T[26].fails = (g.snapshot # p.snapshot \/ g.snapshot = "malformed")
  BY DEF Tests, Test
<1>7. /\ g.used_dispatches \in Int /\ g.expires_at \in Int /\ g.issued_at \in Int
      /\ p.observed_at \in Int /\ MAX_GRANT_TTL \in Int /\ CLOCK_SKEW \in Int
  BY BoundaryAssumption DEF OwnerAuthorizationEvidence, PreflightEvidence
<1>8. ~(g.used_dispatches < 0) /\ ~(g.used_dispatches >= 1) <=> g.used_dispatches = 0
  BY <1>7
<1>9. /\ InWindow(g, t) => ~(g.issued_at > t + CLOCK_SKEW)
      /\ ~(g.expires_at <= g.issued_at \/ g.expires_at - g.issued_at > MAX_GRANT_TTL)
           <=> g.expires_at > g.issued_at /\ g.expires_at - g.issued_at <= MAX_GRANT_TTL
      /\ ~(g.issued_at < p.observed_at - CLOCK_SKEW)
           <=> g.issued_at >= p.observed_at - CLOCK_SKEW
  BY <1>7 DEF InWindow
<1> HIDE DEF T
<1> QED
  BY <1>2, <1>3, <1>4, <1>5, <1>6, <1>8, <1>9 DEF ScopeExact

-----------------------------------------------------------------------------
(* Repeated evaluation of one piece of evidence                            *)

(* The ordered tests of validate_single_pilot_authority, at any time, let  *)
(* pass exactly what the owner's evidence permits.                         *)
THEOREM TestsExact ==
  ASSUME NEW r \in Bundles, NEW t \in Int
  PROVE  Verdict(r.intent, r.preflight, r.grant, t) = "VALID" <=> Permits(r, t)
<1> DEFINE i == r.intent  p == r.preflight  g == r.grant
<1>1. /\ i \in PilotIntent /\ p \in PreflightEvidence
      /\ g \in OwnerAuthorizationEvidence
  BY DEF Bundles
<1>2. /\ i.action_class \in ALLOWED_ACTIONS <=> i.action_class # "OTHER"
      /\ p.snapshot # "malformed" <=> p.snapshot \in Snapshots
  BY <1>1, BoundaryAssumption DEF PilotIntent, PreflightEvidence, ALLOWED_ACTIONS
<1>3. /\ g.used_dispatches \in Int /\ g.max_dispatches \in Int
      /\ g.expires_at \in Int /\ g.issued_at \in Int /\ g.source_verified_at \in Int
      /\ p.observed_at \in Int /\ MAX_GRANT_TTL \in Int /\ CLOCK_SKEW \in Int
      /\ MAX_PREFLIGHT_AGE \in Int /\ MAX_AUTH_SOURCE_AGE \in Int
  BY <1>1, BoundaryAssumption DEF OwnerAuthorizationEvidence, PreflightEvidence
<1>4. /\ g.max_dispatches = 1 /\ g.used_dispatches = 0
        <=> g.max_dispatches - g.used_dispatches = 1 /\ g.used_dispatches = 0
  BY <1>3
<1>5. /\ Fresh(p.observed_at, t, MAX_PREFLIGHT_AGE)
        <=> p.observed_at <= t + CLOCK_SKEW /\ t <= p.observed_at + MAX_PREFLIGHT_AGE
      /\ Fresh(g.source_verified_at, t, MAX_AUTH_SOURCE_AGE)
        <=> /\ g.source_verified_at <= t + CLOCK_SKEW
            /\ t <= g.source_verified_at + MAX_AUTH_SOURCE_AGE
      /\ InWindow(g, t) <=> g.issued_at <= t + CLOCK_SKEW /\ t <= g.expires_at
  BY <1>3 DEF Fresh, InWindow
<1>6. /\ g.expires_at > g.issued_at <=> g.issued_at < g.expires_at
      /\ g.expires_at - g.issued_at <= MAX_GRANT_TTL
           <=> g.expires_at <= g.issued_at + MAX_GRANT_TTL
      /\ g.issued_at >= p.observed_at - CLOCK_SKEW
           <=> p.observed_at <= g.issued_at + CLOCK_SKEW
  BY <1>3
<1>7. Valid(i, p, g, t) <=> Permits(r, t)
  BY <1>1, <1>2, <1>4, <1>5, <1>6, ValidParts DEF Permits
<1> QED
  BY <1>7, VerdictIsValid

(* Once the evidence has lapsed, no later time brings it back.             *)
LEMMA LapsesForGood ==
  ASSUME NEW r \in Bundles, NEW t1 \in Int, NEW t2 \in Int, NEW t3 \in Int,
         t1 <= t2, t2 <= t3, Permits(r, t1), ~Permits(r, t2)
  PROVE  ~Permits(r, t3)
<1> DEFINE p == r.preflight  g == r.grant
<1>1. /\ g.expires_at \in Int /\ g.issued_at \in Int /\ g.source_verified_at \in Int
      /\ p.observed_at \in Int /\ CLOCK_SKEW \in Int
      /\ MAX_PREFLIGHT_AGE \in Int /\ MAX_AUTH_SOURCE_AGE \in Int
  BY BoundaryAssumption DEF Bundles, OwnerAuthorizationEvidence, PreflightEvidence
<1>2. \A begin \in {p.observed_at, g.source_verified_at, g.issued_at} :
        begin <= t2 + CLOCK_SKEW
  BY <1>1 DEF Permits
<1>3. \/ ~(t2 <= p.observed_at + MAX_PREFLIGHT_AGE)
      \/ ~(t2 <= g.source_verified_at + MAX_AUTH_SOURCE_AGE)
      \/ ~(t2 <= g.expires_at)
  BY <1>2, Zenon DEF Permits
<1>4. \/ ~(t3 <= p.observed_at + MAX_PREFLIGHT_AGE)
      \/ ~(t3 <= g.source_verified_at + MAX_AUTH_SOURCE_AGE)
      \/ ~(t3 <= g.expires_at)
  BY <1>1, <1>3
<1> QED
  BY <1>4 DEF Permits

(* The invariant is preserved: by new evidence trivially, by a review      *)
(* because what was permitted and is not any more never will be.           *)
THEOREM ReviewInvariant == ReviewSpec => []ReviewInv
<1>1. ReviewInit => ReviewInv
  <2> SUFFICES ASSUME ReviewInit PROVE ReviewInv
    OBVIOUS
  <2>1. ReviewTypeOK
    <3>1. bundle \in Bundles /\ edits \in 0 .. MaxEdits /\ clock \in 0 .. ReviewTime
      BY ReviewAssumption DEF ReviewInit
    <3>2. decidedAt \in 0 .. clock
      BY DEF ReviewInit
    <3>3. verdict \in AuthorityStatuses \cup {"none"} /\ lapsed \in BOOLEAN
      BY DEF ReviewInit
    <3> QED
      BY <3>1, <3>2, <3>3 DEF ReviewTypeOK
  <2>2. VerdictSound /\ ~lapsed
    BY DEF ReviewInit, VerdictSound
  <2> QED
    BY <2>1, <2>2 DEF ReviewInv
<1>2. ReviewInv /\ [ReviewNext]_reviewVars => ReviewInv'
  <2> SUFFICES ASSUME ReviewInv, [ReviewNext]_reviewVars
               PROVE  ReviewInv'
    OBVIOUS
  <2>1. CASE Deliver
    <3>1. ReviewTypeOK'
      <4>1. edits' \in 0 .. MaxEdits
        BY <2>1, ReviewAssumption DEF ReviewInv, ReviewTypeOK, Deliver
      <4>2. /\ bundle' \in Bundles /\ clock' = clock /\ decidedAt' = decidedAt
            /\ verdict' = "none" /\ lapsed' \in BOOLEAN
        BY <2>1 DEF Deliver
      <4> QED
        BY <4>1, <4>2 DEF ReviewInv, ReviewTypeOK
    <3>2. verdict' = "none" /\ ~lapsed'
      BY <2>1 DEF Deliver
    <3>3. VerdictSound'
      BY <3>2 DEF VerdictSound
    <3> QED
      BY <3>1, <3>2, <3>3 DEF ReviewInv
  <2>2. CASE ReviewTick
    <3>1. ReviewTypeOK'
      BY <2>2, ReviewAssumption DEF ReviewInv, ReviewTypeOK, ReviewTick
    <3>2. VerdictSound'
      BY <2>2 DEF ReviewInv, VerdictSound, ReviewTick, Permits
    <3> QED
      BY <2>2, <3>1, <3>2 DEF ReviewInv, ReviewTick, Permits
  <2>3. CASE Review
    <3>1. verdict' \in AuthorityStatuses
      BY <2>3, VerdictType DEF Review, VerdictNow
    <3>2. ReviewTypeOK'
      <4>1. decidedAt' \in 0 .. clock'
        BY <2>3, ReviewAssumption DEF ReviewInv, ReviewTypeOK, Review
      <4>2. /\ bundle' = bundle /\ edits' = edits /\ clock' = clock
            /\ lapsed' \in BOOLEAN
        BY <2>3 DEF Review
      <4> QED
        BY <3>1, <4>1, <4>2 DEF ReviewInv, ReviewTypeOK
    <3>3. VerdictSound'
      BY <2>3, TestsExact DEF ReviewInv, ReviewTypeOK, Review, VerdictNow, VerdictSound
    <3>4. verdict' # "none"
      BY <3>1 DEF AuthorityStatuses
    <3>5. (lapsed => \A t \in decidedAt .. ReviewTime : ~Permits(bundle, t))'
      BY <2>3, TestsExact, LapsesForGood
      DEF ReviewInv, ReviewTypeOK, VerdictSound, Review, VerdictNow
    <3> QED
      BY <3>2, <3>3, <3>4, <3>5 DEF ReviewInv
  <2>4. CASE UNCHANGED reviewVars
    BY <2>4 DEF ReviewInv, ReviewTypeOK, VerdictSound, Permits, reviewVars
  <2> QED
    BY <2>1, <2>2, <2>3, <2>4 DEF ReviewNext
<1> QED
  BY <1>1, <1>2, PTL DEF ReviewSpec

(* The verdict on any evidence is exactly what its owner permits.          *)
THEOREM VerdictIsSound == ReviewSpec => []VerdictSound
<1>1. ReviewInv => VerdictSound
  BY DEF ReviewInv
<1> QED
  BY <1>1, ReviewInvariant, PTL

(* No evidence that has lapsed is found valid again by waiting.            *)
THEOREM LapsedStaysLapsed == ReviewSpec => []NoRevival
<1>1. ReviewInv => NoRevival
  <2> SUFFICES ASSUME ReviewInv, lapsed, verdict = "VALID"
               PROVE  FALSE
    BY DEF NoRevival
  <2>1. Permits(bundle, decidedAt)
    BY DEF ReviewInv, VerdictSound
  <2>2. decidedAt \in decidedAt .. ReviewTime
    BY ReviewAssumption DEF ReviewInv, ReviewTypeOK
  <2> QED
    BY <2>1, <2>2 DEF ReviewInv
<1> QED
  BY <1>1, ReviewInvariant, PTL

(* What the two looks take from the same permission.                       *)
LEMMA PermissionTimes ==
  ASSUME ReviewInv, verdict = "VALID"
  PROVE  LET p == bundle.preflight  g == bundle.grant IN
         /\ p.observed_at \in Int /\ g.source_verified_at \in Int
         /\ g.issued_at \in Int /\ g.expires_at \in Int
         /\ decidedAt \in Int /\ clock \in Int
         /\ g.zoned /\ ~g.revoked /\ g.identified /\ g.snapshot # "malformed"
         /\ g.max_dispatches = 1 /\ g.used_dispatches = 0
         /\ decidedAt <= g.expires_at /\ g.expires_at <= g.issued_at + MAX_GRANT_TTL
         /\ g.issued_at <= decidedAt + CLOCK_SKEW
         /\ decidedAt <= p.observed_at + MAX_PREFLIGHT_AGE
         /\ decidedAt <= g.source_verified_at + MAX_AUTH_SOURCE_AGE
<1>1. Permits(bundle, decidedAt)
  BY DEF ReviewInv, VerdictSound
<1>2. /\ bundle.preflight \in PreflightEvidence
      /\ bundle.grant \in OwnerAuthorizationEvidence
      /\ decidedAt \in Int /\ clock \in Int
  BY ReviewAssumption DEF ReviewInv, ReviewTypeOK, Bundles
<1>3. bundle.grant.snapshot # "malformed"
  BY <1>1, BoundaryAssumption DEF Permits
<1>4. bundle.grant.max_dispatches = 1
  BY <1>1, <1>2 DEF Permits, OwnerAuthorizationEvidence
<1> QED
  BY <1>1, <1>2, <1>3, <1>4 DEF Permits, PreflightEvidence, OwnerAuthorizationEvidence

(* What was just found valid is claimable then, once the grant is issued.  *)
THEOREM LooksAgreeOnIssued == ReviewSpec => []LooksAgree
<1>1. ReviewInv => LooksAgree
  BY PermissionTimes DEF LooksAgree, StillAuthorized
<1> QED
  BY <1>1, ReviewInvariant, PTL

(* A claim on an old decision still bounds the age of all its evidence.    *)
THEOREM EvidenceAgeBounded == ReviewSpec => []EvidenceAgeAtClaim
<1>1. ReviewInv => EvidenceAgeAtClaim
  BY PermissionTimes, BoundaryAssumption DEF EvidenceAgeAtClaim, StillAuthorized
<1> QED
  BY <1>1, ReviewInvariant, PTL

-----------------------------------------------------------------------------
(* The consumption ledger                                                  *)

RowTypes ==
  [status : Statuses, evidence : Evidences \cup {"none"},
   scope : Scopes \cup {NoScope}, receipt : Receipts]

RunTypes == [scope : Scopes, evidence : Evidences]

(* What a request names.                                                   *)
LEMMA RequestTypes ==
  ASSUME NEW r \in Requests
  PROVE  /\ r.intent \in PilotIntent /\ r.preflight \in PreflightEvidence
         /\ r.grant \in OwnerAuthorizationEvidence
         /\ r.grant.grant_id \in GrantIds /\ r.grant.evidence \in Evidences
         /\ ScopeOf(r) \in Scopes /\ ScopeOf(r).grant_id = r.grant.grant_id
<1>1. r \in [intent : PilotIntent, preflight : PreflightEvidence,
             grant : OwnerAuthorizationEvidence]
  BY RequestAssumption
<1>2. r.grant.grant_id \in GrantIds /\ r.grant.evidence \in Evidences
  BY <1>1 DEF OwnerAuthorizationEvidence
<1>3. ScopeOf(r) \in Scopes
  BY DEF Scopes
<1>4. ScopeOf(r).grant_id = r.grant.grant_id
  BY DEF ScopeOf
<1> QED
  BY <1>1, <1>2, <1>3, <1>4

(* Every scope is that of a request.                                       *)
LEMMA ScopeTypes ==
  ASSUME NEW s \in Scopes
  PROVE  s.grant_id \in GrantIds
<1>1. PICK r \in Requests : s = ScopeOf(r)
  BY DEF Scopes
<1> QED
  BY <1>1, RequestTypes

(* A valid decision is the owner's permission of its intent.               *)
LEMMA ValidIsPermitted ==
  ASSUME NEW r \in Requests, NEW t \in Int,
         Verdict(r.intent, r.preflight, r.grant, t) = "VALID"
  PROVE  Permitted(ScopeOf(r), r.grant.evidence)
<1>1. Valid(r.intent, r.preflight, r.grant, t)
  BY VerdictIsValid
<1>2. r.intent = r.grant.scope /\ r.grant.genuine /\ ~r.grant.revoked
  BY <1>1, RequestTypes, ValidParts
<1> QED
  BY <1>2 DEF Permitted

LEMMA InitInv == Init => LedgerInv
<1> SUFFICES ASSUME Init PROVE LedgerInv
  OBVIOUS
<1>1. TypeOK
  <2>1. NoRow \in RowTypes
    BY DEF NoRow, NoReceipt, RowTypes, Statuses, Receipts
  <2>2. rows \in [GrantIds -> RowTypes]
    BY <2>1 DEF Init
  <2>3. Silence \in [status : Answers, scope : Scopes \cup {NoScope}, receipt : Receipts]
    BY DEF Silence, Told, NoReceipt, Answers, Receipts
  <2>4. told \in [Pilots -> [status : Answers, scope : Scopes \cup {NoScope},
                             receipt : Receipts]]
    BY <2>3 DEF Init
  <2>5. NoDecision \in [status : AuthorityStatuses \cup {"none"}, asOf : 0 .. now]
    BY DEF NoDecision, Init
  <2>6. decision \in [Pilots -> [status : AuthorityStatuses \cup {"none"}, asOf : 0 .. now]]
    BY <2>5 DEF Init
  <2>7. now \in 0 .. MaxTime
    BY RequestAssumption DEF Init
  <2>8. /\ events \in [GrantIds -> SUBSET Events]
        /\ pc \in [Pilots -> {"idle", "decided", "holding"}]
        /\ request \in [Pilots -> Requests \cup {NoRequest}]
        /\ runs \in Seq(RunTypes)
    BY DEF Init
  <2> QED
    BY <2>2, <2>4, <2>6, <2>7, <2>8 DEF TypeOK, RowTypes, RunTypes
<1>2. WorkInv /\ HolderInv
  BY DEF Init, WorkInv, HolderInv
<1>3. RowInv /\ RunInv
  BY DEF Init, RowInv, RunInv, NoRow
<1>4. ConsumedByItsRun /\ RunsPermitted
  BY DEF Init, ConsumedByItsRun, RunsPermitted, NoRow
<1>5. ToldTruth /\ ToldInv
  BY DEF Init, ToldTruth, ToldInv, Silence, Told
<1>6. TrailTellsStatus
  BY DEF Init, TrailTellsStatus, StatusFromTrail, NoRow
<1> QED
  BY <1>1, <1>2, <1>3, <1>4, <1>5, <1>6 DEF LedgerInv

-----------------------------------------------------------------------------
(* A step that starts no run, gives nobody a claim and binds no row leaves *)
(* the claims as exclusive as they were.                                   *)
LEMMA BindingsKept ==
  ASSUME LedgerInv, UNCHANGED runs,
         \A q \in Pilots :
           pc'[q] = "holding" => pc[q] = "holding" /\ request'[q] = request[q],
         \A g \in GrantIds :
           /\ rows'[g].evidence = rows[g].evidence /\ rows'[g].scope = rows[g].scope
           /\ rows'[g].status = "ABSENT" <=> rows[g].status = "ABSENT"
           /\ rows[g].status = "ABSENT" => rows'[g] = rows[g],
         \A q \in Pilots : pc[q] = "holding" =>
           rows'[Grant(q).grant_id].status \in {"CLAIMED", "RECONCILE_REQUIRED", "ALIEN"},
         \A g \in GrantIds : rows'[g].status = "CONSUMED" =>
           /\ rows'[g].receipt.run \in DOMAIN runs
           /\ runs[rows'[g].receipt.run].scope = rows[g].scope
  PROVE  RowInv' /\ HolderInv' /\ RunInv' /\ ConsumedByItsRun' /\ RunsPermitted'
<1>0. /\ TypeOK /\ WorkInv /\ RowInv /\ HolderInv /\ RunInv
      /\ ConsumedByItsRun /\ RunsPermitted
  BY DEF LedgerInv
<1>1. RowInv'
  BY <1>0 DEF RowInv
<1>2. \A q \in Pilots : pc'[q] = "holding" =>
        /\ Grant(q)' = Grant(q) /\ ScopeOf(request'[q]) = ScopeOf(request[q])
        /\ Grant(q).grant_id \in GrantIds
  BY <1>0, RequestTypes DEF WorkInv, Grant
<1>3. HolderInv'
  <2> SUFFICES ASSUME NEW q \in Pilots, pc'[q] = "holding"
               PROVE  /\ Bound(Grant(q).grant_id)' /\ SameBinding(q)'
                      /\ \A f \in Pilots :
                           pc'[f] = "holding" /\ Grant(f)'.grant_id = Grant(q)'.grant_id
                             => f = q
                      /\ \A i \in DOMAIN runs' :
                           runs'[i].scope.grant_id # Grant(q)'.grant_id
    BY DEF HolderInv
  <2>1. Bound(Grant(q).grant_id)'
    BY <1>2 DEF Bound
  <2>2. SameBinding(q)'
    BY <1>0, <1>2 DEF HolderInv, SameBinding, Row
  <2>3. \A f \in Pilots :
          pc'[f] = "holding" /\ Grant(f)'.grant_id = Grant(q)'.grant_id => f = q
    BY <1>0, <1>2 DEF HolderInv
  <2>4. \A i \in DOMAIN runs' : runs'[i].scope.grant_id # Grant(q)'.grant_id
    BY <1>0, <1>2 DEF HolderInv
  <2> QED
    BY <2>1, <2>2, <2>3, <2>4
<1>4. RunInv'
  BY <1>0 DEF RunInv
<1>5. ConsumedByItsRun'
  <2> SUFFICES ASSUME NEW g \in GrantIds, rows'[g].status = "CONSUMED"
               PROVE  /\ rows'[g].receipt.run \in DOMAIN runs
                      /\ runs[rows'[g].receipt.run].scope = rows[g].scope
                      /\ runs[rows'[g].receipt.run].evidence = rows[g].evidence
    BY DEF ConsumedByItsRun
  <2>1. rows[g].scope.grant_id = g
    BY <1>0 DEF RowInv
  <2> QED
    BY <1>0, <2>1 DEF RunInv
<1>6. RunsPermitted'
  BY <1>0 DEF RunsPermitted, Permitted
<1> QED
  BY <1>1, <1>3, <1>4, <1>5, <1>6

(* An answer is true of the rows, and names a grant.                       *)
ToldOK(t, rs) ==
  /\ t.receipt # NoReceipt =>
       /\ t.receipt.grant_id \in GrantIds
       /\ rs[t.receipt.grant_id].status = "CONSUMED"
       /\ rs[t.receipt.grant_id].receipt = t.receipt
            <=> t.status \in {"CONSUMED", "NOOP_ALREADY_CONSUMED"}
  /\ t.scope # NoScope =>
       /\ t.scope.grant_id \in GrantIds
       /\ rs[t.scope.grant_id].status = "CONSUMED"
       /\ rs[t.scope.grant_id].scope = t.scope

(* Consumed rows do not change, so an old answer stays true.               *)
LEMMA AnswersKept ==
  ASSUME LedgerInv, NEW p \in Pilots,
         \A g \in GrantIds : rows[g].status = "CONSUMED" => rows'[g] = rows[g],
         \A q \in Pilots : q # p => told'[q] = told[q],
         ToldOK(told'[p], rows')
  PROVE  ToldTruth' /\ ToldInv'
<1>1. \A q \in Pilots : ToldOK(told[q], rows)
  BY DEF LedgerInv, ToldTruth, ToldInv, ToldOK
<1>2. \A q \in Pilots : ToldOK(told'[q], rows')
  <2> SUFFICES ASSUME NEW q \in Pilots, q # p
               PROVE  ToldOK(told[q], rows')
    OBVIOUS
  <2> QED
    BY <1>1 DEF ToldOK
<1>3. ToldTruth'
  BY <1>2 DEF ToldTruth, ToldOK
<1>4. ToldInv'
  BY <1>2 DEF ToldInv, ToldOK
<1> QED
  BY <1>3, <1>4

ToldTypes == [status : Answers, scope : Scopes \cup {NoScope}, receipt : Receipts]

DecisionTypes(t) == [status : AuthorityStatuses \cup {"none"}, asOf : 0 .. t]

LEMMA InvParts ==
  ASSUME LedgerInv
  PROVE  /\ TypeOK /\ WorkInv /\ RowInv /\ HolderInv /\ RunInv
         /\ ConsumedByItsRun /\ RunsPermitted /\ ToldTruth /\ ToldInv /\ TrailTellsStatus
         /\ rows \in [GrantIds -> RowTypes] /\ told \in [Pilots -> ToldTypes]
         /\ decision \in [Pilots -> DecisionTypes(now)] /\ now \in 0 .. MaxTime
         /\ pc \in [Pilots -> {"idle", "decided", "holding"}]
         /\ request \in [Pilots -> Requests \cup {NoRequest}]
         /\ events \in [GrantIds -> SUBSET Events]
         /\ runs \in Seq(RunTypes)
BY DEF LedgerInv, TypeOK, RowTypes, ToldTypes, DecisionTypes, RunTypes

LEMMA TypeParts ==
  ASSUME rows' \in [GrantIds -> RowTypes], events' \in [GrantIds -> SUBSET Events],
         now' \in 0 .. MaxTime, pc' \in [Pilots -> {"idle", "decided", "holding"}],
         request' \in [Pilots -> Requests \cup {NoRequest}],
         decision' \in [Pilots -> DecisionTypes(now')],
         told' \in [Pilots -> ToldTypes], runs' \in Seq(RunTypes)
  PROVE  TypeOK'
BY DEF TypeOK, RowTypes, ToldTypes, DecisionTypes, RunTypes

LEMMA NoDecisionType ==
  ASSUME NEW t \in Nat
  PROVE  NoDecision \in DecisionTypes(t)
BY DEF NoDecision, DecisionTypes

(* An answer without a receipt or a scope is true of any rows.             *)
LEMMA BareAnswer ==
  ASSUME NEW status \in Answers
  PROVE  /\ Told(status, NoScope, NoReceipt) \in ToldTypes
         /\ ToldOK(Told(status, NoScope, NoReceipt), rows')
<1>1. NoReceipt \in Receipts
  BY DEF NoReceipt, Receipts
<1>2. Told(status, NoScope, NoReceipt) \in ToldTypes
  BY <1>1 DEF Told, ToldTypes
<1>3. ToldOK(Told(status, NoScope, NoReceipt), rows')
  BY DEF Told, ToldOK
<1> QED
  BY <1>2, <1>3

(* Steps around the ledger.                                                *)
LEMMA AroundInv ==
  ASSUME LedgerInv, NEW p \in Pilots, UNCHANGED <<rows, events, runs>>,
         now' \in now .. MaxTime, pc' \in [Pilots -> {"idle", "decided", "holding"}],
         \A q \in Pilots : q # p =>
           /\ pc'[q] = pc[q] /\ request'[q] = request[q]
           /\ decision'[q] = decision[q] /\ told'[q] = told[q],
         pc'[p] = "holding" => pc[p] = "holding" /\ request'[p] = request[p],
         request' \in [Pilots -> Requests \cup {NoRequest}],
         decision' \in [Pilots -> DecisionTypes(now')],
         told' \in [Pilots -> ToldTypes], ToldOK(told'[p], rows),
         pc'[p] # "idle" =>
           /\ request'[p] \in Requests
           /\ decision'[p].status = "VALID"
                => Permitted(ScopeOf(request'[p]), request'[p].grant.evidence)
  PROVE  LedgerInv'
<1>1. now' \in 0 .. MaxTime
  BY InvParts, RequestAssumption
<1>2. TypeOK'
  BY <1>1, InvParts, TypeParts
<1>3. WorkInv'
  BY InvParts DEF WorkInv, Grant
<1>4. RowInv' /\ HolderInv' /\ RunInv' /\ ConsumedByItsRun' /\ RunsPermitted'
  <2>1. \A g \in GrantIds : rows[g].status = "CONSUMED" =>
          /\ rows[g].receipt.run \in DOMAIN runs
          /\ runs[rows[g].receipt.run].scope = rows[g].scope
    BY InvParts DEF ConsumedByItsRun
  <2>2. \A q \in Pilots : pc[q] = "holding" =>
          rows[Grant(q).grant_id].status \in {"CLAIMED", "RECONCILE_REQUIRED", "ALIEN"}
    BY InvParts DEF HolderInv, Bound
  <2>3. \A q \in Pilots :
          pc'[q] = "holding" => pc[q] = "holding" /\ request'[q] = request[q]
    OBVIOUS
  <2> QED
    BY <2>1, <2>2, <2>3, BindingsKept
<1>5. ToldTruth' /\ ToldInv'
  BY AnswersKept
<1>6. TrailTellsStatus'
  BY InvParts DEF TrailTellsStatus, StatusFromTrail
<1> QED
  BY <1>2, <1>3, <1>4, <1>5, <1>6 DEF LedgerInv

LEMMA TickInv ==
  ASSUME LedgerInv, Tick
  PROVE  LedgerInv'
<1>1. /\ UNCHANGED <<rows, events, runs, pc, request, decision, told>>
      /\ now' \in now .. MaxTime
  BY InvParts, RequestAssumption DEF Tick, pilotVars
<1>2. decision' \in [Pilots -> DecisionTypes(now')]
  <2>1. now \in Nat /\ now' \in Nat /\ now <= now'
    BY <1>1, InvParts, RequestAssumption
  <2>2. DecisionTypes(now) \subseteq DecisionTypes(now')
    BY <2>1 DEF DecisionTypes
  <2> QED
    BY <1>1, <2>2, InvParts
<1>3. CASE Pilots # {}
  <2>1. PICK p : p \in Pilots
    BY <1>3
  <2>2. ToldOK(told[p], rows)
    BY <2>1, InvParts DEF ToldTruth, ToldInv, ToldOK
  <2>3. pc[p] # "idle" =>
          /\ request[p] \in Requests
          /\ decision[p].status = "VALID"
               => Permitted(ScopeOf(request[p]), request[p].grant.evidence)
    BY <2>1, InvParts DEF WorkInv, Grant
  <2> QED
    BY <1>1, <1>2, <2>1, <2>2, <2>3, InvParts, AroundInv
<1>4. CASE Pilots = {}
  <2>1. TypeOK'
    <3>1. now' \in 0 .. MaxTime
      BY <1>1, InvParts, RequestAssumption
    <3> QED
      BY <1>1, <1>2, <3>1, InvParts, TypeParts
  <2>2. WorkInv' /\ HolderInv' /\ ToldTruth' /\ ToldInv'
    BY <1>4 DEF WorkInv, HolderInv, ToldTruth, ToldInv
  <2>3. RowInv' /\ RunInv' /\ ConsumedByItsRun'
    BY <1>1, InvParts DEF RowInv, RunInv, ConsumedByItsRun
  <2>4. RunsPermitted' /\ TrailTellsStatus'
    BY <1>1, InvParts DEF RunsPermitted, Permitted, TrailTellsStatus, StatusFromTrail
  <2> QED
    BY <2>1, <2>2, <2>3, <2>4 DEF LedgerInv
<1> QED
  BY <1>3, <1>4

LEMMA DecideInv ==
  ASSUME LedgerInv, NEW p \in Pilots, NEW r \in Requests, Decide(p, r)
  PROVE  LedgerInv'
<1> DEFINE d == [status |-> Verdict(r.intent, r.preflight, r.grant, now), asOf |-> now]
<1>1. /\ UNCHANGED <<rows, events, runs>> /\ now' = now
      /\ pc' = [pc EXCEPT ![p] = "decided"] /\ request' = [request EXCEPT ![p] = r]
      /\ decision' = [decision EXCEPT ![p] = d] /\ told' = [told EXCEPT ![p] = Silence]
  BY DEF Decide
<1>2. now \in Nat /\ now' \in now .. MaxTime
  BY <1>1, InvParts, RequestAssumption
<1>3. d \in DecisionTypes(now')
  BY <1>1, <1>2, VerdictType DEF DecisionTypes
<1>4. Silence \in ToldTypes /\ ToldOK(Silence, rows)
  <2>1. "none" \in Answers
    BY DEF Answers
  <2> QED
    BY <1>1, <2>1, BareAnswer DEF Silence
<1>5. d.status = "VALID" => Permitted(ScopeOf(r), r.grant.evidence)
  BY <1>2, ValidIsPermitted
<1> HIDE DEF d
<1>6. /\ pc' \in [Pilots -> {"idle", "decided", "holding"}]
      /\ request' \in [Pilots -> Requests \cup {NoRequest}]
      /\ decision' \in [Pilots -> DecisionTypes(now')]
      /\ told' \in [Pilots -> ToldTypes]
  BY <1>1, <1>3, <1>4, InvParts
<1>7. /\ pc'[p] = "decided" /\ request'[p] = r /\ decision'[p] = d /\ told'[p] = Silence
      /\ \A q \in Pilots : q # p =>
           /\ pc'[q] = pc[q] /\ request'[q] = request[q]
           /\ decision'[q] = decision[q] /\ told'[q] = told[q]
  BY <1>1, InvParts
<1> QED
  BY <1>1, <1>2, <1>4, <1>5, <1>6, <1>7, AroundInv

LEMMA CrashInv ==
  ASSUME LedgerInv, NEW p \in Pilots, Crash(p)
  PROVE  LedgerInv'
<1>1. /\ UNCHANGED <<rows, events, runs>> /\ now' = now
      /\ pc' = [pc EXCEPT ![p] = "idle"] /\ request' = [request EXCEPT ![p] = NoRequest]
      /\ decision' = [decision EXCEPT ![p] = NoDecision]
      /\ told' = [told EXCEPT ![p] = Silence]
  BY DEF Crash
<1>2. now \in Nat /\ now' \in now .. MaxTime
  BY <1>1, InvParts, RequestAssumption
<1>3. NoDecision \in DecisionTypes(now')
  BY <1>1, <1>2, NoDecisionType
<1>4. Silence \in ToldTypes /\ ToldOK(Silence, rows)
  <2>1. "none" \in Answers
    BY DEF Answers
  <2> QED
    BY <1>1, <2>1, BareAnswer DEF Silence
<1>6. /\ pc' \in [Pilots -> {"idle", "decided", "holding"}]
      /\ request' \in [Pilots -> Requests \cup {NoRequest}]
      /\ decision' \in [Pilots -> DecisionTypes(now')]
      /\ told' \in [Pilots -> ToldTypes]
  BY <1>1, <1>3, <1>4, InvParts
<1>7. /\ pc'[p] = "idle" /\ told'[p] = Silence
      /\ \A q \in Pilots : q # p =>
           /\ pc'[q] = pc[q] /\ request'[q] = request[q]
           /\ decision'[q] = decision[q] /\ told'[q] = told[q]
  BY <1>1, InvParts
<1> QED
  BY <1>1, <1>2, <1>4, <1>6, <1>7, AroundInv

-----------------------------------------------------------------------------
(* A claim that ends without the grant.                                    *)
LEMMA RefusedInv ==
  ASSUME LedgerInv, NEW p \in Pilots, NEW status \in Answers,
         pc[p] = "decided", ClaimBlocked(p, status), status # "CLAIMED_NEW",
         status = "NOOP_ALREADY_CONSUMED" => Row(p).status = "CONSUMED" /\ SameBinding(p)
  PROVE  LedgerInv'
<1> DEFINE scope == IF status = "NOOP_ALREADY_CONSUMED" THEN ScopeOf(request[p]) ELSE NoScope
           t == Told(status, scope, NoReceipt)
<1>1. /\ UNCHANGED <<rows, events, runs>> /\ now' = now
      /\ pc' = [pc EXCEPT ![p] = "idle"] /\ request' = [request EXCEPT ![p] = NoRequest]
      /\ decision' = [decision EXCEPT ![p] = NoDecision]
      /\ told' = [told EXCEPT ![p] = t]
  BY DEF ClaimBlocked, ClaimReturns
<1>2. now \in Nat /\ now' \in now .. MaxTime
  BY <1>1, InvParts, RequestAssumption
<1>3. NoDecision \in DecisionTypes(now')
  BY <1>1, <1>2, NoDecisionType
<1>4. t \in ToldTypes /\ ToldOK(t, rows)
  <2>1. CASE status = "NOOP_ALREADY_CONSUMED"
    <3>1. request[p] \in Requests
      BY InvParts DEF WorkInv
    <3>2. /\ ScopeOf(request[p]) \in Scopes
          /\ ScopeOf(request[p]).grant_id = Grant(p).grant_id
          /\ Grant(p).grant_id \in GrantIds
      BY <3>1, RequestTypes DEF Grant
    <3>3. t = Told(status, ScopeOf(request[p]), NoReceipt)
      BY <2>1
    <3>4. NoReceipt \in Receipts
      BY DEF NoReceipt, Receipts
    <3> HIDE DEF t
    <3>5. t \in ToldTypes
      BY <3>2, <3>3, <3>4 DEF Told, ToldTypes
    <3>6. ToldOK(t, rows)
      BY <2>1, <3>2, <3>3 DEF Told, ToldOK, Row, SameBinding
    <3> QED
      BY <3>5, <3>6
  <2>2. CASE status # "NOOP_ALREADY_CONSUMED"
    BY <1>1, <2>2, BareAnswer
  <2> QED
    BY <2>1, <2>2
<1> HIDE DEF t
<1>5. /\ pc' \in [Pilots -> {"idle", "decided", "holding"}]
      /\ request' \in [Pilots -> Requests \cup {NoRequest}]
      /\ decision' \in [Pilots -> DecisionTypes(now')]
      /\ told' \in [Pilots -> ToldTypes]
  BY <1>1, <1>3, <1>4, InvParts
<1>6. /\ pc'[p] = "idle" /\ told'[p] = t
      /\ \A q \in Pilots : q # p =>
           /\ pc'[q] = pc[q] /\ request'[q] = request[q]
           /\ decision'[q] = decision[q] /\ told'[q] = told[q]
  BY <1>1, InvParts
<1> QED
  BY <1>1, <1>2, <1>4, <1>5, <1>6, AroundInv

(* The one step that gives a claim.  Its row was absent, so nobody held    *)
(* it and no run was started for it; its evidence is in no other row.      *)
LEMMA ClaimNewInv ==
  ASSUME LedgerInv, NEW p \in Pilots, ClaimNew(p)
  PROVE  LedgerInv'
<1> DEFINE r == request[p]
           g == r.grant.grant_id
           row == [status |-> "CLAIMED", evidence |-> r.grant.evidence,
                   scope |-> ScopeOf(r), receipt |-> NoReceipt]
           t == Told("CLAIMED_NEW", NoScope, NoReceipt)
<1>1. /\ pc[p] = "decided" /\ decision[p].status = "VALID"
      /\ rows[g].status = "ABSENT" /\ ~EvidenceUsed(r.grant.evidence)
  BY DEF ClaimNew, ClaimOpens, ClaimCalls, AuthorityOk, Row, Grant
<1>2. /\ rows' = [rows EXCEPT ![g] = row]
      /\ events' = [events EXCEPT ![g] = @ \cup {"CLAIMED"}]
      /\ told' = [told EXCEPT ![p] = t]
      /\ decision' = [decision EXCEPT ![p] = NoDecision]
      /\ pc' = [pc EXCEPT ![p] = "holding"]
      /\ UNCHANGED <<request, now, runs>>
  <2>1. rows' = [rows EXCEPT ![g] = row]
    BY DEF ClaimNew, Bind, Grant
  <2>2. events' = [events EXCEPT ![g] = @ \cup {"CLAIMED"}]
    BY DEF ClaimNew, Bind, Record, Grant
  <2>3. ClaimReturns(p, "CLAIMED_NEW")
    BY DEF ClaimNew, Bind
  <2> QED
    BY <2>1, <2>2, <2>3 DEF ClaimReturns
<1>3. /\ r \in Requests /\ g \in GrantIds /\ r.grant.evidence \in Evidences
      /\ ScopeOf(r) \in Scopes /\ ScopeOf(r).grant_id = g
      /\ Permitted(ScopeOf(r), r.grant.evidence)
  BY <1>1, InvParts, RequestTypes DEF WorkInv, Grant
<1> HIDE DEF r, g
<1>4. /\ rows'[g] = row
      /\ \A h \in GrantIds : h # g => rows'[h] = rows[h]
  BY <1>2, <1>3, InvParts
<1>5. /\ pc'[p] = "holding" /\ request'[p] = r
      /\ \A q \in Pilots : q # p => pc'[q] = pc[q] /\ told'[q] = told[q]
      /\ \A q \in Pilots : Grant(q)' = Grant(q) /\ ScopeOf(request'[q]) = ScopeOf(request[q])
      /\ Grant(p) = r.grant
  BY <1>2, InvParts DEF r, Grant
<1>6. TypeOK'
  <2>1. row \in RowTypes
    BY <1>3 DEF RowTypes, Statuses, Receipts, NoReceipt
  <2>2. rows' \in [GrantIds -> RowTypes]
    BY <1>2, <2>1, InvParts
  <2>3. now \in Nat /\ now' = now
    BY <1>2, InvParts, RequestAssumption
  <2>4. decision' \in [Pilots -> DecisionTypes(now')]
    BY <1>2, <2>3, NoDecisionType, InvParts
  <2>5. t \in ToldTypes
    <3>1. "CLAIMED_NEW" \in Answers
      BY DEF Answers
    <3> QED
      BY <3>1, BareAnswer
  <2>6. told' \in [Pilots -> ToldTypes]
    BY <1>2, <2>5, InvParts
  <2>7. events' \in [GrantIds -> SUBSET Events]
    BY <1>2, InvParts DEF Events
  <2>8. pc' \in [Pilots -> {"idle", "decided", "holding"}]
    BY <1>2, InvParts
  <2> QED
    BY <1>2, <2>2, <2>3, <2>4, <2>6, <2>7, <2>8, InvParts, TypeParts
<1>7. WorkInv'
  <2>1. decision'[p].status # "VALID"
    BY <1>2, InvParts DEF NoDecision
  <2>2. \A q \in Pilots : q # p => decision'[q] = decision[q]
    BY <1>2, InvParts
  <2> QED
    BY <1>2, <1>3, <1>5, <2>1, <2>2, InvParts DEF WorkInv
<1>8. RowInv'
  BY <1>1, <1>3, <1>4, InvParts DEF RowInv, EvidenceUsed
<1>9. \A q \in Pilots : pc[q] = "holding" => Grant(q).grant_id # g
  BY <1>1, InvParts DEF HolderInv, Bound, g, r, Grant
<1>10. \A i \in DOMAIN runs : runs[i].scope.grant_id # g
  BY <1>1, InvParts DEF RunInv
<1>11. HolderInv'
  <2>1. Bound(Grant(p).grant_id)' /\ SameBinding(p)'
    BY <1>4, <1>5 DEF Bound, SameBinding, Row, g, Grant
  <2>2. Grant(p).grant_id = g
    BY <1>5 DEF g
  <2>3. \A q \in Pilots : pc'[q] = "holding" /\ q # p =>
          /\ Bound(Grant(q).grant_id)' /\ SameBinding(q)' /\ Grant(q)'.grant_id # g
    <3> SUFFICES ASSUME NEW q \in Pilots, pc[q] = "holding", q # p
                 PROVE  /\ Bound(Grant(q).grant_id)' /\ SameBinding(q)'
                        /\ Grant(q)'.grant_id # g
      BY <1>5
    <3>1. Grant(q).grant_id \in GrantIds /\ Grant(q).grant_id # g
      BY <1>9, InvParts, RequestTypes DEF WorkInv, Grant
    <3>2. rows'[Grant(q).grant_id] = rows[Grant(q).grant_id]
      BY <1>4, <3>1
    <3> QED
      BY <1>5, <3>1, <3>2, InvParts DEF HolderInv, Bound, SameBinding, Row
  <2> QED
    BY <1>2, <1>5, <1>10, <2>1, <2>2, <2>3, InvParts DEF HolderInv
<1>12. RunInv'
  BY <1>2, <1>4, <1>10, InvParts DEF RunInv
<1>13. ConsumedByItsRun'
  BY <1>2, <1>4, InvParts DEF ConsumedByItsRun
<1>14. RunsPermitted'
  BY <1>2, <1>3, <1>4, InvParts DEF RunsPermitted, Permitted
<1>15. ToldTruth' /\ ToldInv'
  <2>1. \A h \in GrantIds : rows[h].status = "CONSUMED" => rows'[h] = rows[h]
    BY <1>1, <1>4 DEF g, r
  <2>2. told'[p] = t
    BY <1>2, InvParts
  <2>3. ToldOK(told'[p], rows')
    <3>1. "CLAIMED_NEW" \in Answers
      BY DEF Answers
    <3> QED
      BY <2>2, <3>1, BareAnswer
  <2> QED
    BY <1>5, <2>1, <2>3, AnswersKept
<1>16. TrailTellsStatus'
  <2> SUFFICES ASSUME NEW h \in GrantIds, rows'[h].status # "ALIEN"
               PROVE  rows'[h].status = StatusFromTrail(events'[h])
    BY DEF TrailTellsStatus
  <2>1. rows[h].status # "ALIEN" => rows[h].status = StatusFromTrail(events[h])
    BY InvParts DEF TrailTellsStatus
  <2>2. CASE h = g
    <3>1. events[g] = {}
      BY <1>1, <2>1, <2>2 DEF StatusFromTrail, g, r
    <3>2. events'[g] = {"CLAIMED"}
      BY <1>2, <1>3, <3>1, InvParts
    <3> QED
      BY <1>4, <2>2, <3>2 DEF StatusFromTrail
  <2>3. CASE h # g
    BY <1>2, <1>4, <2>1, <2>3, InvParts
  <2> QED
    BY <2>2, <2>3
<1> QED
  BY <1>6, <1>7, <1>8, <1>11, <1>12, <1>13, <1>14, <1>15, <1>16 DEF LedgerInv

(* The holder's run: the first under its grant, with its scope.            *)
LEMMA StartInv ==
  ASSUME LedgerInv, NEW p \in Pilots, Start(p)
  PROVE  LedgerInv'
<1> DEFINE r == request[p]
           g == r.grant.grant_id
           run == [scope |-> ScopeOf(r), evidence |-> r.grant.evidence]
           n == Len(runs) + 1
<1>1. /\ pc[p] = "holding" /\ runs' = Append(runs, run)
      /\ pc' = [pc EXCEPT ![p] = "idle"] /\ request' = [request EXCEPT ![p] = NoRequest]
      /\ UNCHANGED <<rows, events, now, decision, told>>
  BY DEF Start
<1>2. /\ r \in Requests /\ g \in GrantIds /\ run \in RunTypes /\ run.scope.grant_id = g
  BY <1>1, InvParts, RequestTypes DEF WorkInv, RunTypes
<1>3. /\ rows[g].status \in {"CLAIMED", "RECONCILE_REQUIRED", "ALIEN"}
      /\ rows[g].scope = run.scope /\ rows[g].evidence = run.evidence
      /\ \A i \in DOMAIN runs : runs[i].scope.grant_id # g
      /\ \A q \in Pilots : pc[q] = "holding" /\ Grant(q).grant_id = g => q = p
  BY <1>1, InvParts DEF HolderInv, Bound, SameBinding, Row, Grant
<1> HIDE DEF r, g, run
<1>4. /\ n \notin DOMAIN runs /\ DOMAIN runs' = DOMAIN runs \cup {n}
      /\ \A i \in DOMAIN runs : runs'[i] = runs[i]
      /\ runs'[n] = run
  BY <1>1, <1>2, InvParts
<1>5. /\ pc'[p] = "idle"
      /\ \A q \in Pilots : q # p => pc'[q] = pc[q] /\ request'[q] = request[q]
  BY <1>1, InvParts
<1> HIDE DEF n
<1>6. TypeOK'
  <2>1. runs' \in Seq(RunTypes)
    BY <1>1, <1>2, InvParts
  <2>2. /\ pc' \in [Pilots -> {"idle", "decided", "holding"}]
        /\ request' \in [Pilots -> Requests \cup {NoRequest}]
    BY <1>1, InvParts
  <2> QED
    BY <1>1, <2>1, <2>2, InvParts, TypeParts
<1>7. WorkInv'
  BY <1>1, <1>5, InvParts DEF WorkInv, Grant
<1>8. RowInv'
  BY <1>1, InvParts DEF RowInv
<1>9. HolderInv'
  <2> SUFFICES ASSUME NEW q \in Pilots, pc'[q] = "holding"
               PROVE  /\ Bound(Grant(q).grant_id)' /\ SameBinding(q)'
                      /\ \A f \in Pilots :
                           pc'[f] = "holding" /\ Grant(f)'.grant_id = Grant(q)'.grant_id
                             => f = q
                      /\ \A i \in DOMAIN runs' :
                           runs'[i].scope.grant_id # Grant(q)'.grant_id
    BY DEF HolderInv
  <2>1. q # p /\ pc[q] = "holding" /\ Grant(q)' = Grant(q) /\ request'[q] = request[q]
    BY <1>5 DEF Grant
  <2>2. Bound(Grant(q).grant_id)' /\ SameBinding(q)'
    BY <1>1, <2>1, InvParts DEF HolderInv, Bound, SameBinding, Row
  <2>3. \A f \in Pilots :
          pc'[f] = "holding" /\ Grant(f)'.grant_id = Grant(q)'.grant_id => f = q
    BY <1>5, <2>1, InvParts DEF HolderInv, Grant
  <2>4. \A i \in DOMAIN runs' : runs'[i].scope.grant_id # Grant(q)'.grant_id
    BY <1>2, <1>3, <1>4, <2>1, InvParts DEF HolderInv
  <2> QED
    BY <2>2, <2>3, <2>4
<1>10. RunInv'
  BY <1>1, <1>2, <1>3, <1>4, InvParts DEF RunInv
<1>11. ConsumedByItsRun'
  BY <1>1, <1>4, InvParts DEF ConsumedByItsRun
<1>12. RunsPermitted'
  <2>1. Permitted(run.scope, run.evidence)
    BY <1>2, <1>3, InvParts DEF RunsPermitted
  <2> QED
    BY <1>1, <1>4, <2>1, InvParts DEF RunsPermitted, Permitted
<1>13. ToldTruth' /\ ToldInv' /\ TrailTellsStatus'
  BY <1>1, InvParts DEF ToldTruth, ToldInv, TrailTellsStatus, StatusFromTrail
<1> QED
  BY <1>6, <1>7, <1>8, <1>9, <1>10, <1>11, <1>12, <1>13 DEF LedgerInv

-----------------------------------------------------------------------------
(* A call of mark_reconcile_required or consume that puts row g into a new *)
(* status with its event, and binds nothing anew.                          *)
LEMMA UpdateInv ==
  ASSUME LedgerInv, NEW p \in Pilots, NEW receipt \in Receipts, NEW status \in Answers,
         Answer(p, receipt, status),
         rows' \in [GrantIds -> RowTypes], events' \in [GrantIds -> SUBSET Events],
         \A g \in GrantIds :
           /\ rows'[g].evidence = rows[g].evidence /\ rows'[g].scope = rows[g].scope
           /\ rows'[g].status = "ABSENT" <=> rows[g].status = "ABSENT"
           /\ rows[g].status \in {"ABSENT", "CONSUMED"} => rows'[g] = rows[g],
         \A q \in Pilots : pc[q] = "holding" =>
           rows'[Grant(q).grant_id].status \in {"CLAIMED", "RECONCILE_REQUIRED", "ALIEN"},
         \A g \in GrantIds : rows'[g].status = "CONSUMED" =>
           /\ rows'[g].receipt.run \in DOMAIN runs
           /\ runs[rows'[g].receipt.run].scope = rows[g].scope,
         ToldOK(Told(status, NoScope, receipt), rows'),
         TrailTellsStatus'
  PROVE  LedgerInv'
<1> DEFINE t == Told(status, NoScope, receipt)
<1>1. /\ told' = [told EXCEPT ![p] = t]
      /\ UNCHANGED <<now, pc, request, decision, runs>>
  BY DEF Answer
<1>2. t \in ToldTypes
  BY DEF Told, ToldTypes
<1> HIDE DEF t
<1>3. TypeOK'
  BY <1>1, <1>2, InvParts, TypeParts
<1>4. WorkInv'
  BY <1>1, InvParts DEF WorkInv, Grant
<1>5. RowInv' /\ HolderInv' /\ RunInv' /\ ConsumedByItsRun' /\ RunsPermitted'
  BY <1>1, BindingsKept
<1>6. ToldTruth' /\ ToldInv'
  <2>1. told'[p] = t /\ \A q \in Pilots : q # p => told'[q] = told[q]
    BY <1>1, InvParts
  <2> QED
    BY <2>1, AnswersKept DEF t
<1> QED
  BY <1>3, <1>4, <1>5, <1>6 DEF LedgerInv

(* What the invariant says of the rows, in the terms of UpdateInv.         *)
LEMMA RowFacts ==
  ASSUME LedgerInv
  PROVE  /\ \A q \in Pilots : pc[q] = "holding" =>
              /\ Grant(q).grant_id \in GrantIds
              /\ rows[Grant(q).grant_id].status \in {"CLAIMED", "RECONCILE_REQUIRED", "ALIEN"}
         /\ \A g \in GrantIds : rows[g].status = "CONSUMED" =>
              /\ rows[g].receipt.run \in DOMAIN runs
              /\ runs[rows[g].receipt.run].scope = rows[g].scope
         /\ \A g \in GrantIds :
              rows[g].status # "ALIEN" => rows[g].status = StatusFromTrail(events[g])
         /\ \A g \in GrantIds : rows[g].status \in Statuses
<1>1. \A q \in Pilots : pc[q] = "holding" =>
        /\ Grant(q).grant_id \in GrantIds
        /\ rows[Grant(q).grant_id].status \in {"CLAIMED", "RECONCILE_REQUIRED", "ALIEN"}
  BY InvParts, RequestTypes DEF WorkInv, HolderInv, Bound, Grant
<1>2. \A g \in GrantIds : rows[g].status \in Statuses
  BY InvParts DEF RowTypes
<1> QED
  BY <1>1, <1>2, InvParts DEF ConsumedByItsRun, TrailTellsStatus

(* A call that only reads.                                                 *)
LEMMA ReadInv ==
  ASSUME LedgerInv, NEW p \in Pilots, NEW receipt \in Receipts, NEW status \in Answers,
         Answer(p, receipt, status), UNCHANGED <<rows, events>>,
         ToldOK(Told(status, NoScope, receipt), rows)
  PROVE  LedgerInv'
<1>1. TrailTellsStatus'
  BY RowFacts DEF TrailTellsStatus, StatusFromTrail
<1>2. rows' \in [GrantIds -> RowTypes] /\ events' \in [GrantIds -> SUBSET Events]
  BY InvParts
<1> QED
  BY <1>1, <1>2, RowFacts, UpdateInv

(* The same without a receipt in the answer.                               *)
LEMMA BareReadInv ==
  ASSUME LedgerInv, NEW p \in Pilots, NEW status \in Answers,
         Answer(p, NoReceipt, status), UNCHANGED <<rows, events>>
  PROVE  LedgerInv'
<1>1. NoReceipt \in Receipts
  BY DEF NoReceipt, Receipts
<1> QED
  BY <1>1, BareAnswer, ReadInv

(* An open row is put in doubt.                                            *)
LEMMA DoubtInv ==
  ASSUME LedgerInv, NEW p \in Pilots, NEW g \in GrantIds, NEW status \in Answers,
         NEW event \in {"RECONCILE_REQUIRED", "RECEIPT_SCOPE_CONFLICT_BLOCKED"},
         Open(g), Doubt(g), Record(g, event), Answer(p, NoReceipt, status)
  PROVE  LedgerInv'
<1>1. NoReceipt \in Receipts
  BY DEF NoReceipt, Receipts
<1>2. /\ rows' = [rows EXCEPT ![g].status = "RECONCILE_REQUIRED"]
      /\ rows[g].status \in {"CLAIMED", "RECONCILE_REQUIRED"}
      /\ rows' \in [GrantIds -> RowTypes]
  <2>1. rows' = [rows EXCEPT ![g].status = "RECONCILE_REQUIRED"]
    BY DEF Doubt
  <2> QED
    BY <2>1, InvParts DEF Open, RowTypes, Statuses
<1>3. /\ rows'[g].status = "RECONCILE_REQUIRED"
      /\ rows'[g].evidence = rows[g].evidence /\ rows'[g].scope = rows[g].scope
      /\ \A h \in GrantIds : h # g => rows'[h] = rows[h]
  BY <1>2, InvParts DEF RowTypes
<1>4. /\ events'[g] = events[g] \cup {event}
      /\ \A h \in GrantIds : h # g => events'[h] = events[h]
      /\ events' \in [GrantIds -> SUBSET Events]
  BY InvParts DEF Record, Events
<1>5. TrailTellsStatus'
  <2> SUFFICES ASSUME NEW h \in GrantIds, rows'[h].status # "ALIEN"
               PROVE  rows'[h].status = StatusFromTrail(events'[h])
    BY DEF TrailTellsStatus
  <2>1. CASE h = g
    <3>1. "CONSUMED" \notin events[g]
      BY <1>2, RowFacts DEF StatusFromTrail
    <3>2. /\ events'[g] # {} /\ "CONSUMED" \notin events'[g]
          /\ \/ "RECONCILE_REQUIRED" \in events'[g]
             \/ "RECEIPT_SCOPE_CONFLICT_BLOCKED" \in events'[g]
      BY <1>4, <3>1
    <3> QED
      BY <1>3, <2>1, <3>2 DEF StatusFromTrail
  <2>2. CASE h # g
    BY <1>3, <1>4, <2>2, RowFacts
  <2> QED
    BY <2>1, <2>2
<1>6. ToldOK(Told(status, NoScope, NoReceipt), rows')
  BY BareAnswer
<1>7. \A h \in GrantIds :
        /\ rows'[h].evidence = rows[h].evidence /\ rows'[h].scope = rows[h].scope
        /\ rows'[h].status = "ABSENT" <=> rows[h].status = "ABSENT"
        /\ rows[h].status \in {"ABSENT", "CONSUMED"} => rows'[h] = rows[h]
  BY <1>2, <1>3
<1>8. \A q \in Pilots : pc[q] = "holding" =>
        rows'[Grant(q).grant_id].status \in {"CLAIMED", "RECONCILE_REQUIRED", "ALIEN"}
  BY <1>3, RowFacts
<1>9. \A h \in GrantIds : rows'[h].status = "CONSUMED" =>
        /\ rows'[h].receipt.run \in DOMAIN runs
        /\ runs[rows'[h].receipt.run].scope = rows[h].scope
  BY <1>3, RowFacts
<1> QED
  BY <1>1, <1>2, <1>4, <1>5, <1>6, <1>7, <1>8, <1>9, UpdateInv

(* What a possible receipt names.                                          *)
LEMMA ReceiptTypes ==
  ASSUME LedgerInv, NEW r \in PossibleReceipts
  PROVE  /\ r.grant_id \in GrantIds /\ r.run \in DOMAIN runs /\ r.run \in Nat \ {0}
         /\ Proof(r) \in Receipts /\ Proof(r) # NoReceipt
         /\ Proof(r).grant_id = r.grant_id /\ Proof(r).run = r.run
         /\ r.verified => r.scope = runs[r.run].scope
<1>1. PICK v \in BOOLEAN, g \in GrantIds, i \in DOMAIN runs, e \in ReceiptIds :
        r = Receipt(v, g, i, e)
  BY DEF PossibleReceipts
<1>2. DOMAIN runs \subseteq Nat \ {0}
  BY InvParts
<1>3. /\ r.grant_id = g /\ r.run = i /\ r.evidence = e /\ r.verified = v
      /\ v => r.scope = runs[i].scope
  BY <1>1 DEF Receipt
<1>4. Proof(r) \in Receipts
  BY <1>2, <1>3 DEF Proof, Receipts
<1>5. /\ Proof(r).grant_id = r.grant_id /\ Proof(r).run = r.run
      /\ Proof(r) # NoReceipt
  BY <1>2, <1>3 DEF Proof, NoReceipt
<1> QED
  BY <1>2, <1>3, <1>4, <1>5

LEMMA MismatchInv ==
  ASSUME LedgerInv, NEW p \in Pilots, NEW r \in PossibleReceipts, ConsumeMismatch(p, r)
  PROVE  LedgerInv'
<1> DEFINE g == r.grant_id
<1>1. g \in GrantIds /\ "SCOPE_CONFLICT_BLOCKED" \in Answers
  BY ReceiptTypes DEF Answers
<1>2. CASE Open(g)
  BY <1>1, <1>2, DoubtInv DEF ConsumeMismatch
<1>3. CASE ~Open(g)
  <2>1. rows[g].status \in {"CONSUMED", "ALIEN"}
    BY <1>1, <1>3, RowFacts DEF ConsumeMismatch, Consumes, Open, Statuses
  <2>2. UNCHANGED rows /\ Answer(p, NoReceipt, "SCOPE_CONFLICT_BLOCKED")
    BY <1>3 DEF ConsumeMismatch
  <2>3. /\ events'[g] = events[g] \cup {"RECEIPT_SCOPE_CONFLICT_BLOCKED"}
        /\ \A h \in GrantIds : h # g => events'[h] = events[h]
        /\ events' \in [GrantIds -> SUBSET Events]
    BY <1>1, InvParts DEF ConsumeMismatch, Record, Events
  <2>4. TrailTellsStatus'
    <3> SUFFICES ASSUME NEW h \in GrantIds, rows[h].status # "ALIEN"
                 PROVE  rows[h].status = StatusFromTrail(events'[h])
      BY <2>2 DEF TrailTellsStatus
    <3>1. CASE h = g
      <4>1. "CONSUMED" \in events[g]
        BY <1>1, <2>1, <3>1, RowFacts DEF StatusFromTrail
      <4> QED
        BY <2>1, <2>3, <3>1, <4>1 DEF StatusFromTrail
    <3>2. CASE h # g
      BY <2>3, <3>2, RowFacts
    <3> QED
      BY <3>1, <3>2
  <2>5. NoReceipt \in Receipts
    BY DEF NoReceipt, Receipts
  <2>6. rows' \in [GrantIds -> RowTypes]
    BY <2>2, InvParts
  <2>7. ToldOK(Told("SCOPE_CONFLICT_BLOCKED", NoScope, NoReceipt), rows')
    BY <1>1, BareAnswer
  <2> QED
    BY <1>1, <2>2, <2>3, <2>4, <2>5, <2>6, <2>7, RowFacts, UpdateInv
<1> QED
  BY <1>2, <1>3

LEMMA ReplayInv ==
  ASSUME LedgerInv, NEW p \in Pilots, NEW r \in PossibleReceipts, ConsumeReplay(p, r)
  PROVE  LedgerInv'
<1>1. ReplayAnswer(r) \in {"NOOP_ALREADY_CONSUMED", "CONFLICT_BLOCKED"}
  BY DEF ReplayAnswer
<1>2. ReplayAnswer(r) \in Answers
  BY <1>1 DEF Answers
<1>3. /\ Proof(r) \in Receipts /\ Proof(r) # NoReceipt
      /\ Proof(r).grant_id = r.grant_id /\ r.grant_id \in GrantIds
  BY ReceiptTypes
<1>4. /\ rows[r.grant_id].status = "CONSUMED" /\ UNCHANGED <<rows, events>>
      /\ Answer(p, Proof(r), ReplayAnswer(r))
  BY DEF ConsumeReplay
<1>5. rows[r.grant_id].receipt = Proof(r)
        <=> ReplayAnswer(r) \in {"CONSUMED", "NOOP_ALREADY_CONSUMED"}
  BY DEF ReplayAnswer
<1>6. ToldOK(Told(ReplayAnswer(r), NoScope, Proof(r)), rows)
  BY <1>3, <1>4, <1>5 DEF ToldOK, Told
<1> QED
  BY <1>2, <1>3, <1>4, <1>6, ReadInv

(* Consumption on a verified receipt: the run it tells of was started, so  *)
(* nobody holds the claim any more.                                        *)
LEMMA ConsumeInv ==
  ASSUME LedgerInv, NEW p \in Pilots, NEW r \in PossibleReceipts, Consume(p, r)
  PROVE  LedgerInv'
<1> DEFINE g == r.grant_id
           t == Told("CONSUMED", NoScope, Proof(r))
<1>1. /\ g \in GrantIds /\ r.run \in DOMAIN runs
      /\ Proof(r) \in Receipts /\ Proof(r) # NoReceipt
      /\ Proof(r).grant_id = g /\ Proof(r).run = r.run
  BY ReceiptTypes
<1>2. runs[r.run].scope = rows[g].scope
  BY ReceiptTypes DEF Consume, Consumes, ReceiptValid, ExactScope
<1>3. /\ rows[g].status \in {"CLAIMED", "RECONCILE_REQUIRED"}
      /\ rows' = [rows EXCEPT ![g].status = "CONSUMED", ![g].receipt = Proof(r)]
      /\ Answer(p, Proof(r), "CONSUMED") /\ Record(g, "CONSUMED")
  BY DEF Consume, Open
<1>4. /\ rows'[g].status = "CONSUMED" /\ rows'[g].receipt = Proof(r)
      /\ rows'[g].evidence = rows[g].evidence /\ rows'[g].scope = rows[g].scope
      /\ \A h \in GrantIds : h # g => rows'[h] = rows[h]
      /\ rows' \in [GrantIds -> RowTypes]
  BY <1>1, <1>3, InvParts DEF RowTypes, Statuses
<1>5. /\ events'[g] = events[g] \cup {"CONSUMED"}
      /\ \A h \in GrantIds : h # g => events'[h] = events[h]
      /\ events' \in [GrantIds -> SUBSET Events]
  BY <1>1, <1>3, InvParts DEF Record, Events
<1>6. runs[r.run].scope.grant_id = g
  BY <1>1, <1>2, <1>3, InvParts DEF RowInv
<1>7. \A q \in Pilots : pc[q] = "holding" =>
        /\ Grant(q).grant_id # g
        /\ rows'[Grant(q).grant_id].status \in {"CLAIMED", "RECONCILE_REQUIRED", "ALIEN"}
  BY <1>1, <1>4, <1>6, RowFacts, InvParts DEF HolderInv
<1>8. \A h \in GrantIds : rows'[h].status = "CONSUMED" =>
        /\ rows'[h].receipt.run \in DOMAIN runs
        /\ runs[rows'[h].receipt.run].scope = rows[h].scope
  BY <1>1, <1>2, <1>4, RowFacts
<1>9. \A h \in GrantIds :
        /\ rows'[h].evidence = rows[h].evidence /\ rows'[h].scope = rows[h].scope
        /\ rows'[h].status = "ABSENT" <=> rows[h].status = "ABSENT"
        /\ rows[h].status \in {"ABSENT", "CONSUMED"} => rows'[h] = rows[h]
  BY <1>3, <1>4
<1>10. ToldOK(t, rows')
  BY <1>1, <1>4 DEF ToldOK, Told
<1>11. TrailTellsStatus'
  <2> SUFFICES ASSUME NEW h \in GrantIds, rows'[h].status # "ALIEN"
               PROVE  rows'[h].status = StatusFromTrail(events'[h])
    BY DEF TrailTellsStatus
  <2>1. CASE h = g
    BY <1>4, <1>5, <2>1 DEF StatusFromTrail
  <2>2. CASE h # g
    BY <1>4, <1>5, <2>2, RowFacts
  <2> QED
    BY <2>1, <2>2
<1>12. "CONSUMED" \in Answers
  BY DEF Answers
<1> QED
  BY <1>1, <1>3, <1>4, <1>5, <1>7, <1>8, <1>9, <1>10, <1>11, <1>12, UpdateInv

-----------------------------------------------------------------------------
LEMMA ClaimStepInv ==
  ASSUME LedgerInv, NEW p \in Pilots, Claim(p)
  PROVE  LedgerInv'
<1> USE DEF ClaimOpens, ClaimCalls
<1>1. {"AUTHORITY_BLOCKED", "SCOPE_CONFLICT_BLOCKED", "NOOP_ALREADY_CONSUMED",
       "RECONCILE_REQUIRED", "EVIDENCE_REUSE_BLOCKED", "FAIL_CLOSED"}
        \subseteq Answers \ {"CLAIMED_NEW"}
  BY DEF Answers
<1>2. CASE ClaimUnauthorized(p)
  <2>1. pc[p] = "decided" /\ ClaimBlocked(p, "AUTHORITY_BLOCKED")
    BY <1>2 DEF ClaimUnauthorized, ClaimBlocked
  <2> QED
    BY <1>1, <2>1, RefusedInv
<1>3. CASE ClaimConflict(p)
  BY <1>1, <1>3, RefusedInv DEF ClaimConflict
<1>4. CASE ClaimConsumed(p)
  BY <1>1, <1>4, RefusedInv DEF ClaimConsumed
<1>5. CASE ClaimPresent(p)
  BY <1>1, <1>5, RefusedInv DEF ClaimPresent
<1>6. CASE ClaimReused(p) \/ ClaimAlien(p)
  BY <1>1, <1>6, RefusedInv DEF ClaimReused, ClaimAlien
<1>7. CASE ClaimNew(p)
  BY <1>7, ClaimNewInv
<1>8. CASE ClaimError(p)
  <2>1. pc[p] = "decided" /\ ClaimBlocked(p, "FAIL_CLOSED")
    BY <1>8 DEF ClaimError, ClaimBlocked
  <2> QED
    BY <1>1, <2>1, RefusedInv
<1> QED
  BY <1>2, <1>3, <1>4, <1>5, <1>6, <1>7, <1>8 DEF Claim

LEMMA UpdateStepInv ==
  ASSUME LedgerInv, NEW p \in Pilots, Update(p)
  PROVE  LedgerInv'
<1>1. {"FAIL_CLOSED", "RECONCILE_REQUIRED", "NOOP_ALREADY_CONSUMED"} \subseteq Answers
  BY DEF Answers
<1>2. CASE UpdateError(p)
  BY <1>1, <1>2, BareReadInv DEF UpdateError
<1>3. ASSUME NEW g \in GrantIds, MarkReconcile(p, g)
      PROVE  LedgerInv'
  BY <1>1, <1>3, DoubtInv DEF MarkReconcile
<1>4. ASSUME NEW g \in GrantIds, MarkNoop(p, g) \/ MarkUnknown(p, g)
      PROVE  LedgerInv'
  BY <1>1, <1>4, BareReadInv DEF MarkNoop, MarkUnknown
<1>5. ASSUME NEW r \in PossibleReceipts, ConsumeRefused(p, r) \/ ConsumeAlien(p, r)
      PROVE  LedgerInv'
  BY <1>1, <1>5, BareReadInv DEF ConsumeRefused, ConsumeAlien
<1>6. ASSUME NEW r \in PossibleReceipts,
             ConsumeMismatch(p, r) \/ ConsumeReplay(p, r) \/ Consume(p, r)
      PROVE  LedgerInv'
  BY <1>6, MismatchInv, ReplayInv, ConsumeInv
<1> QED
  BY <1>2, <1>3, <1>4, <1>5, <1>6 DEF Update

(* A foreign writer changes the status of a claimed row and nothing else.  *)
LEMMA ForeignInv ==
  ASSUME LedgerInv, NEW g \in GrantIds, ForeignStatus(g)
  PROVE  LedgerInv'
<1>1. /\ rows' = [rows EXCEPT ![g].status = "ALIEN"]
      /\ rows[g].status \in {"CLAIMED", "RECONCILE_REQUIRED"}
      /\ UNCHANGED <<events, now, pc, request, decision, told, runs>>
  BY DEF ForeignStatus, pilotVars
<1>2. /\ rows'[g].status = "ALIEN"
      /\ rows'[g].evidence = rows[g].evidence /\ rows'[g].scope = rows[g].scope
      /\ \A h \in GrantIds : h # g => rows'[h] = rows[h]
      /\ rows' \in [GrantIds -> RowTypes]
  BY <1>1, InvParts DEF RowTypes, Statuses
<1>3. TypeOK'
  BY <1>1, <1>2, InvParts, TypeParts
<1>4. WorkInv'
  BY <1>1, InvParts DEF WorkInv, Grant, Permitted
<1>5. RowInv' /\ HolderInv' /\ RunInv' /\ ConsumedByItsRun' /\ RunsPermitted'
  <2>1. \A h \in GrantIds :
          /\ rows'[h].evidence = rows[h].evidence /\ rows'[h].scope = rows[h].scope
          /\ rows'[h].status = "ABSENT" <=> rows[h].status = "ABSENT"
          /\ rows[h].status = "ABSENT" => rows'[h] = rows[h]
    BY <1>1, <1>2
  <2>2. \A q \in Pilots : pc[q] = "holding" =>
          rows'[Grant(q).grant_id].status \in {"CLAIMED", "RECONCILE_REQUIRED", "ALIEN"}
    BY <1>2, RowFacts
  <2>3. \A h \in GrantIds : rows'[h].status = "CONSUMED" =>
          /\ rows'[h].receipt.run \in DOMAIN runs
          /\ runs[rows'[h].receipt.run].scope = rows[h].scope
    BY <1>2, RowFacts
  <2> QED
    BY <1>1, <2>1, <2>2, <2>3, BindingsKept
<1>6. ToldTruth' /\ ToldInv'
  <2>1. \A h \in GrantIds : rows[h].status = "CONSUMED" => rows'[h] = rows[h]
    BY <1>1, <1>2
  <2>2. \A q \in Pilots : ToldOK(told[q], rows)
    BY InvParts DEF ToldTruth, ToldInv, ToldOK
  <2>3. \A q \in Pilots : ToldOK(told'[q], rows')
    BY <1>1, <2>1, <2>2 DEF ToldOK
  <2> QED
    BY <2>3 DEF ToldTruth, ToldInv, ToldOK
<1>7. TrailTellsStatus'
  BY <1>1, <1>2, RowFacts DEF TrailTellsStatus, StatusFromTrail
<1> QED
  BY <1>3, <1>4, <1>5, <1>6, <1>7 DEF LedgerInv

LEMMA StutterInv ==
  ASSUME LedgerInv, UNCHANGED vars
  PROVE  LedgerInv'
<1>1. UNCHANGED <<rows, events, now, pc, request, decision, told, runs>>
  BY DEF vars, pilotVars
<1>2. TypeOK'
  BY <1>1, InvParts DEF TypeOK
<1>3. WorkInv' /\ RowInv' /\ HolderInv' /\ RunInv'
  BY <1>1, InvParts DEF WorkInv, RowInv, HolderInv, RunInv, Grant, Row, Bound, SameBinding,
                       Permitted
<1>4. ConsumedByItsRun' /\ RunsPermitted'
  BY <1>1, InvParts DEF ConsumedByItsRun, RunsPermitted, Permitted
<1>5. ToldTruth' /\ ToldInv' /\ TrailTellsStatus'
  BY <1>1, InvParts DEF ToldTruth, ToldInv, TrailTellsStatus, StatusFromTrail
<1> QED
  BY <1>2, <1>3, <1>4, <1>5 DEF LedgerInv

(* The inductive invariant holds: claims are exclusive, rows remember what *)
(* they were taken for, runs are the holders'.                             *)
THEOREM LedgerInvariant == Spec => []LedgerInv
<1>1. LedgerInv /\ [Next]_vars => LedgerInv'
  <2> SUFFICES ASSUME LedgerInv, [Next]_vars
               PROVE  LedgerInv'
    OBVIOUS
  <2>1. CASE UNCHANGED vars
    BY <2>1, StutterInv
  <2>2. CASE Tick
    BY <2>2, TickInv
  <2>3. ASSUME NEW p \in Pilots, NEW r \in Requests, Decide(p, r)
        PROVE  LedgerInv'
    BY <2>3, DecideInv
  <2>4. ASSUME NEW p \in Pilots, Claim(p) \/ Start(p) \/ Crash(p) \/ Update(p)
        PROVE  LedgerInv'
    BY <2>4, ClaimStepInv, StartInv, CrashInv, UpdateStepInv
  <2>5. ASSUME NEW g \in GrantIds, ForeignStatus(g)
        PROVE  LedgerInv'
    BY <2>5, ForeignInv
  <2> QED
    BY <2>1, <2>2, <2>3, <2>4, <2>5 DEF Next
<1> QED
  BY <1>1, InitInv, PTL DEF Spec

(* One owner permission, one dispatch, over any crashes and restarts.      *)
THEOREM GrantIsSingleUse == Spec => []SingleUse
<1>1. LedgerInv => SingleUse
  <2> SUFFICES ASSUME LedgerInv PROVE SingleUse
    OBVIOUS
  <2>1. \A p \in Pilots : pc[p] = "holding" =>
          /\ Grant(p).grant_id \in GrantIds
          /\ rows[Grant(p).grant_id].status # "ABSENT"
          /\ rows[Grant(p).grant_id].evidence = Grant(p).evidence
    BY RowFacts, InvParts DEF HolderInv, SameBinding, Row
  <2>2. \A i \in DOMAIN runs :
          /\ runs[i].scope.grant_id \in GrantIds
          /\ rows[runs[i].scope.grant_id].status # "ABSENT"
          /\ rows[runs[i].scope.grant_id].evidence = runs[i].evidence
    BY InvParts DEF RunInv
  <2>3. \A g, h \in GrantIds :
          rows[g].status # "ABSENT" /\ rows[h].status # "ABSENT"
            /\ rows[h].evidence = rows[g].evidence => h = g
    BY InvParts DEF RowInv
  <2>4. ASSUME NEW p \in Pilots, pc[p] = "holding"
        PROVE  /\ \A q \in Pilots :
                    pc[q] = "holding" /\ Grant(q).evidence = Grant(p).evidence => q = p
               /\ \A i \in DOMAIN runs : runs[i].evidence # Grant(p).evidence
    BY <2>1, <2>2, <2>3, <2>4, InvParts DEF HolderInv
  <2>5. \A i, j \in DOMAIN runs : runs[i].evidence = runs[j].evidence => i = j
    BY <2>2, <2>3, InvParts DEF RunInv
  <2> QED
    BY <2>4, <2>5 DEF SingleUse
<1> QED
  BY <1>1, LedgerInvariant, PTL

(* A grant is consumed by the run that was started under its claim.        *)
THEOREM ConsumptionIsItsRun == Spec => []ConsumedByItsRun
<1>1. LedgerInv => ConsumedByItsRun
  BY DEF LedgerInv
<1> QED
  BY <1>1, LedgerInvariant, PTL

(* Every claim and every run is what an owner permitted.                   *)
THEOREM RunsArePermitted == Spec => []RunsPermitted
<1>1. LedgerInv => RunsPermitted
  BY DEF LedgerInv
<1> QED
  BY <1>1, LedgerInvariant, PTL

(* What a caller was told of a consumption stays true.                     *)
THEOREM AnswersStayTrue == Spec => []ToldTruth
<1>1. LedgerInv => ToldTruth
  BY DEF LedgerInv
<1> QED
  BY <1>1, LedgerInvariant, PTL

(* The audit trail alone tells the status of every row.                    *)
THEOREM TrailIsTrue == Spec => []TrailTellsStatus
<1>1. LedgerInv => TrailTellsStatus
  BY DEF LedgerInv
<1> QED
  BY <1>1, LedgerInvariant, PTL

-----------------------------------------------------------------------------
(* The ledger implements SingleUseGrant.                                   *)

(* The abstract state, grant by grant.                                     *)
LEMMA Bars ==
  ASSUME LedgerInv
  PROVE  /\ \A g \in GrantIds :
              /\ rows[g].status = "ABSENT" <=> phaseBar[g] = "unused"
              /\ rows[g].status = "CLAIMED" <=> phaseBar[g] = "taken"
              /\ rows[g].status \in {"RECONCILE_REQUIRED", "ALIEN"} <=> phaseBar[g] = "doubtful"
              /\ rows[g].status = "CONSUMED" <=> phaseBar[g] = "spent"
         /\ DOMAIN phaseBar = GrantIds /\ DOMAIN bindingBar = GrantIds
         /\ \A g \in GrantIds :
              bindingBar[g] = [evidence |-> rows[g].evidence, scope |-> rows[g].scope]
<1>1. \A g \in GrantIds : rows[g].status \in Statuses
  BY RowFacts
<1> QED
  BY <1>1 DEF phaseBar, bindingBar, Statuses, Phase

(* Steps that move neither rows nor runs are not seen.                     *)
LEMMA HiddenStep ==
  ASSUME UNCHANGED <<rows, runs>>
  PROVE  UNCHANGED <<phaseBar, bindingBar, startedBar>>
BY DEF phaseBar, bindingBar, startedBar

LEMMA TakeStep ==
  ASSUME LedgerInv, NEW p \in Pilots, ClaimNew(p)
  PROVE  SUG!Next
<1> DEFINE r == request[p]
           g == r.grant.grant_id
           b == [evidence |-> r.grant.evidence, scope |-> ScopeOf(r)]
<1>1. /\ pc[p] = "decided" /\ rows[g].status = "ABSENT" /\ ~EvidenceUsed(r.grant.evidence)
      /\ rows' = [rows EXCEPT ![g] = [status |-> "CLAIMED", evidence |-> r.grant.evidence,
                                      scope |-> ScopeOf(r), receipt |-> NoReceipt]]
      /\ UNCHANGED runs
  BY DEF ClaimNew, ClaimOpens, ClaimCalls, Row, Grant, Bind, ClaimReturns
<1>2. g \in GrantIds /\ b \in SUG!Bindings
  BY <1>1, InvParts, RequestTypes DEF WorkInv, SUG!Bindings
<1>3. /\ rows'[g].status = "CLAIMED"
      /\ rows'[g].evidence = b.evidence /\ rows'[g].scope = b.scope
      /\ \A h \in GrantIds : h # g => rows'[h] = rows[h]
  BY <1>1, <1>2, InvParts
<1> HIDE DEF r, g
<1>4. SUG!Take(g, b)
  <2>1. phaseBar[g] = "unused"
    BY <1>1, <1>2, Bars DEF g
  <2>2. \A h \in GrantIds : bindingBar[h].evidence # b.evidence
    BY <1>1, Bars DEF EvidenceUsed, r
  <2>3. phaseBar' = [phaseBar EXCEPT ![g] = "taken"]
    BY <1>2, <1>3 DEF phaseBar, Phase
  <2>4. bindingBar' = [bindingBar EXCEPT ![g] = b]
    BY <1>2, <1>3 DEF bindingBar
  <2>5. UNCHANGED startedBar
    BY <1>1 DEF startedBar
  <2> QED
    BY <2>1, <2>2, <2>3, <2>4, <2>5 DEF SUG!Take
<1> QED
  BY <1>2, <1>4 DEF SUG!Next

LEMMA StartStep ==
  ASSUME LedgerInv, NEW p \in Pilots, Start(p)
  PROVE  SUG!Next
<1> DEFINE r == request[p]
           g == r.grant.grant_id
           run == [scope |-> ScopeOf(r), evidence |-> r.grant.evidence]
<1>1. pc[p] = "holding" /\ runs' = Append(runs, run) /\ UNCHANGED rows
  BY DEF Start
<1>2. g \in GrantIds /\ run.scope.grant_id = g /\ run \in RunTypes
  BY <1>1, InvParts, RequestTypes DEF WorkInv, RunTypes
<1>3. /\ rows[g].status \in {"CLAIMED", "RECONCILE_REQUIRED", "ALIEN"}
      /\ \A i \in DOMAIN runs : runs[i].scope.grant_id # g
  BY <1>1, InvParts DEF HolderInv, Bound, Grant
<1> HIDE DEF r, g, run
<1>4. SUG!Start(g)
  <2>1. phaseBar[g] \in {"taken", "doubtful"}
    BY <1>2, <1>3, Bars
  <2>2. g \notin startedBar
    BY <1>3 DEF startedBar
  <2>3. startedBar' = startedBar \cup {g}
    <3>1. /\ DOMAIN runs' = DOMAIN runs \cup {Len(runs) + 1}
          /\ \A i \in DOMAIN runs : runs'[i] = runs[i]
          /\ runs'[Len(runs) + 1] = run
      BY <1>1, <1>2, InvParts
    <3> QED
      BY <1>2, <3>1 DEF startedBar
  <2>4. UNCHANGED <<phaseBar, bindingBar>>
    BY <1>1 DEF phaseBar, bindingBar
  <2> QED
    BY <2>1, <2>2, <2>3, <2>4 DEF SUG!Start
<1> QED
  BY <1>2, <1>4 DEF SUG!Next

(* An open row is put in doubt, by the program or by a foreign writer.     *)
LEMMA DoubtStep ==
  ASSUME LedgerInv, NEW g \in GrantIds, Open(g), UNCHANGED runs,
         NEW s \in {"RECONCILE_REQUIRED", "ALIEN"},
         rows' = [rows EXCEPT ![g].status = s]
  PROVE  SUG!Next \/ UNCHANGED <<phaseBar, bindingBar, startedBar>>
<1>1. /\ rows'[g].status = s
      /\ rows'[g].evidence = rows[g].evidence /\ rows'[g].scope = rows[g].scope
      /\ \A h \in GrantIds : h # g => rows'[h] = rows[h]
  BY InvParts DEF RowTypes
<1>2. UNCHANGED <<bindingBar, startedBar>>
  BY <1>1 DEF bindingBar, startedBar
<1>3. CASE rows[g].status = "CLAIMED"
  <2>1. phaseBar[g] = "taken"
    BY <1>3, Bars
  <2>2. phaseBar' = [phaseBar EXCEPT ![g] = "doubtful"]
    BY <1>1 DEF phaseBar, Phase
  <2> QED
    BY <1>2, <2>1, <2>2 DEF SUG!Doubt, SUG!Next
<1>4. CASE rows[g].status = "RECONCILE_REQUIRED"
  <2>1. UNCHANGED phaseBar
    BY <1>1, <1>4 DEF phaseBar, Phase
  <2> QED
    BY <1>2, <2>1
<1> QED
  BY <1>3, <1>4 DEF Open

LEMMA SpendStep ==
  ASSUME LedgerInv, NEW p \in Pilots, NEW r \in PossibleReceipts, Consume(p, r)
  PROVE  SUG!Next
<1> DEFINE g == r.grant_id
<1>1. /\ g \in GrantIds /\ r.run \in DOMAIN runs /\ runs[r.run].scope = rows[g].scope
      /\ rows[g].status \in {"CLAIMED", "RECONCILE_REQUIRED"}
  BY ReceiptTypes DEF Consume, Consumes, ReceiptValid, ExactScope, Open
<1>2. /\ rows'[g].status = "CONSUMED"
      /\ rows'[g].evidence = rows[g].evidence /\ rows'[g].scope = rows[g].scope
      /\ \A h \in GrantIds : h # g => rows'[h] = rows[h]
      /\ UNCHANGED runs
  BY <1>1, InvParts DEF Consume, Answer, RowTypes
<1>3. SUG!Spend(g)
  <2>1. phaseBar[g] \in {"taken", "doubtful"}
    BY <1>1, Bars
  <2>2. g \in startedBar
    BY <1>1, InvParts DEF RowInv, startedBar
  <2>3. phaseBar' = [phaseBar EXCEPT ![g] = "spent"]
    BY <1>1, <1>2 DEF phaseBar, Phase
  <2>4. UNCHANGED <<bindingBar, startedBar>>
    BY <1>1, <1>2 DEF bindingBar, startedBar
  <2> QED
    BY <2>1, <2>2, <2>3, <2>4 DEF SUG!Spend
<1> QED
  BY <1>1, <1>3 DEF SUG!Next

(* Every behaviour of the ledger is one of the abstract grants.            *)
THEOREM LedgerImplementsSingleUseGrant == Spec => ImplementsSingleUseGrant
<1>1. Init => SUG!Init
  <2> SUFFICES ASSUME Init PROVE SUG!Init
    OBVIOUS
  <2>1. phaseBar = [g \in GrantIds |-> "unused"]
    BY DEF Init, phaseBar, Phase, NoRow
  <2>2. bindingBar = [g \in GrantIds |-> SUG!NoBinding]
    BY DEF Init, bindingBar, NoRow, NoScope, SUG!NoBinding, SUG!NoScope
  <2>3. startedBar = {}
    BY DEF Init, startedBar
  <2> QED
    BY <2>1, <2>2, <2>3 DEF SUG!Init
<1>2. LedgerInv /\ [Next]_vars => [SUG!Next]_SUG!sugVars
  <2> SUFFICES ASSUME LedgerInv, [Next]_vars
               PROVE  SUG!Next \/ UNCHANGED <<phaseBar, bindingBar, startedBar>>
    BY DEF SUG!sugVars
  <2>1. CASE UNCHANGED <<rows, runs>>
    BY <2>1, HiddenStep
  <2>2. ASSUME NEW p \in Pilots, Claim(p)
        PROVE  UNCHANGED <<rows, runs>> \/ ClaimNew(p)
    BY <2>2 DEF Claim, ClaimUnauthorized, ClaimConflict, ClaimConsumed, ClaimPresent,
                ClaimAlien, ClaimReused, ClaimError, ClaimBlocked, ClaimReturns
  <2>3. ASSUME NEW p \in Pilots, Update(p)
        PROVE  \/ UNCHANGED <<rows, runs>>
               \/ \E g \in GrantIds : Open(g) /\ Doubt(g) /\ UNCHANGED runs
               \/ \E r \in PossibleReceipts : Consume(p, r)
    <3>1. CASE UpdateError(p)
      BY <3>1 DEF UpdateError, Answer
    <3>2. ASSUME NEW g \in GrantIds, MarkReconcile(p, g) \/ MarkNoop(p, g) \/ MarkUnknown(p, g)
          PROVE  \/ UNCHANGED <<rows, runs>>
                 \/ Open(g) /\ Doubt(g) /\ UNCHANGED runs
      BY <3>2 DEF MarkReconcile, MarkNoop, MarkUnknown, Answer
    <3>3. ASSUME NEW r \in PossibleReceipts,
                 ConsumeRefused(p, r) \/ ConsumeReplay(p, r) \/ ConsumeAlien(p, r)
          PROVE  UNCHANGED <<rows, runs>>
      BY <3>3 DEF ConsumeRefused, ConsumeReplay, ConsumeAlien, Answer
    <3>4. ASSUME NEW r \in PossibleReceipts, ConsumeMismatch(p, r)
          PROVE  \/ UNCHANGED <<rows, runs>>
                 \/ /\ r.grant_id \in GrantIds
                    /\ Open(r.grant_id) /\ Doubt(r.grant_id) /\ UNCHANGED runs
      BY <3>4, ReceiptTypes DEF ConsumeMismatch, Answer
    <3> QED
      BY <2>3, <3>1, <3>2, <3>3, <3>4 DEF Update
  <2>4. CASE Tick \/ \E p \in Pilots : Crash(p) \/ \E r \in Requests : Decide(p, r)
    <3>1. UNCHANGED <<rows, runs>>
      BY <2>4 DEF Tick, Crash, Decide
    <3> QED
      BY <3>1, HiddenStep
  <2>5. CASE \E p \in Pilots : Claim(p)
    BY <2>1, <2>2, <2>5, TakeStep
  <2>6. CASE \E p \in Pilots : Start(p)
    BY <2>6, StartStep
  <2>7. CASE \E p \in Pilots : Update(p)
    BY <2>1, <2>3, <2>7, DoubtStep, SpendStep DEF Doubt
  <2>8. CASE UNCHANGED vars
    BY <2>1, <2>8 DEF vars
  <2>9. CASE \E g \in GrantIds : ForeignStatus(g)
    BY <2>9, DoubtStep DEF ForeignStatus, Open
  <2> QED
    BY <2>4, <2>5, <2>6, <2>7, <2>8, <2>9 DEF Next
<1> QED
  BY <1>1, <1>2, LedgerInvariant, PTL DEF Spec, SUG!Spec, ImplementsSingleUseGrant
=============================================================================
