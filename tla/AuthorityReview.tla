-------------------------- MODULE AuthorityReview --------------------------
(***************************************************************************)
(* A caller that evaluates one piece of owner evidence again and again     *)
(* while time passes, first with validate_single_pilot_authority, then     *)
(* with the second look of the consumption ledger.  Collectors may deliver *)
(* different evidence at any time.                                         *)
(***************************************************************************)
EXTENDS AuthorityBoundary

CONSTANTS
  StartBundles,  \* requests [intent, preflight, grant] to begin with
  FieldValues,   \* FieldValues[part][field]: what the collectors may deliver
  MaxEdits,      \* bound: deliveries
  ReviewTime     \* bound: the clock

(* Evidence of the right types, whatever it says.                          *)
Bundles ==
  [intent : PilotIntent, preflight : PreflightEvidence,
   grant : OwnerAuthorizationEvidence]

ASSUME ReviewAssumption ==
  /\ StartBundles \subseteq Bundles
  /\ MaxEdits \in Nat
  /\ ReviewTime \in Nat

VARIABLES
  bundle,        \* the evidence at hand
  edits,         \* deliveries so far (external)
  clock,         \* the clock
  verdict,       \* status of the last decision on this evidence, "none" before
  decidedAt,     \* the time it was made
  lapsed         \* history: this evidence was valid and later was not

reviewVars == <<bundle, edits, clock, verdict, decidedAt, lapsed>>

ReviewInit ==
  /\ bundle \in StartBundles
  /\ edits = 0
  /\ clock = 0
  /\ verdict = "none"
  /\ decidedAt = 0
  /\ lapsed = FALSE

(* External: other evidence arrives; nothing is known of it yet.           *)
Deliver ==
  /\ edits < MaxEdits
  /\ \E part \in DOMAIN FieldValues : \E field \in DOMAIN FieldValues[part] :
       \E value \in FieldValues[part][field] :
         bundle' = [bundle EXCEPT ![part][field] = value]
  /\ bundle' \in Bundles
  /\ edits' = edits + 1
  /\ verdict' = "none"
  /\ lapsed' = FALSE
  /\ UNCHANGED <<clock, decidedAt>>

ReviewTick ==
  /\ clock < ReviewTime
  /\ clock' = clock + 1
  /\ UNCHANGED <<bundle, edits, verdict, decidedAt, lapsed>>

VerdictNow == Verdict(bundle.intent, bundle.preflight, bundle.grant, clock)

(* One call of validate_single_pilot_authority with the time it is.        *)
Review ==
  /\ verdict' = VerdictNow
  /\ decidedAt' = clock
  /\ lapsed' = (lapsed \/ (verdict = "VALID" /\ VerdictNow # "VALID"))
  /\ UNCHANGED <<bundle, edits, clock>>

ReviewNext == Deliver \/ ReviewTick \/ Review

ReviewSpec == ReviewInit /\ [][ReviewNext]_reviewVars

-----------------------------------------------------------------------------
(* Properties                                                              *)

(* Every variable has its type.                                            *)
ReviewTypeOK ==
  /\ bundle \in Bundles
  /\ edits \in 0 .. MaxEdits
  /\ clock \in 0 .. ReviewTime
  /\ verdict \in AuthorityStatuses \cup {"none"}
  /\ decidedAt \in 0 .. clock
  /\ lapsed \in BOOLEAN

(* What an owner's permission takes, all at once: the evidence is genuine, *)
(* complete and for exactly this intent, and at time t every age and the   *)
(* grant's own window hold.                                                *)
Permits(r, t) ==
  LET i == r.intent  p == r.preflight  g == r.grant IN
  /\ i = g.scope /\ i.filled /\ i.workflow_valid /\ i.hashes_valid /\ ~i.wildcard
  /\ i.action_class # "OTHER" /\ i.preflight_contract = "EXACT"
  /\ p.ready /\ p.preflight_contract = "EXACT" /\ p.zoned
  /\ p.snapshot = g.snapshot /\ p.snapshot \in Snapshots
  /\ g.genuine /\ g.sourced /\ g.identified /\ ~g.wildcard /\ g.zoned /\ ~g.revoked
  /\ g.max_dispatches - g.used_dispatches = 1 /\ g.used_dispatches = 0
  /\ g.issued_at < g.expires_at /\ g.expires_at <= g.issued_at + MAX_GRANT_TTL
  /\ p.observed_at <= g.issued_at + CLOCK_SKEW
  /\ \A begin \in {p.observed_at, g.source_verified_at, g.issued_at} :
       begin <= t + CLOCK_SKEW
  /\ t <= p.observed_at + MAX_PREFLIGHT_AGE
  /\ t <= g.source_verified_at + MAX_AUTH_SOURCE_AGE
  /\ t <= g.expires_at

(* The ordered tests are neither looser nor stricter than the permission:  *)
(* no test hides, or is hidden by, another one.                            *)
VerdictSound ==
  verdict # "none" => (verdict = "VALID" <=> Permits(bundle, decidedAt))

(* A permission that has lapsed does not come back by waiting: the times   *)
(* at which the same evidence is valid form one interval.                  *)
NoRevival == lapsed => verdict # "VALID"

(* The two looks disagree about the window only in the skew before the     *)
(* grant's issue: what was just found valid is claimable at that time      *)
(* unless the grant is not issued yet.                                     *)
LooksAgree ==
  verdict = "VALID" /\ decidedAt >= bundle.grant.issued_at =>
    StillAuthorized(bundle.grant, decidedAt)

(* A claim may rest on a decision made long before.  The second look does  *)
(* not know the preflight, yet together with the decision it bounds the    *)
(* age of all evidence at the claim.                                       *)
EvidenceAgeAtClaim ==
  verdict = "VALID" /\ StillAuthorized(bundle.grant, clock) =>
    /\ clock - bundle.preflight.observed_at
         <= MAX_PREFLIGHT_AGE + CLOCK_SKEW + MAX_GRANT_TTL
    /\ clock - bundle.grant.source_verified_at
         <= MAX_AUTH_SOURCE_AGE + CLOCK_SKEW + MAX_GRANT_TTL

(* The inductive invariant behind the theorems of AuthorityReviewProofs.   *)
ReviewInv ==
  /\ ReviewTypeOK
  /\ VerdictSound
  /\ verdict = "none" => ~lapsed
  /\ lapsed => \A t \in decidedAt .. ReviewTime : ~Permits(bundle, t)
=============================================================================
