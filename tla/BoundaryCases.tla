---------------------------- MODULE BoundaryCases ----------------------------
(***************************************************************************)
(* The deterministic cases of the gate scripts under critical/ for the     *)
(* single-pilot authority boundary and for the incident classifier:        *)
(* AuthorityBoundary, with the ages of the program in seconds, and         *)
(* IncidentClassifier must give every case the outcome that its script     *)
(* expects.                                                                *)
(***************************************************************************)
LOCAL INSTANCE Integers

A == INSTANCE AuthorityBoundary WITH
       GrantIds <- {"grant"}, Evidences <- {"evidence"}, Works <- {"work", "wrong"},
       Snapshots <- {"d", "e"}, CLOCK_SKEW <- 30, MAX_PREFLIGHT_AGE <- 600,
       MAX_AUTH_SOURCE_AGE <- 300, MAX_GRANT_TTL <- 1800

I == INSTANCE IncidentClassifier WITH
       Keys <- {"work"}, Adapters <- {"adapter"},
       Permissions <- {"local:rollback", "repo:write"}

-----------------------------------------------------------------------------
(* m4_single_pilot_authority_boundary_v1_gate.py                           *)

SyntheticIntent ==
  [work |-> "work", action_class |-> "INTERNAL_CONTINUE", filled |-> TRUE,
   workflow_valid |-> TRUE, hashes_valid |-> TRUE, wildcard |-> FALSE,
   preflight_contract |-> "EXACT"]

ReadyPreflight ==
  [ready |-> TRUE, preflight_contract |-> "EXACT", zoned |-> TRUE, observed_at |-> 0,
   snapshot |-> "d"]

OwnerGrant ==
  [grant_id |-> "grant", evidence |-> "evidence", genuine |-> TRUE, sourced |-> TRUE,
   identified |-> TRUE, wildcard |-> FALSE, zoned |-> TRUE, source_verified_at |-> 65,
   issued_at |-> 60, expires_at |-> 1200, revoked |-> FALSE, max_dispatches |-> 1,
   used_dispatches |-> 0, snapshot |-> "d", scope |-> SyntheticIntent]

AB == [intent |-> SyntheticIntent, preflight |-> ReadyPreflight, grant |-> OwnerGrant]

(* A grant made for the intent it comes with.                              *)
GrantedFor(intent) == [AB EXCEPT !.intent = intent, !.grant.scope = intent]

AuthorityCases ==
  [VALID |-> {AB},
   BLOCKED_PREFLIGHT |->
     {[AB EXCEPT !.preflight.ready = FALSE], [AB EXCEPT !.preflight.observed_at = -660]},
   BLOCKED_AUTHENTICITY |->
     {[AB EXCEPT !.grant.genuine = FALSE], [AB EXCEPT !.grant.source_verified_at = -360],
      [AB EXCEPT !.grant.sourced = FALSE], [AB EXCEPT !.grant.identified = FALSE]},
   BLOCKED_REVOKED |-> {[AB EXCEPT !.grant.revoked = TRUE]},
   BLOCKED_TEMPORAL |->
     {[AB EXCEPT !.grant.source_verified_at = 75, !.grant.expires_at = 80],
      [AB EXCEPT !.grant.issued_at = -60, !.grant.expires_at = 600],
      [AB EXCEPT !.grant.issued_at = 180], [AB EXCEPT !.grant.expires_at = 60 + 1860]},
   BLOCKED_NOT_SINGLE_USE |-> {[AB EXCEPT !.grant.max_dispatches = 2]},
   BLOCKED_ALREADY_CONSUMED |-> {[AB EXCEPT !.grant.used_dispatches = 1]},
   BLOCKED_SCOPE_MISMATCH |->
     {[AB EXCEPT !.grant.scope.work = "wrong"], [AB EXCEPT !.grant.scope.action_class = "OTHER"],
      GrantedFor([SyntheticIntent EXCEPT !.action_class = "OTHER"]),
      [AB EXCEPT !.grant.scope.preflight_contract = "OTHER"],
      [AB EXCEPT !.preflight.preflight_contract = "OTHER"], [AB EXCEPT !.grant.snapshot = "e"]},
   BLOCKED_WILDCARD_SCOPE |->
     {GrantedFor([SyntheticIntent EXCEPT !.wildcard = TRUE]),
      [AB EXCEPT !.grant.scope.wildcard = TRUE]}]

(* The boundary gives every case the verdict that the script expects.      *)
ASSUME AuthorityConforms ==
  \A s \in DOMAIN AuthorityCases : \A c \in AuthorityCases[s] :
    A!Verdict(c.intent, c.preflight, c.grant, 90) = s

-----------------------------------------------------------------------------
(* m5_incident_rollback_safety_v0_1_gate.py: the cases that only classify. *)

IR ==
  [key |-> "work", adapter |-> "adapter", filled |-> TRUE,
   action_class |-> "INTERNAL_LOCAL_ROLLBACK", durable_claim_status |-> "FAILED_LOCAL",
   grant_reuse_attempt |-> FALSE,
   downstream_outcome_status |-> "VERIFIED_NO_EXTERNAL_EFFECT", fresh |-> TRUE,
   source_conflict |-> FALSE, stop_latch |-> FALSE, owner_gate |-> FALSE,
   rollback_action_allowlisted |-> TRUE, rollback_reversible |-> TRUE,
   rollback_external_effect |-> FALSE, external_effect_possible |-> FALSE,
   requested_permissions |-> {"local:rollback"}, minimum_permissions |-> {"local:rollback"},
   retry_count |-> 0, retry_limit |-> 1, circuit_open |-> FALSE, intact |-> TRUE,
   matching |-> TRUE]

IncidentCases ==
  [NO_INCIDENT |->
     {[IR EXCEPT !.durable_claim_status = "SUCCEEDED",
                 !.downstream_outcome_status = "VERIFIED_SUCCESS"]},
   LOCAL_ROLLBACK_ALLOWED |-> {IR},
   RECONCILE_REQUIRED |->
     {[IR EXCEPT !.external_effect_possible = TRUE],
      [IR EXCEPT !.downstream_outcome_status = "UNKNOWN"],
      [IR EXCEPT !.durable_claim_status = "CLAIMED", !.downstream_outcome_status = "UNKNOWN"],
      [IR EXCEPT !.fresh = FALSE], [IR EXCEPT !.source_conflict = TRUE]},
   STOPPED |-> {[IR EXCEPT !.stop_latch = TRUE]},
   OWNER_REQUIRED |->
     {[IR EXCEPT !.owner_gate = TRUE], [IR EXCEPT !.rollback_external_effect = TRUE]},
   FAIL_CLOSED |->
     {[IR EXCEPT !.matching = FALSE], [IR EXCEPT !.rollback_action_allowlisted = FALSE],
      [IR EXCEPT !.requested_permissions = @ \cup {"repo:write"}],
      [IR EXCEPT !.circuit_open = TRUE], [IR EXCEPT !.grant_reuse_attempt = TRUE]}]

(* When the script itself takes a local rollback to be safe.               *)
ExpectedSafe(e) ==
  /\ ~(e.stop_latch \/ e.owner_gate \/ e.grant_reuse_attempt \/ e.circuit_open)
  /\ e.filled /\ e.intact /\ e.matching
  /\ e.action_class = "INTERNAL_LOCAL_ROLLBACK"
  /\ e.durable_claim_status \in {"FAILED_LOCAL", "FAILED_RETRYABLE"}
  /\ e.downstream_outcome_status = "VERIFIED_NO_EXTERNAL_EFFECT"
  /\ e.fresh /\ ~e.source_conflict
  /\ e.rollback_action_allowlisted /\ e.rollback_reversible
  /\ ~(e.rollback_external_effect \/ e.external_effect_possible)
  /\ e.requested_permissions \subseteq e.minimum_permissions
  /\ e.retry_count \in 0..(e.retry_limit - 1)

(* The evidence the script draws at random and compares with               *)
(* expected_safe: here with any three of the drawn fields changed.         *)
Draws ==
  [durable_claim_status |-> {"FAILED_RETRYABLE", "CLAIMED", "SUCCEEDED", "UNKNOWN"},
   downstream_outcome_status |-> {"UNKNOWN", "VERIFIED_SUCCESS", "CONFLICTING"},
   fresh |-> {FALSE}, source_conflict |-> {TRUE}, stop_latch |-> {TRUE}, owner_gate |-> {TRUE},
   rollback_action_allowlisted |-> {FALSE}, rollback_reversible |-> {FALSE},
   rollback_external_effect |-> {TRUE}, external_effect_possible |-> {TRUE},
   requested_permissions |-> {{"local:rollback", "repo:write"}}, retry_count |-> {1, 2},
   retry_limit |-> {2}, circuit_open |-> {TRUE}, intact |-> {FALSE}, matching |-> {FALSE},
   grant_reuse_attempt |-> {TRUE}]

Changed(e) == UNION {{[e EXCEPT ![f] = v] : v \in Draws[f]} : f \in DOMAIN Draws}

Drawn == UNION {Changed(d) : d \in UNION {Changed(e) : e \in Changed(IR)}}

(* The classifier decides every case as the script expects, and allows a   *)
(* local rollback for just the drawn evidence that the script takes to be  *)
(* safe.                                                                   *)
ASSUME IncidentConforms ==
  /\ \A s \in DOMAIN IncidentCases : \A e \in IncidentCases[s] : I!Classify(e) = s
  /\ \A e \in Drawn : I!Classify(e) = "LOCAL_ROLLBACK_ALLOWED" <=> ExpectedSafe(e)
=============================================================================
