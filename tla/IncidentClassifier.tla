------------------------- MODULE IncidentClassifier -------------------------
(***************************************************************************)
(* governance/m5_incident_rollback_safety.py: what may be done about an    *)
(* incident.  The evidence is held against a list of boundaries in a fixed *)
(* order; the first that is met decides.  Only one decision lets a local   *)
(* rollback be claimed.                                                    *)
(*                                                                         *)
(* The five fields that identify a rollback are one value, `key`, the      *)
(* adapter contract and its digest another, `adapter`.  The program does   *)
(* not read the grant's and the run's id.                                  *)
(***************************************************************************)
EXTENDS Integers, Sequences

CONSTANTS
  Keys, Adapters, Permissions

IncidentDecision ==
  {"NO_INCIDENT", "LOCAL_ROLLBACK_ALLOWED", "RECONCILE_REQUIRED", "OWNER_REQUIRED",
   "STOPPED", "FAIL_CLOSED"}

ClaimStatuses ==
  {"CLAIMED", "SUCCEEDED", "CONSUMED", "RECONCILE_REQUIRED", "UNKNOWN", "FAILED_LOCAL",
   "FAILED_RETRYABLE", "OTHER"}

OutcomeStatuses ==
  {"VERIFIED_SUCCESS", "VERIFIED_NO_EXTERNAL_EFFECT", "UNKNOWN", "MISSING", "CONFLICTING",
   "OTHER"}

IncidentEvidence ==
  [key                         : Keys,
   adapter                     : Adapters,
   filled                      : BOOLEAN,  \* every mandatory field is present
   action_class                : {"INTERNAL_LOCAL_ROLLBACK", "OTHER"},
   durable_claim_status        : ClaimStatuses,
   grant_reuse_attempt         : BOOLEAN,
   downstream_outcome_status   : OutcomeStatuses,
   fresh                       : BOOLEAN,  \* source_health FRESH and source_fresh
   source_conflict             : BOOLEAN,
   stop_latch                  : BOOLEAN,
   owner_gate                  : BOOLEAN,
   rollback_action_allowlisted : BOOLEAN,
   rollback_reversible         : BOOLEAN,
   rollback_external_effect    : BOOLEAN,
   external_effect_possible    : BOOLEAN,
   requested_permissions       : SUBSET Permissions,
   minimum_permissions         : SUBSET Permissions,
   retry_count                 : Int,
   retry_limit                 : Int,
   circuit_open                : BOOLEAN,
   intact                      : BOOLEAN,  \* integrity of audit and ledger
   matching                    : BOOLEAN]  \* identity scope and adapter binding

Boundary(met, decision) == [met |-> met, decision |-> decision]

EffectPossible(e) == e.external_effect_possible

(* A slip: the owner is asked before the stop latch is looked at.          *)
Stopped_UnlessOwner(e) == e.stop_latch /\ ~e.owner_gate

Stopped(e) == e.stop_latch

(* The boundaries in the order of classify_incident; the last is met by    *)
(* whatever is left.                                                       *)
Boundaries(e) ==
  << Boundary(Stopped(e), "STOPPED"),
     Boundary(e.owner_gate, "OWNER_REQUIRED"),
     Boundary(~e.filled, "FAIL_CLOSED"),
     Boundary(~e.intact, "FAIL_CLOSED"),
     Boundary(~e.matching, "FAIL_CLOSED"),
     Boundary(e.retry_count < 0 \/ e.retry_limit < 0, "FAIL_CLOSED"),
     Boundary(e.grant_reuse_attempt, "FAIL_CLOSED"),
     Boundary(e.source_conflict, "RECONCILE_REQUIRED"),
     Boundary(~e.fresh, "RECONCILE_REQUIRED"),
     Boundary(e.downstream_outcome_status = "VERIFIED_SUCCESS"
                /\ e.durable_claim_status \in {"SUCCEEDED", "CONSUMED"}, "NO_INCIDENT"),
     Boundary(e.downstream_outcome_status = "VERIFIED_SUCCESS", "RECONCILE_REQUIRED"),
     Boundary(EffectPossible(e), "RECONCILE_REQUIRED"),
     Boundary(e.downstream_outcome_status \in {"UNKNOWN", "MISSING", "CONFLICTING"},
              "RECONCILE_REQUIRED"),
     Boundary(e.durable_claim_status \in {"CLAIMED", "RECONCILE_REQUIRED", "UNKNOWN"},
              "RECONCILE_REQUIRED"),
     Boundary(e.rollback_external_effect \/ ~e.rollback_reversible, "OWNER_REQUIRED"),
     Boundary(e.action_class # "INTERNAL_LOCAL_ROLLBACK", "FAIL_CLOSED"),
     Boundary(~e.rollback_action_allowlisted, "FAIL_CLOSED"),
     Boundary(~(e.requested_permissions \subseteq e.minimum_permissions), "FAIL_CLOSED"),
     Boundary(e.circuit_open \/ e.retry_count >= e.retry_limit, "FAIL_CLOSED"),
     Boundary(e.downstream_outcome_status = "VERIFIED_NO_EXTERNAL_EFFECT"
                /\ e.durable_claim_status \in {"FAILED_LOCAL", "FAILED_RETRYABLE"},
              "LOCAL_ROLLBACK_ALLOWED"),
     Boundary(TRUE, "FAIL_CLOSED") >>

Classify(e) ==
  LET boundaries == Boundaries(e)
      met == {i \in DOMAIN boundaries : boundaries[i].met}
  IN boundaries[CHOOSE i \in met : \A j \in met : i <= j].decision

(* What a rollback is claimed for: its key, and the digest of its scope,   *)
(* which holds the adapter contract and the permissions as well.           *)
RollbackScope(e) ==
  [key |-> e.key, adapter |-> e.adapter, action_class |-> e.action_class,
   requested |-> e.requested_permissions, minimum |-> e.minimum_permissions]
=============================================================================
