-------------------------- MODULE MCPilotReadiness --------------------------
(***************************************************************************)
(* An instance of PilotReadiness for TLC: from an item ready to continue   *)
(* or ready to recover and all else prepared, any two fields are changed,  *)
(* so that every gate and every pair of gates is reached.                  *)
(***************************************************************************)
EXTENDS PilotReadiness, TLC

CONSTANTS k1, k2, p1, p2

MCPermissions == {p1, p2}
MCAllowlist == {p1}

Ready ==
  [state |-> "ACTIVE", continuation_policy |-> "AUTONOMOUS_EXPECTED",
   source_health |-> "FRESH", runtime_status |-> "IDLE",
   action_class |-> "INTERNAL_CONTINUE", safe_internal_next |-> TRUE,
   safe_recovery |-> TRUE, reversible |-> TRUE, external_effect |-> FALSE,
   owner_gate |-> FALSE, stop_latch |-> FALSE, circuit_open |-> FALSE,
   dedupe_key |-> k1, retry_count |-> 0, retry_limit |-> 2,
   requested_permissions |-> {}, minimum_permissions |-> {p1}]

MCStartItems ==
  {Ready, [Ready EXCEPT !.runtime_status = "FAILED", !.action_class = "INTERNAL_RECOVERY"]}

MCFieldValues ==
  [state |-> {"ACTIVE", "DONE", "OTHER"},
   continuation_policy |-> {"AUTONOMOUS_EXPECTED", "PARKED", "WAITING_EXTERNAL",
                            "MANUAL_ON_DEMAND", "OWNER_REQUIRED", "OTHER"},
   source_health |-> {"FRESH", "OTHER"},
   runtime_status |-> {"IDLE", "FAILED", "STALE", "RUNNING", "UNKNOWN", "OTHER"},
   action_class |-> AllowedActions \cup OwnerActions \cup {"DELETE", "OTHER"},
   safe_internal_next |-> BOOLEAN, safe_recovery |-> BOOLEAN,
   reversible |-> BOOLEAN, external_effect |-> BOOLEAN, owner_gate |-> BOOLEAN,
   stop_latch |-> BOOLEAN, circuit_open |-> BOOLEAN, dedupe_key |-> Keys,
   retry_count |-> -1 .. 2, retry_limit |-> -1 .. 2,
   requested_permissions |-> SUBSET Permissions,
   minimum_permissions |-> SUBSET Permissions]

MCStartPrep ==
  [blank |-> "none", waiting_expected |-> FALSE, review_gate |-> FALSE,
   protected_effects_allowed |-> FALSE, durable_claim_state |-> "NONE",
   negative_tests_passed |-> TRUE, audit_present |-> TRUE, rollback_present |-> TRUE,
   durable_dedupe_passed |-> TRUE, circuit_breaker_present |-> TRUE,
   adapter_allowed |-> TRUE, run_bound |-> TRUE, outcome_bound |-> TRUE,
   live_executor_enabled |-> TRUE, permission_allowlist |-> MCAllowlist,
   minimum_permissions_proven |-> TRUE, retry_limit_present |-> TRUE]

MCPrepValues ==
  [f \in DOMAIN MCStartPrep \ {"blank", "durable_claim_state", "permission_allowlist"} |->
     {~MCStartPrep[f]}]
    @@ [blank |-> {"home_system", "work_id", "dedupe_key", "target_adapter", "target"},
        durable_claim_state |-> {"SUCCEEDED", "OTHER"},
        permission_allowlist |-> SUBSET Permissions]

(* One cent below the warning.                                             *)
MCStartCost ==
  [well_formed |-> TRUE, limit |-> 2000, accrued |-> 900, committed |-> 300,
   projected |-> 1200, delta |-> 399, unknown_paths |-> 0,
   observed_before_checked |-> TRUE, lines |-> {"good"}, coverage_complete |-> TRUE,
   source_conflict |-> FALSE, owner_override |-> FALSE, source_fresh |-> TRUE]

MCCostValues ==
  [well_formed |-> {FALSE}, limit |-> {1999, 2001}, accrued |-> {-1, 0, 901, 1201},
   committed |-> {-1, 301}, projected |-> {-1, 1199, 1201, 1600, 1601, 2000},
   delta |-> {-1, 0, 400, 799, 800, 801}, unknown_paths |-> {-1, 1},
   observed_before_checked |-> {FALSE}, lines |-> SUBSET Lines,
   coverage_complete |-> {FALSE}, source_conflict |-> {TRUE}, owner_override |-> {TRUE},
   source_fresh |-> {FALSE}]
=============================================================================
