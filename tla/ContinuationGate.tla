-------------------------- MODULE ContinuationGate --------------------------
(***************************************************************************)
(* The decision core of governance/safe_continuation_executor.py: which    *)
(* work items the runtime may continue by itself.  `decide` is a list of   *)
(* gates tried in a fixed order; the first gate that fires determines the  *)
(* outcome and only an item that no gate stops is dispatched.              *)
(*                                                                         *)
(* Statuses, policies and action classes are strings in the program; every *)
(* value the code does not name behaves alike and is written "OTHER".  The *)
(* retry counts are integers that nothing checks: `decide` only compares   *)
(* them.                                                                   *)
(***************************************************************************)
EXTENDS GateList

CONSTANTS
  Keys,                \* dedupe keys of work items
  Permissions,         \* permission names an item may ask for
  PermissionAllowlist  \* the permissions the executor instance accepts

ASSUME AllowlistAssumption == PermissionAllowlist \subseteq Permissions

OwnerActions ==
  {"MERGE", "EXTERNAL_SEND", "PAYMENT", "PERMISSION_CHANGE", "POLICY_CHANGE",
   "PRODUCTION_PUBLISH"}

AllowedActions == {"INTERNAL_CONTINUE", "INTERNAL_RECOVERY"}

WorkItem ==
  [state                 : {"ACTIVE", "DONE", "OTHER"},
   continuation_policy   : {"AUTONOMOUS_EXPECTED", "PARKED", "WAITING_EXTERNAL",
                            "MANUAL_ON_DEMAND", "OWNER_REQUIRED", "OTHER"},
   source_health         : {"FRESH", "OTHER"},
   runtime_status        : {"IDLE", "FAILED", "STALE", "RUNNING", "UNKNOWN", "OTHER"},
   action_class          : AllowedActions \cup OwnerActions \cup {"DELETE", "OTHER"},
   safe_internal_next    : BOOLEAN,
   safe_recovery         : BOOLEAN,
   reversible            : BOOLEAN,
   external_effect       : BOOLEAN,
   owner_gate            : BOOLEAN,
   stop_latch            : BOOLEAN,
   circuit_open          : BOOLEAN,
   dedupe_key            : Keys,
   retry_count           : Int,
   retry_limit           : Int,
   requested_permissions : SUBSET Permissions,
   minimum_permissions   : SUBSET Permissions]

-----------------------------------------------------------------------------

(* A plausible slip: the recovery gate forgets that the item must call     *)
(* the recovery safe.                                                      *)
ActionFitsRuntime_NoSafety(item) ==
  IF item.runtime_status \in {"FAILED", "STALE"}
    THEN item.action_class = "INTERNAL_RECOVERY"
    ELSE item.action_class = "INTERNAL_CONTINUE" /\ item.safe_internal_next

(* The runtime has stopped on its own and wants a recovery, or it is idle  *)
(* and wants the next step: each accepts one action class, and only if the *)
(* item says that action is safe.                                          *)
ActionFitsRuntime(item) ==
  IF item.runtime_status \in {"FAILED", "STALE"}
    THEN item.action_class = "INTERNAL_RECOVERY" /\ item.safe_recovery
    ELSE item.action_class = "INTERNAL_CONTINUE" /\ item.safe_internal_next

(* The gates in the order `decide` tries them.                             *)
Gates(item, completed) ==
  << Gate(item.stop_latch, "STOPPED"),
     Gate(item.owner_gate, "OWNER_REQUIRED"),
     Gate(item.source_health # "FRESH", "SOURCE_RECONCILE"),
     Gate(item.state = "DONE", "NOOP_DONE"),
     Gate(item.state # "ACTIVE", "FAIL_CLOSED"),
     Gate(item.continuation_policy = "PARKED", "NOOP_PARKED"),
     Gate(item.continuation_policy = "WAITING_EXTERNAL", "NOOP_WAITING_EXTERNAL"),
     Gate(item.continuation_policy = "MANUAL_ON_DEMAND", "NOOP_MANUAL"),
     Gate(item.continuation_policy = "OWNER_REQUIRED", "OWNER_REQUIRED"),
     Gate(item.continuation_policy # "AUTONOMOUS_EXPECTED", "FAIL_CLOSED"),
     Gate(item.runtime_status = "RUNNING", "NOOP_RUNNING"),
     Gate(item.runtime_status = "UNKNOWN", "SOURCE_RECONCILE"),
     Gate(item.runtime_status = "OTHER", "FAIL_CLOSED"),
     Gate(item.dedupe_key \in completed, "NOOP_DUPLICATE"),
     Gate(item.action_class \in OwnerActions, "OWNER_REQUIRED"),
     Gate(item.action_class \notin AllowedActions, "FAIL_CLOSED"),
     Gate(~ActionFitsRuntime(item), "FAIL_CLOSED"),
     Gate(~item.reversible \/ item.external_effect, "OWNER_REQUIRED"),
     Gate(~(item.requested_permissions \subseteq item.minimum_permissions),
          "FAIL_CLOSED_LEAST_PRIVILEGE"),
     Gate(~(item.minimum_permissions \subseteq PermissionAllowlist),
          "FAIL_CLOSED_LEAST_PRIVILEGE"),
     Gate(item.circuit_open \/ item.retry_count >= item.retry_limit,
          "CIRCUIT_OPEN") >>

(* `decide(item).dispatch`: no gate fires.                                 *)
MayDispatch(item, completed) ==
  \A i \in DOMAIN Gates(item, completed) : ~Gates(item, completed)[i].fires

DispatchOutcome(item) ==
  IF item.action_class = "INTERNAL_CONTINUE" THEN "DISPATCH_CONTINUE"
                                             ELSE "DISPATCH_RECOVERY"

(* `decide(item).outcome`: the first gate that fires, else a dispatch.     *)
Decide(item, completed) ==
  FirstOf(Gates(item, completed), DispatchOutcome(item))
=============================================================================
