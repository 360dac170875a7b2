------------------------- MODULE AuthorityBoundary -------------------------
(***************************************************************************)
(* governance/m4_single_pilot_authority_boundary.py: whether the evidence  *)
(* of an owner grant authorizes one exact dispatch at a given time.  The   *)
(* check creates no authority and writes nothing; it is a list of tests in *)
(* a fixed order, the first that fails gives the status.                   *)
(*                                                                         *)
(* Times are integers in one unit; the program's are zoned datetimes (an   *)
(* unzoned `as_of` fails closed before anything else and is left out).     *)
(* The fields of an intent that only have to agree with the grant are one  *)
(* value, `work`.                                                          *)
(***************************************************************************)
EXTENDS Integers, Sequences

CONSTANTS
  GrantIds, Evidences, Works, Snapshots,
  CLOCK_SKEW, MAX_PREFLIGHT_AGE, MAX_AUTH_SOURCE_AGE, MAX_GRANT_TTL

ASSUME BoundaryAssumption ==
  /\ CLOCK_SKEW \in Nat
  /\ MAX_PREFLIGHT_AGE \in Nat
  /\ MAX_AUTH_SOURCE_AGE \in Nat
  /\ MAX_GRANT_TTL \in Nat
  /\ "malformed" \notin Snapshots

ALLOWED_ACTIONS == {"INTERNAL_CONTINUE", "INTERNAL_RECOVERY"}

(* The scope of a PilotIntent, and the scope a grant was given for.        *)
PilotIntent ==
  [work               : Works,
   action_class       : ALLOWED_ACTIONS \cup {"OTHER"},
   filled             : BOOLEAN,   \* every string is nonblank
   workflow_valid     : BOOLEAN,
   hashes_valid       : BOOLEAN,
   wildcard           : BOOLEAN,   \* some string is a wildcard
   preflight_contract : {"EXACT", "OTHER"}]

PreflightEvidence ==
  [ready              : BOOLEAN,   \* status ready and source FRESH
   preflight_contract : {"EXACT", "OTHER"},
   zoned              : BOOLEAN,
   observed_at        : Int,
   snapshot           : Snapshots \cup {"malformed"}]

OwnerAuthorizationEvidence ==
  [grant_id           : GrantIds,
   evidence           : Evidences, \* source_evidence_sha256
   genuine            : BOOLEAN,   \* source kind, level, state and health
   sourced            : BOOLEAN,   \* source_ref is nonblank
   identified         : BOOLEAN,   \* grant id nonblank, evidence a sha256
   wildcard           : BOOLEAN,   \* in source_ref or grant_id
   zoned              : BOOLEAN,   \* the three times; told apart together
   source_verified_at : Int,
   issued_at          : Int,
   expires_at         : Int,
   revoked            : BOOLEAN,
   max_dispatches     : Int,
   used_dispatches    : Int,
   snapshot           : Snapshots \cup {"malformed"},
   scope              : PilotIntent]

-----------------------------------------------------------------------------

Test(fails, status) == [fails |-> fails, status |-> status]

(* A slip: the age is read from timedelta.seconds, which starts again with *)
(* every day (a day of six units).                                         *)
Fresh_SecondsOfDay(at, asOf, maxAge) == (asOf - at) % 6 <= maxAge

(* Evidence of time `at` is neither too old nor from the future.           *)
Fresh(at, asOf, maxAge) == asOf - at <= maxAge /\ asOf - at >= -CLOCK_SKEW

InWindow(grant, asOf) ==
  asOf >= grant.issued_at - CLOCK_SKEW /\ asOf <= grant.expires_at

(* A slip: the scope of the grant is not compared with the intent.         *)
ScopeExact_Skipped(intent, grant) == TRUE

ScopeExact(intent, grant) == intent = grant.scope

(* The tests in the order of validate_single_pilot_authority.              *)
Tests(intent, preflight, grant, asOf) ==
  << Test(~intent.filled, "FAIL_CLOSED"),
     Test(~intent.workflow_valid, "FAIL_CLOSED"),
     Test(intent.action_class \notin ALLOWED_ACTIONS, "BLOCKED_SCOPE_MISMATCH"),
     Test(~intent.hashes_valid, "FAIL_CLOSED"),
     Test(intent.wildcard, "BLOCKED_WILDCARD_SCOPE"),
     Test(~preflight.ready, "BLOCKED_PREFLIGHT"),
     Test(preflight.preflight_contract # "EXACT" \/ intent.preflight_contract # "EXACT",
          "BLOCKED_SCOPE_MISMATCH"),
     Test(preflight.snapshot = "malformed" \/ ~preflight.zoned, "BLOCKED_PREFLIGHT"),
     Test(~Fresh(preflight.observed_at, asOf, MAX_PREFLIGHT_AGE), "BLOCKED_PREFLIGHT"),
     Test(~grant.genuine, "BLOCKED_AUTHENTICITY"),
     Test(~grant.sourced \/ ~grant.identified, "BLOCKED_AUTHENTICITY"),
     Test(grant.wildcard, "BLOCKED_WILDCARD_SCOPE"),
     Test(~grant.zoned, "BLOCKED_TEMPORAL"),
     Test(~Fresh(grant.source_verified_at, asOf, MAX_AUTH_SOURCE_AGE),
          "BLOCKED_AUTHENTICITY"),
     Test(grant.revoked, "BLOCKED_REVOKED"),
     Test(grant.max_dispatches # 1, "BLOCKED_NOT_SINGLE_USE"),
     Test(grant.used_dispatches < 0, "FAIL_CLOSED"),
     Test(grant.used_dispatches >= 1, "BLOCKED_ALREADY_CONSUMED"),
     Test(grant.expires_at <= grant.issued_at
            \/ grant.expires_at - grant.issued_at > MAX_GRANT_TTL, "BLOCKED_TEMPORAL"),
     Test(grant.issued_at < preflight.observed_at - CLOCK_SKEW, "BLOCKED_TEMPORAL"),
     Test(grant.issued_at > asOf + CLOCK_SKEW, "BLOCKED_TEMPORAL"),
     Test(~InWindow(grant, asOf), "BLOCKED_TEMPORAL"),
     Test(intent.wildcard \/ grant.scope.wildcard, "BLOCKED_WILDCARD_SCOPE"),
     Test(~ScopeExact(intent, grant), "BLOCKED_SCOPE_MISMATCH"),
     Test(grant.scope.action_class \notin ALLOWED_ACTIONS, "BLOCKED_SCOPE_MISMATCH"),
     Test(grant.snapshot # preflight.snapshot \/ grant.snapshot = "malformed",
          "BLOCKED_SCOPE_MISMATCH") >>

AuthorityStatuses ==
  {"VALID", "BLOCKED_PREFLIGHT", "BLOCKED_AUTHENTICITY", "BLOCKED_REVOKED",
   "BLOCKED_TEMPORAL", "BLOCKED_NOT_SINGLE_USE", "BLOCKED_ALREADY_CONSUMED",
   "BLOCKED_SCOPE_MISMATCH", "BLOCKED_WILDCARD_SCOPE", "FAIL_CLOSED"}

(* The `valid` field of the decision: no test fails.                       *)
Valid(intent, preflight, grant, asOf) ==
  LET tests == Tests(intent, preflight, grant, asOf) IN
  \A i \in DOMAIN tests : ~tests[i].fails

(* The status of the decision: of the first test that fails.               *)
Verdict(intent, preflight, grant, asOf) ==
  LET tests == Tests(intent, preflight, grant, asOf)
      failed == {i \in DOMAIN tests : tests[i].fails}
  IN IF failed = {}
       THEN "VALID"
       ELSE tests[CHOOSE i \in failed : \A j \in failed : i <= j].status

-----------------------------------------------------------------------------
(* The second look of the consumption ledger's `claim` at a grant whose    *)
(* decision was valid (_authority_ok): it knows neither the preflight nor  *)
(* the age of the source any more, and allows no clock skew.               *)

(* A slip: the second look trusts the decision and skips the window.       *)
StillAuthorized_Untimed(grant, asOf) ==
  /\ grant.zoned /\ ~grant.revoked
  /\ grant.max_dispatches = 1 /\ grant.used_dispatches = 0
  /\ grant.identified /\ grant.snapshot # "malformed"

StillAuthorized(grant, asOf) ==
  /\ grant.zoned /\ ~grant.revoked
  /\ grant.max_dispatches = 1 /\ grant.used_dispatches = 0
  /\ asOf >= grant.issued_at /\ asOf <= grant.expires_at
  /\ grant.identified /\ grant.snapshot # "malformed"
=============================================================================
