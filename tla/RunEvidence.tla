----------------------------- MODULE RunEvidence -----------------------------
(***************************************************************************)
(* What the runtime makes of a GitHub Actions run it has dispatched:       *)
(* governance/github_actions_run_evidence.py finds the run of a dispatch   *)
(* among those GitHub lists, post_dispatch_verification.py judges          *)
(* observations of it, downstream_outcome_artifact_evidence.py reads the   *)
(* outcome that it left as an artifact.                                    *)
(*                                                                         *)
(* Identities (repository, workflow, event, branch, head, run name, work)  *)
(* are one token.  Times are integers of one unit.  Texts that do not      *)
(* parse are left out: rows, receipts and payloads have all their fields.  *)
(***************************************************************************)
EXTENDS GateList, FiniteSets

CONSTANTS
  Skew,    \* clock_skew_seconds
  MaxAge   \* max_source_age_seconds, heartbeat_max_age_seconds

ASSUME EvidenceAssumption == Skew \in Nat /\ MaxAge \in Nat \ {0}

(* A row of the list of runs.                                              *)
RowStatuses == {"queued", "in_progress", "completed", "waiting"}

Conclusions == {"none", "success", "failure", "neutral"}

Row == [run : Nat, token : STRING, attempt : Nat, created : Int, updated : Int,
        status : RowStatuses, conclusion : Conclusions]

Intent == [token : STRING, dispatched : Int, deadline : Int]

Observation == [run : Nat, token : STRING, fresh : BOOLEAN, observed : Int, created : Int,
                state : {"QUEUED", "IN_PROGRESS", "SUCCEEDED", "FAILED"}, updated : Int]

Fresh(fetched, asOf) == asOf - fetched \in -Skew .. MaxAge

-----------------------------------------------------------------------------
(* GitHubActionsRunEvidenceAdapter                                         *)

(* A slip: a run is matched by its name alone.                             *)
Matches_AnyTime(intent, row) == row.token = intent.token

Matches(intent, row) ==
  /\ row.token = intent.token
  /\ row.created >= intent.dispatched - Skew

Newest(rows) == {r \in rows : \A s \in rows : s.updated <= r.updated}

(* `_state`; a conclusion that is neither success nor a known failure and  *)
(* a status it does not know close the evaluation.                         *)
StateOf(row) ==
  CASE row.status = "queued" /\ row.conclusion = "none" -> "QUEUED"
    [] row.status = "in_progress" /\ row.conclusion = "none" -> "IN_PROGRESS"
    [] row.status = "completed" /\ row.conclusion = "success" -> "SUCCEEDED"
    [] row.status = "completed" /\ row.conclusion = "failure" -> "FAILED"
    [] OTHER -> "unknown"

(* A slip: any attempt of the run will do.                                 *)
FirstAttempts_Any(rows) == TRUE

FirstAttempts(rows) == \A r \in rows : r.attempt = 1

AdapterStatus(intent, rows, fetched, asOf, error) ==
  LET exact == {r \in rows : Matches(intent, r)}
      latest == Newest(exact) IN
  FirstOf(<<
    Gate(intent.deadline < intent.dispatched, "RECEIPT_INVALID"),
    Gate(error, "SOURCE_UNAVAILABLE"),
    Gate(~Fresh(fetched, asOf), "SOURCE_STALE"),
    Gate(exact = {} /\ asOf <= intent.deadline, "AWAITING_RUN"),
    Gate(exact = {}, "RUN_UNCERTAIN"),
    Gate(\E r, s \in exact : r.run # s.run, "CONFLICT_BLOCKED"),
    Gate(~FirstAttempts(exact), "CONFLICT_BLOCKED"),
    Gate(\E r, s \in latest : StateOf(r) # StateOf(s), "CONFLICT_BLOCKED"),
    Gate(\E r \in latest : StateOf(r) = "unknown" \/ r.updated < r.created, "FAIL_CLOSED"),
    Gate(\E r \in latest : r.updated > fetched + Skew, "FAIL_CLOSED")>>,
    "OBSERVATION_READY")

(* The observation made of the newest row, which is also what the receipt  *)
(* names as the run of the dispatch.                                       *)
Observed(intent, rows, fetched) ==
  LET row == CHOOSE r \in Newest({r \in rows : Matches(intent, r)}) : TRUE IN
  [run |-> row.run, token |-> intent.token, fresh |-> TRUE, observed |-> fetched,
   created |-> row.created, state |-> StateOf(row), updated |-> row.updated]

-----------------------------------------------------------------------------
(* PostDispatchRunVerifier                                                 *)

Active == {"QUEUED", "IN_PROGRESS"}

(* A slip: a heartbeat may be of any age.                                  *)
HeartbeatStale_Never(obs, asOf) == FALSE

HeartbeatStale(obs, asOf) == asOf - obs.updated > MaxAge

(* `updated` is the heartbeat of an active run and the completion of one   *)
(* that has ended.  A receipt is an intent with the run it was given.      *)
Verify(receipt, observations, asOf, gated) ==
  LET exact == {o \in observations : o.run = receipt.run /\ o.token = receipt.token}
      fresh == {o \in exact : o.fresh}
      latest == {o \in fresh : \A p \in fresh : p.observed <= o.observed}
      Some(Test(_)) == \E o \in latest : Test(o)
      IsActive(o) == o.state \in Active
      FromFuture(o) == o.observed > asOf + Skew
      Predates(o) == o.created < receipt.dispatched - Skew
      CreatedLater(o) == o.created > o.observed + Skew
      OutOfOrder(o) == o.updated \notin o.created - Skew .. o.observed + Skew
      Ahead(o) == o.updated > asOf + Skew
      Silent(o) == IsActive(o) /\ HeartbeatStale(o, asOf)
      Succeeded(o) == o.state = "SUCCEEDED" IN
  FirstOf(<<
    Gate(gated, "OWNER_GATE_BLOCKED"),
    Gate(observations = {}, "SOURCE_BLOCKED"),
    Gate(fresh = {} /\ exact # {}, "SOURCE_BLOCKED"),
    Gate(fresh = {}, "IDENTITY_BLOCKED"),
    Gate(\E o, p \in latest : o.state # p.state, "CONFLICT_BLOCKED"),
    Gate(Some(FromFuture), "TEMPORAL_BLOCKED"),
    Gate(Some(Predates), "TEMPORAL_BLOCKED"),
    Gate(Some(CreatedLater), "TEMPORAL_BLOCKED"),
    Gate(Some(OutOfOrder), "TEMPORAL_BLOCKED"),
    Gate(Some(Silent), "HEARTBEAT_STALE"),
    Gate(Some(Ahead), "TEMPORAL_BLOCKED"),
    Gate(Some(IsActive), "EXACT_ACTIVE_FRESH"),
    Gate(Some(Succeeded), "EXACT_SUCCEEDED")>>,
    "EXACT_FAILED")

-----------------------------------------------------------------------------
(* DownstreamOutcomeArtifactEvidenceAdapter                                *)

(* An artifact with the outcome in it.  intact: its digest, its single     *)
(* file and that file's path and size are right.  effect tells what the    *)
(* flags about external effects say; CONTRADICTORY is what contradicts the *)
(* declared scope or itself.                                               *)
Effects == {"NONE", "POSSIBLE", "PROVEN", "CONTRADICTORY"}

Bundle == [artifact : Nat, run : Nat, payload_run : Nat, token : STRING,
           created : Int, produced : Int,
           state : {"SUCCEEDED", "FAILED", "OTHER"}, confirmed : BOOLEAN, effect : Effects,
           intact : BOOLEAN, expired : BOOLEAN]

(* What a run that is not an exact success makes of the outcome.           *)
RunAnswer ==
  [EXACT_ACTIVE_FRESH |-> "RUN_NOT_SUCCEEDED", EXACT_FAILED |-> "RUN_NOT_SUCCEEDED",
   SOURCE_BLOCKED |-> "SOURCE_BLOCKED", IDENTITY_BLOCKED |-> "IDENTITY_BLOCKED",
   HEARTBEAT_STALE |-> "SOURCE_BLOCKED", TEMPORAL_BLOCKED |-> "TEMPORAL_BLOCKED",
   CONFLICT_BLOCKED |-> "CONFLICT_BLOCKED", OWNER_GATE_BLOCKED |-> "SOURCE_BLOCKED",
   EXACT_SUCCEEDED |-> "none"]

BundlesOf(receipt, bundles) == {b \in bundles : b.run = receipt.run}

(* A slip: the flags about effects are not looked at.                      *)
EffectClear_Unchecked(b) == TRUE

EffectClear(b) == b.effect = "NONE"

OutcomeStatus(receipt, run, bundles, deadline, fetched, asOf, error) ==
  LET ran == Verify(receipt, {run}, asOf, FALSE)
      exact == BundlesOf(receipt, bundles)
      Max2(x, y) == IF x >= y THEN x ELSE y
      begun == Max2(receipt.dispatched, run.created) - Skew
      Some(Test(_)) == \E b \in exact : Test(b)
      Expired(b) == b.expired
      Early(b) == b.created < begun
      Late(b) == b.created > fetched + Skew
      Damaged(b) == ~b.intact
      Foreign(b) == b.payload_run # receipt.run \/ b.token # receipt.token
      Untimely(b) == b.produced < begun \/ b.produced > b.created + Skew
                       \/ b.produced > fetched + Skew \/ b.produced > asOf + Skew
      Unknown(b) == b.state = "OTHER" \/ b.effect = "CONTRADICTORY"
      Unconfirmed(b) == b.state = "SUCCEEDED" /\ ~b.confirmed
      Unsafe(b) == b.state = "SUCCEEDED" /\ ~EffectClear(b) IN
  FirstOf(<<
    Gate(error, "SOURCE_UNAVAILABLE"),
    Gate(~Fresh(fetched, asOf), "SOURCE_STALE"),
    Gate(ran # "EXACT_SUCCEEDED", RunAnswer[ran]),
    Gate(exact = {} /\ asOf <= deadline, "AWAITING_OUTCOME"),
    Gate(exact = {}, "OUTCOME_UNCERTAIN"),
    Gate(\E b, c \in exact : b # c, "CONFLICT_BLOCKED"),
    Gate(Some(Expired), "SOURCE_BLOCKED"),
    Gate(Some(Early), "TEMPORAL_BLOCKED"),
    Gate(Some(Late), "TEMPORAL_BLOCKED"),
    Gate(Some(Damaged), "INTEGRITY_BLOCKED"),
    Gate(Some(Foreign), "IDENTITY_BLOCKED"),
    Gate(Some(Untimely), "TEMPORAL_BLOCKED"),
    Gate(Some(Unknown), "FAIL_CLOSED"),
    Gate(Some(Unconfirmed), "OUTCOME_UNCERTAIN"),
    Gate(Some(Unsafe), "EFFECT_UNSAFE_BLOCKED")>>,
    "EVIDENCE_READY")

(* The DownstreamEvidence made of the artifact.                            *)
EvidenceOf(receipt, bundles) ==
  LET b == CHOOSE b \in BundlesOf(receipt, bundles) : TRUE IN
  [run |-> receipt.run, state |-> b.state,
   effect |-> b.state = "FAILED" /\ b.effect # "NONE"]
=============================================================================
