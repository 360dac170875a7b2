---------------------------- MODULE EvidenceCases ----------------------------
(***************************************************************************)
(* The deterministic cases of the three gate scripts under critical/ that  *)
(* ask the run evidence adapter, the post-dispatch verifier and the        *)
(* outcome adapter about synthetic evidence: RunEvidence, with the skew    *)
(* and the ages that the adapters have by default, must give every case    *)
(* the status that its script expects.  Times are seconds after BASE.  The *)
(* cases about texts that do not parse or fields that are missing (PH-13,  *)
(* PH-18, OA-13, part of GA-20 and OA-22) are left out.                    *)
(***************************************************************************)
LOCAL INSTANCE Integers

E == INSTANCE RunEvidence WITH Skew <- 30, MaxAge <- 300

ours == "eg:work:dedupe"

-----------------------------------------------------------------------------
(* m5_github_actions_run_evidence_adapter_v1_gate.py                       *)

DispatchIntent == [token |-> ours, dispatched |-> 0, deadline |-> 120]

RawRun ==
  [run |-> 9001, token |-> ours, attempt |-> 1, created |-> 5, updated |-> 60,
   status |-> "in_progress", conclusion |-> "none"]

Ended(conclusion) == [RawRun EXCEPT !.status = "completed", !.conclusion = conclusion]

Look(rows) == [rows |-> rows, fetched |-> 70, asOf |-> 75, error |-> FALSE]

AdapterCases ==
  [OBSERVATION_READY |->
     {Look({[RawRun EXCEPT !.status = "queued"]}), Look({RawRun}), Look({Ended("success")}),
      Look({Ended("failure")}), Look({RawRun, [RawRun EXCEPT !.status = "queued", !.updated = 20]})},
   AWAITING_RUN |->
     {[Look({}) EXCEPT !.asOf = 90], Look({[RawRun EXCEPT !.token = "other"]}),
      Look({[RawRun EXCEPT !.created = -120, !.updated = -60]})},
   RUN_UNCERTAIN |-> {[Look({}) EXCEPT !.fetched = 180, !.asOf = 180]},
   SOURCE_STALE |-> {[Look({RawRun}) EXCEPT !.fetched = 0, !.asOf = 600]},
   SOURCE_UNAVAILABLE |-> {[Look({}) EXCEPT !.error = TRUE]},
   CONFLICT_BLOCKED |->
     {Look({RawRun, [RawRun EXCEPT !.run = 9002]}), Look({Ended("success"), Ended("failure")}),
      Look({[RawRun EXCEPT !.attempt = 2]})},
   FAIL_CLOSED |-> {Look({[RawRun EXCEPT !.status = "waiting"]})}]

(* The state that the observation of a ready case has (GA-01 to GA-06,     *)
(* GA-17) and what the verifier makes of it.                               *)
ObservedCases ==
  {<<{[RawRun EXCEPT !.status = "queued"]}, "QUEUED", "EXACT_ACTIVE_FRESH">>,
   <<{RawRun}, "IN_PROGRESS", "EXACT_ACTIVE_FRESH">>,
   <<{RawRun, [RawRun EXCEPT !.status = "queued", !.updated = 20]}, "IN_PROGRESS",
     "EXACT_ACTIVE_FRESH">>,
   <<{Ended("success")}, "SUCCEEDED", "EXACT_SUCCEEDED">>,
   <<{Ended("failure")}, "FAILED", "EXACT_FAILED">>}

(* The adapter gives every case the status that the script expects, and    *)
(* what it observed is judged as expected.                                 *)
ASSUME AdapterConforms ==
  /\ \A s \in DOMAIN AdapterCases : \A c \in AdapterCases[s] :
       E!AdapterStatus(DispatchIntent, c.rows, c.fetched, c.asOf, c.error) = s
  /\ \A c \in ObservedCases :
       LET seen == E!Observed(DispatchIntent, c[1], 70)
           receipt == [run |-> seen.run, token |-> ours, dispatched |-> 0] IN
       seen.state = c[2] /\ E!Verify(receipt, {seen}, 75, FALSE) = c[3]

-----------------------------------------------------------------------------
(* m5_post_dispatch_run_heartbeat_v1_gate.py                               *)

DispatchReceipt == [run |-> 424242, token |-> ours, dispatched |-> 0]

(* updated is the heartbeat of an active run, the completion of an ended.  *)
Saw(state) ==
  [run |-> 424242, token |-> ours, fresh |-> TRUE, observed |-> 120, created |-> 5,
   state |-> state, updated |-> IF state \in {"SUCCEEDED", "FAILED"} THEN 90 ELSE 115]

Judged(observations) == [seen |-> observations, asOf |-> 130, gated |-> FALSE]

HeartbeatCases ==
  [EXACT_ACTIVE_FRESH |-> {Judged({Saw("IN_PROGRESS")}), Judged({Saw("QUEUED")})},
   EXACT_SUCCEEDED |-> {Judged({Saw("SUCCEEDED")})},
   EXACT_FAILED |-> {Judged({Saw("FAILED")})},
   SOURCE_BLOCKED |-> {Judged({[Saw("IN_PROGRESS") EXCEPT !.fresh = FALSE]})},
   IDENTITY_BLOCKED |-> {Judged({[Saw("IN_PROGRESS") EXCEPT !.run = 1]}),
                         Judged({[Saw("IN_PROGRESS") EXCEPT !.token = "other"]})},
   HEARTBEAT_STALE |->
     {[Judged({[Saw("IN_PROGRESS") EXCEPT !.observed = 600]}) EXCEPT !.asOf = 610]},
   TEMPORAL_BLOCKED |->
     {Judged({[Saw("IN_PROGRESS") EXCEPT !.created = -120, !.updated = 60]}),
      Judged({[Saw("SUCCEEDED") EXCEPT !.updated = 300]})},
   CONFLICT_BLOCKED |-> {Judged({Saw("IN_PROGRESS"), Saw("FAILED")})},
   OWNER_GATE_BLOCKED |-> {[Judged({Saw("IN_PROGRESS")}) EXCEPT !.gated = TRUE]}]

(* The verifier gives every case the status that the script expects.       *)
ASSUME HeartbeatConforms ==
  \A s \in DOMAIN HeartbeatCases : \A c \in HeartbeatCases[s] :
    E!Verify(DispatchReceipt, c.seen, c.asOf, c.gated) = s

-----------------------------------------------------------------------------
(* m5_downstream_outcome_artifact_evidence_v1_gate.py                      *)

TerminalRun == [Saw("SUCCEEDED") EXCEPT !.observed = 100]

Artifact ==
  [artifact |-> 7001, run |-> 424242, payload_run |-> 424242, token |-> ours,
   created |-> 100, produced |-> 92, state |-> "SUCCEEDED", confirmed |-> TRUE,
   effect |-> "NONE", intact |-> TRUE, expired |-> FALSE]

Fetched(bundles) ==
  [run |-> TerminalRun, bundles |-> bundles, fetched |-> 110, asOf |-> 115, error |-> FALSE]

FailedEffect(effect) ==
  [Artifact EXCEPT !.state = "FAILED", !.confirmed = FALSE, !.effect = effect]

OutcomeCases ==
  [EVIDENCE_READY |->
     {Fetched({Artifact}), Fetched({FailedEffect("NONE")}), Fetched({FailedEffect("POSSIBLE")})},
   AWAITING_OUTCOME |-> {Fetched({}), Fetched({[Artifact EXCEPT !.run = 9999]})},
   OUTCOME_UNCERTAIN |->
     {[Fetched({}) EXCEPT !.fetched = 360, !.asOf = 360],
      Fetched({[Artifact EXCEPT !.confirmed = FALSE]})},
   RUN_NOT_SUCCEEDED |->
     {[Fetched({Artifact}) EXCEPT !.run.state = "IN_PROGRESS", !.run.updated = 100]},
   INTEGRITY_BLOCKED |-> {Fetched({[Artifact EXCEPT !.intact = FALSE]})},
   SOURCE_BLOCKED |-> {Fetched({[Artifact EXCEPT !.expired = TRUE]})},
   SOURCE_STALE |-> {[Fetched({Artifact}) EXCEPT !.fetched = 0, !.asOf = 600]},
   SOURCE_UNAVAILABLE |-> {[Fetched({}) EXCEPT !.error = TRUE]},
   IDENTITY_BLOCKED |-> {Fetched({[Artifact EXCEPT !.token = "wrong"]}),
                         Fetched({[Artifact EXCEPT !.payload_run = 1]})},
   TEMPORAL_BLOCKED |-> {Fetched({[Artifact EXCEPT !.produced = p]}) : p \in {-60, 300}},
   EFFECT_UNSAFE_BLOCKED |-> {Fetched({[Artifact EXCEPT !.effect = "POSSIBLE"]})},
   CONFLICT_BLOCKED |-> {Fetched({Artifact, [Artifact EXCEPT !.artifact = 7002]})},
   FAIL_CLOSED |-> {Fetched({[Artifact EXCEPT !.state = "OTHER"]}),
                    Fetched({[Artifact EXCEPT !.effect = "CONTRADICTORY"]})}]

(* The outcome adapter gives every case the status that the script         *)
(* expects, and its evidence says of effects what OA-01, 19 and 20 expect. *)
ASSUME OutcomeConforms ==
  /\ \A s \in DOMAIN OutcomeCases : \A c \in OutcomeCases[s] :
       E!OutcomeStatus(DispatchReceipt, c.run, c.bundles, 300, c.fetched, c.asOf, c.error) = s
  /\ \A b \in {Artifact, FailedEffect("NONE"), FailedEffect("POSSIBLE")} :
       E!EvidenceOf(DispatchReceipt, {b}) =
         [run |-> 424242, state |-> b.state, effect |-> b.effect = "POSSIBLE"]
=============================================================================
