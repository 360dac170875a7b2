----------------------------- MODULE RunTracking -----------------------------
(***************************************************************************)
(* The evaluators of RunEvidence in time.  Work is dispatched, perhaps a   *)
(* second time; GitHub, by its own clock, starts runs, moves them, reruns  *)
(* them and keeps the artifacts they leave; a caller lists the runs page   *)
(* by page, lists artifacts, and has what it listed evaluated when it      *)
(* likes, long after it was listed too.  Dispatching and GitHub are        *)
(* external; the three evaluations are the code's.                         *)
(***************************************************************************)
EXTENDS RunEvidence

CONSTANTS
  Work,        \* Work[d]: the token of the d-th dispatch
  Drifts,      \* how far GitHub's clock may be ahead of the caller's
  Window,      \* time a run has to appear, and its outcome after it
  Contents,    \* what an outcome may say: [state, confirmed, effect, intact]
  MaxTime, MaxPages, MaxMoves  \* bounds: the clock, pages of runs and
               \* artifacts listed per dispatch, steps of all runs

ASSUME TrackingAssumption ==
  /\ Work \in Seq(STRING)
  /\ Drifts \subseteq Int
  /\ Window \in Nat
  /\ Contents \subseteq [state : {"SUCCEEDED", "FAILED", "OTHER"}, confirmed : BOOLEAN,
                         effect : Effects, intact : BOOLEAN]
  /\ MaxTime \in Nat
  /\ MaxPages \in Nat
  /\ MaxMoves \in Nat

VARIABLES
  now,        \* the caller's clock
  drift,      \* GitHub's clock minus the caller's
  moves,      \* steps of runs so far
  dispatched, \* times of the dispatches so far
  runs,       \* runs[d]: the row of the run that dispatch d has started
  ended,      \* ended[d]: conclusion and time of its first attempt
  artifacts,  \* artifacts in GitHub
  listing,    \* rows of the pages listed
  pages,      \* pages listed since the dispatch
  listedAt,   \* when the last one was
  receipt,    \* the intent of the latest dispatch with the run it was given
  observations, \* observations of it
  bundles,    \* artifacts listed
  bundledAt   \* when

github == <<drift, moves, runs, ended, artifacts>>
seen == <<listing, pages, listedAt>>
judged == <<receipt, observations>>
result == <<bundles, bundledAt>>
vars == <<now, dispatched, github, seen, judged, result>>

NoRun == [run |-> 0]
NoReceipt == [run |-> 0]
NotEnded == [conclusion |-> "none", at |-> 0]

Dispatches == DOMAIN Work
Latest == Len(dispatched)
GitHubTime == now + drift

Init ==
  /\ now = 0
  /\ drift \in Drifts
  /\ dispatched = <<>>
  /\ moves = 0
  /\ runs = [d \in Dispatches |-> NoRun]
  /\ ended = [d \in Dispatches |-> NotEnded]
  /\ artifacts = {}
  /\ listing = {}
  /\ pages = 0
  /\ listedAt = 0
  /\ receipt = NoReceipt
  /\ observations = {}
  /\ bundles = {}
  /\ bundledAt = 0

-----------------------------------------------------------------------------
(* External                                                                *)

Tick ==
  /\ now < MaxTime
  /\ now' = now + 1
  /\ UNCHANGED <<dispatched, github, seen, judged, result>>

(* The next piece of work is dispatched, whose caller begins anew.         *)
Dispatch ==
  /\ Latest < Len(Work)
  /\ dispatched' = Append(dispatched, now)
  /\ listing' = {}
  /\ pages' = 0
  /\ listedAt' = 0
  /\ receipt' = NoReceipt
  /\ observations' = {}
  /\ bundles' = {}
  /\ bundledAt' = 0
  /\ UNCHANGED <<now, github>>

Move == moves < MaxMoves /\ moves' = moves + 1

(* Bound: a run moves while its dispatch is the latest; before and after   *)
(* it only appears.                                                        *)
Moves(d) == d = Latest /\ runs[d] # NoRun /\ Move

(* A run is there when GitHub first shows it, in whatever status.           *)
RunAppears(d, status) ==
  /\ Move
  /\ d <= Latest
  /\ runs[d] = NoRun
  /\ runs' = [runs EXCEPT ![d] =
                [run |-> d, token |-> Work[d], attempt |-> 1, created |-> GitHubTime,
                 updated |-> GitHubTime, status |-> status, conclusion |-> "none"]]
  /\ UNCHANGED <<now, dispatched, drift, ended, artifacts, seen, judged, result>>

RunMoves(d, status, conclusion) ==
  runs' = [runs EXCEPT ![d].status = status, ![d].conclusion = conclusion,
                          ![d].updated = GitHubTime]

RunStarts(d) ==
  /\ Moves(d) /\ runs[d].status \in {"queued", "waiting"}
  /\ RunMoves(d, "in_progress", "none")
  /\ UNCHANGED <<now, dispatched, drift, ended, artifacts, seen, judged, result>>

(* The run writes its outcome, at most once an attempt.                    *)
RunReports(d, content) ==
  /\ Moves(d)
  /\ runs[d].status = "in_progress"
  /\ \A b \in artifacts : b.run = d => b.artifact # runs[d].attempt
  /\ artifacts' = artifacts \cup
       {[artifact |-> runs[d].attempt, run |-> d, payload_run |-> d, token |-> Work[d],
         created |-> GitHubTime, produced |-> GitHubTime, expired |-> FALSE,
         state |-> content.state, confirmed |-> content.confirmed,
         effect |-> content.effect, intact |-> content.intact]}
  /\ UNCHANGED <<now, dispatched, drift, runs, ended, seen, judged, result>>

RunEnds(d, conclusion) ==
  /\ Moves(d) /\ runs[d].status = "in_progress"
  /\ RunMoves(d, "completed", conclusion)
  /\ ended' = IF runs[d].attempt = 1
                THEN [ended EXCEPT ![d] = [conclusion |-> conclusion, at |-> GitHubTime]]
                ELSE ended
  /\ UNCHANGED <<now, dispatched, drift, artifacts, seen, judged, result>>

(* Somebody has the run run once more, under the same id.                  *)
Rerun(d, status) ==
  /\ Moves(d)
  /\ runs[d].status = "completed" /\ runs[d].attempt = 1
  /\ runs' = [runs EXCEPT ![d].status = status, ![d].conclusion = "none",
                          ![d].attempt = 2, ![d].updated = GitHubTime]
  /\ UNCHANGED <<now, dispatched, drift, ended, artifacts, seen, judged, result>>

(* GitHub lists some of its runs as they are; the pages of one listing may *)
(* be apart in time.                                                       *)
ListRuns(some) ==
  /\ Latest > 0
  /\ pages < MaxPages
  /\ some # {} /\ \A d \in some : runs[d] # NoRun
  /\ listing' = listing \cup {runs[d] : d \in some}
  /\ pages' = pages + 1
  /\ listedAt' = now
  /\ UNCHANGED <<now, dispatched, github, judged, result>>

ListArtifacts(some) ==
  /\ receipt # NoReceipt /\ some # {}
  /\ pages < MaxPages
  /\ pages' = pages + 1
  /\ bundles' = some
  /\ bundledAt' = now
  /\ UNCHANGED <<now, dispatched, github, listing, listedAt, judged>>

-----------------------------------------------------------------------------
(* The evaluations                                                         *)

IntentOf(d) ==
  [token |-> Work[d], dispatched |-> dispatched[d], deadline |-> dispatched[d] + Window]

(* The first run that is found becomes the run of the receipt.             *)
EvaluateRuns ==
  LET intent == IntentOf(Latest)
      observation == Observed(intent, listing, listedAt) IN
  /\ listing # {}
  /\ AdapterStatus(intent, listing, listedAt, now, FALSE) = "OBSERVATION_READY"
  /\ observations' = observations \cup {observation}
  /\ receipt' = IF receipt # NoReceipt THEN receipt
                ELSE [run |-> observation.run, token |-> intent.token,
                      dispatched |-> intent.dispatched]
  /\ listing' = {}
  /\ listedAt' = 0
  /\ UNCHANGED <<now, dispatched, github, pages, result>>

(* Any other answer leaves nothing to go on with.                          *)
DropListing ==
  /\ listing # {}
  /\ AdapterStatus(IntentOf(Latest), listing, listedAt, now, FALSE) # "OBSERVATION_READY"
  /\ listing' = {}
  /\ listedAt' = 0
  /\ UNCHANGED <<now, dispatched, github, pages, judged, result>>

(* What the other two evaluators say changes nothing: they may be called   *)
(* at any time, here for any of the observations.                          *)
Verdict == Verify(receipt, observations, now, FALSE)

Outcome(observation) ==
  OutcomeStatus(receipt, observation, bundles, observation.updated + Window,
                bundledAt, now, FALSE)

GitHub ==
  \/ \E d \in Dispatches :
       \/ \E status \in {"queued", "in_progress", "waiting"} : RunAppears(d, status)
       \/ RunStarts(d)
       \/ \E content \in Contents : RunReports(d, content)
       \/ \E conclusion \in {"success", "failure", "neutral"} : RunEnds(d, conclusion)
       \/ \E status \in {"queued", "in_progress"} : Rerun(d, status)
  \/ \E some \in SUBSET Dispatches : ListRuns(some)
  \/ \E some \in SUBSET artifacts : ListArtifacts(some)

Evaluation ==
  \/ EvaluateRuns
  \/ DropListing

Next == Tick \/ Dispatch \/ GitHub \/ Evaluation

Spec == Init /\ [][Next]_vars

-----------------------------------------------------------------------------
(* Properties                                                              *)

(* Every variable keeps its type.                                          *)
TypeOK ==
  /\ now \in 0 .. MaxTime
  /\ drift \in Drifts
  /\ dispatched \in Seq(0 .. MaxTime)
  /\ runs \in [Dispatches -> Row \cup {NoRun}]
  /\ artifacts \subseteq Bundle
  /\ listing \subseteq Row
  /\ observations \subseteq Observation
  /\ bundles \subseteq Bundle

(* The premise under which a run can be told by its time: GitHub's clock   *)
(* is within the skew, runs appear within the window of their dispatch,    *)
(* and the same work is not dispatched again until that window has passed. *)
Orderly ==
  /\ drift \in -Skew .. Skew
  /\ \A d \in 1 .. Latest :
       runs[d] # NoRun => runs[d].created <= dispatched[d] + Window + drift
  /\ \A d, e \in 1 .. Latest :
       d < e /\ Work[d] = Work[e] => dispatched[e] > dispatched[d] + Window + 2 * Skew

(* In an orderly run of things the run a receipt names was started by this *)
(* dispatch and not by an earlier one of the same work, although the skew  *)
(* lets runs match that are older than the dispatch, and whichever runs    *)
(* GitHub lists (_matches, evaluate).                                      *)
MatchedRunIsOurs ==
  receipt # NoReceipt /\ Orderly => receipt.run = Latest

(* A run that `verify` calls active and fresh has not ended its first      *)
(* attempt longer ago than a heartbeat may be old, though the listing, the *)
(* observation and the verification are apart in time, and however often   *)
(* the run was rerun in between.                                           *)
ActiveIsRecent ==
  receipt # NoReceipt /\ Verdict = "EXACT_ACTIVE_FRESH" =>
    LET end == ended[receipt.run] IN
    end.conclusion = "none" \/ end.at >= now - MaxAge

(* A terminal verdict tells how the first attempt of that run ended, which *)
(* is the one the dispatch is accountable for: a rerun never turns a       *)
(* failure into a success.                                                 *)
TerminalIsFirstAttempt ==
  receipt # NoReceipt =>
    /\ Verdict = "EXACT_SUCCEEDED" => ended[receipt.run].conclusion = "success"
    /\ Verdict = "EXACT_FAILED" => ended[receipt.run].conclusion = "failure"

(* Nobody reran the run.                                                   *)
RanOnce(d) == runs[d].attempt = 1

(* Outcome evidence says what the run it is about reported, and it is      *)
(* never weaker than that: what reconciliation may close as succeeded was  *)
(* confirmed and without external effect, what it may reopen as failed has *)
(* its possible effects on it.  Unless the run was rerun it is the report  *)
(* of an attempt that had succeeded.                                       *)
EvidenceHonest ==
  receipt # NoReceipt =>
  \A observation \in observations : Outcome(observation) = "EVIDENCE_READY" =>
    LET e == EvidenceOf(receipt, bundles) IN
    /\ \E b \in artifacts :
         /\ b.run = receipt.run
         /\ b.intact
         /\ b.state = e.state
         /\ e.state = "SUCCEEDED" => b.confirmed /\ b.effect = "NONE"
         /\ e.state = "FAILED" => (e.effect <=> b.effect # "NONE")
    /\ RanOnce(receipt.run) => ended[receipt.run].conclusion = "success"

-----------------------------------------------------------------------------
(* The inductive invariant behind the theorems of RunTrackingProofs        *)

(* The first attempt of d's run has not ended before time t.               *)
NotEndedBefore(d, t) == ended[d].conclusion = "none" \/ ended[d].at >= t

(* The run of dispatch d: there at the earliest with its dispatch, told by *)
(* its work, and in its first attempt at one with the history.             *)
RunInv(d) ==
  IF runs[d] = NoRun THEN ended[d].conclusion = "none"
  ELSE /\ d <= Latest
       /\ runs[d].run = d /\ runs[d].token = Work[d]
       /\ runs[d].updated <= GitHubTime
       /\ runs[d].attempt = 1 => ended[d].conclusion = runs[d].conclusion
       /\ runs[d].status = "completed" <=> runs[d].conclusion # "none"

(* A row that was listed may be long out of date.  It still tells whose    *)
(* run it is of and when that appeared and, of a first attempt, how it     *)
(* ended or until when it had not.                                         *)
RowInv(row) ==
  /\ row.run \in Dispatches /\ runs[row.run] # NoRun
  /\ row.token = Work[row.run] /\ row.created = runs[row.run].created
  /\ row.updated <= GitHubTime
  /\ row.status = "completed" <=> row.conclusion # "none"
  /\ row.attempt = 1 =>
       IF row.status = "completed" THEN ended[row.run].conclusion = row.conclusion
       ELSE NotEndedBefore(row.run, row.updated)

(* So does an observation, which is only ever made of a first attempt.     *)
ObservationInv(o) ==
  /\ o.run \in Dispatches
  /\ o.observed <= now /\ o.updated <= GitHubTime
  /\ o.state = "SUCCEEDED" => ended[o.run].conclusion = "success"
  /\ o.state = "FAILED" => ended[o.run].conclusion = "failure"
  /\ o.state \in Active => NotEndedBefore(o.run, o.updated)

(* A receipt names a run of the same work that did not appear before this  *)
(* dispatch, up to the skew.                                               *)
ReceiptInv ==
  /\ receipt.run \in 1 .. Latest /\ runs[receipt.run] # NoRun
  /\ Work[receipt.run] = Work[Latest]
  /\ runs[receipt.run].created >= dispatched[Latest] - Skew

TrackingInv ==
  /\ TypeOK
  /\ ended \in [Dispatches -> [conclusion : Conclusions, at : Int]]
  /\ Latest <= Len(Work)
  /\ listedAt \in 0 .. now
  /\ \A d \in Dispatches : RunInv(d)
  /\ \A row \in listing : RowInv(row)
  /\ \A o \in observations : ObservationInv(o)
  /\ receipt # NoReceipt => ReceiptInv
  /\ bundles \subseteq artifacts
=============================================================================
