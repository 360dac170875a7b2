------------------------ MODULE ContinuitySupervisor ------------------------
(***************************************************************************)
(* continuity/brain_continuity_supervisor.py, started every half hour by   *)
(* .github/workflows/brain-continuity-supervisor.yml: it asks GitHub for   *)
(* the active runs, status by status, and for the latest commits, judges   *)
(* whether the frozen contract is being worked on and writes the judgement *)
(* into an issue.  Runs, commits and the contract file move meanwhile.     *)
(*                                                                         *)
(* Times are kept as ages, in a unit of which the half hour is a multiple, *)
(* and ages beyond the oldest that matters are one, so that time has no    *)
(* end.                                                                    *)
(***************************************************************************)
EXTENDS Integers, Sequences

CONSTANTS
  Policies,   \* policies the contract may have
  Runs,       \* runs of other workflows on the branch
  Stale,      \* stale_after_seconds
  Period,     \* the schedule of the workflow
  Timeout,    \* the time a job has
  ClockError, \* how far a committer's clock may be ahead of GitHub's
  PageSize,   \* commits on a page (30)
  MaxFaults   \* bound: requests that fail or are answered badly

ASSUME SupervisorAssumption ==
  /\ {Stale, Period, PageSize} \subseteq Nat \ {0}
  /\ {Timeout, ClockError, MaxFaults} \subseteq Nat
  /\ Policies # {} /\ "none" \notin Policies
  /\ "self" \notin Runs

Autonomous == "AUTONOMOUS_EXPECTED_WHEN_NEXT_CONTRACT_FROZEN"

Waiting == {"PARKED", "WAITING_EXTERNAL", "MANUAL_ON_DEMAND"}

(* A slip: runs that were only asked for are not queried.                  *)
Statuses_NoRequested == <<"in_progress", "queued", "waiting", "pending">>

(* The statuses in the order they are queried.                             *)
Statuses == <<"in_progress", "queued", "waiting", "requested", "pending">>

ActiveStatuses == {"in_progress", "queued", "waiting", "requested", "pending"}

(* The run of the supervisor itself.                                       *)
Self == "self"

(* Older is as old as this.                                                *)
Oldest == Stale + ClockError + Timeout + 1

Older(age) == IF age < Oldest THEN age + 1 ELSE age

Commit == [marked : BOOLEAN, dated : -ClockError .. Oldest, pushed : 0 .. Oldest]

NoContract == [policy |-> "none", frozen |-> 0]

States == {"WORKING", "GRACE", "PROGRESS_CONFIRMED", "EXECUTION_GAP",
           "WAITING_EXPECTED", "UNKNOWN"}

VARIABLES
  policy,    \* of the contract file
  frozen,    \* age of the contract
  runs,      \* runs[r]: its status, "none" if there is no such run
  commits,   \* the newest commits of the branch, newest first
  phase,     \* time since the schedule last fired
  due,       \* a run of the supervisor is pending
  pc,        \* "off", "querying", "reading" or "publishing"
  lag,       \* age of the supervisor's `now`
  contract,  \* the contract it has loaded: [policy, frozen]
  asked,     \* how many statuses it has queried
  found,     \* runs it has found
  steady,    \* runs that kept one active status since it began (history)
  decision,  \* its decision
  issue,     \* the status in the issue
  faults

branch == <<policy, frozen, runs, commits>>
check == <<pc, lag, contract, asked, found, decision>>
vars == <<branch, phase, due, check, steady, issue, faults>>

Init ==
  /\ policy \in Policies
  /\ frozen = 0
  /\ runs = [r \in Runs |-> "none"]
  /\ commits \in {<<>>, <<[marked |-> TRUE, dated |-> 1, pushed |-> 1]>>}
  /\ phase = 0
  /\ due = FALSE
  /\ pc = "off"
  /\ lag = 0
  /\ contract = NoContract
  /\ asked = 0
  /\ found = {}
  /\ steady = {}
  /\ decision = "none"
  /\ issue = "none"
  /\ faults = 0

-----------------------------------------------------------------------------
(* External                                                                *)

(* Time passes, but not beyond the time a job has.  The schedule fires; of *)
(* the runs of one concurrency group at most one is pending.               *)
Tick ==
  /\ pc = "off" \/ lag < Timeout
  /\ frozen' = Older(frozen)
  /\ commits' = [i \in DOMAIN commits |->
                   [commits[i] EXCEPT !.dated = Older(@), !.pushed = Older(@)]]
  /\ phase' = (phase + 1) % Period
  /\ due' = (due \/ phase' = 0)
  /\ lag' = IF pc = "off" THEN lag ELSE lag + 1
  /\ UNCHANGED <<policy, runs, pc, contract, asked, found, decision, steady, issue, faults>>

RunMoves(r, status) ==
  /\ status # runs[r]
  /\ status = "none" <=> runs[r] = "completed"
  /\ runs' = [runs EXCEPT ![r] = status]
  /\ steady' = steady \ {r}
  /\ UNCHANGED <<policy, frozen, commits, phase, due, check, issue, faults>>

(* The ages of a commit without a marker are of no interest.               *)
Unmarked == [marked |-> FALSE, dated |-> Oldest, pushed |-> Oldest]

Push(commit) ==
  /\ commits' = SubSeq(<<commit>> \o commits,
                       1, IF Len(commits) < PageSize THEN Len(commits) + 1 ELSE PageSize)
  /\ UNCHANGED <<policy, frozen, runs, phase, due, check, steady, issue, faults>>

(* The next contract is frozen.                                            *)
Freeze(p) ==
  /\ policy' = p
  /\ frozen' = 0
  /\ UNCHANGED <<runs, commits, phase, due, check, steady, issue, faults>>

-----------------------------------------------------------------------------
(* run_live                                                                *)

(* A slip: the supervisor does not leave out its own run.                  *)
Counted_Self(ids) == ids

Counted(ids) == ids \ {Self}

Start ==
  /\ pc = "off"
  /\ due
  /\ due' = FALSE
  /\ pc' = "querying"
  /\ contract' = [policy |-> policy, frozen |-> frozen]
  /\ asked' = 0
  /\ found' = {}
  /\ steady' = {r \in Runs : runs[r] \in ActiveStatuses}
  /\ UNCHANGED <<branch, phase, lag, decision, issue, faults>>

(* One request of _active_runs.                                            *)
QueryRuns ==
  /\ pc = "querying"
  /\ asked < Len(Statuses)
  /\ LET status == Statuses[asked + 1] IN
     found' = found \cup Counted({r \in Runs : runs[r] = status}
                                   \cup {x \in {Self} : status = "in_progress"})
  /\ asked' = asked + 1
  /\ pc' = IF asked' = Len(Statuses) THEN "reading" ELSE "querying"
  /\ UNCHANGED <<branch, phase, due, lag, contract, decision, steady, issue, faults>>

(* An answer of another shape counts as one without runs.                  *)
GarbledQuery ==
  /\ pc = "querying"
  /\ asked < Len(Statuses)
  /\ faults < MaxFaults
  /\ faults' = faults + 1
  /\ asked' = asked + 1
  /\ pc' = IF asked' = Len(Statuses) THEN "reading" ELSE "querying"
  /\ steady' = {r \in steady : runs[r] # Statuses[asked + 1]}
  /\ UNCHANGED <<branch, phase, due, lag, contract, found, decision, issue>>

(* Dated at or after the freeze.  Ages are those at the supervisor's now,  *)
(* the commit's is taken lag later.                                        *)
CommitMatches(c) == c.marked /\ c.dated - lag <= contract.frozen

(* A slip: progress never grows stale.                                     *)
FreshProgress_Always == \E i \in DOMAIN commits : CommitMatches(commits[i])

(* The latest of them is fresh if any is; a date ahead of now is age 0.    *)
FreshProgress ==
  \E i \in DOMAIN commits : CommitMatches(commits[i]) /\ commits[i].dated - lag <= Stale

Decision ==
  IF contract.policy \in Waiting THEN "WAITING_EXPECTED"
  ELSE IF contract.policy # Autonomous THEN "UNKNOWN"
  ELSE IF found # {} THEN "WORKING"
  ELSE IF FreshProgress THEN "PROGRESS_CONFIRMED"
  ELSE IF \E i \in DOMAIN commits : CommitMatches(commits[i]) THEN "EXECUTION_GAP"
  ELSE IF contract.frozen <= Stale THEN "GRACE"
  ELSE "EXECUTION_GAP"

(* _recent_commits, and the decision made of it all.                       *)
ReadCommits ==
  /\ pc = "reading"
  /\ decision' = Decision
  /\ pc' = "publishing"
  /\ contract' = NoContract
  /\ asked' = 0
  /\ found' = {}
  /\ UNCHANGED <<branch, phase, due, lag, steady, issue, faults>>

(* The process ends and keeps nothing.                                     *)
End ==
  /\ pc' = "off"
  /\ lag' = 0
  /\ contract' = NoContract
  /\ asked' = 0
  /\ found' = {}
  /\ steady' = {}
  /\ decision' = "none"

Publish ==
  /\ pc = "publishing"
  /\ issue' = decision
  /\ End
  /\ UNCHANGED <<branch, phase, due, faults>>

(* A request fails, or the job is ended: the issue stays as it is.         *)
Fail ==
  /\ pc # "off"
  /\ faults < MaxFaults
  /\ faults' = faults + 1
  /\ End
  /\ UNCHANGED <<branch, phase, due, issue>>

Supervise == Start \/ QueryRuns \/ ReadCommits \/ Publish

Branch ==
  \/ \E r \in Runs, status \in ActiveStatuses \cup {"completed", "none"} : RunMoves(r, status)
  \/ Push(Unmarked)
  \/ \E ahead \in {0, ClockError} : Push([marked |-> TRUE, dated |-> -ahead, pushed |-> 0])
  \/ \E p \in Policies : Freeze(p)

Next == Tick \/ Branch \/ Supervise \/ GarbledQuery \/ Fail

(* The job gets its steps, and time goes on; nothing is assumed of the     *)
(* branch, and requests fail no more than MaxFaults times.                 *)
Spec == Init /\ [][Next]_vars /\ WF_vars(Tick) /\ WF_vars(Supervise)

-----------------------------------------------------------------------------
(* Properties                                                              *)

(* Every variable keeps its type.                                          *)
TypeOK ==
  /\ frozen \in 0 .. Oldest
  /\ runs \in [Runs -> ActiveStatuses \cup {"none", "completed"}]
  /\ commits \in Seq(Commit) /\ Len(commits) <= PageSize
  /\ phase \in 0 .. Period - 1
  /\ due \in BOOLEAN
  /\ pc \in {"off", "querying", "reading", "publishing"}
  /\ lag \in 0 .. Timeout
  /\ asked \in 0 .. Len(Statuses)
  /\ found \subseteq Runs
  /\ decision \in States \cup {"none"}
  /\ issue \in States \cup {"none"}

(* A run that stays in one active status while the supervisor looks, even  *)
(* though it looks at one status after the other, is seen; the queries are *)
(* no snapshot, and only a run that moves between them, or is in an answer  *)
(* that was garbled, can slip through (_active_runs).                      *)
SteadyRunCounted ==
  /\ pc = "reading" => steady \subseteq found
  /\ pc = "publishing" /\ steady # {} => decision \in {"WORKING", "WAITING_EXPECTED", "UNKNOWN"}

Green == pc = "reading" /\ Decision = "PROGRESS_CONFIRMED"

(* "Ein alter Fortschrittscommit darf den Status höchstens für das         *)
(* konfigurierte Freshness-Fenster grün halten": progress is confirmed     *)
(* only by a marked commit pushed within the window.  This is what the     *)
(* issue says of the check.  The check itself looks at the commit's date,  *)
(* and takes one ahead of its now for age 0, so it does not hold.          *)
GreenWithinWindow ==
  Green => \E i \in DOMAIN commits : commits[i].marked /\ commits[i].pushed - lag <= Stale

(* What does hold of _fresh_matching_progress: progress is confirmed only  *)
(* by a marked commit that is not dated before the contract was frozen and *)
(* was pushed within the window, unless its committer's clock was ahead;   *)
(* and such a clock stretches the window by no more than its error.        *)
GreenExpires ==
  Green =>
    \E i \in DOMAIN commits :
      /\ commits[i].marked
      /\ commits[i].dated - lag <= contract.frozen
      /\ IF commits[i].dated < commits[i].pushed
           THEN commits[i].pushed - lag <= Stale + ClockError
           ELSE commits[i].pushed - lag <= Stale

(* Nothing has happened for longer than a window and the clock error.      *)
Quiet ==
  /\ policy = Autonomous
  /\ frozen = Oldest
  /\ \A r \in Runs : runs[r] \notin ActiveStatuses
  /\ \A i \in DOMAIN commits : commits[i].pushed = Oldest /\ commits[i].dated = Oldest

(* The issue follows: where all has gone quiet for good it shows the gap   *)
(* for good, and where a run is in progress for good it shows work,        *)
(* whatever it showed before and although requests fail now and then.      *)
IssueFollows ==
  /\ <>[]Quiet => <>[](issue = "EXECUTION_GAP")
  /\ <>[](policy = Autonomous /\ \E r \in Runs : runs[r] = "in_progress")
       => <>[](issue = "WORKING")
=============================================================================
