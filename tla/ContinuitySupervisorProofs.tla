---------------------- MODULE ContinuitySupervisorProofs ----------------------
(***************************************************************************)
(* What a check of the supervisor may rely on, for all runs, windows,      *)
(* clock errors and faults: a run that keeps one active status is seen,    *)
(* and progress that is confirmed was pushed not long ago.                 *)
(***************************************************************************)
EXTENDS ContinuitySupervisor, TLAPS

(* What is still to be seen of a steady run: it is in one of the statuses, *)
(* and once its status has been queried it is found.                       *)
SeenInv ==
  /\ steady \subseteq Runs
  /\ pc = "querying" =>
       \A r \in steady :
         /\ runs[r] \in ActiveStatuses
         /\ \A i \in 1 .. asked : runs[r] = Statuses[i] => r \in found
  /\ SteadyRunCounted

(* A commit is dated no further ahead of its push than clocks are wrong.   *)
DatedInv == \A i \in DOMAIN commits : commits[i].pushed <= commits[i].dated + ClockError

SupervisorInv == TypeOK /\ SeenInv /\ DatedInv

-----------------------------------------------------------------------------
(* The constants, one by one.                                            *)
LEMMA ConstantTypes ==
  /\ Stale \in Nat \ {0} /\ Period \in Nat \ {0} /\ PageSize \in Nat \ {0}
  /\ Timeout \in Nat /\ ClockError \in Nat /\ MaxFaults \in Nat
BY SupervisorAssumption

(* What a step needs of the types, taken apart.                            *)
LEMMA TypeParts ==
  ASSUME TypeOK
  PROVE  /\ frozen \in 0 .. Oldest /\ phase \in 0 .. Period - 1 /\ lag \in 0 .. Timeout
         /\ commits \in Seq(Commit) /\ Len(commits) \in Nat /\ Len(commits) <= PageSize
         /\ DOMAIN commits = 1 .. Len(commits)
         /\ pc \in {"off", "querying", "reading", "publishing"}
         /\ asked \in 0 .. 5 /\ found \subseteq Runs
<1>1. commits \in Seq(Commit) /\ Len(commits) <= PageSize
  BY DEF TypeOK
<1>2. Len(Statuses) = 5
  BY DEF Statuses
<1> QED
  BY <1>1, <1>2 DEF TypeOK

(* Each active status has its query.                                       *)
LEMMA StatusesQueried ==
  /\ Len(Statuses) = 5 /\ DOMAIN Statuses = 1 .. 5
  /\ \A s \in ActiveStatuses : \E i \in 1 .. 5 : s = Statuses[i]
<1>1. Len(Statuses) = 5 /\ DOMAIN Statuses = 1 .. 5
  BY DEF Statuses
<1>2. /\ Statuses[1] = "in_progress" /\ Statuses[2] = "queued" /\ Statuses[3] = "waiting"
      /\ Statuses[4] = "requested" /\ Statuses[5] = "pending"
  BY DEF Statuses
<1> QED
  BY <1>1, <1>2 DEF ActiveStatuses

(* Ages stay in their range, and one stays at least the other.             *)
LEMMA Ageing ==
  /\ Oldest \in Nat /\ Oldest > 1
  /\ \A a \in 0 .. Oldest : Older(a) \in 0 .. Oldest
  /\ \A a \in -ClockError .. Oldest : Older(a) \in -ClockError .. Oldest
  /\ \A p \in 0 .. Oldest, d \in -ClockError .. Oldest :
       p <= d + ClockError => Older(p) <= Older(d) + ClockError
  BY SupervisorAssumption DEF Oldest, Older

(* Time moves nothing but the ages.                                        *)
LEMMA TickInv ==
  ASSUME SupervisorInv, Tick
  PROVE  SupervisorInv'
<1>1. TypeOK /\ SeenInv /\ DatedInv
  BY DEF SupervisorInv
<1>2. frozen' \in 0 .. Oldest
  BY <1>1, TypeParts, Ageing DEF Tick
<1>3. phase' \in 0 .. Period - 1
  <2>1. phase' = (phase + 1) % Period
    BY Zenon DEF Tick
  <2>2. phase + 1 \in Nat
    BY <1>1, TypeParts, ConstantTypes
  <2> QED
    BY <2>1, <2>2, ConstantTypes
<1>4. lag' \in 0 .. Timeout
  <2>1. lag' = lag \/ (lag < Timeout /\ lag' = lag + 1)
    BY DEF Tick
  <2> QED
    BY <1>1, <2>1, TypeParts, ConstantTypes
<1>5. commits' = [i \in DOMAIN commits |->
                    [commits[i] EXCEPT !.dated = Older(@), !.pushed = Older(@)]]
  BY DEF Tick
<1>6. ASSUME NEW i \in DOMAIN commits
      PROVE  /\ commits'[i] \in Commit
             /\ commits'[i].pushed <= commits'[i].dated + ClockError
  <2>1. commits[i] \in Commit
    BY <1>1, TypeParts
  <2>2. commits'[i] = [commits[i] EXCEPT !.dated = Older(@), !.pushed = Older(@)]
    BY <1>5
  <2>3. commits[i].pushed <= commits[i].dated + ClockError
    BY <1>1 DEF DatedInv
  <2> QED
    BY <2>1, <2>2, <2>3, Ageing DEF Commit
<1>7. commits' \in Seq(Commit) /\ Len(commits') = Len(commits)
  <2>1. Len(commits) \in Nat /\ DOMAIN commits = 1 .. Len(commits)
    BY <1>1, TypeParts
  <2>2. commits' \in [1 .. Len(commits) -> Commit]
    BY <1>5, <1>6, <2>1
  <2> QED
    BY <2>1, <2>2
<1>8. UNCHANGED <<policy, runs, pc, contract, asked, found, decision, steady, issue, faults>>
  BY DEF Tick
<1>9. due' \in BOOLEAN
  BY <1>1 DEF Tick, TypeOK
<1>10. TypeOK'
  BY <1>1, <1>2, <1>3, <1>4, <1>7, <1>8, <1>9 DEF TypeOK
<1>11. DatedInv'
  BY <1>5, <1>6 DEF DatedInv
<1>12. SeenInv'
  BY <1>1, <1>8 DEF SeenInv, SteadyRunCounted
<1> QED
  BY <1>10, <1>11, <1>12 DEF SupervisorInv

(* A commit comes on top of the page, and the last may fall off.           *)
LEMMA PushInv ==
  ASSUME SupervisorInv, NEW commit \in Commit, Push(commit),
         commit.pushed <= commit.dated + ClockError
  PROVE  SupervisorInv'
<1> DEFINE page == <<commit>> \o commits
           n == IF Len(commits) < PageSize THEN Len(commits) + 1 ELSE PageSize
<1>1. TypeOK /\ SeenInv /\ DatedInv
  BY DEF SupervisorInv
<1>2. commits \in Seq(Commit) /\ Len(commits) \in Nat /\ DOMAIN commits = 1 .. Len(commits)
  BY <1>1, TypeParts
<1>3. page \in Seq(Commit) /\ Len(page) = Len(commits) + 1
  BY <1>2
<1>4. n \in 1 .. Len(page) /\ n <= PageSize
  BY <1>1, <1>2, <1>3, TypeParts, ConstantTypes
<1>5. \A i \in 1 .. Len(page) : page[i].pushed <= page[i].dated + ClockError
  <2>1. \A i \in 1 .. Len(page) : page[i] = IF i = 1 THEN commit ELSE commits[i - 1]
    BY <1>2, <1>3
  <2>2. \A i \in 1 .. Len(commits) : commits[i].pushed <= commits[i].dated + ClockError
    BY <1>1, <1>2 DEF DatedInv
  <2> QED
    BY <1>2, <1>3, <2>1, <2>2
<1>6. commits' = SubSeq(page, 1, n)
  BY DEF Push
<1> HIDE DEF page, n
<1>7. commits' \in Seq(Commit) /\ Len(commits') = n
  BY <1>3, <1>4, <1>6
<1>8. \A i \in 1 .. n : commits'[i] = page[i]
  BY <1>3, <1>4, <1>6
<1>9. UNCHANGED <<policy, frozen, runs, phase, due, check, steady, issue, faults>>
  BY DEF Push
<1>10. TypeOK'
  BY <1>1, <1>4, <1>7, <1>9 DEF TypeOK, check
<1>11. DatedInv'
  <2>1. DOMAIN commits' = 1 .. n
    BY <1>7
  <2> QED
    BY <1>3, <1>4, <1>5, <1>8, <2>1 DEF DatedInv
<1>12. SeenInv'
  BY <1>1, <1>9 DEF SeenInv, SteadyRunCounted, check
<1> QED
  BY <1>10, <1>11, <1>12 DEF SupervisorInv

(* A run that moves is steady no longer.                                   *)
LEMMA RunMovesInv ==
  ASSUME SupervisorInv, NEW r \in Runs, NEW s \in ActiveStatuses \cup {"completed", "none"},
         RunMoves(r, s)
  PROVE  SupervisorInv'
<1> USE DEF SupervisorInv, RunMoves, check
<1>1. TypeOK'
  BY DEF TypeOK
<1>2. DatedInv'
  BY DEF DatedInv
<1>3. \A x \in steady' : x \in steady /\ runs'[x] = runs[x]
  BY DEF SeenInv, TypeOK
<1>4. SeenInv'
  BY <1>3 DEF SeenInv, SteadyRunCounted
<1> QED
  BY <1>1, <1>2, <1>4

(* One query, answered or garbled, takes the steady runs of one status.    *)
LEMMA QueryInv ==
  ASSUME SupervisorInv, QueryRuns \/ GarbledQuery
  PROVE  SupervisorInv'
<1> USE DEF SupervisorInv
<1>1. /\ pc = "querying" /\ asked \in 0 .. 4 /\ asked' = asked + 1
      /\ pc' = IF asked' = 5 THEN "reading" ELSE "querying"
      /\ UNCHANGED <<branch, phase, due, lag, contract, decision, issue>>
  BY StatusesQueried DEF QueryRuns, GarbledQuery, TypeOK
<1>2. steady' \subseteq steady /\ found \subseteq found' /\ found' \subseteq Runs
  BY DEF QueryRuns, GarbledQuery, Counted, TypeOK
<1>3. \A r \in steady' : runs[r] = Statuses[asked + 1] => r \in found'
  BY SupervisorAssumption DEF QueryRuns, GarbledQuery, Counted, Self, SeenInv
<1>4. \A r \in steady' : /\ runs[r] \in ActiveStatuses
                         /\ \A i \in 1 .. asked + 1 : runs[r] = Statuses[i] => r \in found'
  BY <1>1, <1>2, <1>3 DEF SeenInv
<1>5. asked + 1 = 5 => steady' \subseteq found'
  BY <1>1, <1>4, StatusesQueried
<1>6. TypeOK'
  BY <1>1, <1>2, StatusesQueried DEF TypeOK, branch
<1>7. DatedInv'
  BY <1>1 DEF DatedInv, branch
<1>8. SeenInv'
  BY <1>1, <1>2, <1>4, <1>5 DEF SeenInv, SteadyRunCounted, branch
<1> QED
  BY <1>6, <1>7, <1>8

(* A check begins, decides, and ends with an issue or without.             *)
LEMMA CheckInv ==
  ASSUME SupervisorInv, Start \/ ReadCommits \/ Publish \/ Fail
  PROVE  SupervisorInv'
<1> USE DEF SupervisorInv, branch
<1>1. DatedInv'
  BY DEF Start, ReadCommits, Publish, Fail, DatedInv
<1>2. CASE Start
  <2>0. asked' = 0 /\ found' = {} /\ due' = FALSE
    BY <1>2 DEF Start
  <2>1. asked' \in 0 .. Len(Statuses)
    BY <2>0, StatusesQueried
  <2>2. TypeOK'
    BY <1>2, <2>0, <2>1 DEF Start, TypeOK
  <2>3. SeenInv'
    BY <1>2 DEF Start, SeenInv, SteadyRunCounted
  <2> QED
    BY <1>1, <2>2, <2>3
<1>3. CASE ReadCommits
  <2>1. Decision \in States
    BY DEF Decision, States
  <2>2. TypeOK'
    BY <1>3, <2>1, StatusesQueried DEF ReadCommits, TypeOK
  <2>3. found # {} => Decision \in {"WORKING", "WAITING_EXPECTED", "UNKNOWN"}
    BY DEF Decision
  <2>4. steady \subseteq found
    BY <1>3 DEF ReadCommits, SeenInv, SteadyRunCounted
  <2>5. SeenInv'
    BY <1>3, <2>3, <2>4 DEF ReadCommits, SeenInv, SteadyRunCounted
  <2> QED
    BY <1>1, <2>2, <2>5
<1>4. CASE Publish \/ Fail
  <2>1. TypeOK'
    BY <1>4, StatusesQueried, SupervisorAssumption DEF Publish, Fail, End, TypeOK
  <2>2. SeenInv'
    BY <1>4 DEF Publish, Fail, End, SeenInv, SteadyRunCounted
  <2> QED
    BY <1>1, <2>1, <2>2
<1> QED
  BY <1>2, <1>3, <1>4

-----------------------------------------------------------------------------
(* What a check knows and what the branch is stays consistent, whatever    *)
(* moves, fails or is pushed meanwhile.                                    *)
THEOREM SupervisorInvariant == Spec => []SupervisorInv
<1>1. Init => SupervisorInv
  <2> SUFFICES ASSUME Init PROVE SupervisorInv
    OBVIOUS
  <2> USE DEF Init
  <2>1. commits \in Seq(Commit) /\ Len(commits) \in 0 .. 1 /\ DatedInv
    <3>1. CASE commits = <<>>
      BY <3>1 DEF DatedInv
    <3>2. CASE commits = <<[marked |-> TRUE, dated |-> 1, pushed |-> 1]>>
      <4>1. [marked |-> TRUE, dated |-> 1, pushed |-> 1] \in Commit
        BY Ageing, SupervisorAssumption DEF Commit
      <4> QED
        BY <3>2, <4>1, SupervisorAssumption DEF DatedInv
    <3> QED
      BY <3>1, <3>2
  <2>2. /\ frozen \in 0 .. Oldest /\ phase \in 0 .. Period - 1 /\ lag \in 0 .. Timeout
        /\ asked \in 0 .. Len(Statuses) /\ Len(commits) <= PageSize
    <3>1. Len(Statuses) = 5
      BY StatusesQueried
    <3>2. frozen \in 0 .. Oldest /\ lag \in 0 .. Timeout
      BY Ageing, ConstantTypes
    <3>3. phase \in 0 .. Period - 1
      BY ConstantTypes
    <3>4. asked \in 0 .. Len(Statuses)
      BY <3>1
    <3>5. Len(commits) <= PageSize
      <4>1. \A k \in 0 .. 1 : k <= PageSize
        BY ConstantTypes
      <4>2. Len(commits) \in 0 .. 1
        BY <2>1
      <4> QED
        BY <4>1, <4>2, Zenon
    <3> QED
      BY <3>2, <3>3, <3>4, <3>5
  <2>3. TypeOK
    BY <2>1, <2>2 DEF TypeOK
  <2>4. SeenInv
    BY DEF SeenInv, SteadyRunCounted
  <2> QED
    BY <2>1, <2>3, <2>4 DEF SupervisorInv
<1>2. SupervisorInv /\ [Next]_vars => SupervisorInv'
  <2> SUFFICES ASSUME SupervisorInv, [Next]_vars PROVE SupervisorInv'
    OBVIOUS
  <2>1. CASE Tick
    BY <2>1, TickInv
  <2>2. ASSUME NEW r \in Runs, NEW s \in ActiveStatuses \cup {"completed", "none"},
               RunMoves(r, s)
        PROVE  SupervisorInv'
    BY <2>2, RunMovesInv
  <2>3. CASE Push(Unmarked)
    <3>1. Unmarked \in Commit /\ Unmarked.pushed <= Unmarked.dated + ClockError
      BY Ageing, SupervisorAssumption DEF Unmarked, Commit
    <3> QED
      BY <2>3, <3>1, PushInv
  <2>4. ASSUME NEW ahead \in {0, ClockError},
               Push([marked |-> TRUE, dated |-> -ahead, pushed |-> 0])
        PROVE  SupervisorInv'
    <3> DEFINE c == [marked |-> TRUE, dated |-> -ahead, pushed |-> 0]
    <3>1. c \in Commit /\ c.pushed <= c.dated + ClockError
      <4>1. -ahead \in -ClockError .. Oldest /\ 0 <= -ahead + ClockError /\ 0 \in 0 .. Oldest
        BY Ageing, SupervisorAssumption
      <4> QED
        BY <4>1 DEF Commit
    <3> HIDE DEF c
    <3>2. Push(c)
      BY <2>4 DEF c
    <3> QED
      BY <3>1, <3>2, PushInv
  <2>5. ASSUME NEW p \in Policies, Freeze(p)
        PROVE  SupervisorInv'
    BY <2>5, Ageing
       DEF Freeze, SupervisorInv, TypeOK, SeenInv, SteadyRunCounted, DatedInv, check
  <2>6. CASE Supervise \/ GarbledQuery \/ Fail
    BY <2>6, QueryInv, CheckInv DEF Supervise
  <2>7. CASE UNCHANGED vars
    BY <2>7 DEF vars, branch, check, SupervisorInv, TypeOK, SeenInv, SteadyRunCounted, DatedInv
  <2> QED
    BY <2>1, <2>2, <2>3, <2>4, <2>5, <2>6, <2>7 DEF Next, Branch
<1> QED
  BY <1>1, <1>2, PTL DEF Spec

(* Every variable keeps its type, with any number of runs and commits.     *)
THEOREM TypeCorrect == Spec => []TypeOK
BY SupervisorInvariant, PTL DEF SupervisorInv

(* No run that stays active in one status is overlooked, though the        *)
(* statuses are asked for one after the other (_active_runs).              *)
THEOREM SteadyRunsAreSeen == Spec => []SteadyRunCounted
<1>1. SupervisorInv => SteadyRunCounted
  BY DEF SupervisorInv, SeenInv
<1> QED
  BY <1>1, SupervisorInvariant, PTL

(* Progress is confirmed only by a marked commit that is dated at or after *)
(* the freeze and was pushed within the freshness window, which only a     *)
(* clock ahead stretches, by its error (_fresh_matching_progress).         *)
THEOREM ProgressExpires == Spec => []GreenExpires
<1>1. SupervisorInv => GreenExpires
  <2> SUFFICES ASSUME SupervisorInv, Decision = "PROGRESS_CONFIRMED"
               PROVE  \E i \in DOMAIN commits :
                        /\ commits[i].marked
                        /\ commits[i].dated - lag <= contract.frozen
                        /\ IF commits[i].dated < commits[i].pushed
                             THEN commits[i].pushed - lag <= Stale + ClockError
                             ELSE commits[i].pushed - lag <= Stale
    BY DEF GreenExpires, Green
  <2>1. FreshProgress
    BY DEF Decision
  <2>2. PICK i \in DOMAIN commits :
          CommitMatches(commits[i]) /\ commits[i].dated - lag <= Stale
    BY <2>1 DEF FreshProgress
  <2>3. commits[i] \in Commit /\ lag \in Nat /\ Stale \in Nat /\ ClockError \in Nat
    BY SupervisorAssumption DEF SupervisorInv, TypeOK
  <2>4. commits[i].pushed \in Int /\ commits[i].dated \in Int
    BY <2>3, Ageing DEF Commit
  <2>5. commits[i].pushed <= commits[i].dated + ClockError
    BY DEF SupervisorInv, DatedInv
  <2> QED
    BY <2>2, <2>3, <2>4, <2>5 DEF CommitMatches
<1> QED
  BY <1>1, SupervisorInvariant, PTL
=============================================================================
