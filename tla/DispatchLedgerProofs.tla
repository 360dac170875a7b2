------------------------ MODULE DispatchLedgerProofs ------------------------
(***************************************************************************)
(* Theorems about DispatchLedger, for any number of keys, executors, items *)
(* and faults, and about DispatchReconciliation, for any number of         *)
(* reconcilers beside them.                                                *)
(***************************************************************************)
EXTENDS DispatchReconciliation, FiniteSetTheorems, TLAPS

(* An item that passes the gates has room for at least one attempt, or a   *)
(* negative retry count: the last gate of `decide` compares the count with *)
(* the limit.                                                              *)
LEMMA GateLeavesRoom ==
  ASSUME NEW item \in Items, MayDispatch(item, {})
  PROVE  WithinLimit(item.dedupe_key, 1, item.retry_limit)
<1>1. 21 \in DOMAIN Gates(item, {})
  BY DEF Gates
<1>2. ~Gates(item, {})[21].fires
  BY <1>1 DEF MayDispatch
<1>3. Gates(item, {})[21].fires
        <=> (item.circuit_open \/ item.retry_count >= item.retry_limit)
  BY DEF Gates, Gate
<1>4. item.retry_count \in Int /\ item.retry_limit \in Int
  BY LedgerAssumption DEF WorkItem
<1>5. item.retry_count < item.retry_limit
  BY <1>2, <1>3, <1>4
<1>6. CASE item.retry_count < 0
  BY <1>6 DEF WithinLimit, NegativeCount
<1>7. CASE ~(item.retry_count < 0)
  BY <1>4, <1>5, <1>7 DEF WithinLimit
<1> QED
  BY <1>6, <1>7

LEMMA ItemTypes ==
  ASSUME NEW item \in Items
  PROVE  item \in WorkItem /\ item.dedupe_key \in Keys /\ item.retry_limit \in Int
BY LedgerAssumption DEF WorkItem

LEMMA InitInv == Init => LedgerInv
<1> SUFFICES ASSUME Init PROVE LedgerInv
  OBVIOUS
<1>1. TypeOK
  <2>1. claims \in [Keys -> [status : Statuses, attempts : Nat, limit : Int]]
    BY DEF Init, Statuses
  <2>2. audit \in [Keys -> Seq(Events)] /\ runs \in [Keys -> Seq(RunStates)]
    BY DEF Init
  <2>3. faults \in 0 .. MaxFaults
    BY LedgerAssumption DEF Init
  <2> QED
    BY <2>1, <2>2, <2>3 DEF Init, TypeOK, Outcomes
<1>2. ExclusiveClaim /\ HolderInv /\ RunInv
  BY DEF Init, ExclusiveClaim, HolderInv, RunInv, RunOK, Active
<1>3. LaunchBound /\ EffectOnce /\ SuccessIsReal
  BY DEF Init, LaunchBound, WithinLimit, EffectOnce, SuccessIsReal
<1>4. ReportedSuccessIsDurable /\ RowInv
  BY DEF Init, ReportedSuccessIsDurable, RowInv, Dispatched
<1> QED
  BY <1>1, <1>2, <1>3, <1>4 DEF LedgerInv

-----------------------------------------------------------------------------
(* The outcome of a refused item is neither a dispatch nor a duplicate     *)
(* (the executor of the durable ledger keeps no completed keys in memory). *)
LEMMA RefusalOutcome ==
  ASSUME NEW item \in WorkItem, ~MayDispatch(item, {})
  PROVE  Decide(item, {}) \in Outcomes \ (Dispatched \cup {"NOOP_DUPLICATE"})
<1> DEFINE gates == Gates(item, {})
           fired == {i \in DOMAIN gates : gates[i].fires}
           first == CHOOSE i \in fired : \A j \in fired : i <= j
<1>1. DOMAIN gates = 1 .. 21
  BY DEF Gates
<1>2. fired # {} /\ fired \subseteq Nat
  BY <1>1 DEF MayDispatch
<1>3. \E i \in fired : \A j \in fired : i <= j
  BY <1>1, <1>2, SMTT(60)
<1>4. first \in fired
  BY <1>3
<1>5. first \in 1 .. 21 /\ gates[first].fires
  BY <1>1, <1>4
<1>6. ~gates[14].fires
  BY DEF Gates, Gate
<1>7. first \in (1 .. 21) \ {14}
  BY <1>5, <1>6
<1>8. \A i \in (1 .. 21) \ {14} :
        gates[i].outcome \in Outcomes \ (Dispatched \cup {"NOOP_DUPLICATE"})
  BY SMTT(60) DEF Gates, Gate, Outcomes, Dispatched
<1>9. Decide(item, {}) = gates[first].outcome
  BY <1>2 DEF Decide, FirstOf
<1> QED
  BY <1>7, <1>8, <1>9

(* A call that ends without the key leaves the invariant alone.            *)
LEMMA AnswerInv ==
  ASSUME LedgerInv, NEW e \in Executors, NEW item \in Items, NEW o \in Outcomes,
         pc[e] = "idle", Answer(e, item, o), o \notin Dispatched,
         o = "NOOP_DUPLICATE" => claims[item.dedupe_key].status = "SUCCEEDED",
         UNCHANGED <<claims, runs>>,
         audit' \in [Keys -> Seq(Events)], faults' \in 0 .. MaxFaults
  PROVE  LedgerInv'
<1> USE DEF LedgerInv, Answer, TypeOK
<1>1. TypeOK'
  OBVIOUS
<1>2. \A f \in Executors, k \in Keys : Active(f, k)' <=> Active(f, k)
  BY DEF Active, Key
<1>3. \A f \in Executors : pc[f] # "idle" => work'[f] = work[f] /\ decision'[f] = decision[f]
  OBVIOUS
<1>4. ExclusiveClaim'
  BY <1>2 DEF ExclusiveClaim
<1>5. LaunchBound' /\ EffectOnce' /\ SuccessIsReal'
  BY DEF LaunchBound, EffectOnce, SuccessIsReal
<1>6. ReportedSuccessIsDurable'
  BY DEF ReportedSuccessIsDurable, Key
<1>7. HolderInv'
  BY <1>3 DEF HolderInv, Key
<1>8. RunInv'
  <2> SUFFICES ASSUME NEW f \in Executors
               PROVE  RunOK(f)'
    BY DEF RunInv
  <2>1. CASE pc[f] = "idle"
    BY <2>1 DEF RunInv, RunOK
  <2>2. CASE pc[f] # "idle"
    <3>1. Key(f)' = Key(f)
      BY <1>3, <2>2 DEF Key
    <3> QED
      BY <3>1 DEF RunInv, RunOK
  <2> QED
    BY <2>1, <2>2
<1>9. RowInv'
  BY <1>2 DEF RowInv, Open
<1> QED
  BY <1>1, <1>4, <1>5, <1>6, <1>7, <1>8, <1>9

(* A working executor works on one of the keys, and so did one that has    *)
(* returned a decision.                                                    *)
LEMMA WorkingKey ==
  ASSUME LedgerInv, NEW e \in Executors, pc[e] # "idle" \/ decision[e] # "none"
  PROVE  work[e] \in Items /\ Key(e) \in Keys
BY ItemTypes DEF LedgerInv, HolderInv, Key

(* Granting a claim: the key was open, so nobody was working on it.        *)
LEMMA GrantInv ==
  ASSUME LedgerInv, NEW e \in Executors, NEW item \in Items, NEW n \in Nat, NEW l \in Int,
         NEW event \in Events,
         pc[e] = "idle", Grant(e, item, n, l, event),
         claims[item.dedupe_key].status \in {"ABSENT", "FAILED_RETRYABLE"},
         n = claims[item.dedupe_key].attempts + 1, WithinLimit(item.dedupe_key, n, l)
  PROVE  LedgerInv'
<1> DEFINE k == item.dedupe_key
<1>0. /\ TypeOK /\ ExclusiveClaim /\ LaunchBound /\ EffectOnce /\ SuccessIsReal
      /\ ReportedSuccessIsDurable /\ HolderInv /\ RunInv /\ RowInv
  BY DEF LedgerInv
<1>t. /\ claims \in [Keys -> [status : Statuses, attempts : Nat, limit : Int]]
      /\ runs \in [Keys -> Seq(RunStates)]
      /\ \A m \in Keys : Len(runs[m]) \in Nat /\ DOMAIN runs[m] = 1 .. Len(runs[m])
  BY <1>0 DEF TypeOK
<1>1. k \in Keys
  BY ItemTypes
<1>2. TypeOK'
  <2>1. claims' \in [Keys -> [status : Statuses, attempts : Nat, limit : Int]]
    BY <1>t, <1>1 DEF Grant, Statuses
  <2>2. audit' \in [Keys -> Seq(Events)]
    BY <1>0, <1>1 DEF TypeOK, Grant, Record
  <2> QED
    BY <1>0, <2>1, <2>2 DEF TypeOK, Grant, Outcomes
<1>3. \A f \in Executors : ~Active(f, k)
  BY <1>0, <1>1 DEF ExclusiveClaim
<1>4. \A f \in Executors : f # e => /\ pc'[f] = pc[f] /\ work'[f] = work[f] /\ Key(f)' = Key(f)
                                    /\ attempt'[f] = attempt[f] /\ decision'[f] = decision[f]
  BY <1>0 DEF TypeOK, Grant, Key
<1>5. pc'[e] = "claimed" /\ work'[e] = item /\ Key(e)' = k /\ attempt'[e] = n /\ decision'[e] = "none"
  BY <1>0 DEF TypeOK, Grant, Key
<1>6. claims'[k] = [status |-> "CLAIMED", attempts |-> n, limit |-> l]
  BY <1>t, <1>1 DEF Grant
<1>7. \A m \in Keys : m # k => claims'[m] = claims[m]
  BY <1>t DEF Grant
<1>8. UNCHANGED <<runs, run, answer>>
  BY DEF Grant
<1>9. ExclusiveClaim'
  BY <1>0, <1>1, <1>3, <1>4, <1>5, <1>6, <1>7 DEF ExclusiveClaim, Active
<1>10. LaunchBound' /\ EffectOnce' /\ SuccessIsReal'
  <2>1. LaunchBound'
    <3> SUFFICES ASSUME NEW m \in Keys
                 PROVE  /\ Len(runs'[m]) <= claims'[m].attempts
                        /\ WithinLimit(m, claims'[m].attempts, claims'[m].limit)
      BY DEF LaunchBound, WithinLimit, NegativeCount
    <3>1. Len(runs[m]) <= claims[m].attempts /\ claims[m].attempts \in Nat
      BY <1>0, <1>t DEF LaunchBound
    <3>2. CASE m = k
      BY <3>1, <3>2, <1>t, <1>6, <1>8
    <3>3. CASE m # k
      BY <3>3, <1>0, <1>7, <1>8 DEF LaunchBound
    <3> QED
      BY <3>2, <3>3
  <2>2. EffectOnce' /\ SuccessIsReal'
    BY <1>0, <1>6, <1>7, <1>8 DEF EffectOnce, SuccessIsReal
  <2> QED
    BY <2>1, <2>2
<1>11. ReportedSuccessIsDurable'
  BY <1>0, <1>4, <1>5, <1>6, <1>7, WorkingKey DEF ReportedSuccessIsDurable, Dispatched
<1>12. HolderInv'
  BY <1>0, <1>3, <1>4, <1>5, <1>6, <1>7, WorkingKey DEF HolderInv, Active
<1>13. RunInv'
  <2> SUFFICES ASSUME NEW f \in Executors
               PROVE  RunOK(f)'
    BY DEF RunInv
  <2>1. CASE f = e
    <3>1. Len(runs[k]) < n
      BY <1>0, <1>t, <1>1 DEF LaunchBound
    <3>2. answer[e] = "none"
      BY <1>0 DEF RunInv, RunOK
    <3> QED
      BY <2>1, <3>1, <3>2, <1>5, <1>6, <1>8 DEF RunOK
  <2>2. CASE f # e /\ pc[f] = "idle"
    BY <2>2, <1>4, <1>8, <1>0 DEF RunInv, RunOK
  <2>3. CASE f # e /\ pc[f] # "idle"
    <3>1. Key(f) \in Keys /\ Key(f) # k
      BY <2>3, <1>3, WorkingKey DEF Active
    <3> QED
      BY <2>3, <3>1, <1>4, <1>7, <1>8, <1>0 DEF RunInv, RunOK
  <2> QED
    BY <2>1, <2>2, <2>3
<1>14. RowInv'
  <2>1. \A i \in DOMAIN runs[k] : runs[k][i] = "FAILED"
    BY <1>0, <1>1 DEF RowInv, Open
  <2>2. \A m \in Keys : m # k => (Open(m)' => Open(m))
    BY <1>4, <1>5, <1>7 DEF Open, Active
  <2> QED
    BY <1>0, <2>1, <2>2, <1>6, <1>7, <1>8 DEF RowInv
<1> QED
  BY <1>2, <1>9, <1>10, <1>11, <1>12, <1>13, <1>14 DEF LedgerInv

(* The parts of the invariant, and the types most steps need.              *)
LEMMA InvParts ==
  ASSUME LedgerInv
  PROVE  /\ TypeOK /\ ExclusiveClaim /\ LaunchBound /\ EffectOnce /\ SuccessIsReal
         /\ ReportedSuccessIsDurable /\ HolderInv /\ RunInv /\ RowInv
         /\ claims \in [Keys -> [status : Statuses, attempts : Nat, limit : Int]]
         /\ runs \in [Keys -> Seq(RunStates)]
         /\ \A k \in Keys : Len(runs[k]) \in Nat /\ DOMAIN runs[k] = 1 .. Len(runs[k])
BY DEF LedgerInv, TypeOK

(* A call that ends without a word to the ledger.                          *)
LEMMA ReturnInv ==
  ASSUME LedgerInv, NEW e \in Executors, NEW o \in Outcomes,
         pc[e] # "idle", Return(e, o), o \notin Dispatched \cup {"NOOP_DUPLICATE"},
         UNCHANGED ledgerVars, faults' \in 0 .. MaxFaults
  PROVE  LedgerInv'
<1>1. UNCHANGED <<claims, audit, runs, work>>
  BY DEF ledgerVars, Return
<1>2. /\ pc'[e] = "idle" /\ answer'[e] = "none" /\ decision'[e] = o
      /\ \A f \in Executors : f # e =>
           /\ pc'[f] = pc[f] /\ attempt'[f] = attempt[f] /\ run'[f] = run[f]
           /\ answer'[f] = answer[f] /\ decision'[f] = decision[f]
  BY InvParts DEF TypeOK, Return
<1>3. \A f \in Executors : Key(f)' = Key(f)
  BY <1>1 DEF Key
<1>4. \A f \in Executors, k \in Keys : Active(f, k)' => Active(f, k) /\ f # e
  BY <1>2, <1>3 DEF Active
<1>5. TypeOK'
  BY <1>1, InvParts DEF TypeOK, Return
<1>6. ExclusiveClaim'
  BY <1>1, <1>4, InvParts DEF ExclusiveClaim
<1>7. LaunchBound' /\ EffectOnce' /\ SuccessIsReal'
  BY <1>1, InvParts DEF LaunchBound, EffectOnce, SuccessIsReal
<1>8. ReportedSuccessIsDurable'
  BY <1>1, <1>2, <1>3, InvParts DEF ReportedSuccessIsDurable
<1>9. HolderInv'
  BY <1>1, <1>2, <1>3, InvParts DEF HolderInv
<1>10. RunInv'
  BY <1>1, <1>2, <1>3, InvParts DEF RunInv, RunOK
<1>11. \A k \in Keys : Open(k)' => Open(k)
  BY <1>1, <1>2, <1>4 DEF Open
<1>12. RowInv'
  BY <1>1, <1>11, InvParts DEF RowInv
<1> QED
  BY <1>5, <1>6, <1>7, <1>8, <1>9, <1>10, <1>12 DEF LedgerInv

(* The callback starts: the holder had a launch left, and all runs before  *)
(* failed cleanly.                                                         *)
LEMMA DispatchInv ==
  ASSUME LedgerInv, NEW e \in Executors, Dispatch(e)
  PROVE  LedgerInv'
<1>0. PICK k \in Keys : k = Key(e)
  BY WorkingKey DEF Dispatch
<1>1. pc[e] = "claimed" /\ k = Key(e) /\ Active(e, k)
  BY <1>0 DEF Dispatch, Active
<1>2. UNCHANGED <<claims, audit, work, attempt, answer, decision, faults>>
  BY DEF Dispatch
<1>3. /\ pc'[e] = "dispatching" /\ run'[e] = Len(runs[k]) + 1
      /\ \A f \in Executors : f # e => pc'[f] = pc[f] /\ run'[f] = run[f]
  BY <1>1, InvParts DEF TypeOK, Dispatch
<1>4. /\ runs'[k] = Append(runs[k], "RUNNING")
      /\ \A m \in Keys : m # k => runs'[m] = runs[m]
  BY <1>1, InvParts DEF Dispatch
<1>5. /\ Len(runs'[k]) = Len(runs[k]) + 1 /\ DOMAIN runs'[k] = 1 .. Len(runs[k]) + 1
      /\ \A i \in 1 .. Len(runs[k]) : runs'[k][i] = runs[k][i]
  BY <1>1, <1>4, InvParts DEF RunStates
<1>6. \A f \in Executors : Key(f)' = Key(f)
  BY <1>2 DEF Key
<1>7. \A f \in Executors, m \in Keys : Active(f, m)' <=> Active(f, m)
  BY <1>1, <1>3, <1>6 DEF Active
<1>8. TypeOK'
  <2>1. runs' \in [Keys -> Seq(RunStates)]
    BY <1>1, InvParts DEF Dispatch, RunStates
  <2>2. run' \in [Executors -> Nat]
    BY <1>1, InvParts DEF Dispatch, TypeOK
  <2> QED
    BY <1>2, <2>1, <2>2, InvParts DEF Dispatch, TypeOK
<1>9. ExclusiveClaim'
  BY <1>2, <1>7, InvParts DEF ExclusiveClaim
<1>10. LaunchBound'
  <2> SUFFICES ASSUME NEW m \in Keys
               PROVE  /\ Len(runs'[m]) <= claims[m].attempts
                      /\ WithinLimit(m, claims[m].attempts, claims[m].limit)
    BY <1>2 DEF LaunchBound
  <2>1. Len(runs[k]) < claims[k].attempts
    BY <1>1, InvParts DEF RunInv, RunOK
  <2>2. claims[k].attempts \in Nat /\ Len(runs[k]) \in Nat
    BY InvParts
  <2>3. CASE m = k
    BY <2>1, <2>2, <2>3, <1>5, InvParts DEF LaunchBound
  <2>4. CASE m # k
    BY <2>4, <1>4, InvParts DEF LaunchBound
  <2> QED
    BY <2>3, <2>4
<1>11. \A i \in DOMAIN runs[k] : runs[k][i] = "FAILED"
  BY <1>1, InvParts DEF RowInv, Open
<1>12. EffectOnce'
  <2> SUFFICES ASSUME NEW m \in Keys, NEW i \in DOMAIN runs'[m], i < Len(runs'[m])
               PROVE  runs'[m][i] = "FAILED"
    BY DEF EffectOnce
  <2>1. CASE m = k
    <3>1. i \in 1 .. Len(runs[k])
      BY <2>1, <1>5, InvParts
    <3> QED
      BY <2>1, <3>1, <1>5, <1>11, InvParts
  <2>2. CASE m # k
    BY <2>2, <1>4, InvParts DEF EffectOnce
  <2> QED
    BY <2>1, <2>2
<1>13. SuccessIsReal'
  <2>1. claims[k].status # "SUCCEEDED"
    BY <1>1, InvParts DEF ExclusiveClaim
  <2> QED
    BY <2>1, <1>1, <1>2, <1>4, InvParts DEF SuccessIsReal
<1>14. ReportedSuccessIsDurable' /\ HolderInv'
  BY <1>1, <1>2, <1>3, <1>6, InvParts DEF ReportedSuccessIsDurable, HolderInv
<1>15. RunInv'
  <2> SUFFICES ASSUME NEW f \in Executors
               PROVE  RunOK(f)'
    BY DEF RunInv
  <2>1. RunOK(f) /\ answer'[f] = answer[f]
    BY <1>2, InvParts DEF RunInv
  <2>2. CASE f = e
    <3>1. answer'[f] = "none"
      BY <2>1, <2>2, <1>1 DEF RunOK
    <3> QED
      BY <2>2, <3>1, <1>1, <1>3, <1>5, <1>6, InvParts DEF RunOK
  <2>3. CASE f # e /\ pc[f] = "idle"
    BY <2>1, <2>3, <1>3 DEF RunOK
  <2>4. CASE f # e /\ pc[f] # "idle"
    <3>1. PICK m \in Keys : m = Key(f)
      BY <2>4, WorkingKey
    <3>2. m # k
      BY <2>4, <3>1, <1>1, InvParts DEF ExclusiveClaim, Active
    <3>3. runs'[m] = runs[m] /\ claims'[m] = claims[m] /\ Key(f)' = m
      BY <3>1, <3>2, <1>2, <1>4, <1>6
    <3> QED
      BY <2>1, <2>4, <3>1, <3>3, <1>3 DEF RunOK
  <2> QED
    BY <2>2, <2>3, <2>4
<1>16. RowInv'
  <2>1. \A m \in Keys : Open(m)' => Open(m) /\ m # k
    <3>1. ~Open(k)'
      <4>1. claims[k].status \in {"CLAIMED", "ALIEN"}
        BY <1>1, InvParts DEF ExclusiveClaim
      <4>2. \A f \in Executors : Active(f, k)' => f = e
        BY <1>1, <1>7, InvParts DEF ExclusiveClaim
      <4> QED
        BY <4>1, <4>2, <1>2, <1>3 DEF Open
    <3> QED
      BY <3>1, <1>2, <1>3, <1>7 DEF Open
  <2> QED
    BY <2>1, <1>2, <1>4, InvParts DEF RowInv
<1> QED
  BY <1>8, <1>9, <1>10, <1>12, <1>13, <1>14, <1>15, <1>16 DEF LedgerInv

(* A run that ends was still running, so no part of the invariant that     *)
(* rests on a finished run is disturbed.                                   *)
LEMMA RunEndsInv ==
  ASSUME LedgerInv, NEW k \in Keys, RunEnds(k)
  PROVE  LedgerInv'
<1>1. UNCHANGED <<claims, audit, pc, work, attempt, run, answer, decision, faults>>
  BY DEF RunEnds, callVars
<1>2. PICK i \in DOMAIN runs[k], s \in RunStates :
        runs[k][i] = "RUNNING" /\ runs' = [runs EXCEPT ![k][i] = s]
  BY DEF RunEnds
<1>3. runs' \in [Keys -> Seq(RunStates)]
  BY <1>2, InvParts
<1>4. \A m \in Keys :
        /\ Len(runs'[m]) = Len(runs[m]) /\ DOMAIN runs'[m] = DOMAIN runs[m]
        /\ \A j \in DOMAIN runs[m] : runs[m][j] # "RUNNING" => runs'[m][j] = runs[m][j]
  BY <1>2, InvParts
<1>5. \A f \in Executors : Key(f)' = Key(f)
  BY <1>1 DEF Key
<1>6. \A m \in Keys, f \in Executors : Active(f, m)' <=> Active(f, m)
  BY <1>1, <1>5 DEF Active
<1>o. \A m \in Keys : Open(m)' => Open(m)
  BY <1>1, <1>6 DEF Open
<1>7. TypeOK'
  BY <1>1, <1>3, InvParts DEF TypeOK
<1>8. ExclusiveClaim' /\ HolderInv' /\ ReportedSuccessIsDurable'
  <2>1. ExclusiveClaim'
    BY <1>1, <1>6, InvParts DEF ExclusiveClaim
  <2>2. HolderInv'
    BY <1>1, <1>5, InvParts DEF HolderInv
  <2>3. ReportedSuccessIsDurable'
    BY <1>1, <1>5, InvParts DEF ReportedSuccessIsDurable
  <2> QED
    BY <2>1, <2>2, <2>3
<1>9. LaunchBound'
  BY <1>1, <1>4, InvParts DEF LaunchBound
<1>10. EffectOnce'
  BY <1>4, InvParts DEF EffectOnce
<1>11. SuccessIsReal'
  BY <1>1, <1>4, InvParts DEF SuccessIsReal
<1>12. RunInv'
  <2> SUFFICES ASSUME NEW f \in Executors
               PROVE  RunOK(f)'
    BY DEF RunInv
  <2>1. RunOK(f)
    BY InvParts DEF RunInv
  <2>2. CASE pc[f] = "idle"
    BY <2>1, <2>2, <1>1 DEF RunOK
  <2>3. CASE pc[f] # "idle"
    <3>1. PICK m \in Keys : m = Key(f)
      BY <2>3, WorkingKey
    <3>2. answer[f] # "none" => run[f] \in DOMAIN runs[m]
      BY <2>1, <3>1, InvParts DEF RunOK
    <3>3. /\ answer[f] = "success" => runs'[m][run[f]] = "SUCCEEDED"
          /\ answer[f] = "failure" => runs'[m][run[f]] = "FAILED"
      BY <2>1, <3>1, <3>2, <1>4 DEF RunOK
    <3> QED
      BY <2>1, <3>1, <3>3, <1>1, <1>4, <1>5 DEF RunOK
  <2> QED
    BY <2>2, <2>3
<1>13. RowInv'
  <2> SUFFICES ASSUME NEW m \in Keys
               PROVE  /\ claims'[m].status = "ABSENT" => claims'[m].attempts = 0
                      /\ Open(m)' => \A j \in DOMAIN runs'[m] : runs'[m][j] = "FAILED"
    BY DEF RowInv
  <2>1. claims[m].status = "ABSENT" => claims[m].attempts = 0
    BY InvParts DEF RowInv
  <2>2. Open(m) => \A j \in DOMAIN runs[m] : runs[m][j] = "FAILED"
    BY InvParts DEF RowInv
  <2> QED
    BY <2>1, <2>2, <1>1, <1>4, <1>o
<1> QED
  BY <1>7, <1>8, <1>9, <1>10, <1>11, <1>12, <1>13 DEF LedgerInv

(* What the callback reports about the executor's run is what happened.    *)
LEMMA CallbackInv ==
  ASSUME LedgerInv, NEW e \in Executors, CallbackReturns(e)
  PROVE  LedgerInv'
<1>1. UNCHANGED <<claims, audit, runs, work, attempt, run, decision, faults>>
  BY DEF CallbackReturns, ledgerVars
<1>2. PICK a \in {"success", "failure", "uncertain"} :
        /\ MayAnswer(e, a) /\ pc[e] = "dispatching"
        /\ pc' = [pc EXCEPT ![e] = "returned"] /\ answer' = [answer EXCEPT ![e] = a]
  BY DEF CallbackReturns
<1>3. /\ pc'[e] = "returned" /\ answer'[e] = a
      /\ \A f \in Executors : f # e => pc'[f] = pc[f] /\ answer'[f] = answer[f]
  BY <1>2, InvParts DEF TypeOK
<1>4. \A f \in Executors : Key(f)' = Key(f)
  BY <1>1 DEF Key
<1>5. \A f \in Executors, k \in Keys : Active(f, k)' <=> Active(f, k)
  BY <1>2, <1>3, <1>4 DEF Active
<1>6. \A k \in Keys : Open(k)' => Open(k)
  BY <1>1, <1>2, <1>3, <1>5 DEF Open
<1>7. TypeOK'
  BY <1>1, <1>2, InvParts DEF TypeOK
<1>8. ExclusiveClaim'
  BY <1>1, <1>5, InvParts DEF ExclusiveClaim
<1>9. LaunchBound' /\ EffectOnce' /\ SuccessIsReal'
  BY <1>1, InvParts DEF LaunchBound, EffectOnce, SuccessIsReal
<1>10. HolderInv'
  BY <1>1, <1>2, <1>3, <1>4, InvParts DEF HolderInv
<1>11. ReportedSuccessIsDurable'
  BY <1>1, <1>4, InvParts DEF ReportedSuccessIsDurable
<1>12. RunInv'
  <2> SUFFICES ASSUME NEW f \in Executors
               PROVE  RunOK(f)'
    BY DEF RunInv
  <2>1. RunOK(f)
    BY InvParts DEF RunInv
  <2>2. CASE f = e
    BY <2>1, <2>2, <1>1, <1>2, <1>3, <1>4 DEF RunOK, MayAnswer
  <2>3. CASE f # e
    BY <2>1, <2>3, <1>1, <1>3, <1>4 DEF RunOK
  <2> QED
    BY <2>2, <2>3
<1>13. RowInv'
  BY <1>1, <1>6, InvParts DEF RowInv
<1> QED
  BY <1>7, <1>8, <1>9, <1>10, <1>11, <1>12, <1>13 DEF LedgerInv

(* Recording the result of a run: a success only if the run succeeded, a   *)
(* retryable failure only if the run failed cleanly, as all runs before.   *)
LEMMA MarkInv ==
  ASSUME LedgerInv, NEW e \in Executors, NEW o \in Outcomes,
         NEW status \in {"SUCCEEDED", "FAILED_RETRYABLE", "RECONCILE_REQUIRED"},
         pc[e] = "returned", Mark(e, status, o),
         status = "SUCCEEDED" => answer[e] = "success",
         status = "FAILED_RETRYABLE" => answer[e] = "failure",
         o \in Dispatched \cup {"NOOP_DUPLICATE"} => status = "SUCCEEDED"
  PROVE  LedgerInv'
<1>0. PICK k \in Keys : k = Key(e)
  BY WorkingKey
<1>1. Active(e, k) /\ claims[k].status \in {"CLAIMED", "ALIEN"}
  BY <1>0, InvParts DEF Active, ExclusiveClaim
<1>2. UNCHANGED <<runs, work, faults>>
  BY DEF Mark, Return
<1>3. /\ pc'[e] = "idle" /\ answer'[e] = "none" /\ decision'[e] = o
      /\ \A f \in Executors : f # e =>
           /\ pc'[f] = pc[f] /\ attempt'[f] = attempt[f] /\ run'[f] = run[f]
           /\ answer'[f] = answer[f] /\ decision'[f] = decision[f]
  BY InvParts DEF TypeOK, Mark, Return
<1>4. \A f \in Executors : Key(f)' = Key(f)
  BY <1>2 DEF Key
<1>5. /\ claims'[k] = [claims[k] EXCEPT !.status = status]
      /\ \A m \in Keys : m # k => claims'[m] = claims[m]
  BY <1>0, InvParts DEF Mark, SetStatus
<1>6. \A m \in Keys : /\ claims'[m].attempts = claims[m].attempts
                       /\ claims'[m].limit = claims[m].limit
  <2> TAKE m \in Keys
  <2>1. CASE m = k
    BY <2>1, <1>5
  <2>2. CASE m # k
    BY <2>2, <1>5
  <2> QED
    BY <2>1, <2>2
<1>7. claims'[k].status = status
  BY <1>5, InvParts
<1>8. \A f \in Executors, m \in Keys : Active(f, m)' => Active(f, m) /\ f # e /\ m # k
  BY <1>1, <1>3, <1>4, InvParts DEF Active, ExclusiveClaim
<1>9. TypeOK'
  <2>1. claims' \in [Keys -> [status : Statuses, attempts : Nat, limit : Int]]
    BY InvParts DEF Mark, SetStatus, Statuses
  <2>2. audit' \in [Keys -> Seq(Events)]
    BY <1>0, InvParts DEF TypeOK, Mark, Record, Events
  <2> QED
    BY <1>2, <2>1, <2>2, InvParts DEF TypeOK, Mark, Return
<1>10. ExclusiveClaim'
  BY <1>5, <1>8, InvParts DEF ExclusiveClaim
<1>11. LaunchBound' /\ EffectOnce'
  BY <1>2, <1>6, InvParts DEF LaunchBound, EffectOnce
<1>12. RunOK(e) /\ run[e] \in DOMAIN runs[k] /\ run[e] = Len(runs[k])
  BY <1>0, InvParts DEF RunInv, RunOK
<1>13. SuccessIsReal'
  <2>1. status = "SUCCEEDED" => runs[k][run[e]] = "SUCCEEDED"
    BY <1>0, <1>12 DEF RunOK
  <2> QED
    BY <2>1, <1>2, <1>5, <1>7, <1>12, InvParts DEF SuccessIsReal
<1>14. ReportedSuccessIsDurable'
  <2> SUFFICES ASSUME NEW f \in Executors, decision'[f] \in Dispatched \cup {"NOOP_DUPLICATE"}
               PROVE  claims'[Key(f)].status = "SUCCEEDED"
    BY <1>4 DEF ReportedSuccessIsDurable
  <2>1. CASE f = e
    BY <2>1, <1>0, <1>3, <1>7
  <2>2. CASE f # e
    <3>1. decision[f] \in Dispatched \cup {"NOOP_DUPLICATE"} /\ decision[f] # "none"
      BY <2>2, <1>3 DEF Dispatched
    <3>2. claims[Key(f)].status = "SUCCEEDED" /\ Key(f) \in Keys
      BY <3>1, WorkingKey, InvParts DEF ReportedSuccessIsDurable
    <3> QED
      BY <3>2, <1>1, <1>5
  <2> QED
    BY <2>1, <2>2
<1>15. HolderInv'
  <2>1. \A f \in Executors : pc[f] # "idle" => Key(f) \in Keys
    BY WorkingKey
  <2>2. o # "none" => work[e] \in Items
    BY WorkingKey
  <2> SUFFICES ASSUME NEW f \in Executors
               PROVE  /\ pc'[f] # "idle" =>
                           attempt'[f] = claims'[Key(f)].attempts /\ decision'[f] = "none"
                      /\ pc'[f] # "idle" \/ decision'[f] # "none" => work'[f] \in Items
    BY <1>4 DEF HolderInv
  <2>3. CASE f = e
    BY <2>2, <2>3, <1>2, <1>3
  <2>4. CASE f # e
    BY <2>1, <2>4, <1>2, <1>3, <1>6, InvParts DEF HolderInv
  <2> QED
    BY <2>3, <2>4
<1>16. RunInv'
  <2> SUFFICES ASSUME NEW f \in Executors
               PROVE  RunOK(f)'
    BY DEF RunInv
  <2>1. RunOK(f)
    BY InvParts DEF RunInv
  <2>2. CASE f = e
    BY <2>2, <1>3 DEF RunOK
  <2>3. CASE f # e /\ pc[f] = "idle"
    BY <2>1, <2>3, <1>3 DEF RunOK
  <2>4. CASE f # e /\ pc[f] # "idle"
    <3>1. Key(f) \in Keys
      BY <2>4, WorkingKey
    <3> QED
      BY <2>1, <2>4, <3>1, <1>2, <1>3, <1>4, <1>6 DEF RunOK
  <2> QED
    BY <2>2, <2>3, <2>4
<1>17. RowInv'
  <2>1. status = "FAILED_RETRYABLE" => \A i \in DOMAIN runs[k] : runs[k][i] = "FAILED"
    <3> SUFFICES ASSUME status = "FAILED_RETRYABLE", NEW i \in DOMAIN runs[k]
                 PROVE  runs[k][i] = "FAILED"
      OBVIOUS
    <3>1. runs[k][run[e]] = "FAILED"
      BY <1>0, <1>12 DEF RunOK
    <3>2. i <= Len(runs[k])
      BY InvParts
    <3> QED
      BY <3>1, <3>2, <1>12, InvParts DEF EffectOnce
  <2>2. \A m \in Keys : m # k /\ Open(m)' => Open(m)
    BY <1>3, <1>5, <1>8 DEF Open
  <2>3. Open(k)' => status = "FAILED_RETRYABLE"
    BY <1>7, <1>8 DEF Open
  <2> QED
    BY <2>1, <2>2, <2>3, <1>2, <1>5, <1>7, InvParts DEF RowInv
<1> QED
  BY <1>9, <1>10, <1>11, <1>13, <1>14, <1>15, <1>16, <1>17 DEF LedgerInv

(* A foreign status on a claimed row closes the key for everybody.         *)
LEMMA ForeignInv ==
  ASSUME LedgerInv, NEW k \in Keys, ForeignStatus(k)
  PROVE  LedgerInv'
<1>1. /\ claims[k].status = "CLAIMED" /\ faults' \in 0 .. MaxFaults
      /\ UNCHANGED <<audit, runs, pc, work, attempt, run, answer, decision>>
  BY LedgerAssumption, InvParts DEF ForeignStatus, callVars, TypeOK
<1>2. /\ claims'[k] = [claims[k] EXCEPT !.status = "ALIEN"]
      /\ \A m \in Keys : m # k => claims'[m] = claims[m]
  BY InvParts DEF ForeignStatus, SetStatus
<1>3. \A m \in Keys : /\ claims'[m].attempts = claims[m].attempts
                       /\ claims'[m].limit = claims[m].limit
  <2> TAKE m \in Keys
  <2>1. CASE m = k
    BY <2>1, <1>2
  <2>2. CASE m # k
    BY <2>2, <1>2
  <2> QED
    BY <2>1, <2>2
<1>4. claims'[k].status = "ALIEN"
  BY <1>2, InvParts
<1>5. \A f \in Executors : Key(f)' = Key(f)
  BY <1>1 DEF Key
<1>6. \A f \in Executors, m \in Keys : Active(f, m)' <=> Active(f, m)
  BY <1>1, <1>5 DEF Active
<1>7. \A m \in Keys : Open(m)' => Open(m)
  BY <1>1, <1>2, <1>4, <1>6 DEF Open
<1>8. TypeOK'
  <2>1. claims' \in [Keys -> [status : Statuses, attempts : Nat, limit : Int]]
    BY InvParts DEF ForeignStatus, SetStatus, Statuses
  <2> QED
    BY <2>1, <1>1, InvParts DEF TypeOK
<1>9. ExclusiveClaim'
  BY <1>2, <1>4, <1>6, InvParts DEF ExclusiveClaim
<1>10. LaunchBound' /\ EffectOnce' /\ SuccessIsReal'
  <2>1. LaunchBound' /\ EffectOnce'
    BY <1>1, <1>3, InvParts DEF LaunchBound, EffectOnce
  <2>2. \A m \in Keys : claims'[m].status = "SUCCEEDED" => m # k
    BY <1>4
  <2>3. SuccessIsReal'
    BY <2>2, <1>1, <1>2, InvParts DEF SuccessIsReal
  <2> QED
    BY <2>1, <2>3
<1>11. ReportedSuccessIsDurable'
  <2> SUFFICES ASSUME NEW f \in Executors, decision[f] \in Dispatched \cup {"NOOP_DUPLICATE"}
               PROVE  claims'[Key(f)].status = "SUCCEEDED"
    BY <1>1, <1>5 DEF ReportedSuccessIsDurable
  <2>1. decision[f] # "none"
    BY DEF Dispatched
  <2>2. claims[Key(f)].status = "SUCCEEDED" /\ Key(f) \in Keys
    BY <2>1, WorkingKey, InvParts DEF ReportedSuccessIsDurable
  <2> QED
    BY <2>2, <1>1, <1>2
<1>12. \A f \in Executors : pc[f] # "idle" => Key(f) \in Keys
  BY WorkingKey
<1>13. HolderInv'
  BY <1>1, <1>3, <1>5, <1>12, InvParts DEF HolderInv
<1>14. RunInv'
  BY <1>1, <1>3, <1>5, <1>12, InvParts DEF RunInv, RunOK
<1>15. RowInv'
  BY <1>1, <1>2, <1>3, <1>4, <1>7, InvParts DEF RowInv
<1> QED
  BY <1>8, <1>9, <1>10, <1>11, <1>13, <1>14, <1>15 DEF LedgerInv

-----------------------------------------------------------------------------
(* The steps of a call up to the claim.                                    *)
LEMMA CallInv ==
  ASSUME LedgerInv, NEW e \in Executors, NEW item \in Items, Call(e, item)
  PROVE  LedgerInv'
<1> DEFINE row == claims[item.dedupe_key]
<1>1. /\ item \in WorkItem /\ item.dedupe_key \in Keys /\ item.retry_limit \in Int
      /\ row.status \in Statuses /\ row.attempts \in Nat /\ row.limit \in Int
  BY ItemTypes, InvParts
<1>2. audit \in [Keys -> Seq(Events)] /\ faults \in 0 .. MaxFaults /\ MaxFaults \in Nat
  BY LedgerAssumption, InvParts DEF TypeOK
<1>3. \A event \in Events : Record(item.dedupe_key, event) => audit' \in [Keys -> Seq(Events)]
  BY <1>1, <1>2 DEF Record
<1>4. CASE Refuse(e, item)
  <2>1. Decide(item, {}) \in Outcomes \ (Dispatched \cup {"NOOP_DUPLICATE"})
    BY <1>1, <1>4, RefusalOutcome DEF Refuse
  <2> QED
    BY <2>1, <1>2, <1>4, AnswerInv DEF Refuse, ledgerVars
<1>5. CASE ClaimNew(e, item)
  <2>1. WithinLimit(item.dedupe_key, 1, item.retry_limit)
    BY <1>5, GateLeavesRoom DEF ClaimNew, Claims
  <2>2. row.attempts = 0
    BY <1>1, <1>5, InvParts DEF ClaimNew, RowInv
  <2>3. Grant(e, item, 1, item.retry_limit, "CLAIMED") /\ pc[e] = "idle" /\ row.status = "ABSENT"
    BY <1>5 DEF ClaimNew, Claims
  <2>4. 1 = row.attempts + 1 /\ 1 \in Nat
    BY <2>2
  <2> QED
    BY <2>1, <2>3, <2>4, <1>1, GrantInv DEF Events
<1>6. CASE ClaimRetry(e, item)
  <2>1. row.attempts < row.limit /\ row.attempts < item.retry_limit
    BY <1>1, <1>6 DEF ClaimRetry, CircuitOpen
  <2>2. /\ RetryLimit(row, item) \in Int
        /\ WithinLimit(item.dedupe_key, row.attempts + 1, RetryLimit(row, item))
    BY <1>1, <2>1 DEF RetryLimit, WithinLimit
  <2>3. /\ Grant(e, item, row.attempts + 1, RetryLimit(row, item), "RETRY_CLAIMED")
        /\ pc[e] = "idle" /\ row.status = "FAILED_RETRYABLE"
    BY <1>6 DEF ClaimRetry, Claims
  <2>4. row.attempts + 1 \in Nat
    BY <1>1
  <2> QED
    BY <2>2, <2>3, <2>4, <1>1, GrantInv DEF Events
<1>7. CASE ClaimCircuitOpen(e, item)
  <2>1. /\ pc[e] = "idle" /\ Record(item.dedupe_key, "CIRCUIT_OPEN")
        /\ Answer(e, item, "CIRCUIT_OPEN") /\ UNCHANGED <<claims, runs, faults>>
    BY <1>7 DEF ClaimCircuitOpen, Block, Claims
  <2>2. "CIRCUIT_OPEN" \in Outcomes \ Dispatched /\ "CIRCUIT_OPEN" \in Events
    BY DEF Outcomes, Dispatched, Events
  <2> QED
    BY <2>1, <2>2, <1>2, <1>3, AnswerInv
<1>8. CASE ClaimBlocked(e, item)
  <2>1. /\ pc[e] = "idle" /\ Record(item.dedupe_key, BlockedEvent[row.status])
        /\ Answer(e, item, BlockedOutcome[row.status]) /\ UNCHANGED <<claims, runs, faults>>
        /\ row.status \in {"SUCCEEDED", "CLAIMED", "RECONCILE_REQUIRED", "ALIEN"}
    BY <1>8 DEF ClaimBlocked, Block, Claims
  <2>2. /\ BlockedOutcome[row.status] \in Outcomes \ Dispatched
        /\ BlockedEvent[row.status] \in Events
        /\ BlockedOutcome[row.status] = "NOOP_DUPLICATE" => row.status = "SUCCEEDED"
    BY <2>1 DEF BlockedOutcome, BlockedEvent, Outcomes, Dispatched, Events
  <2> QED
    BY <2>1, <2>2, <1>2, <1>3, AnswerInv
<1>9. CASE ClaimError(e, item)
  <2>1. "FAIL_CLOSED_LEDGER_ERROR" \in Outcomes \ Dispatched
    BY DEF Outcomes, Dispatched
  <2>2. faults' \in 0 .. MaxFaults
    BY <1>2, <1>9 DEF ClaimError
  <2> QED
    BY <2>1, <2>2, <1>2, <1>9, AnswerInv DEF ClaimError, Claims, ledgerVars
<1> QED
  BY <1>4, <1>5, <1>6, <1>7, <1>8, <1>9 DEF Call

(* The steps of a call after the claim, and its abrupt end.                *)
LEMMA ProceedInv ==
  ASSUME LedgerInv, NEW e \in Executors, Proceed(e) \/ Abandon(e)
  PROVE  LedgerInv'
<1>1. faults \in 0 .. MaxFaults /\ MaxFaults \in Nat
  BY LedgerAssumption, InvParts DEF TypeOK
<1>2. CASE Dispatch(e)
  BY <1>2, DispatchInv
<1>3. CASE CallbackReturns(e)
  BY <1>3, CallbackInv
<1>4. CASE MarkSuccess(e)
  <2>1. DispatchOutcome(work[e]) \in Outcomes \ {"NOOP_DUPLICATE"}
    BY DEF DispatchOutcome, Outcomes, Dispatched
  <2> QED
    BY <2>1, <1>4, MarkInv DEF MarkSuccess, Returned
<1>5. CASE MarkFailure(e)
  <2>1. "DISPATCH_FAILED_RETRYABLE" \in Outcomes \ (Dispatched \cup {"NOOP_DUPLICATE"})
    BY DEF Outcomes, Dispatched
  <2> QED
    BY <2>1, <1>5, MarkInv DEF MarkFailure, Returned
<1>6. CASE MarkRaises(e)
  <2>1. "RAISED" \in Outcomes \ (Dispatched \cup {"NOOP_DUPLICATE"})
    BY DEF Outcomes, Dispatched
  <2> QED
    BY <2>1, <1>1, <1>6, ReturnInv DEF MarkRaises, Returned
<1>7. CASE MarkReconcileRequired(e)
  <2>1. "RECONCILE_REQUIRED" \in Outcomes \ (Dispatched \cup {"NOOP_DUPLICATE"})
    BY DEF Outcomes, Dispatched
  <2> QED
    BY <2>1, <1>7, MarkInv DEF MarkReconcileRequired, Returned
<1>8. CASE Abandon(e)
  <2>1. "RAISED" \in Outcomes \ (Dispatched \cup {"NOOP_DUPLICATE"})
    BY DEF Outcomes, Dispatched
  <2>2. faults' \in 0 .. MaxFaults
    BY <1>1, <1>8 DEF Abandon
  <2> QED
    BY <2>1, <2>2, <1>8, ReturnInv DEF Abandon
<1> QED
  BY <1>2, <1>3, <1>4, <1>5, <1>6, <1>7, <1>8 DEF Proceed

(* Every step preserves the invariant.                                     *)
LEMMA NextInv == LedgerInv /\ [Next]_vars => LedgerInv'
<1> SUFFICES ASSUME LedgerInv, [Next]_vars PROVE LedgerInv'
  OBVIOUS
<1>1. CASE UNCHANGED vars
  BY <1>1 DEF vars, LedgerInv, TypeOK, ExclusiveClaim, LaunchBound, EffectOnce,
     SuccessIsReal, ReportedSuccessIsDurable, HolderInv, RunInv, RunOK, RowInv,
     Active, Open, Key
<1>2. ASSUME NEW e \in Executors, NEW item \in Items, Call(e, item) PROVE LedgerInv'
  BY <1>2, CallInv
<1>3. ASSUME NEW e \in Executors, Proceed(e) \/ Abandon(e) PROVE LedgerInv'
  BY <1>3, ProceedInv
<1>4. ASSUME NEW k \in Keys, RunEnds(k) \/ ForeignStatus(k) PROVE LedgerInv'
  BY <1>4, RunEndsInv, ForeignInv
<1> QED
  BY <1>1, <1>2, <1>3, <1>4 DEF Next, Environment

(* The inductive invariant holds always.                                   *)
THEOREM LedgerInvariant == Spec => []LedgerInv
BY InitInv, NextInv, PTL DEF Spec

(* Every variable keeps its type.                                          *)
THEOREM TypeCorrect == Spec => []TypeOK
<1>1. LedgerInv => TypeOK
  BY DEF LedgerInv
<1> QED
  BY <1>1, LedgerInvariant, PTL

(* However many executors race, crash and come back, no two of them ever   *)
(* hold one dedupe key, and a held key is closed to other claimants.       *)
THEOREM MutualExclusion == Spec => []ExclusiveClaim
<1>1. LedgerInv => ExclusiveClaim
  BY DEF LedgerInv
<1> QED
  BY <1>1, LedgerInvariant, PTL

(* The retry budget is kept, whatever limits the items of a key carry.     *)
THEOREM BudgetKept == Spec => []LaunchBound
<1>1. LedgerInv => LaunchBound
  BY DEF LedgerInv
<1> QED
  BY <1>1, LedgerInvariant, PTL

(* At most the last of the runs of a key can have had an effect.           *)
THEOREM AtMostOneEffect == Spec => []EffectOnce
<1>1. LedgerInv => EffectOnce
  BY DEF LedgerInv
<1> QED
  BY <1>1, LedgerInvariant, PTL

(* A recorded success and a reported success are both true, for ever.      *)
THEOREM SuccessTruthful == Spec => [](SuccessIsReal /\ ReportedSuccessIsDurable)
<1>1. LedgerInv => SuccessIsReal /\ ReportedSuccessIsDurable
  BY DEF LedgerInv
<1> QED
  BY <1>1, LedgerInvariant, PTL

-----------------------------------------------------------------------------
(* Who changes a row: a claimant finds it open, a mark comes from the one  *)
(* executor working on the key, a foreign writer hits a claim.             *)
LEMMA RowChange ==
  ASSUME LedgerInv, Next, NEW k \in Keys, claims'[k] # claims[k]
  PROVE  \/ claims[k].status \in {"ABSENT", "FAILED_RETRYABLE"}
         \/ /\ claims[k].status \in {"CLAIMED", "ALIEN"}
            /\ \E f \in Executors : Active(f, k) /\ pc'[f] = "idle"
         \/ claims[k].status = "CLAIMED" /\ claims'[k].status = "ALIEN"
<1>1. ASSUME NEW e \in Executors, NEW item \in Items, Call(e, item)
      PROVE  claims[k].status \in {"ABSENT", "FAILED_RETRYABLE"}
  <2>1. claims' # claims
    OBVIOUS
  <2>2. ClaimNew(e, item) \/ ClaimRetry(e, item)
    BY <1>1, <2>1 DEF Call, Refuse, ClaimCircuitOpen, ClaimBlocked, Block, ClaimError, ledgerVars
  <2>3. claims[item.dedupe_key].status \in {"ABSENT", "FAILED_RETRYABLE"}
    BY <2>2 DEF ClaimNew, ClaimRetry
  <2>4. \A m \in Keys : m # item.dedupe_key => claims'[m] = claims[m]
    BY <2>2, InvParts DEF ClaimNew, ClaimRetry, Grant
  <2> QED
    BY <2>3, <2>4
<1>2. ASSUME NEW e \in Executors, Proceed(e) \/ Abandon(e)
      PROVE  /\ claims[k].status \in {"CLAIMED", "ALIEN"}
             /\ \E f \in Executors : Active(f, k) /\ pc'[f] = "idle"
  <2>1. claims' # claims
    OBVIOUS
  <2>2. MarkSuccess(e) \/ MarkFailure(e) \/ MarkReconcileRequired(e)
    BY <1>2, <2>1 DEF Proceed, Dispatch, CallbackReturns, MarkRaises, Abandon, ledgerVars
  <2>3. /\ pc[e] = "returned" /\ pc' = [pc EXCEPT ![e] = "idle"]
        /\ \E s \in Statuses : claims' = [claims EXCEPT ![Key(e)].status = s]
    BY <2>2 DEF MarkSuccess, MarkFailure, MarkReconcileRequired, Returned, Mark, Return,
       SetStatus, Statuses
  <2>4. k = Key(e)
    BY <2>3, InvParts
  <2>5. Active(e, k) /\ pc'[e] = "idle"
    BY <2>3, <2>4, InvParts DEF Active, TypeOK
  <2> QED
    BY <2>5, InvParts DEF ExclusiveClaim
<1>3. ASSUME NEW m \in Keys, RunEnds(m) \/ ForeignStatus(m)
      PROVE  claims[k].status = "CLAIMED" /\ claims'[k].status = "ALIEN"
  <2>1. ForeignStatus(m)
    BY <1>3 DEF RunEnds
  <2>2. m = k
    BY <2>1, InvParts DEF ForeignStatus, SetStatus
  <2> QED
    BY <2>1, <2>2, InvParts DEF ForeignStatus, SetStatus
<1> QED
  BY <1>1, <1>2, <1>3 DEF Next, Environment

(* The ownership rule stated in `claim`, for every step of every executor. *)
THEOREM ClaimOwnership == Spec => OwnershipRule
<1>1. LedgerInv /\ [Next]_vars => [OwnershipStep]_vars
  <2> SUFFICES ASSUME LedgerInv, Next, NEW k \in Keys, NEW e \in Executors,
                      claims[k].status = "CLAIMED", Holds(e, k),
                      claims'[k] # claims[k], claims'[k].status # "ALIEN"
               PROVE  pc'[e] # pc[e]
    BY DEF OwnershipStep, vars
  <2>1. PICK f \in Executors : Active(f, k) /\ pc'[f] = "idle"
    BY RowChange
  <2>2. f = e /\ pc[e] # "idle"
    BY <2>1, InvParts DEF Holds, Active, ExclusiveClaim
  <2> QED
    BY <2>1, <2>2
<1> QED
  BY <1>1, LedgerInvariant, PTL DEF Spec, OwnershipRule

(* Without a reconciler, a success is never taken back.                    *)
THEOREM SuccessFinal == Spec => SuccessIsFinal
<1>1. LedgerInv /\ [Next]_vars => [FinalStep]_vars
  <2> SUFFICES ASSUME LedgerInv, Next, NEW k \in Keys, claims[k].status = "SUCCEEDED",
                      claims'[k] # claims[k]
               PROVE  FALSE
    BY DEF FinalStep, vars
  <2> QED
    BY RowChange
<1> QED
  BY <1>1, LedgerInvariant, PTL DEF Spec, SuccessIsFinal

-----------------------------------------------------------------------------
(* The refinement of SingleFlight                                          *)

(* The phase of a key someone works on, and of one nobody works on.        *)
LEMMA PhaseNow ==
  ASSUME LedgerInv, NEW k \in Keys
  PROVE  /\ \A e \in Executors : Active(e, k) =>
              PhaseOf(k) = IF pc[e] = "claimed" THEN "accepted" ELSE "flying"
         /\ (\A e \in Executors : ~Active(e, k)) =>
              /\ claims[k].status \in {"ABSENT", "FAILED_RETRYABLE"} => PhaseOf(k) = "free"
              /\ claims[k].status = "SUCCEEDED" => PhaseOf(k) = "done"
              /\ claims[k].status \in {"CLAIMED", "ALIEN", "RECONCILE_REQUIRED"}
                   => PhaseOf(k) = "stuck"
<1>1. \A e, f \in Executors : Active(e, k) /\ Active(f, k) => e = f
  BY InvParts DEF ExclusiveClaim
<1> QED
  BY <1>1 DEF PhaseOf

LEMMA PhaseNext ==
  ASSUME LedgerInv, [Next]_vars, NEW k \in Keys
  PROVE  /\ \A e \in Executors : Active(e, k)' =>
              PhaseOf(k)' = IF pc'[e] = "claimed" THEN "accepted" ELSE "flying"
         /\ (\A e \in Executors : ~Active(e, k)') =>
              /\ claims'[k].status \in {"ABSENT", "FAILED_RETRYABLE"} => PhaseOf(k)' = "free"
              /\ claims'[k].status = "SUCCEEDED" => PhaseOf(k)' = "done"
              /\ claims'[k].status \in {"CLAIMED", "ALIEN", "RECONCILE_REQUIRED"}
                   => PhaseOf(k)' = "stuck"
<1>1. ExclusiveClaim'
  BY NextInv DEF LedgerInv
<1>2. \A e, f \in Executors : Active(e, k)' /\ Active(f, k)' => e = f
  BY <1>1 DEF ExclusiveClaim
<1> QED
  BY <1>2 DEF PhaseOf

(* A step of one executor about one key leaves the phase of the others.    *)
LEMMA OthersKeep ==
  ASSUME NEW e \in Executors, NEW k \in Keys,
         \A f \in Executors : f # e => pc'[f] = pc[f] /\ work'[f] = work[f],
         \A m \in Keys : m # k => ~Active(e, m) /\ ~(Active(e, m)') /\ claims'[m] = claims[m]
  PROVE  \A m \in Keys : m # k => PhaseOf(m)' = PhaseOf(m)
<1> SUFFICES ASSUME NEW m \in Keys, m # k PROVE PhaseOf(m)' = PhaseOf(m)
  OBVIOUS
<1>1. \A f \in Executors : /\ Active(f, m)' <=> Active(f, m)
                           /\ Active(f, m) => pc'[f] = pc[f]
  BY DEF Active, Key
<1>2. (\E f \in Executors : Active(f, m)) <=> (\E f \in Executors : Active(f, m)')
  BY <1>1
<1>3. (\E f \in Executors : Active(f, m) /\ pc[f] = "claimed")
        <=> (\E f \in Executors : Active(f, m)' /\ pc'[f] = "claimed")
  BY <1>1
<1> QED
  BY <1>2, <1>3 DEF PhaseOf

(* A step that changes the phase of one key.                               *)
LEMMA OneBecomes ==
  ASSUME NEW k \in Keys, NEW from, NEW to, PhaseOf(k) = from, PhaseOf(k)' = to,
         \A m \in Keys : m # k => PhaseOf(m)' = PhaseOf(m)
  PROVE  SF!Become(k, from, to)
BY DEF SF!Become, phaseBar

(* Nothing the abstraction sees.                                           *)
LEMMA Stutter ==
  ASSUME \A m \in Keys : PhaseOf(m)' = PhaseOf(m) /\ Len(runs'[m]) = Len(runs[m])
  PROVE  UNCHANGED SF!sfVars
BY DEF SF!sfVars, phaseBar, launchedBar

(* Calls: a granted claim is an Accept, all else is a stutter.             *)
LEMMA CallRefines ==
  ASSUME LedgerInv, Next, NEW e \in Executors, NEW item \in Items, Call(e, item)
  PROVE  SF!Next \/ UNCHANGED SF!sfVars
<1> DEFINE row == claims[item.dedupe_key]
<1>0. PICK k \in Keys : k = item.dedupe_key
  BY ItemTypes
<1>1. pc[e] = "idle" /\ runs' = runs
  BY DEF Call, Refuse, ClaimNew, ClaimRetry, ClaimCircuitOpen, ClaimBlocked, Block,
     ClaimError, Claims, Grant, ledgerVars
<1>2. CASE ClaimNew(e, item) \/ ClaimRetry(e, item)
  <2>1. /\ claims[k].status \in {"ABSENT", "FAILED_RETRYABLE"}
        /\ \A m \in Keys : m # k => claims'[m] = claims[m]
        /\ pc'[e] = "claimed" /\ work'[e] = item
        /\ \A f \in Executors : f # e => pc'[f] = pc[f] /\ work'[f] = work[f]
    BY <1>0, <1>2, InvParts DEF ClaimNew, ClaimRetry, Grant, TypeOK
  <2>2. claims[k].attempts < MaxRetryLimit
    <3>1. /\ item \in WorkItem /\ item.retry_limit \in Int /\ item.retry_limit <= MaxRetryLimit
          /\ claims[k].attempts \in Nat /\ claims[k].limit \in Int /\ MaxRetryLimit \in Nat \ {0}
      BY ItemTypes, RetryLimitAssumption, InvParts
    <3>2. CASE ClaimNew(e, item)
      <4>1. claims[k].attempts = 0
        BY <1>0, <3>2, InvParts DEF ClaimNew, RowInv
      <4> QED
        BY <3>1, <4>1
    <3>3. CASE ClaimRetry(e, item)
      BY <1>0, <3>1, <3>3 DEF ClaimRetry, CircuitOpen
    <3> QED
      BY <1>2, <3>2, <3>3
  <2>3. Len(runs[k]) < MaxRetryLimit
    BY <2>2, RetryLimitAssumption, InvParts DEF LaunchBound
  <2>4. PhaseOf(k) = "free"
    BY <2>1, PhaseNow, InvParts DEF ExclusiveClaim
  <2>5. Active(e, k)'
    BY <1>0, <2>1 DEF Active, Key
  <2>6. PhaseOf(k)' = "accepted"
    BY <2>1, <2>5, PhaseNext
  <2>7. \A m \in Keys : m # k => PhaseOf(m)' = PhaseOf(m)
    <3>1. \A m \in Keys : m # k => ~Active(e, m) /\ ~(Active(e, m)')
      BY <1>0, <1>1, <2>1 DEF Active, Key
    <3> QED
      BY <3>1, <2>1, OthersKeep
  <2>8. SF!Become(k, "free", "accepted")
    BY <2>4, <2>6, <2>7, OneBecomes
  <2>9. SF!Accept(k)
    BY <2>3, <2>8, <1>1 DEF SF!Accept, launchedBar
  <2> QED
    BY <2>9 DEF SF!Next
<1>3. CASE ~(ClaimNew(e, item) \/ ClaimRetry(e, item))
  <2>1. /\ claims' = claims /\ pc' = pc
        /\ \A f \in Executors : f # e => work'[f] = work[f]
    BY <1>3, InvParts DEF Call, Refuse, ClaimCircuitOpen, ClaimBlocked, Block, ClaimError,
       Answer, ledgerVars, TypeOK
  <2>2. \A m \in Keys, f \in Executors : Active(f, m)' <=> Active(f, m)
    BY <1>1, <2>1 DEF Active, Key
  <2>3. \A m \in Keys : PhaseOf(m)' = PhaseOf(m)
    BY <2>1, <2>2 DEF PhaseOf
  <2> QED
    BY <1>1, <2>3, Stutter
<1> QED
  BY <1>2, <1>3

(* The holder's steps: its callback is the Launch, a recorded result is    *)
(* Succeed or Fail, and an end without a known result is Lose.             *)
LEMMA ProceedRefines ==
  ASSUME LedgerInv, Next, NEW e \in Executors, Proceed(e) \/ Abandon(e)
  PROVE  SF!Next \/ UNCHANGED SF!sfVars
<1>0. pc[e] # "idle"
  BY DEF Proceed, Abandon, Dispatch, CallbackReturns, MarkSuccess, MarkFailure, MarkRaises,
     MarkReconcileRequired, Returned
<1>1. PICK k \in Keys : k = Key(e)
  BY <1>0, WorkingKey
<1>2. /\ Active(e, k) /\ claims[k].status \in {"CLAIMED", "ALIEN"}
      /\ \A m \in Keys : m # k => ~Active(e, m)
      /\ \A f \in Executors : f # e => ~Active(f, k)
  BY <1>0, <1>1, InvParts DEF Active, ExclusiveClaim
<1>3. /\ work' = work
      /\ \A f \in Executors : f # e => pc'[f] = pc[f]
      /\ \A m \in Keys : m # k => claims'[m] = claims[m]
  BY <1>1, InvParts DEF Proceed, Abandon, Dispatch, CallbackReturns, MarkSuccess, MarkFailure,
     MarkRaises, MarkReconcileRequired, Mark, SetStatus, Return, ledgerVars, TypeOK
<1>4. \A f \in Executors, m \in Keys : f # e => (Active(f, m)' <=> Active(f, m))
  BY <1>3 DEF Active, Key
<1>5. \A m \in Keys : m # k => ~(Active(e, m)')
  BY <1>1, <1>3 DEF Active, Key
<1>6. \A m \in Keys : m # k => PhaseOf(m)' = PhaseOf(m)
  BY <1>2, <1>3, <1>5, OthersKeep
<1>7. PhaseOf(k) = IF pc[e] = "claimed" THEN "accepted" ELSE "flying"
  BY <1>2, PhaseNow
<1>8. pc'[e] # "idle" => PhaseOf(k)' = IF pc'[e] = "claimed" THEN "accepted" ELSE "flying"
  BY <1>1, <1>3, PhaseNext DEF Active, Key
<1>9. pc'[e] = "idle" => \A f \in Executors : ~(Active(f, k)')
  BY <1>2, <1>4 DEF Active
<1>10. CASE Dispatch(e)
  <2>1. /\ pc[e] = "claimed" /\ pc'[e] = "dispatching"
        /\ runs' = [runs EXCEPT ![k] = Append(@, "RUNNING")]
    BY <1>1, <1>10, InvParts DEF Dispatch, TypeOK
  <2>2. SF!Become(k, "accepted", "flying")
    BY <2>1, <1>6, <1>7, <1>8, OneBecomes
  <2>3. launchedBar' = [launchedBar EXCEPT ![k] = @ + 1]
    <3>1. Len(runs'[k]) = Len(runs[k]) + 1
      BY <2>1, InvParts DEF RunStates
    <3>2. \A m \in Keys : m # k => runs'[m] = runs[m]
      BY <2>1, InvParts
    <3> QED
      BY <3>1, <3>2 DEF launchedBar
  <2>4. SF!Launch(k)
    BY <2>2, <2>3 DEF SF!Launch
  <2> QED
    BY <2>4 DEF SF!Next
<1>11. CASE CallbackReturns(e)
  <2>1. pc[e] = "dispatching" /\ pc'[e] = "returned" /\ runs' = runs
    BY <1>11, InvParts DEF CallbackReturns, ledgerVars, TypeOK
  <2> QED
    BY <2>1, <1>6, <1>7, <1>8, Stutter
<1>12. CASE MarkSuccess(e) \/ MarkFailure(e)
  <2>1. /\ pc[e] = "returned" /\ pc'[e] = "idle" /\ runs' = runs
        /\ MarkSuccess(e) => claims'[k].status = "SUCCEEDED"
        /\ MarkFailure(e) => claims'[k].status = "FAILED_RETRYABLE"
    BY <1>1, <1>12, InvParts DEF MarkSuccess, MarkFailure, Returned, Mark, SetStatus, Return,
       TypeOK
  <2>2. PhaseOf(k)' = IF MarkSuccess(e) THEN "done" ELSE "free"
    BY <2>1, <1>9, <1>12, PhaseNext
  <2>3. \/ SF!Become(k, "flying", "done")
        \/ SF!Become(k, "flying", "free")
    BY <2>1, <2>2, <1>6, <1>7, OneBecomes
  <2>4. SF!Succeed(k) \/ SF!Fail(k)
    BY <2>1, <2>3 DEF SF!Succeed, SF!Fail, launchedBar
  <2> QED
    BY <2>4 DEF SF!Next
<1>13. CASE MarkRaises(e) \/ MarkReconcileRequired(e) \/ Abandon(e)
  <2>1. /\ pc'[e] = "idle" /\ runs' = runs
        /\ claims'[k].status \in {"CLAIMED", "ALIEN", "RECONCILE_REQUIRED"}
    BY <1>1, <1>2, <1>13, InvParts DEF MarkRaises, MarkReconcileRequired, Abandon, Mark,
       SetStatus, Return, ledgerVars, TypeOK
  <2>2. PhaseOf(k)' = "stuck"
    BY <2>1, <1>9, PhaseNext
  <2>3. SF!Become(k, "accepted", "stuck") \/ SF!Become(k, "flying", "stuck")
    BY <2>2, <1>6, <1>7, OneBecomes
  <2>4. SF!Lose(k)
    BY <2>1, <2>3 DEF SF!Lose, launchedBar
  <2> QED
    BY <2>4 DEF SF!Next
<1> QED
  BY <1>10, <1>11, <1>12, <1>13 DEF Proceed

(* The runs end, and foreign writes happen, unseen.                        *)
LEMMA ExternalRefines ==
  ASSUME LedgerInv, Next, NEW k \in Keys, RunEnds(k) \/ ForeignStatus(k)
  PROVE  UNCHANGED SF!sfVars
<1>1. UNCHANGED <<pc, work>>
  BY DEF RunEnds, ForeignStatus, callVars
<1>2. \A m \in Keys, f \in Executors : Active(f, m)' <=> Active(f, m)
  BY <1>1 DEF Active, Key
<1>3. CASE RunEnds(k)
  <2>1. claims' = claims /\ \A m \in Keys : Len(runs'[m]) = Len(runs[m])
    BY <1>3, InvParts DEF RunEnds
  <2>2. \A m \in Keys : PhaseOf(m)' = PhaseOf(m)
    BY <2>1, <1>1, <1>2 DEF PhaseOf
  <2> QED
    BY <2>1, <2>2, Stutter
<1>4. CASE ForeignStatus(k)
  <2>1. /\ claims[k].status = "CLAIMED" /\ claims'[k].status = "ALIEN" /\ runs' = runs
        /\ \A m \in Keys : m # k => claims'[m] = claims[m]
    BY <1>4, InvParts DEF ForeignStatus, SetStatus
  <2>2. \A m \in Keys : PhaseOf(m)' = PhaseOf(m)
    <3> TAKE m \in Keys
    <3>1. CASE \E f \in Executors : Active(f, m)
      BY <3>1, <1>1, <1>2 DEF PhaseOf
    <3>2. CASE ~\E f \in Executors : Active(f, m)
      BY <3>2, <2>1, <1>2 DEF PhaseOf
    <3> QED
      BY <3>1, <3>2
  <2> QED
    BY <2>1, <2>2, Stutter
<1> QED
  BY <1>3, <1>4

(* The ledger implements the abstract dispatcher: at most one accepted     *)
(* dispatch per key at a time, each launched at most once, none after a    *)
(* success or an unknown result, at most MaxRetryLimit in all.             *)
THEOREM LedgerRefinesSingleFlight == Spec => ImplementsSingleFlight
<1>1. Init => SF!Init
  BY DEF Init, SF!Init, phaseBar, launchedBar, PhaseOf, Active
<1>2. LedgerInv /\ [Next]_vars => [SF!Next]_(SF!sfVars)
  <2> SUFFICES ASSUME LedgerInv, [Next]_vars PROVE SF!Next \/ UNCHANGED SF!sfVars
    OBVIOUS
  <2>1. CASE UNCHANGED vars
    BY <2>1 DEF vars, SF!sfVars, phaseBar, launchedBar, PhaseOf, Active, Key
  <2>2. CASE Next
    BY <2>2, CallRefines, ProceedRefines, ExternalRefines DEF Next, Environment
  <2> QED
    BY <2>1, <2>2
<1> QED
  BY <1>1, <1>2, LedgerInvariant, PTL DEF Spec, ImplementsSingleFlight, SF!Spec

-----------------------------------------------------------------------------
(* Reconcilers beside the executors                                        *)

StatusEvents ==
  {"CLAIMED", "RETRY_CLAIMED", "SUCCEEDED", "FAILED_RETRYABLE", "RECONCILE_REQUIRED",
   "RECONCILED_SUCCEEDED", "RECONCILED_FAILED_RETRYABLE"}

LEMMA StatusEventsTell ==
  /\ DOMAIN StatusAfterR = StatusEvents
  /\ StatusEvents \subseteq Events
  /\ StatusAfterR["CLAIMED"] = "CLAIMED" /\ StatusAfterR["RETRY_CLAIMED"] = "CLAIMED"
  /\ StatusAfterR["SUCCEEDED"] = "SUCCEEDED"
  /\ StatusAfterR["FAILED_RETRYABLE"] = "FAILED_RETRYABLE"
  /\ StatusAfterR["RECONCILE_REQUIRED"] = "RECONCILE_REQUIRED"
  /\ \A v \in Settling : StatusAfterR[v] = RequestedStatus[v]
  /\ \A v \in Settling : RequestedStatus[v] \in {"SUCCEEDED", "FAILED_RETRYABLE"}
<1>1. DOMAIN StatusAfter =
        {"CLAIMED", "RETRY_CLAIMED", "SUCCEEDED", "FAILED_RETRYABLE", "RECONCILE_REQUIRED"}
  BY DEF StatusAfter
<1>2. DOMAIN StatusAfterR = StatusEvents
  BY <1>1 DEF StatusAfterR, StatusEvents, Settling
<1>3. \A v \in Settling : /\ StatusAfterR[v] = RequestedStatus[v]
                          /\ RequestedStatus[v] \in {"SUCCEEDED", "FAILED_RETRYABLE"}
  BY DEF StatusAfterR, Settling, RequestedStatus
<1>4. \A event \in DOMAIN StatusAfter : StatusAfterR[event] = StatusAfter[event]
  BY <1>1 DEF StatusAfterR, Settling
<1> QED
  BY <1>1, <1>2, <1>3, <1>4 DEF StatusEvents, Events, StatusAfter

LEMMA SharedParts ==
  ASSUME SharedInv
  PROVE  /\ claims \in [Keys -> [status : Statuses, attempts : Nat, limit : Int]]
         /\ audit \in [Keys -> Seq(Events)]
         /\ runs \in [Keys -> Seq(RunStates)]
         /\ pc \in [Executors -> {"idle", "claimed", "dispatching", "returned"}]
         /\ work \in [Executors -> Items \cup {NoItem}]
         /\ attempt \in [Executors -> Nat]
         /\ run \in [Executors -> Nat]
         /\ answer \in [Executors -> {"none", "success", "failure", "uncertain"}]
         /\ decision \in [Executors -> Outcomes]
         /\ faults \in 0 .. MaxFaults /\ MaxFaults \in Nat
         /\ rpc \in [Reconcilers -> {"idle", "gathered", "setting", "rechecking"}]
         /\ rwork \in [Reconcilers -> Items \cup {NoItem}]
         /\ evidence \in [Reconcilers -> SUBSET Report]
         /\ rdecision \in [Reconcilers -> Decision]
         /\ \A e \in Executors : pc[e] # "idle" => work[e] \in Items /\ Key(e) \in Keys
         /\ \A r \in Reconcilers : rpc[r] # "idle" => rwork[r] \in Items /\ RKey(r) \in Keys
BY ItemTypes, LedgerAssumption DEF SharedInv, RTypeOK, TypeOK, EvidenceInv, Key, RKey

(* What a step of an executor or of its surroundings does to a row.        *)
Granted(e, item) ==
  \E l \in Int, event \in {"CLAIMED", "RETRY_CLAIMED"} :
    /\ pc[e] = "idle"
    /\ WithinLimit(item.dedupe_key, claims[item.dedupe_key].attempts + 1, l)
    /\ Grant(e, item, claims[item.dedupe_key].attempts + 1, l, event)

Answered(e, item) ==
  \E outcome \in Outcomes :
    /\ pc[e] = "idle"
    /\ Answer(e, item, outcome)
    /\ UNCHANGED <<claims, runs>>
    /\ faults' \in 0 .. MaxFaults
    /\ \/ UNCHANGED audit
       \/ \E event \in Events \ StatusEvents : Record(item.dedupe_key, event)
       \/ /\ claims[item.dedupe_key].status = "RECONCILE_REQUIRED"
          /\ Record(item.dedupe_key, "RECONCILE_REQUIRED")

MarkStatuses == {"SUCCEEDED", "FAILED_RETRYABLE", "RECONCILE_REQUIRED"}

Marks(e) ==
  \E status \in MarkStatuses, outcome \in Outcomes :
    pc[e] = "returned" /\ Mark(e, status, outcome)

Ends(e) ==
  \E outcome \in Outcomes :
    pc[e] # "idle" /\ Return(e, outcome) /\ UNCHANGED ledgerVars /\ faults' \in 0 .. MaxFaults

LEMMA ExecutorCases ==
  ASSUME SharedInv, Next
  PROVE  \/ \E e \in Executors, item \in Items : Granted(e, item) \/ Answered(e, item)
         \/ \E e \in Executors : Marks(e) \/ Ends(e) \/ Dispatch(e) \/ CallbackReturns(e)
         \/ \E k \in Keys : RunEnds(k) \/ ForeignStatus(k)
<1>0. /\ faults \in 0 .. MaxFaults /\ MaxFaults \in Nat
      /\ claims \in [Keys -> [status : Statuses, attempts : Nat, limit : Int]]
  BY SharedParts
<1>1. ASSUME NEW e \in Executors, NEW item \in Items, Call(e, item)
      PROVE  Granted(e, item) \/ Answered(e, item)
  <2> DEFINE row == claims[item.dedupe_key]
  <2>1. /\ item \in WorkItem /\ item.dedupe_key \in Keys /\ item.retry_limit \in Int
        /\ row.status \in Statuses /\ row.attempts \in Nat /\ row.limit \in Int
    BY <1>0, ItemTypes
  <2>2. CASE Refuse(e, item)
    <3>1. Decide(item, {}) \in Outcomes
      BY <2>1, <2>2, RefusalOutcome DEF Refuse
    <3> QED
      BY <1>0, <2>2, <3>1 DEF Refuse, Answered, ledgerVars
  <2>3. CASE ClaimNew(e, item)
    <3>1. WithinLimit(item.dedupe_key, 1, item.retry_limit)
      BY <2>3, GateLeavesRoom DEF ClaimNew, Claims
    <3>2. row.attempts + 1 = 1
      BY <2>1, <2>3 DEF ClaimNew, SharedInv, AttemptsInv
    <3>3. Grant(e, item, row.attempts + 1, item.retry_limit, "CLAIMED") /\ pc[e] = "idle"
          /\ WithinLimit(item.dedupe_key, row.attempts + 1, item.retry_limit)
      BY <2>1, <2>3, <3>1, <3>2 DEF ClaimNew, Claims
    <3> QED
      BY <2>1, <3>3 DEF Granted
  <2>4. CASE ClaimRetry(e, item)
    <3>1. row.attempts < row.limit /\ row.attempts < item.retry_limit
      BY <2>1, <2>4 DEF ClaimRetry, CircuitOpen
    <3>2. /\ RetryLimit(row, item) \in Int
          /\ WithinLimit(item.dedupe_key, row.attempts + 1, RetryLimit(row, item))
      BY <2>1, <3>1 DEF RetryLimit, WithinLimit
    <3>3. /\ Grant(e, item, row.attempts + 1, RetryLimit(row, item), "RETRY_CLAIMED")
          /\ pc[e] = "idle"
      BY <2>4 DEF ClaimRetry, Claims
    <3> QED
      BY <3>2, <3>3 DEF Granted
  <2>5. CASE ClaimCircuitOpen(e, item)
    <3>1. /\ pc[e] = "idle" /\ Record(item.dedupe_key, "CIRCUIT_OPEN")
          /\ Answer(e, item, "CIRCUIT_OPEN") /\ UNCHANGED <<claims, runs, faults>>
      BY <2>5 DEF ClaimCircuitOpen, Block, Claims
    <3>2. "CIRCUIT_OPEN" \in Outcomes /\ "CIRCUIT_OPEN" \in Events \ StatusEvents
      BY DEF Outcomes, Events, StatusEvents
    <3> QED
      BY <1>0, <3>1, <3>2 DEF Answered
  <2>6. CASE ClaimBlocked(e, item)
    <3>1. /\ pc[e] = "idle" /\ Record(item.dedupe_key, BlockedEvent[row.status])
          /\ Answer(e, item, BlockedOutcome[row.status]) /\ UNCHANGED <<claims, runs, faults>>
          /\ row.status \in {"SUCCEEDED", "CLAIMED", "RECONCILE_REQUIRED", "ALIEN"}
      BY <2>6 DEF ClaimBlocked, Block, Claims
    <3>2. BlockedOutcome[row.status] \in Outcomes
      BY <3>1 DEF BlockedOutcome, Outcomes
    <3>3. \/ BlockedEvent[row.status] \in Events \ StatusEvents
          \/ row.status = "RECONCILE_REQUIRED" /\ BlockedEvent[row.status] = "RECONCILE_REQUIRED"
      BY <3>1 DEF BlockedEvent, Events, StatusEvents
    <3> QED
      BY <1>0, <3>1, <3>2, <3>3 DEF Answered
  <2>7. CASE ClaimError(e, item)
    <3>1. "FAIL_CLOSED_LEDGER_ERROR" \in Outcomes
      BY DEF Outcomes
    <3>2. faults' \in 0 .. MaxFaults
      BY <1>0, <2>7 DEF ClaimError
    <3> QED
      BY <2>7, <3>1, <3>2 DEF ClaimError, Claims, ledgerVars, Answered
  <2> QED
    BY <1>1, <2>2, <2>3, <2>4, <2>5, <2>6, <2>7 DEF Call
<1>2. ASSUME NEW e \in Executors, Proceed(e) \/ Abandon(e)
      PROVE  Marks(e) \/ Ends(e) \/ Dispatch(e) \/ CallbackReturns(e)
  <2>1. {"DISPATCH_CONTINUE", "DISPATCH_RECOVERY", "DISPATCH_FAILED_RETRYABLE", "RAISED",
         "RECONCILE_REQUIRED"} \subseteq Outcomes
    BY DEF Outcomes, Dispatched
  <2>2. DispatchOutcome(work[e]) \in Outcomes
    BY <2>1 DEF DispatchOutcome
  <2>3. MarkSuccess(e) \/ MarkFailure(e) \/ MarkReconcileRequired(e) => Marks(e)
    BY <2>1, <2>2 DEF MarkSuccess, MarkFailure, MarkReconcileRequired, Marks, MarkStatuses, Returned
  <2>4. MarkRaises(e) => Ends(e)
    BY <1>0, <2>1 DEF MarkRaises, Ends, Returned
  <2>5. Abandon(e) => Ends(e)
    <3>1. Abandon(e) => faults' \in 0 .. MaxFaults
      BY <1>0 DEF Abandon
    <3> QED
      BY <3>1, <2>1 DEF Abandon, Ends
  <2> QED
    BY <1>2, <2>3, <2>4, <2>5 DEF Proceed
<1> QED
  BY <1>1, <1>2 DEF Next, Environment

(* What a step of a reconciler does to its own variables, and to the rows. *)
Carries(r) ==
  \/ \E status \in Verdicts, updated \in BOOLEAN : RDone(r, status, updated)
  \/ \E to \in {"setting", "rechecking"} :
       /\ rpc' = [rpc EXCEPT ![r] = to]
       /\ to = "setting" => Assess(evidence[r]) \in Settling
       /\ UNCHANGED <<rwork, evidence, rdecision, reconciles>>

Sets(r) ==
  \E verdict \in Settling :
    /\ verdict = Assess(evidence[r])
    /\ claims[RKey(r)].status \in Settable
    /\ UpdateRow(RKey(r), verdict)
    /\ UNCHANGED <<runs, callVars, faults>>

Notes(r) ==
  \E event \in Events \ StatusEvents :
    /\ Record(RKey(r), event)
    /\ UNCHANGED <<claims, runs, callVars, faults>>

Leaves(r) == UNCHANGED <<ledgerVars, callVars>> /\ faults' \in 0 .. MaxFaults

LEMMA ReconcilerCases ==
  ASSUME SharedInv, NEW r \in Reconcilers, Reconcile(r)
  PROVE  rpc[r] # "idle" /\ Carries(r) /\ (Sets(r) \/ Notes(r) \/ Leaves(r))
<1>0. /\ faults \in 0 .. MaxFaults /\ MaxFaults \in Nat
      /\ rpc[r] = "setting" => Assess(evidence[r]) \in Settling
  BY SharedParts DEF SharedInv, EvidenceInv
<1>a. /\ {"RAISED", "OWNER_GATE_BLOCKED", "FAIL_CLOSED", "NOOP_ALREADY_SUCCEEDED"} \subseteq Verdicts
      /\ Settling \subseteq Verdicts
      /\ "RECONCILED_SUCCEEDED" \in Verdicts /\ "RECONCILED_FAILED_RETRYABLE" \in Verdicts
      /\ TRUE \in BOOLEAN /\ FALSE \in BOOLEAN
  BY DEF Verdicts, Settling
<1>1. UNCHANGED vars => Leaves(r)
  BY <1>0 DEF vars, Leaves, ledgerVars, callVars
<1>2. CASE OwnerGated(r)
  BY <1>a, <1>1, <1>2 DEF OwnerGated, Carries
<1>3. CASE ReadState(r)
  <2> DEFINE status == claims[RKey(r)].status
             verdict == IF status \in DOMAIN LocalAnswer THEN LocalAnswer[status]
                                                         ELSE Assess(evidence[r])
  <2>1. /\ rpc[r] = "gathered" /\ UNCHANGED vars
        /\ IF verdict \in Settling
             THEN /\ rpc' = [rpc EXCEPT ![r] = "setting"]
                  /\ UNCHANGED <<rwork, evidence, rdecision, reconciles>>
             ELSE RDone(r, verdict, FALSE)
    BY <1>3 DEF ReadState
  <2>2. status \in DOMAIN LocalAnswer => verdict \in Verdicts /\ verdict \notin Settling
    BY DEF LocalAnswer, Settling, Verdicts
  <2>3. Assess(evidence[r]) \in Verdicts
    BY DEF Assess, Verdicts
  <2>4. CASE verdict \in Settling
    <3>1. Assess(evidence[r]) \in Settling
      BY <2>2, <2>4
    <3> QED
      BY <2>1, <2>4, <3>1, <1>1 DEF Carries
  <2>5. CASE verdict \notin Settling
    <3>1. verdict \in Verdicts
      BY <2>2, <2>3
    <3> QED
      BY <1>a, <2>1, <2>5, <3>1, <1>1 DEF Carries
  <2> QED
    BY <2>4, <2>5
<1>4. CASE SetState(r)
  <2>1. RDone(r, Assess(evidence[r]), TRUE) /\ Assess(evidence[r]) \in Settling /\ Sets(r)
        /\ rpc[r] = "setting"
    BY <1>0, <1>4 DEF SetState, Sets
  <2> QED
    BY <1>a, <1>0, <2>1 DEF Carries
<1>5. CASE SetStateNoop(r)
  <2>1. Notes(r)
    BY <1>5 DEF SetStateNoop, Notes, Events, StatusEvents
  <2>2. Carries(r)
    BY <1>a, <1>5 DEF SetStateNoop, Carries
  <2> QED
    BY <1>5, <2>1, <2>2 DEF SetStateNoop
<1>6. CASE Recheck(r)
  BY <1>a, <1>1, <1>6 DEF Recheck, Carries
<1>7. CASE RAbandon(r)
  <2>1. faults' \in 0 .. MaxFaults
    BY <1>0, <1>7 DEF RAbandon
  <2> QED
    BY <1>a, <1>7, <2>1 DEF RAbandon, Carries, Leaves
<1> QED
  BY <1>2, <1>3, <1>4, <1>5, <1>6, <1>7 DEF Reconcile

(* Reports are well formed, and honest about runs that failed cleanly.     *)
LEMMA ReportTypes ==
  ASSUME NEW k \in Keys, runs \in [Keys -> Seq(RunStates)],
         NEW reports \in PossibleEvidence(k)
  PROVE  /\ reports \subseteq Report
         /\ \A m \in reports : m.exact /\ m.state = "FAILED" /\ ~m.effect =>
              m.run \in DOMAIN runs[k] /\ runs[k][m.run] = "FAILED"
<1>1. PICK seen \in [DOMAIN runs[k] -> {"fresh", "stale", "missed"}],
           noise \in {{}} \cup {{n} : n \in Noise} :
        reports = {HonestReport(k, i, seen[i] = "fresh") :
                     i \in {j \in DOMAIN seen : seen[j] # "missed"}} \cup noise
  BY DEF PossibleEvidence
<1>2. ASSUME NEW m \in reports
      PROVE  /\ m \in Report
             /\ m.exact /\ m.state = "FAILED" /\ ~m.effect =>
                  m.run \in DOMAIN runs[k] /\ runs[k][m.run] = "FAILED"
  <2>1. CASE m \in noise
    <3>1. m \in Noise
      BY <1>1, <2>1
    <3>2. CASE m = [run |-> 0, state |-> "SUCCEEDED", effect |-> FALSE,
                    fresh |-> TRUE, exact |-> FALSE]
      BY <3>2 DEF Report
    <3>3. CASE m = [run |-> 0, state |-> "UNKNOWN", effect |-> FALSE,
                    fresh |-> TRUE, exact |-> TRUE]
      BY <3>3 DEF Report
    <3> QED
      BY <3>1, <3>2, <3>3 DEF Noise
  <2>2. CASE m \notin noise
    <3>1. PICK i \in DOMAIN runs[k] : m = HonestReport(k, i, seen[i] = "fresh")
      BY <1>1, <1>2, <2>2
    <3>2. runs[k] \in Seq(RunStates) /\ DOMAIN runs[k] = 1 .. Len(runs[k])
          /\ Len(runs[k]) \in Nat
      OBVIOUS
    <3>3. i \in Nat /\ runs[k][i] \in RunStates
      BY <3>2
    <3>4. /\ m.run = i /\ m.exact = TRUE /\ m.effect = (runs[k][i] = "FAILED_EFFECT")
          /\ m.state = IF runs[k][i] = "FAILED_EFFECT" THEN "FAILED" ELSE runs[k][i]
      BY <3>1 DEF HonestReport
    <3>5. m \in Report
      BY <3>1, <3>3 DEF HonestReport, Report, RunStates
    <3> QED
      BY <3>3, <3>4, <3>5
  <2> QED
    BY <2>1, <2>2
<1> QED
  BY <1>2

-----------------------------------------------------------------------------
(* The audit trail under one step                                          *)

Replays(k) ==
  /\ claims[k].attempts = Cardinality(EventsOf(k, {"CLAIMED", "RETRY_CLAIMED"}))
  /\ claims[k].status \notin {"ABSENT", "ALIEN"} =>
       \E i \in EventsOf(k, DOMAIN StatusAfterR) :
         /\ StatusAfterR[audit[k][i]] = claims[k].status
         /\ \A j \in EventsOf(k, DOMAIN StatusAfterR) : j <= i

(* A row and its trail change together: nothing, an event that says        *)
(* nothing of the row, a status with its event; or the row becomes alien.  *)
Follows(k) ==
  \/ claims'[k] = claims[k] /\ audit'[k] = audit[k]
  \/ /\ claims'[k] = claims[k]
     /\ \E event \in Events \ StatusEvents : audit'[k] = Append(audit[k], event)
  \/ \E event \in StatusEvents :
       /\ audit'[k] = Append(audit[k], event)
       /\ claims'[k].status = StatusAfterR[event]
       /\ claims'[k].attempts = IF event \in {"CLAIMED", "RETRY_CLAIMED"}
                                  THEN claims[k].attempts + 1 ELSE claims[k].attempts
  \/ /\ claims'[k].status = "ALIEN" /\ claims'[k].attempts = claims[k].attempts
     /\ audit'[k] = audit[k]

LEMMA AppendEvents ==
  ASSUME NEW k, NEW types, NEW event, audit[k] \in Seq(Events), event \in Events,
         audit'[k] = Append(audit[k], event)
  PROVE  /\ Len(audit[k]) \in Nat
         /\ EventsOf(k, types) \subseteq 1 .. Len(audit[k])
         /\ IsFiniteSet(EventsOf(k, types))
         /\ event \in types => EventsOf(k, types)' = EventsOf(k, types) \cup {Len(audit[k]) + 1}
         /\ event \notin types => EventsOf(k, types)' = EventsOf(k, types)
         /\ \A i \in 1 .. Len(audit[k]) : audit'[k][i] = audit[k][i]
         /\ audit'[k][Len(audit[k]) + 1] = event
<1> DEFINE n == Len(audit[k])
<1>1. n \in Nat /\ DOMAIN audit[k] = 1 .. n /\ DOMAIN audit'[k] = 1 .. n + 1
  OBVIOUS
<1>2. (\A i \in 1 .. n : audit'[k][i] = audit[k][i]) /\ audit'[k][n + 1] = event
  OBVIOUS
<1>3. EventsOf(k, types) = {i \in 1 .. n : audit[k][i] \in types}
  BY <1>1 DEF EventsOf
<1>4. EventsOf(k, types)' = {i \in 1 .. n + 1 : audit'[k][i] \in types}
  BY <1>1 DEF EventsOf
<1>5. IsFiniteSet(EventsOf(k, types))
  <2>1. IsFiniteSet(1 .. n)
    BY <1>1, FS_Interval
  <2>2. EventsOf(k, types) \in SUBSET (1 .. n)
    BY <1>3
  <2> QED
    BY <2>1, <2>2, FS_Subset
<1> QED
  BY <1>1, <1>2, <1>3, <1>4, <1>5

LEMMA ReplayStep ==
  ASSUME NEW k \in Keys, Replays(k), Follows(k), audit[k] \in Seq(Events),
         claims[k].attempts \in Nat
  PROVE  Replays(k)'
<1> DEFINE Grants == {"CLAIMED", "RETRY_CLAIMED"}
<1>1. DOMAIN StatusAfterR = StatusEvents /\ StatusEvents \subseteq Events
      /\ Grants \subseteq StatusEvents
  BY StatusEventsTell DEF StatusEvents
<1>2. CASE claims'[k] = claims[k] /\ audit'[k] = audit[k]
  BY <1>2 DEF Replays, EventsOf
<1>3. CASE /\ claims'[k] = claims[k]
           /\ \E event \in Events \ StatusEvents : audit'[k] = Append(audit[k], event)
  <2>1. PICK event \in Events \ StatusEvents : audit'[k] = Append(audit[k], event)
    BY <1>3
  <2>2. EventsOf(k, Grants)' = EventsOf(k, Grants)
    BY <1>1, <2>1, AppendEvents
  <2>3. EventsOf(k, StatusEvents)' = EventsOf(k, StatusEvents)
        /\ EventsOf(k, StatusEvents) \subseteq 1 .. Len(audit[k])
        /\ \A i \in 1 .. Len(audit[k]) : audit'[k][i] = audit[k][i]
    BY <2>1, AppendEvents
  <2> QED
    BY <1>1, <1>3, <2>2, <2>3 DEF Replays
<1>4. CASE \E event \in StatusEvents :
             /\ audit'[k] = Append(audit[k], event)
             /\ claims'[k].status = StatusAfterR[event]
             /\ claims'[k].attempts = IF event \in Grants
                                        THEN claims[k].attempts + 1 ELSE claims[k].attempts
  <2>1. PICK event \in StatusEvents :
          /\ audit'[k] = Append(audit[k], event)
          /\ claims'[k].status = StatusAfterR[event]
          /\ claims'[k].attempts = IF event \in Grants
                                     THEN claims[k].attempts + 1 ELSE claims[k].attempts
    BY <1>4
  <2> DEFINE n == Len(audit[k])
  <2>2. event \in Events
    BY <1>1
  <2>3. n \in Nat /\ audit'[k][n + 1] = event
    BY <2>1, <2>2, AppendEvents
  <2>4. claims'[k].attempts = Cardinality(EventsOf(k, Grants)')
    <3>1. /\ EventsOf(k, Grants) \subseteq 1 .. n /\ IsFiniteSet(EventsOf(k, Grants))
          /\ event \in Grants => EventsOf(k, Grants)' = EventsOf(k, Grants) \cup {n + 1}
          /\ event \notin Grants => EventsOf(k, Grants)' = EventsOf(k, Grants)
      BY <2>1, <2>2, AppendEvents
    <3>2. claims[k].attempts = Cardinality(EventsOf(k, Grants))
      BY DEF Replays
    <3>3. n + 1 \notin EventsOf(k, Grants)
      BY <2>3, <3>1
    <3>4. Cardinality(EventsOf(k, Grants) \cup {n + 1}) = Cardinality(EventsOf(k, Grants)) + 1
      BY <3>1, <3>3, FS_AddElement
    <3> QED
      BY <2>1, <3>1, <3>2, <3>4
  <2>5. /\ EventsOf(k, StatusEvents)' = EventsOf(k, StatusEvents) \cup {n + 1}
        /\ EventsOf(k, StatusEvents) \subseteq 1 .. n
    BY <2>1, <2>2, AppendEvents
  <2>6. n + 1 \in EventsOf(k, StatusEvents)' /\ \A j \in EventsOf(k, StatusEvents)' : j <= n + 1
    BY <2>3, <2>5
  <2> QED
    BY <1>1, <2>1, <2>3, <2>4, <2>6 DEF Replays
<1>5. CASE /\ claims'[k].status = "ALIEN" /\ claims'[k].attempts = claims[k].attempts
           /\ audit'[k] = audit[k]
  BY <1>5 DEF Replays, EventsOf
<1> QED
  BY <1>2, <1>3, <1>4, <1>5 DEF Follows

(* In every step each row follows its trail, and a row's limit changes     *)
(* only with a grant.                                                      *)
LEMMA RowsFollow ==
  ASSUME SharedInv, [RNext]_allVars
  PROVE  \A k \in Keys : Follows(k)
<1> SUFFICES ASSUME NEW k \in Keys
             PROVE  Follows(k)
  OBVIOUS
<1>0. /\ claims \in [Keys -> [status : Statuses, attempts : Nat, limit : Int]]
      /\ audit \in [Keys -> Seq(Events)]
      /\ \A e \in Executors : pc[e] # "idle" => work[e] \in Items /\ Key(e) \in Keys
      /\ \A r \in Reconcilers : rpc[r] # "idle" => rwork[r] \in Items /\ RKey(r) \in Keys
  BY SharedParts
<1>t. /\ StatusEvents \subseteq Events /\ Settling \subseteq StatusEvents
      /\ {"CLAIMED", "RETRY_CLAIMED", "RECONCILE_REQUIRED"} \cup MarkStatuses \subseteq StatusEvents
      /\ StatusAfterR["CLAIMED"] = "CLAIMED" /\ StatusAfterR["RETRY_CLAIMED"] = "CLAIMED"
      /\ \A status \in MarkStatuses : StatusAfterR[status] = status
      /\ StatusAfterR["RECONCILE_REQUIRED"] = "RECONCILE_REQUIRED"
      /\ \A v \in Settling : StatusAfterR[v] = RequestedStatus[v]
      /\ \A v \in MarkStatuses \cup Settling : v \notin {"CLAIMED", "RETRY_CLAIMED"}
  BY StatusEventsTell DEF StatusEvents, Settling, MarkStatuses
<1>1. UNCHANGED <<claims, audit>> => Follows(k)
  BY DEF Follows
<1>2. ASSUME NEW key \in Keys, NEW event \in Events, Record(key, event)
      PROVE  audit'[k] = IF k = key THEN Append(audit[k], event) ELSE audit[k]
  BY <1>0, <1>2 DEF Record
<1>3. ASSUME NEW key \in Keys, NEW status, SetStatus(key, status)
      PROVE  IF k = key THEN /\ claims'[k].status = status
                             /\ claims'[k].attempts = claims[k].attempts
                        ELSE claims'[k] = claims[k]
  BY <1>0, <1>3 DEF SetStatus
<1>4. ASSUME NEW key \in Keys, NEW status, NEW event \in StatusEvents,
             SetStatus(key, status), Record(key, event), status = StatusAfterR[event],
             event \notin {"CLAIMED", "RETRY_CLAIMED"}
      PROVE  Follows(k)
  <2>1. audit'[k] = IF k = key THEN Append(audit[k], event) ELSE audit[k]
    BY <1>2, <1>4, <1>t
  <2> QED
    BY <2>1, <1>3, <1>4 DEF Follows
<1>5. ASSUME NEW e \in Executors, NEW item \in Items, Granted(e, item)
      PROVE  Follows(k)
  <2>1. PICK l \in Int, event \in {"CLAIMED", "RETRY_CLAIMED"} :
          Grant(e, item, claims[item.dedupe_key].attempts + 1, l, event)
    BY <1>5 DEF Granted
  <2>2. item.dedupe_key \in Keys /\ event \in Events /\ event \in StatusEvents
    BY ItemTypes, <1>t
  <2>3. audit'[k] = IF k = item.dedupe_key THEN Append(audit[k], event) ELSE audit[k]
    BY <1>2, <2>1, <2>2 DEF Grant
  <2>4. claims'[k] = IF k = item.dedupe_key
                       THEN [status |-> "CLAIMED",
                             attempts |-> claims[item.dedupe_key].attempts + 1, limit |-> l]
                       ELSE claims[k]
    BY <1>0, <2>1, <2>2 DEF Grant
  <2>5. StatusAfterR[event] = "CLAIMED"
    BY <1>t
  <2>6. CASE k = item.dedupe_key
    BY <2>2, <2>3, <2>4, <2>5, <2>6 DEF Follows
  <2>7. CASE k # item.dedupe_key
    BY <2>3, <2>4, <2>7 DEF Follows
  <2> QED
    BY <2>6, <2>7
<1>6. ASSUME NEW e \in Executors, NEW item \in Items, Answered(e, item)
      PROVE  Follows(k)
  <2>1. item.dedupe_key \in Keys /\ claims' = claims
    BY <1>6, ItemTypes DEF Answered
  <2>2. CASE UNCHANGED audit
    BY <2>1, <2>2, <1>1
  <2>3. CASE \E event \in Events \ StatusEvents : Record(item.dedupe_key, event)
    BY <2>1, <2>3, <1>2 DEF Follows
  <2>4. CASE /\ claims[item.dedupe_key].status = "RECONCILE_REQUIRED"
             /\ Record(item.dedupe_key, "RECONCILE_REQUIRED")
    <3>1. audit'[k] = IF k = item.dedupe_key THEN Append(audit[k], "RECONCILE_REQUIRED")
                                             ELSE audit[k]
      BY <2>1, <2>4, <1>2, <1>t
    <3> QED
      BY <2>1, <2>4, <3>1, <1>t DEF Follows
  <2> QED
    BY <1>6, <2>2, <2>3, <2>4 DEF Answered
<1>7. ASSUME NEW e \in Executors, Marks(e) \/ Ends(e) \/ Dispatch(e) \/ CallbackReturns(e)
      PROVE  Follows(k)
  <2>1. CASE Marks(e)
    <3>1. PICK status \in MarkStatuses, outcome \in Outcomes :
            pc[e] = "returned" /\ Mark(e, status, outcome)
      BY <2>1 DEF Marks
    <3>2. Key(e) \in Keys
      BY <1>0, <3>1
    <3> QED
      BY <1>t, <1>4, <3>1, <3>2 DEF Mark
  <2> QED
    BY <1>1, <1>7, <2>1 DEF Ends, Dispatch, CallbackReturns, ledgerVars
<1>8. ASSUME NEW key \in Keys, RunEnds(key) \/ ForeignStatus(key)
      PROVE  Follows(k)
  <2>1. CASE ForeignStatus(key)
    BY <2>1, <1>3 DEF ForeignStatus, Follows
  <2> QED
    BY <1>1, <1>8, <2>1 DEF RunEnds
<1>9. ASSUME NEW r \in Reconcilers, Reconcile(r)
      PROVE  Follows(k)
  <2>1. RKey(r) \in Keys /\ (Sets(r) \/ Notes(r) \/ Leaves(r))
    BY <1>0, <1>9, ReconcilerCases
  <2>2. CASE Sets(r)
    BY <1>t, <1>4, <2>1, <2>2 DEF Sets, UpdateRow
  <2>3. CASE Notes(r)
    BY <1>2, <2>1, <2>3 DEF Notes, Follows
  <2> QED
    BY <1>1, <2>1, <2>2, <2>3 DEF Leaves, ledgerVars
<1>10. ASSUME NEW r \in Reconcilers, NEW item \in Items, Gather(r, item)
       PROVE  Follows(k)
  BY <1>1, <1>10 DEF Gather, vars
<1>11. CASE Next
  BY <1>5, <1>6, <1>7, <1>8, <1>11, ExecutorCases
<1>12. CASE UNCHANGED allVars
  BY <1>1, <1>12 DEF allVars, vars
<1> QED
  BY <1>9, <1>10, <1>11, <1>12 DEF RNext

-----------------------------------------------------------------------------
(* The other parts of the invariant under one step                         *)

LEMMA SharedInit == RInit => SharedInv
<1> SUFFICES ASSUME RInit PROVE SharedInv
  OBVIOUS
<1>1. TypeOK
  BY InitInv DEF RInit, LedgerInv
<1>2. RTypeOK
  <2>1. [status |-> "none", updated |-> FALSE] \in Decision
    BY DEF Decision, Verdicts
  <2>2. reconciles \in 0 .. MaxReconciles
    BY ReconcilerAssumption DEF RInit
  <2> QED
    BY <1>1, <2>1, <2>2 DEF RInit, RTypeOK
<1>3. (\A e \in Executors : pc[e] # "idle" => work[e] \in Items) /\ EvidenceInv
  BY DEF RInit, Init, EvidenceInv
<1>4. ASSUME NEW k \in Keys
      PROVE  /\ claims[k].status = "ABSENT" => claims[k].attempts = 0
             /\ WithinLimit(k, claims[k].attempts, claims[k].limit)
             /\ IsFiniteSet(Waiting(k))
             /\ Len(runs[k]) + Cardinality(Waiting(k)) <= claims[k].attempts
  <2>1. claims[k] = [status |-> "ABSENT", attempts |-> 0, limit |-> 0] /\ Len(runs[k]) = 0
    BY DEF RInit, Init
  <2>2. Waiting(k) = {}
    BY DEF RInit, Init, Waiting, Active
  <2> QED
    BY <2>1, <2>2, FS_EmptySet DEF WithinLimit
<1>5. ASSUME NEW k \in Keys
      PROVE  Replays(k)
  <2>1. claims[k] = [status |-> "ABSENT", attempts |-> 0, limit |-> 0] /\ audit[k] = <<>>
    BY DEF RInit, Init
  <2>2. EventsOf(k, {"CLAIMED", "RETRY_CLAIMED"}) = {}
    BY <2>1 DEF EventsOf
  <2>3. claims[k].status = "ABSENT" /\ claims[k].attempts = 0
    BY <2>1
  <2>4. Cardinality(EventsOf(k, {"CLAIMED", "RETRY_CLAIMED"})) = 0
    BY <2>2, FS_EmptySet
  <2> QED
    BY <2>3, <2>4 DEF Replays
<1> QED
  BY <1>2, <1>3, <1>4, <1>5 DEF SharedInv, AttemptsInv, SharedAuditReplaysRow, Replays

(* What the executors' part of a step leaves in each row and list of runs. *)
LEMMA ExecutorTypes ==
  ASSUME SharedInv, Next
  PROVE  /\ TypeOK'
         /\ \A e \in Executors : (pc[e] # "idle")' => (work[e] \in Items)'
<1>0. /\ claims \in [Keys -> [status : Statuses, attempts : Nat, limit : Int]]
      /\ audit \in [Keys -> Seq(Events)]
      /\ runs \in [Keys -> Seq(RunStates)]
      /\ pc \in [Executors -> {"idle", "claimed", "dispatching", "returned"}]
      /\ work \in [Executors -> Items \cup {NoItem}]
      /\ attempt \in [Executors -> Nat]
      /\ run \in [Executors -> Nat]
      /\ answer \in [Executors -> {"none", "success", "failure", "uncertain"}]
      /\ decision \in [Executors -> Outcomes]
      /\ faults \in 0 .. MaxFaults /\ MaxFaults \in Nat
      /\ \A e \in Executors : pc[e] # "idle" => work[e] \in Items /\ Key(e) \in Keys
  BY SharedParts
<1>t. /\ {"CLAIMED", "ALIEN"} \cup MarkStatuses \subseteq Statuses
      /\ StatusEvents \subseteq Events
      /\ {"CLAIMED", "RETRY_CLAIMED", "RECONCILE_REQUIRED"} \cup MarkStatuses \subseteq Events
      /\ "none" \in Outcomes
  BY DEF Statuses, MarkStatuses, StatusEvents, Events, Outcomes
<1>1. ASSUME NEW k \in Keys, NEW event \in Events, Record(k, event)
      PROVE  audit' \in [Keys -> Seq(Events)]
  BY <1>0, <1>1 DEF Record
<1>2. ASSUME NEW k \in Keys, NEW status \in Statuses, SetStatus(k, status)
      PROVE  claims' \in [Keys -> [status : Statuses, attempts : Nat, limit : Int]]
  BY <1>0, <1>2 DEF SetStatus
<1>3. ASSUME NEW e \in Executors, NEW outcome \in Outcomes, pc[e] # "idle", Return(e, outcome)
      PROVE  /\ pc' \in [Executors -> {"idle", "claimed", "dispatching", "returned"}]
             /\ work' \in [Executors -> Items \cup {NoItem}]
             /\ attempt' \in [Executors -> Nat]
             /\ run' \in [Executors -> Nat]
             /\ answer' \in [Executors -> {"none", "success", "failure", "uncertain"}]
             /\ decision' \in [Executors -> Outcomes]
             /\ \A f \in Executors : (pc[f] # "idle")' => (work[f] \in Items)'
  BY <1>0, <1>3 DEF Return
<1>4. ASSUME NEW e \in Executors, NEW item \in Items, Granted(e, item)
      PROVE  /\ TypeOK'
             /\ \A f \in Executors : (pc[f] # "idle")' => (work[f] \in Items)'
  <2>1. PICK l \in Int, event \in {"CLAIMED", "RETRY_CLAIMED"} :
          Grant(e, item, claims[item.dedupe_key].attempts + 1, l, event)
    BY <1>4 DEF Granted
  <2>2. item.dedupe_key \in Keys /\ claims[item.dedupe_key].attempts + 1 \in Nat
        /\ event \in Events
    BY <1>0, <1>t, ItemTypes
  <2>3. claims' \in [Keys -> [status : Statuses, attempts : Nat, limit : Int]]
    BY <1>0, <1>t, <2>1, <2>2 DEF Grant
  <2>4. audit' \in [Keys -> Seq(Events)]
    BY <1>1, <2>1, <2>2 DEF Grant
  <2>5. /\ pc' \in [Executors -> {"idle", "claimed", "dispatching", "returned"}]
        /\ work' \in [Executors -> Items \cup {NoItem}]
        /\ attempt' \in [Executors -> Nat]
        /\ decision' \in [Executors -> Outcomes]
        /\ \A f \in Executors : (pc[f] # "idle")' => (work[f] \in Items)'
        /\ UNCHANGED <<runs, run, answer, faults>>
    BY <1>0, <1>t, <2>1, <2>2 DEF Grant
  <2> QED
    BY <1>0, <2>3, <2>4, <2>5 DEF TypeOK
<1>5. ASSUME NEW e \in Executors, NEW item \in Items, Answered(e, item)
      PROVE  /\ TypeOK'
             /\ \A f \in Executors : (pc[f] # "idle")' => (work[f] \in Items)'
  <2>1. PICK outcome \in Outcomes : pc[e] = "idle" /\ Answer(e, item, outcome)
    BY <1>5 DEF Answered
  <2>2. /\ UNCHANGED <<claims, runs>> /\ faults' \in 0 .. MaxFaults
        /\ item.dedupe_key \in Keys
    BY <1>5, ItemTypes DEF Answered
  <2>3. audit' \in [Keys -> Seq(Events)]
    BY <1>0, <1>t, <1>1, <1>5, <2>2 DEF Answered
  <2>4. /\ work' \in [Executors -> Items \cup {NoItem}]
        /\ decision' \in [Executors -> Outcomes]
        /\ UNCHANGED <<pc, attempt, run, answer>>
        /\ \A f \in Executors : (pc[f] # "idle")' => (work[f] \in Items)'
    BY <1>0, <2>1 DEF Answer
  <2> QED
    BY <1>0, <2>2, <2>3, <2>4 DEF TypeOK
<1>6. ASSUME NEW e \in Executors, Marks(e) \/ Ends(e)
      PROVE  /\ TypeOK'
             /\ \A f \in Executors : (pc[f] # "idle")' => (work[f] \in Items)'
  <2>1. PICK outcome \in Outcomes : pc[e] # "idle" /\ Return(e, outcome)
    BY <1>6 DEF Marks, Mark, Ends
  <2>2. Key(e) \in Keys
    BY <1>0, <2>1
  <2>3. /\ claims' \in [Keys -> [status : Statuses, attempts : Nat, limit : Int]]
        /\ audit' \in [Keys -> Seq(Events)] /\ runs' = runs /\ faults' \in 0 .. MaxFaults
    <3>1. CASE Marks(e)
      <4>1. PICK status \in MarkStatuses :
              /\ SetStatus(Key(e), status) /\ Record(Key(e), status)
              /\ UNCHANGED <<runs, faults>>
        BY <3>1 DEF Marks, Mark
      <4> QED
        BY <1>0, <1>t, <1>1, <1>2, <2>2, <4>1
    <3>2. CASE Ends(e)
      BY <1>0, <3>2 DEF Ends, ledgerVars
    <3> QED
      BY <1>6, <3>1, <3>2
  <2> QED
    BY <1>0, <1>3, <2>1, <2>3 DEF TypeOK
<1>7. ASSUME NEW e \in Executors, Dispatch(e)
      PROVE  /\ TypeOK'
             /\ \A f \in Executors : (pc[f] # "idle")' => (work[f] \in Items)'
  <2>1. pc[e] = "claimed" /\ Key(e) \in Keys /\ "RUNNING" \in RunStates
    BY <1>0, <1>7 DEF Dispatch, RunStates
  <2>2. runs' \in [Keys -> Seq(RunStates)] /\ Len(runs[Key(e)]) + 1 \in Nat
    BY <1>0, <1>7, <2>1 DEF Dispatch
  <2>3. run' \in [Executors -> Nat]
    BY <1>0, <1>7, <2>2 DEF Dispatch
  <2>4. /\ pc' \in [Executors -> {"idle", "claimed", "dispatching", "returned"}]
        /\ UNCHANGED <<claims, audit, work, attempt, answer, decision, faults>>
        /\ \A f \in Executors : (pc[f] # "idle")' => (work[f] \in Items)'
    BY <1>0, <1>7, <2>1 DEF Dispatch
  <2> QED
    BY <1>0, <2>2, <2>3, <2>4 DEF TypeOK
<1>8. ASSUME NEW e \in Executors, CallbackReturns(e)
      PROVE  /\ TypeOK'
             /\ \A f \in Executors : (pc[f] # "idle")' => (work[f] \in Items)'
  <2>1. /\ pc' \in [Executors -> {"idle", "claimed", "dispatching", "returned"}]
        /\ answer' \in [Executors -> {"none", "success", "failure", "uncertain"}]
        /\ UNCHANGED <<claims, audit, runs, work, attempt, run, decision, faults>>
        /\ \A f \in Executors : (pc[f] # "idle")' => (work[f] \in Items)'
    BY <1>0, <1>8 DEF CallbackReturns, ledgerVars
  <2> QED
    BY <1>0, <2>1 DEF TypeOK
<1>9. ASSUME NEW k \in Keys, RunEnds(k)
      PROVE  /\ TypeOK'
             /\ \A f \in Executors : (pc[f] # "idle")' => (work[f] \in Items)'
  <2>1. runs' \in [Keys -> Seq(RunStates)]
    BY <1>0, <1>9 DEF RunEnds
  <2> QED
    BY <1>0, <1>9, <2>1 DEF RunEnds, callVars, TypeOK
<1>10. ASSUME NEW k \in Keys, ForeignStatus(k)
       PROVE  /\ TypeOK'
              /\ \A f \in Executors : (pc[f] # "idle")' => (work[f] \in Items)'
  <2>1. faults' \in 0 .. MaxFaults
    BY <1>0, <1>10 DEF ForeignStatus
  <2>2. claims' \in [Keys -> [status : Statuses, attempts : Nat, limit : Int]]
    BY <1>t, <1>2, <1>10 DEF ForeignStatus
  <2> QED
    BY <1>0, <1>10, <2>1, <2>2 DEF ForeignStatus, callVars, TypeOK
<1> QED
  BY <1>4, <1>5, <1>6, <1>7, <1>8, <1>9, <1>10, ExecutorCases

LEMMA SharedTypes ==
  ASSUME SharedInv, [RNext]_allVars
  PROVE  /\ RTypeOK'
         /\ \A e \in Executors : (pc[e] # "idle")' => (work[e] \in Items)'
<1>0. /\ runs \in [Keys -> Seq(RunStates)]
      /\ rpc \in [Reconcilers -> {"idle", "gathered", "setting", "rechecking"}]
      /\ rwork \in [Reconcilers -> Items \cup {NoItem}]
      /\ evidence \in [Reconcilers -> SUBSET Report]
      /\ rdecision \in [Reconcilers -> Decision]
      /\ reconciles \in 0 .. MaxReconciles /\ MaxReconciles \in Nat
      /\ \A r \in Reconcilers : rpc[r] # "idle" => RKey(r) \in Keys
  BY SharedParts, ReconcilerAssumption DEF SharedInv, RTypeOK
<1>1. TypeOK /\ \A e \in Executors : pc[e] # "idle" => work[e] \in Items
  BY DEF SharedInv, RTypeOK
<1>2. CASE Next /\ UNCHANGED reconcilerVars
  BY <1>0, <1>2, ExecutorTypes DEF reconcilerVars, RTypeOK
<1>3. CASE UNCHANGED allVars
  BY <1>0, <1>1, <1>3 DEF allVars, vars, reconcilerVars, RTypeOK, TypeOK
<1>4. ASSUME NEW r \in Reconcilers, NEW item \in Items, Gather(r, item)
      PROVE  /\ RTypeOK'
             /\ \A e \in Executors : (pc[e] # "idle")' => (work[e] \in Items)'
  <2>1. PICK reports \in PossibleEvidence(item.dedupe_key) :
          evidence' = [evidence EXCEPT ![r] = reports]
    BY <1>4 DEF Gather
  <2>2. item.dedupe_key \in Keys
    BY ItemTypes
  <2>3. reports \in SUBSET Report
    BY <1>0, <2>1, <2>2, ReportTypes
  <2>4. [status |-> "none", updated |-> FALSE] \in Decision
    BY DEF Decision, Verdicts
  <2>5. /\ rpc' \in [Reconcilers -> {"idle", "gathered", "setting", "rechecking"}]
        /\ rwork' \in [Reconcilers -> Items \cup {NoItem}]
        /\ evidence' \in [Reconcilers -> SUBSET Report]
        /\ rdecision' \in [Reconcilers -> Decision]
        /\ reconciles' \in 0 .. MaxReconciles
    BY <1>0, <1>4, <2>1, <2>3, <2>4 DEF Gather
  <2>6. TypeOK' /\ \A e \in Executors : (pc[e] # "idle")' => (work[e] \in Items)'
    BY <1>1, <1>4 DEF Gather, vars, TypeOK
  <2> QED
    BY <2>5, <2>6 DEF RTypeOK
<1>5. ASSUME NEW r \in Reconcilers, Reconcile(r)
      PROVE  /\ RTypeOK'
             /\ \A e \in Executors : (pc[e] # "idle")' => (work[e] \in Items)'
  <2>1. rpc[r] # "idle" /\ Carries(r) /\ (Sets(r) \/ Notes(r) \/ Leaves(r)) /\ RKey(r) \in Keys
    BY <1>0, <1>5, ReconcilerCases
  <2>2. /\ rpc' \in [Reconcilers -> {"idle", "gathered", "setting", "rechecking"}]
        /\ rwork' \in [Reconcilers -> Items \cup {NoItem}]
        /\ evidence' \in [Reconcilers -> SUBSET Report]
        /\ rdecision' \in [Reconcilers -> Decision]
        /\ reconciles' \in 0 .. MaxReconciles
    <3>1. CASE \E status \in Verdicts, updated \in BOOLEAN : RDone(r, status, updated)
      BY <1>0, <3>1 DEF RDone, Decision
    <3>2. CASE \E to \in {"setting", "rechecking"} :
                 /\ rpc' = [rpc EXCEPT ![r] = to]
                 /\ UNCHANGED <<rwork, evidence, rdecision, reconciles>>
      BY <1>0, <3>2
    <3> QED
      BY <2>1, <3>1, <3>2 DEF Carries
  <2>3. /\ claims' \in [Keys -> [status : Statuses, attempts : Nat, limit : Int]]
        /\ audit' \in [Keys -> Seq(Events)]
        /\ UNCHANGED <<runs, callVars>> /\ faults' \in 0 .. MaxFaults
    <3>1. CASE Sets(r)
      <4>1. PICK verdict \in Settling :
              /\ SetStatus(RKey(r), RequestedStatus[verdict]) /\ Record(RKey(r), verdict)
              /\ UNCHANGED <<runs, callVars, faults>>
        BY <3>1 DEF Sets, UpdateRow
      <4>2. RequestedStatus[verdict] \in Statuses /\ verdict \in Events
        BY DEF Settling, RequestedStatus, Statuses, Events
      <4>3. claims' \in [Keys -> [status : Statuses, attempts : Nat, limit : Int]]
        BY <1>1, <2>1, <4>1, <4>2 DEF SetStatus, TypeOK
      <4>4. audit' \in [Keys -> Seq(Events)]
        BY <1>1, <2>1, <4>1, <4>2 DEF Record, TypeOK
      <4> QED
        BY <1>1, <4>1, <4>3, <4>4 DEF TypeOK
    <3>2. CASE Notes(r)
      <4>1. PICK event \in Events : /\ Record(RKey(r), event)
                                    /\ UNCHANGED <<claims, runs, callVars, faults>>
        BY <3>2 DEF Notes
      <4>2. audit' \in [Keys -> Seq(Events)]
        BY <1>1, <2>1, <4>1 DEF Record, TypeOK
      <4> QED
        BY <1>1, <4>1, <4>2 DEF TypeOK
    <3>3. CASE Leaves(r)
      BY <1>1, <3>3 DEF Leaves, ledgerVars, TypeOK
    <3> QED
      BY <2>1, <3>1, <3>2, <3>3
  <2>4. TypeOK' /\ \A e \in Executors : (pc[e] # "idle")' => (work[e] \in Items)'
    BY <1>1, <2>3 DEF callVars, TypeOK
  <2> QED
    BY <2>2, <2>4 DEF RTypeOK
<1> QED
  BY <1>2, <1>3, <1>4, <1>5 DEF RNext

(* Rows and runs of a key: attempts are never taken back, and no run is    *)
(* started but by an executor that waited for its turn.                    *)
LEMMA AttemptsStep ==
  ASSUME SharedInv, [RNext]_allVars, NEW k \in Keys
  PROVE  /\ (claims[k].status = "ABSENT")' => (claims[k].attempts = 0)'
         /\ WithinLimit(k, claims'[k].attempts, claims'[k].limit)
         /\ IsFiniteSet(Waiting(k)')
         /\ Len(runs'[k]) + Cardinality(Waiting(k)') <= claims'[k].attempts
<1>0. /\ claims \in [Keys -> [status : Statuses, attempts : Nat, limit : Int]]
      /\ runs \in [Keys -> Seq(RunStates)]
      /\ pc \in [Executors -> {"idle", "claimed", "dispatching", "returned"}]
      /\ work \in [Executors -> Items \cup {NoItem}]
      /\ \A e \in Executors : pc[e] # "idle" => work[e] \in Items /\ Key(e) \in Keys
      /\ \A r \in Reconcilers : rpc[r] # "idle" => RKey(r) \in Keys
  BY SharedParts
<1>1. /\ claims[k].attempts \in Nat /\ claims[k].limit \in Int /\ Len(runs[k]) \in Nat
      /\ claims[k].status = "ABSENT" => claims[k].attempts = 0
      /\ WithinLimit(k, claims[k].attempts, claims[k].limit)
      /\ IsFiniteSet(Waiting(k)) /\ Cardinality(Waiting(k)) \in Nat
      /\ Len(runs[k]) + Cardinality(Waiting(k)) <= claims[k].attempts
  BY <1>0, FS_CardinalityType DEF SharedInv, AttemptsInv
<1>2. Waiting(k)' \subseteq Waiting(k) =>
        IsFiniteSet(Waiting(k)') /\ Cardinality(Waiting(k)') \in Nat
        /\ Cardinality(Waiting(k)') <= Cardinality(Waiting(k))
  BY <1>1, FS_Subset, FS_CardinalityType
<1>3. ASSUME Waiting(k)' \subseteq Waiting(k), Len(runs'[k]) = Len(runs[k]),
             \/ claims'[k] = claims[k]
             \/ /\ claims'[k].status # "ABSENT" /\ claims'[k].attempts = claims[k].attempts
                /\ claims'[k].limit = claims[k].limit
      PROVE  /\ claims'[k].status = "ABSENT" => claims'[k].attempts = 0
             /\ WithinLimit(k, claims'[k].attempts, claims'[k].limit)
             /\ IsFiniteSet(Waiting(k)')
             /\ Len(runs'[k]) + Cardinality(Waiting(k)') <= claims'[k].attempts
  <2>1. claims'[k].attempts = claims[k].attempts /\ claims'[k].limit = claims[k].limit
    BY <1>3
  <2>2. WithinLimit(k, claims'[k].attempts, claims'[k].limit)
    BY <1>1, <2>1
  <2> QED
    BY <1>1, <1>2, <1>3, <2>1, <2>2
<1>4. UNCHANGED <<pc, work>> => Waiting(k)' = Waiting(k)
  BY DEF Waiting, Active, Key
<1>5. ASSUME NEW key \in Keys, NEW status, SetStatus(key, status), status # "ABSENT"
      PROVE  \/ claims'[k] = claims[k]
             \/ /\ claims'[k].status # "ABSENT" /\ claims'[k].attempts = claims[k].attempts
                /\ claims'[k].limit = claims[k].limit
  BY <1>0, <1>5 DEF SetStatus
<1>6. ASSUME NEW e \in Executors, NEW item \in Items, Granted(e, item)
      PROVE  /\ claims'[k].status = "ABSENT" => claims'[k].attempts = 0
             /\ WithinLimit(k, claims'[k].attempts, claims'[k].limit)
             /\ IsFiniteSet(Waiting(k)')
             /\ Len(runs'[k]) + Cardinality(Waiting(k)') <= claims'[k].attempts
  <2>1. PICK l \in Int, event \in {"CLAIMED", "RETRY_CLAIMED"} :
          /\ pc[e] = "idle"
          /\ WithinLimit(item.dedupe_key, claims[item.dedupe_key].attempts + 1, l)
          /\ Grant(e, item, claims[item.dedupe_key].attempts + 1, l, event)
    BY <1>6 DEF Granted
  <2>2. item.dedupe_key \in Keys /\ runs' = runs
    BY <2>1, ItemTypes DEF Grant
  <2>3. CASE k = item.dedupe_key
    <3>1. claims'[k] = [status |-> "CLAIMED", attempts |-> claims[k].attempts + 1, limit |-> l]
      BY <1>0, <2>1, <2>2, <2>3 DEF Grant
    <3>2. Waiting(k)' = Waiting(k) \cup {e} /\ e \notin Waiting(k)
      BY <1>0, <2>1, <2>3 DEF Grant, Waiting, Active, Key
    <3>3. IsFiniteSet(Waiting(k)') /\ Cardinality(Waiting(k)') = Cardinality(Waiting(k)) + 1
      BY <1>1, <3>2, FS_AddElement
    <3> QED
      BY <1>1, <2>1, <2>2, <2>3, <3>1, <3>3
  <2>4. CASE k # item.dedupe_key
    <3>1. claims'[k] = claims[k]
      BY <1>0, <2>1, <2>2, <2>4 DEF Grant
    <3>2. Waiting(k)' \subseteq Waiting(k)
      BY <1>0, <2>1, <2>4 DEF Grant, Waiting, Active, Key
    <3> QED
      BY <1>3, <2>2, <3>1, <3>2
  <2> QED
    BY <2>3, <2>4
<1>7. ASSUME NEW e \in Executors, NEW item \in Items, Answered(e, item)
      PROVE  /\ claims'[k] = claims[k] /\ runs' = runs
             /\ Waiting(k)' \subseteq Waiting(k)
  BY <1>0, <1>7 DEF Answered, Answer, Waiting, Active, Key
<1>8. ASSUME NEW e \in Executors, NEW outcome, Return(e, outcome)
      PROVE  Waiting(k)' \subseteq Waiting(k)
  BY <1>0, <1>8 DEF Return, Waiting, Active, Key
<1>9. ASSUME NEW e \in Executors, Dispatch(e)
      PROVE  /\ claims'[k].status = "ABSENT" => claims'[k].attempts = 0
             /\ WithinLimit(k, claims'[k].attempts, claims'[k].limit)
             /\ IsFiniteSet(Waiting(k)')
             /\ Len(runs'[k]) + Cardinality(Waiting(k)') <= claims'[k].attempts
  <2>1. pc[e] = "claimed" /\ Key(e) \in Keys /\ claims' = claims
    BY <1>0, <1>9 DEF Dispatch
  <2>2. CASE Key(e) = k
    <3>1. Len(runs'[k]) = Len(runs[k]) + 1
      BY <1>0, <1>9, <2>1, <2>2 DEF Dispatch
    <3>2. Waiting(k)' = Waiting(k) \ {e} /\ e \in Waiting(k)
      BY <1>0, <1>9, <2>1, <2>2 DEF Dispatch, Waiting, Active, Key
    <3>3. IsFiniteSet(Waiting(k)') /\ Cardinality(Waiting(k)') = Cardinality(Waiting(k)) - 1
      BY <1>1, <3>2, FS_RemoveElement
    <3> QED
      BY <1>1, <2>1, <3>1, <3>3
  <2>3. CASE Key(e) # k
    <3>1. runs'[k] = runs[k]
      BY <1>0, <1>9, <2>1, <2>3 DEF Dispatch
    <3>2. Waiting(k)' \subseteq Waiting(k)
      BY <1>0, <1>9, <2>3 DEF Dispatch, Waiting, Active, Key
    <3> QED
      BY <1>3, <2>1, <3>1, <3>2
  <2> QED
    BY <2>2, <2>3
<1>10. ASSUME NEW e \in Executors, CallbackReturns(e)
       PROVE  claims' = claims /\ runs' = runs /\ Waiting(k)' \subseteq Waiting(k)
  BY <1>0, <1>10 DEF CallbackReturns, ledgerVars, Waiting, Active, Key
<1>11. ASSUME NEW e \in Executors, Marks(e) \/ Ends(e)
       PROVE  /\ runs' = runs /\ Waiting(k)' \subseteq Waiting(k)
              /\ \/ claims'[k] = claims[k]
                 \/ /\ claims'[k].status # "ABSENT" /\ claims'[k].attempts = claims[k].attempts
                    /\ claims'[k].limit = claims[k].limit
  <2>1. CASE Marks(e)
    <3>1. PICK status \in MarkStatuses, outcome \in Outcomes :
            /\ pc[e] = "returned" /\ SetStatus(Key(e), status) /\ Return(e, outcome)
            /\ runs' = runs
      BY <2>1 DEF Marks, Mark
    <3>2. Key(e) \in Keys /\ status # "ABSENT"
      BY <1>0, <3>1 DEF MarkStatuses
    <3> QED
      BY <1>5, <1>8, <3>1, <3>2
  <2>2. CASE Ends(e)
    BY <1>8, <2>2 DEF Ends, ledgerVars
  <2> QED
    BY <1>11, <2>1, <2>2
<1>12. ASSUME NEW key \in Keys, RunEnds(key)
       PROVE  claims' = claims /\ Len(runs'[k]) = Len(runs[k]) /\ Waiting(k)' = Waiting(k)
  BY <1>0, <1>4, <1>12 DEF RunEnds, callVars
<1>13. ASSUME NEW key \in Keys, ForeignStatus(key)
       PROVE  /\ runs' = runs /\ Waiting(k)' = Waiting(k)
              /\ \/ claims'[k] = claims[k]
                 \/ /\ claims'[k].status # "ABSENT" /\ claims'[k].attempts = claims[k].attempts
                    /\ claims'[k].limit = claims[k].limit
  BY <1>4, <1>5, <1>13 DEF ForeignStatus, callVars
<1>14. ASSUME NEW r \in Reconcilers, Reconcile(r)
       PROVE  /\ runs' = runs /\ Waiting(k)' = Waiting(k)
              /\ \/ claims'[k] = claims[k]
                 \/ /\ claims'[k].status # "ABSENT" /\ claims'[k].attempts = claims[k].attempts
                    /\ claims'[k].limit = claims[k].limit
  <2>1. RKey(r) \in Keys /\ (Sets(r) \/ Notes(r) \/ Leaves(r))
    BY <1>0, <1>14, ReconcilerCases
  <2>2. CASE Sets(r)
    <3>1. PICK verdict \in Settling :
            /\ SetStatus(RKey(r), RequestedStatus[verdict])
            /\ UNCHANGED <<runs, callVars, faults>>
      BY <2>2 DEF Sets, UpdateRow
    <3>2. RequestedStatus[verdict] # "ABSENT"
      BY DEF Settling, RequestedStatus
    <3> QED
      BY <1>4, <1>5, <2>1, <3>1, <3>2 DEF callVars
  <2> QED
    BY <1>4, <2>1, <2>2 DEF Notes, Leaves, ledgerVars, callVars
<1>15. ASSUME NEW r \in Reconcilers, NEW item \in Items, Gather(r, item)
       PROVE  claims' = claims /\ runs' = runs /\ Waiting(k)' = Waiting(k)
  BY <1>4, <1>15 DEF Gather, vars
<1>16. CASE UNCHANGED allVars
  BY <1>3, <1>4, <1>16 DEF allVars, vars
<1>17. CASE Next
  BY <1>3, <1>6, <1>7, <1>9, <1>10, <1>11, <1>12, <1>13, <1>17, ExecutorCases
<1> QED
  BY <1>3, <1>14, <1>15, <1>16, <1>17 DEF RNext

(* A run that failed cleanly has failed for good, and runs are only added. *)
LEMMA RunsKeep ==
  ASSUME SharedInv, [RNext]_allVars, NEW k \in Keys
  PROVE  \A i \in DOMAIN runs[k] : runs[k][i] = "FAILED" =>
           i \in DOMAIN runs'[k] /\ runs'[k][i] = "FAILED"
<1>0. /\ runs \in [Keys -> Seq(RunStates)]
      /\ \A e \in Executors : pc[e] # "idle" => work[e] \in Items /\ Key(e) \in Keys
  BY SharedParts
<1>1. CASE UNCHANGED runs
  BY <1>1
<1>2. ASSUME NEW e \in Executors, Dispatch(e)
      PROVE  \A i \in DOMAIN runs[k] : runs[k][i] = "FAILED" =>
               i \in DOMAIN runs'[k] /\ runs'[k][i] = "FAILED"
  <2>1. Key(e) \in Keys /\ runs' = [runs EXCEPT ![Key(e)] = Append(@, "RUNNING")]
    BY <1>0, <1>2 DEF Dispatch
  <2>2. runs'[k] = IF k = Key(e) THEN Append(runs[k], "RUNNING") ELSE runs[k]
    BY <1>0, <2>1
  <2> QED
    BY <1>0, <2>2
<1>3. ASSUME NEW key \in Keys, RunEnds(key)
      PROVE  \A i \in DOMAIN runs[k] : runs[k][i] = "FAILED" =>
               i \in DOMAIN runs'[k] /\ runs'[k][i] = "FAILED"
  BY <1>0, <1>3 DEF RunEnds
<1>4. CASE Next
  <2>1. \/ UNCHANGED runs
        \/ \E e \in Executors : Dispatch(e)
        \/ \E key \in Keys : RunEnds(key)
    BY <1>4, ExecutorCases DEF Granted, Grant, Answered, Marks, Mark, Ends, CallbackReturns,
       ForeignStatus, ledgerVars
  <2> QED
    BY <1>1, <1>2, <1>3, <2>1
<1>5. ASSUME NEW r \in Reconcilers, Reconcile(r)
      PROVE  UNCHANGED runs
  BY <1>5, ReconcilerCases DEF Sets, Notes, Leaves, ledgerVars
<1>6. ASSUME NEW r \in Reconcilers, NEW item \in Items, Gather(r, item)
      PROVE  UNCHANGED runs
  BY <1>6 DEF Gather, vars
<1>7. CASE UNCHANGED allVars
  BY <1>1, <1>7 DEF allVars, vars
<1> QED
  BY <1>1, <1>4, <1>5, <1>6, <1>7 DEF RNext

LEMMA EvidenceStep ==
  ASSUME SharedInv, [RNext]_allVars
  PROVE  EvidenceInv'
<1> SUFFICES ASSUME NEW r \in Reconcilers, rpc'[r] # "idle"
             PROVE  /\ rwork'[r] \in Items
                    /\ rpc'[r] = "setting" => Assess(evidence'[r]) \in Settling
                    /\ \A m \in evidence'[r] : m.exact /\ m.state = "FAILED" /\ ~m.effect =>
                         /\ m.run \in DOMAIN runs'[rwork'[r].dedupe_key]
                         /\ runs'[rwork'[r].dedupe_key][m.run] = "FAILED"
  BY DEF EvidenceInv, RKey, Assess, Exact, StaleExact, EffectExcluded
<1>0. /\ runs \in [Keys -> Seq(RunStates)]
      /\ rpc \in [Reconcilers -> {"idle", "gathered", "setting", "rechecking"}]
      /\ rwork \in [Reconcilers -> Items \cup {NoItem}]
      /\ evidence \in [Reconcilers -> SUBSET Report]
      /\ \A q \in Reconcilers : rpc[q] # "idle" => rwork[q] \in Items /\ RKey(q) \in Keys
  BY SharedParts
<1>1. rpc[r] # "idle" =>
        /\ rwork[r] \in Items /\ RKey(r) \in Keys
        /\ rpc[r] = "setting" => Assess(evidence[r]) \in Settling
        /\ \A m \in evidence[r] : m.exact /\ m.state = "FAILED" /\ ~m.effect =>
             m.run \in DOMAIN runs[RKey(r)] /\ runs[RKey(r)][m.run] = "FAILED"
  BY <1>0 DEF SharedInv, EvidenceInv
<1>2. ASSUME rpc[r] # "idle", rwork'[r] = rwork[r], evidence'[r] = evidence[r],
             rpc'[r] = "setting" => Assess(evidence[r]) \in Settling
      PROVE  /\ rwork'[r] \in Items
             /\ rpc'[r] = "setting" => Assess(evidence'[r]) \in Settling
             /\ \A m \in evidence'[r] : m.exact /\ m.state = "FAILED" /\ ~m.effect =>
                  /\ m.run \in DOMAIN runs'[rwork'[r].dedupe_key]
                  /\ runs'[rwork'[r].dedupe_key][m.run] = "FAILED"
  <2>1. \A i \in DOMAIN runs[RKey(r)] : runs[RKey(r)][i] = "FAILED" =>
          i \in DOMAIN runs'[RKey(r)] /\ runs'[RKey(r)][i] = "FAILED"
    BY <1>1, <1>2, RunsKeep
  <2>2. rwork'[r].dedupe_key = RKey(r)
    BY <1>2 DEF RKey
  <2> QED
    BY <1>1, <1>2, <2>1, <2>2
<1>3. CASE UNCHANGED reconcilerVars
  BY <1>1, <1>2, <1>3 DEF reconcilerVars
<1>4. ASSUME NEW q \in Reconcilers, NEW item \in Items, Gather(q, item)
      PROVE  /\ rwork'[r] \in Items
             /\ rpc'[r] = "setting" => Assess(evidence'[r]) \in Settling
             /\ \A m \in evidence'[r] : m.exact /\ m.state = "FAILED" /\ ~m.effect =>
                  /\ m.run \in DOMAIN runs'[rwork'[r].dedupe_key]
                  /\ runs'[rwork'[r].dedupe_key][m.run] = "FAILED"
  <2>1. PICK reports \in PossibleEvidence(item.dedupe_key) :
          evidence' = [evidence EXCEPT ![q] = reports]
    BY <1>4 DEF Gather
  <2>2. CASE q = r
    <3>1. /\ rpc'[r] = "gathered" /\ rwork'[r] = item /\ evidence'[r] = reports
          /\ runs' = runs /\ item.dedupe_key \in Keys
      BY <1>0, <1>4, <2>1, <2>2, ItemTypes DEF Gather, vars
    <3>2. \A m \in reports : m.exact /\ m.state = "FAILED" /\ ~m.effect =>
            /\ m.run \in DOMAIN runs[item.dedupe_key]
            /\ runs[item.dedupe_key][m.run] = "FAILED"
      BY <1>0, <2>1, <3>1, ReportTypes
    <3> QED
      BY <3>1, <3>2
  <2>3. CASE q # r
    <3>1. rpc'[r] = rpc[r] /\ rwork'[r] = rwork[r] /\ evidence'[r] = evidence[r]
      BY <1>0, <1>4, <2>1, <2>3 DEF Gather
    <3> QED
      BY <1>1, <1>2, <3>1
  <2> QED
    BY <2>2, <2>3
<1>5. ASSUME NEW q \in Reconcilers, Reconcile(q)
      PROVE  /\ rpc[r] # "idle" /\ rwork'[r] = rwork[r] /\ evidence'[r] = evidence[r]
             /\ rpc'[r] = "setting" => Assess(evidence[r]) \in Settling
  <2>1. rpc[q] # "idle" /\ Carries(q)
    BY <1>5, ReconcilerCases
  <2>2. CASE \E status \in Verdicts, updated \in BOOLEAN : RDone(q, status, updated)
    <3>1. /\ rpc' = [rpc EXCEPT ![q] = "idle"] /\ rwork' = rwork
          /\ evidence' = [evidence EXCEPT ![q] = {}]
      BY <2>2 DEF RDone
    <3>2. r # q
      BY <1>0, <3>1
    <3> QED
      BY <1>0, <1>1, <3>1, <3>2
  <2>3. CASE \E to \in {"setting", "rechecking"} :
               /\ rpc' = [rpc EXCEPT ![q] = to]
               /\ to = "setting" => Assess(evidence[q]) \in Settling
               /\ UNCHANGED <<rwork, evidence, rdecision, reconciles>>
    BY <1>0, <1>1, <2>1, <2>3
  <2> QED
    BY <2>1, <2>2, <2>3 DEF Carries
<1> QED
  BY <1>2, <1>3, <1>4, <1>5 DEF RNext, allVars

LEMMA SharedStep == SharedInv /\ [RNext]_allVars => SharedInv'
<1> SUFFICES ASSUME SharedInv, [RNext]_allVars PROVE SharedInv'
  OBVIOUS
<1>1. RTypeOK' /\ \A e \in Executors : (pc[e] # "idle")' => (work[e] \in Items)'
  BY SharedTypes
<1>2. AttemptsInv'
  BY AttemptsStep DEF AttemptsInv, WithinLimit, NegativeCount
<1>3. EvidenceInv'
  BY EvidenceStep
<1>4. SharedAuditReplaysRow'
  <2>1. \A k \in Keys : /\ Replays(k) /\ Follows(k)
                        /\ audit[k] \in Seq(Events) /\ claims[k].attempts \in Nat
    BY RowsFollow, SharedParts DEF SharedInv, SharedAuditReplaysRow, Replays
  <2>2. \A k \in Keys : Replays(k)'
    BY <2>1, ReplayStep
  <2> QED
    BY <2>2 DEF SharedAuditReplaysRow, Replays
<1> QED
  BY <1>1, <1>2, <1>3, <1>4 DEF SharedInv

(* With reconcilers beside the executors the types, the counting of        *)
(* attempts, the audit trail and the reconcilers' knowledge are kept.      *)
THEOREM SharedInvariant == RSpec => []SharedInv
<1> QED
  BY SharedInit, SharedStep, PTL DEF RSpec

(* Reconcilers do not hand out attempts: also when one reopens the row of  *)
(* a working executor, the callbacks of a key are started at most once per *)
(* attempt, and attempts stay within the limit.                            *)
THEOREM BudgetKeptBesideReconcilers == RSpec => []LaunchBound
<1>1. ASSUME SharedInv, NEW k \in Keys
      PROVE  /\ Len(runs[k]) <= claims[k].attempts
             /\ WithinLimit(k, claims[k].attempts, claims[k].limit)
  <2>1. /\ claims[k].attempts \in Nat /\ Len(runs[k]) \in Nat
        /\ IsFiniteSet(Waiting(k)) /\ Cardinality(Waiting(k)) \in Nat
        /\ Len(runs[k]) + Cardinality(Waiting(k)) <= claims[k].attempts
        /\ WithinLimit(k, claims[k].attempts, claims[k].limit)
    BY <1>1, SharedParts, FS_CardinalityType DEF SharedInv, AttemptsInv
  <2> QED
    BY <2>1
<1>2. SharedInv => LaunchBound
  BY <1>1 DEF LaunchBound
<1> QED
  BY <1>2, SharedInvariant, PTL

(* The audit trail tells the row, whoever wrote it: each transaction of    *)
(* `claim`, of the marks and of `_set_state` adds the event of the status. *)
THEOREM TrailTellsRow == RSpec => []SharedAuditReplaysRow
<1>1. SharedInv => SharedAuditReplaysRow
  BY DEF SharedInv
<1> QED
  BY <1>1, SharedInvariant, PTL

(* A reconciler's step that changes a row is its `_set_state`, on the row  *)
(* of its own item, as its reports ask.                                    *)
LEMMA RowSet ==
  ASSUME SharedInv, RNext, NEW k \in Keys, NEW r \in Reconcilers, RStep(r),
         claims'[k] # claims[k]
  PROVE  /\ rpc[r] # "idle" /\ k = RKey(r) /\ claims[k].status \in Settable
         /\ Assess(evidence[r]) \in Settling
         /\ claims'[k].status = RequestedStatus[Assess(evidence[r])]
<1>0. /\ claims \in [Keys -> [status : Statuses, attempts : Nat, limit : Int]]
      /\ rpc \in [Reconcilers -> {"idle", "gathered", "setting", "rechecking"}]
      /\ \A q \in Reconcilers : rpc[q] # "idle" => RKey(q) \in Keys
  BY SharedParts
<1>1. PICK q \in Reconcilers : Reconcile(q)
  BY DEF RNext, RStep, reconcilerVars, Gather, vars
<1>2. rpc[q] # "idle" /\ Carries(q) /\ (Sets(q) \/ Notes(q) \/ Leaves(q))
  BY <1>1, ReconcilerCases
<1>3. q = r
  BY <1>0, <1>2 DEF Carries, RDone, RStep
<1>4. Sets(r)
  BY <1>2, <1>3 DEF Notes, Leaves, ledgerVars
<1>5. PICK verdict \in Settling :
        /\ verdict = Assess(evidence[r])
        /\ claims[RKey(r)].status \in Settable
        /\ claims' = [claims EXCEPT ![RKey(r)].status = RequestedStatus[verdict]]
  BY <1>4 DEF Sets, UpdateRow, SetStatus
<1>6. k = RKey(r)
  BY <1>0, <1>5
<1> QED
  BY <1>0, <1>2, <1>3, <1>5, <1>6

(* No step of a reconciler takes a success back, also when the row became  *)
(* a success after `reconcile` had read it: `_set_state` looks again.      *)
THEOREM SuccessSurvivesReconciling == RSpec => ReconcilerKeepsSuccess
<1>1. ASSUME SharedInv, RNext, NEW k \in Keys, NEW r \in Reconcilers,
             RStep(r), claims[k].status = "SUCCEEDED"
      PROVE  claims'[k] = claims[k]
  BY <1>1, RowSet DEF Settable
<1>2. SharedInv /\ [RNext]_allVars =>
        [\A k \in Keys, r \in Reconcilers :
           RStep(r) /\ claims[k].status = "SUCCEEDED" => claims'[k] = claims[k]]_allVars
  BY <1>1
<1> QED
  BY <1>2, SharedInvariant, PTL DEF RSpec, ReconcilerKeepsSuccess

(* What a verdict to reopen the row rests on.                              *)
LEMMA ReopenVerdict ==
  ASSUME NEW reports, Assess(reports) = "RECONCILED_FAILED_RETRYABLE"
  PROVE  \A m \in Exact(reports) : m.exact /\ m.state = "FAILED" /\ ~m.effect
<1> DEFINE states == {m.state : m \in Exact(reports)}
<1>1. states = {"FAILED"} /\ EffectExcluded(Exact(reports))
  BY DEF Assess
<1> QED
  BY <1>1 DEF EffectExcluded, Exact

(* A reconciler that heard of every run of the key reopens it only if all  *)
(* of them failed without effect.                                          *)
THEOREM ReopensOnlyFailures == RSpec => CompleteEvidenceIsSafe
<1>1. ASSUME SharedInv, RNext, NEW k \in Keys, NEW r \in Reconcilers, RStep(r), Covers(r, k),
             claims'[k] # claims[k], claims'[k].status = "FAILED_RETRYABLE",
             NEW i \in DOMAIN runs[k]
      PROVE  runs[k][i] = "FAILED"
  <2>1. /\ rpc[r] # "idle" /\ k = RKey(r)
        /\ Assess(evidence[r]) \in Settling
        /\ RequestedStatus[Assess(evidence[r])] = "FAILED_RETRYABLE"
    BY <1>1, RowSet
  <2>2. Assess(evidence[r]) = "RECONCILED_FAILED_RETRYABLE"
    BY <2>1 DEF Settling, RequestedStatus
  <2>3. PICK m \in Exact(evidence[r]) : m.run = i
    BY <1>1 DEF Covers
  <2>4. m \in evidence[r] /\ m.exact /\ m.state = "FAILED" /\ ~m.effect
    BY <2>2, <2>3, ReopenVerdict DEF Exact
  <2> QED
    BY <1>1, <2>1, <2>3, <2>4 DEF SharedInv, EvidenceInv
<1>2. SharedInv /\ [RNext]_allVars =>
        [\A k \in Keys, r \in Reconcilers :
           /\ RStep(r) /\ Covers(r, k)
           /\ claims'[k] # claims[k] /\ claims'[k].status = "FAILED_RETRYABLE"
           => \A i \in DOMAIN runs[k] : runs[k][i] = "FAILED"]_allVars
  BY <1>1
<1> QED
  BY <1>2, SharedInvariant, PTL DEF RSpec, CompleteEvidenceIsSafe
=============================================================================
