------------------------ MODULE ContinuationExecutor ------------------------
(***************************************************************************)
(* SafeContinuationExecutor of governance/safe_continuation_executor.py:   *)
(* one executor in one process, with its dedupe memory and its audit list, *)
(* beside a watcher that revises the work item between and during calls.   *)
(* The memory and the audit list are gone when the process restarts.       *)
(***************************************************************************)
EXTENDS ContinuationGate, FiniteSets

CONSTANTS
  StartItems,   \* items the watcher may begin with
  FieldValues,  \* FieldValues[f]: the values the watcher may give field f
  MaxEdits,     \* bound: revisions by the watcher
  MaxAttempts   \* bound: calls explored

ASSUME ExecutorAssumption ==
  /\ StartItems \subseteq WorkItem
  /\ MaxEdits \in Nat /\ MaxAttempts \in Nat

VARIABLES
  item,       \* the work item as the watcher sees it now
  edits,      \* revisions so far
  held,       \* the item of the dispatch in flight, or NoItem
  completed,  \* completed_dedupe_keys
  booked,     \* booked[k]: the dispatch events of k in the audit list
  attempts,   \* calls so far
  answered    \* the outcome of the last call

watched == <<item, edits>>
vars == <<item, edits, held, completed, booked, attempts, answered>>

NoItem == [dedupe_key |-> "none"]

Books == [attempt : Nat, success : Nat, failure : Nat]

NoBooks == [k \in Keys |-> [attempt |-> 0, success |-> 0, failure |-> 0]]

Init ==
  /\ item \in StartItems
  /\ edits = 0
  /\ held = NoItem
  /\ completed = {}
  /\ booked = NoBooks
  /\ attempts = 0
  /\ answered = "none"

(* External: the watcher revises one field.                                *)
Revise ==
  /\ edits < MaxEdits
  /\ edits' = edits + 1
  /\ \E f \in DOMAIN FieldValues : \E v \in FieldValues[f] :
       item' = [item EXCEPT ![f] = v]
  /\ item' \in WorkItem
  /\ UNCHANGED <<held, completed, booked, attempts, answered>>

Called ==
  /\ held = NoItem
  /\ attempts < MaxAttempts
  /\ attempts' = attempts + 1
  /\ UNCHANGED <<watched, completed>>

(* `execute` up to a refusal.                                              *)
Decline ==
  /\ ~MayDispatch(item, completed)
  /\ Called
  /\ answered' = Decide(item, completed)
  /\ UNCHANGED <<held, booked>>

(* `execute` up to the callback: the attempt is booked first.              *)
Attempt ==
  /\ MayDispatch(item, completed)
  /\ Called
  /\ held' = item
  /\ booked' = [booked EXCEPT ![item.dedupe_key].attempt = @ + 1]
  /\ answered' = "none"

CallbackTrue ==
  /\ held # NoItem
  /\ completed' = completed \cup {held.dedupe_key}
  /\ booked' = [booked EXCEPT ![held.dedupe_key].success = @ + 1]
  /\ held' = NoItem
  /\ answered' = DispatchOutcome(held)
  /\ UNCHANGED <<watched, attempts>>

(* A slip: an exception of the callback leaves no trace.                   *)
CallbackFalse_Unbooked ==
  /\ held # NoItem
  /\ held' = NoItem
  /\ answered' = "DISPATCH_FAILED_RETRYABLE"
  /\ UNCHANGED <<watched, completed, booked, attempts>>

(* The callback returns false or raises.                                   *)
CallbackFalse ==
  /\ held # NoItem
  /\ booked' = [booked EXCEPT ![held.dedupe_key].failure = @ + 1]
  /\ held' = NoItem
  /\ answered' = "DISPATCH_FAILED_RETRYABLE"
  /\ UNCHANGED <<watched, completed, attempts>>

(* A new instance: memory and audit list start empty.                      *)
Restart ==
  /\ held' = NoItem
  /\ completed' = {}
  /\ booked' = NoBooks
  /\ answered' = "none"
  /\ UNCHANGED <<watched, attempts>>

Next == Revise \/ Decline \/ Attempt \/ CallbackTrue \/ CallbackFalse \/ Restart

Spec == Init /\ [][Next]_vars

-----------------------------------------------------------------------------
(* Properties                                                              *)

(* Every variable has its type.                                            *)
TypeOK ==
  /\ item \in WorkItem
  /\ edits \in 0 .. MaxEdits
  /\ held \in WorkItem \cup {NoItem}
  /\ completed \subseteq Keys
  /\ booked \in [Keys -> Books]
  /\ attempts \in 0 .. MaxAttempts

(* The frozen prerequisites of a dispatch, all at once and in no order, as *)
(* critical/safe_continuation_executor_v1_gate.py states them for its      *)
(* random test.                                                            *)
LegalDispatch(w) ==
  /\ ~w.stop_latch /\ ~w.owner_gate /\ ~w.circuit_open
  /\ w.source_health = "FRESH" /\ w.state = "ACTIVE"
  /\ w.continuation_policy = "AUTONOMOUS_EXPECTED"
  /\ \/ /\ w.action_class = "INTERNAL_CONTINUE"
        /\ w.runtime_status = "IDLE" /\ w.safe_internal_next
     \/ /\ w.action_class = "INTERNAL_RECOVERY"
        /\ w.runtime_status \in {"FAILED", "STALE"} /\ w.safe_recovery
  /\ w.reversible /\ ~w.external_effect
  /\ w.requested_permissions \subseteq w.minimum_permissions
  /\ w.minimum_permissions \subseteq PermissionAllowlist
  /\ w.retry_count < w.retry_limit

(* "A dispatch is legal only if every frozen prerequisite is               *)
(* simultaneously satisfied": what is in flight was legal, and nothing     *)
(* legal that is not done yet is refused.                                  *)
OnlyLegalDispatch ==
  /\ held # NoItem => LegalDispatch(held)
  /\ LegalDispatch(item) /\ item.dedupe_key \notin completed => MayDispatch(item, completed)

(* A running instance books every attempt exactly once as success or       *)
(* failure, whatever the watcher does meanwhile.                           *)
BooksBalance ==
  \A k \in Keys :
    booked[k].attempt = booked[k].success + booked[k].failure
                          + (IF held # NoItem /\ held.dedupe_key = k THEN 1 ELSE 0)

(* Within the life of an instance a key succeeds once, and what it         *)
(* remembers as completed is what it booked as success.                    *)
CompletedOnce ==
  \A k \in Keys :
    /\ booked[k].success <= 1
    /\ k \in completed <=> booked[k].success = 1
=============================================================================
