---------------------------- MODULE MCAuthority ----------------------------
(***************************************************************************)
(* An instance of AuthorityReview and AuthorizationLedger for TLC.  They   *)
(* share the authority boundary and no variable, so that either of them    *)
(* moves while the other is at its start: all their states are reached,    *)
(* and not every pair of them.                                             *)
(*                                                                         *)
(* The review has two requests that are valid for a while, and any two     *)
(* fields of the evidence changed, times included.  The ledger has grants  *)
(* that share ids and evidence, one that is not what the pilot intends,    *)
(* and a short window.                                                     *)
(***************************************************************************)
EXTENDS AuthorityReview, AuthorizationLedger, TLC

CONSTANTS g1, g2, ev1, ev2, w1, w2, s1, s2, p1, p2, r1, r2

Intent(w) ==
  [work |-> w, action_class |-> "INTERNAL_CONTINUE", filled |-> TRUE,
   workflow_valid |-> TRUE, hashes_valid |-> TRUE, wildcard |-> FALSE,
   preflight_contract |-> "EXACT"]

Observed(t) ==
  [ready |-> TRUE, preflight_contract |-> "EXACT", zoned |-> TRUE,
   observed_at |-> t, snapshot |-> s1]

OwnerGrant(g, ev, w, verified, issued, expires) ==
  [grant_id |-> g, evidence |-> ev, genuine |-> TRUE, sourced |-> TRUE,
   identified |-> TRUE, wildcard |-> FALSE, zoned |-> TRUE,
   source_verified_at |-> verified, issued_at |-> issued, expires_at |-> expires,
   revoked |-> FALSE, max_dispatches |-> 1, used_dispatches |-> 0,
   snapshot |-> s1, scope |-> Intent(w)]

-----------------------------------------------------------------------------
(* The review                                                              *)

(* Observed, verified and issued one after the other.                      *)
Early ==
  [intent |-> Intent(w1), preflight |-> Observed(1),
   grant |-> OwnerGrant(g1, ev1, w1, 2, 2, 5)]

(* Found valid at the end of every age, the grant dated within the skew.   *)
Late ==
  [Early EXCEPT !.grant.issued_at = 5, !.grant.expires_at = 8]

MCStartBundles == {Early, Late}

MCFieldValues ==
  [intent |->
     [work |-> Works, action_class |-> ALLOWED_ACTIONS \cup {"OTHER"},
      filled |-> BOOLEAN, workflow_valid |-> BOOLEAN, hashes_valid |-> BOOLEAN,
      wildcard |-> BOOLEAN, preflight_contract |-> {"EXACT", "OTHER"}],
   preflight |->
     [ready |-> BOOLEAN, preflight_contract |-> {"EXACT", "OTHER"},
      zoned |-> BOOLEAN, observed_at |-> 0 .. ReviewTime,
      snapshot |-> Snapshots \cup {"malformed"}],
   grant |->
     [genuine |-> BOOLEAN, sourced |-> BOOLEAN, identified |-> BOOLEAN,
      wildcard |-> BOOLEAN, zoned |-> BOOLEAN, source_verified_at |-> 0 .. ReviewTime,
      issued_at |-> 0 .. ReviewTime, expires_at |-> 0 .. ReviewTime, revoked |-> BOOLEAN,
      max_dispatches |-> 0 .. 2, used_dispatches |-> -1 .. 1,
      snapshot |-> Snapshots \cup {"malformed"},
      scope |-> {Intent(w1), Intent(w2), [Intent(w1) EXCEPT !.wildcard = TRUE],
                 [Intent(w1) EXCEPT !.action_class = "OTHER"],
                 [Intent(w1) EXCEPT !.preflight_contract = "OTHER"]}]]

-----------------------------------------------------------------------------
(* The ledger                                                              *)

Request(g, ev, w) ==
  [intent |-> Intent(w), preflight |-> Observed(-1),
   grant |-> OwnerGrant(g, ev, w, -1, -1, 0)]

(* The same id for another work, the same evidence for another id, and a   *)
(* grant for one work that is held up for another.                         *)
MCRequests ==
  {Request(g1, ev1, w1), Request(g1, ev1, w2), Request(g2, ev1, w2),
   Request(g2, ev2, w2), [Request(g2, ev2, w2) EXCEPT !.intent = Intent(w1)]}

Symmetric == Permutations(Pilots) \cup Permutations(ReceiptIds)

-----------------------------------------------------------------------------
(* Both                                                                    *)

MCInit == Init /\ ReviewInit

MCNext ==
  \/ bundle = Early /\ ReviewInit /\ UNCHANGED reviewVars /\ Next
  \/ Init /\ UNCHANGED vars /\ ReviewNext

MCSpec == MCInit /\ [][MCNext]_<<vars, reviewVars>>
=============================================================================
