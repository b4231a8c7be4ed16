----------------------------- MODULE Approvals ------------------------------
(***************************************************************************)
(* Chairman approvals of one Map and the protected mutations that use      *)
(* them: request_approval, decide_approval, revoke_approval, the protected *)
(* transition_map and cancel_map of application.py, the approval ledger    *)
(* and protected_mutations of storage.py, the tracker effects they queue,  *)
(* and refresh and bind_map, which rebuild the ledger from the Issue.      *)
(*                                                                         *)
(* An Outbox effect is abstracted to what Outbox.tla establishes of it: it *)
(* is attempted, written if it is not there yet, completed locally, and    *)
(* its acknowledgment may be lost after the completion.                    *)
(*                                                                         *)
(* One operation at a time holds the approval lease.  Operations that only *)
(* queue an event are one step: what they check before commutes with what  *)
(* may run beside them.  Replays of an operation already done change       *)
(* nothing here and are left out; a "revision" is decided like a rejection. *)
(***************************************************************************)
EXTENDS FiniteSets, Naturals

CONSTANTS Requests,     \* approval request ids
          Mutations,    \* mutation ids
          Readers,      \* reconciles that may run at a time
          NoOne,        \* no mutation, no request
          MaxTroubles, MaxReads  \* bounds of the model

ASSUME ApprovalsAssumption ==
  /\ NoOne \notin Mutations \cup Requests
  /\ MaxTroubles \in Nat /\ MaxReads \in Nat

VARIABLES
  action,    \* what each request proposes (its packet never changes)
  decision,  \* the chairman's decision in the decision event of each request
  overdue,   \* the clock has passed the approval's expires_at
  history,   \* the approval events in the Issue
  stage,     \* the Issue's executive stage
  ledger,    \* table approval_ledger: status, consumed_by_mutation_id
  mutation,  \* table protected_mutations, with what its close effect carries
  intent,    \* Outbox state of every effect
  busy,      \* effects whose attempt has passed the interlock
  op,        \* the protected operation that holds the lease and is validated
  reach,     \* project_reachability of the tracker
  read,      \* reconciles under way
  rolled,    \* history: requests whose row an overtaken reconcile overwrote
  troubles,  \* failed attempts, lost acknowledgments, outages, dead operations and
             \* stages moved by others
  reads      \* reconciles started

boundVars == <<troubles, reads>>
vars == <<action, decision, overdue, history, stage, ledger, mutation, intent,
          busy, op, reach, read, rolled, boundVars>>

Actions == {"transition_map", "cancel_map"}
Decisions == {"approved", "rejected"}
Statuses == Decisions \cup {"none", "pending", "revoked", "expired", "consumed"}
Stages == {"awaiting-approval", "authorized", "parked", "cancelled"}
Effects == ({"request", "decision", "revocation"} \X Requests)
             \cup ({"stage", "consumption", "close"} \X Mutations)

\* An approval event: its type, the mutation of a consumption, and whether that
\* occurred after the approval's expiry.
Event(type, by, late) == [type |-> type, by |-> by, late |-> late]
Plain(type) == Event(type, NoOne, FALSE)

NoMutation == [state |-> "none", request |-> NoOne, expected |-> "none",
               late |-> FALSE, revoked |-> FALSE]
Idle == [by |-> NoOne, request |-> NoOne]
NotReading == [step |-> "idle", via |-> "refresh", history |-> << >>, row |-> << >>,
               stage |-> "none"]

Init ==
  /\ action \in [Requests -> Actions]
  /\ decision = [r \in Requests |-> "none"]
  /\ overdue = [r \in Requests |-> FALSE]
  /\ history = [r \in Requests |-> {}]
  /\ stage = "awaiting-approval"
  /\ ledger = [r \in Requests |-> [status |-> "none", by |-> NoOne]]
  /\ mutation = [m \in Mutations |-> NoMutation]
  /\ intent = [e \in Effects |-> "none"]
  /\ busy = {}
  /\ op = Idle
  /\ reach = "healthy"
  /\ read = [k \in Readers |-> NotReading]
  /\ rolled = {}
  /\ troubles = 0 /\ reads = 0

Trouble ==
  /\ troubles < MaxTroubles
  /\ troubles' = troubles + 1

\* The project's authority is readable: _ensure_map_writable.
Writable == reach = "healthy"

LeaseFree == op = Idle

Queue(e) == intent' = [intent EXCEPT ![e] = "queued"]

-----------------------------------------------------------------------------
(* Operations of the application. *)

RequestApproval(r) ==
  /\ Writable /\ LeaseFree
  /\ ledger[r].status = "none"
  /\ intent[<<"request", r>>] = "none"
  /\ Queue(<<"request", r>>)
  /\ UNCHANGED <<action, decision, overdue, history, stage, ledger, mutation, busy,
                 op, reach, read, rolled, boundVars>>

DecideApproval(r, d) ==
  /\ Writable /\ LeaseFree
  /\ ledger[r].status = "pending"
  /\ intent[<<"decision", r>>] = "none"
  /\ decision' = [decision EXCEPT ![r] = d]
  /\ Queue(<<"decision", r>>)
  /\ UNCHANGED <<action, overdue, history, stage, ledger, mutation, busy, op, reach,
                 read, rolled, boundVars>>

\* _current_approval: an approval past its expiry is no longer approved.
Current(r) ==
  IF ledger[r].status = "approved" /\ overdue[r] THEN "expired" ELSE ledger[r].status

RevokeApproval(r) ==
  /\ Writable /\ LeaseFree
  /\ Current(r) = "approved"
  /\ intent[<<"revocation", r>>] = "none"
  /\ Queue(<<"revocation", r>>)
  /\ UNCHANGED <<action, decision, overdue, history, stage, ledger, mutation, busy,
                 op, reach, read, rolled, boundVars>>

\* Mutant: a transition does not look for unfinished revocations.
RevocationUnfinished_Ignored(r) == FALSE

\* _approval_revocation_unfinished
RevocationUnfinished(r) == intent[<<"revocation", r>>] \in {"queued", "terminal"}

\* _transition_map and cancel_map up to their read of the tracker.  Only a transition
\* looks for an unfinished revocation.
Validate(m, r) ==
  /\ Writable /\ LeaseFree
  /\ mutation[m] = NoMutation
  /\ Current(r) = "approved"
  /\ action[r] = "transition_map" => ~RevocationUnfinished(r)
  /\ op' = [by |-> m, request |-> r]
  /\ UNCHANGED <<action, decision, overdue, history, stage, ledger, mutation, intent,
                 busy, reach, read, rolled, boundVars>>

\* Mutations that used the grant of a request.
UsersOf(r) == {m \in Mutations : mutation[m].request = r}

\* Mutant: protected_mutations without UNIQUE(request_id).
Unused_Unchecked(r) == TRUE

\* protected_mutations: request_id is UNIQUE.
Unused(r) == UsersOf(r) = {}

\* The tracker read, then reserve_protected_mutation_in_transaction together with
\* enqueue_in_transaction.  The transaction looks at the status, not at the expiry;
\* a transition that finds its target stage goes on as a replay.  The history fields
\* "late" and "revoked" say what the clock and the Issue were at that moment.
Reserve ==
  LET m == op.by
      r == op.request
      queued == IF action[r] = "transition_map" THEN "stage" ELSE "consumption"
  IN  /\ op # Idle
      /\ stage \in (IF action[r] = "transition_map" THEN {"awaiting-approval", "authorized"}
                   ELSE Stages \ {"cancelled"})
      /\ ledger[r].status = "approved"
      /\ Unused(r)
      /\ ledger' = [ledger EXCEPT ![r] = [status |-> "consumed", by |-> m]]
      /\ mutation' = [mutation EXCEPT ![m] =
           [state |-> "reserved", request |-> r, expected |-> stage,
            late |-> overdue[r], revoked |-> Plain("revoked") \in history[r]]]
      /\ Queue(<<queued, m>>)
      /\ op' = Idle
      /\ UNCHANGED <<action, decision, overdue, history, stage, busy, reach, read, rolled, boundVars>>

\* The operation is denied, fails, or its process dies; its lease is free again.
Abandon ==
  /\ op # Idle
  /\ Trouble
  /\ op' = Idle
  /\ UNCHANGED <<action, decision, overdue, history, stage, ledger, mutation, intent,
                 busy, reach, read, rolled, reads>>

\* Mutant: UPDATE ... without WHERE status = 'approved'.
Expirable_Any(r) == ledger[r].status # "none"

Expirable(r) == ledger[r].status = "approved"

\* expire_approval, persisted by whoever reads a writable board first, without a lease.
Expire(r) ==
  /\ Writable
  /\ overdue[r] /\ Expirable(r)
  /\ ledger' = [ledger EXCEPT ![r].status = "expired"]
  /\ UNCHANGED <<action, decision, overdue, history, stage, mutation, intent, busy, op,
                 reach, read, rolled, boundVars>>

\* The clock passes the expires_at written into the decision.
PassExpiry(r) ==
  /\ decision[r] = "approved" /\ ~overdue[r]
  /\ overdue' = [overdue EXCEPT ![r] = TRUE]
  /\ UNCHANGED <<action, decision, history, stage, ledger, mutation, intent, busy, op,
                 reach, read, rolled, boundVars>>

\* An unprotected transition, or someone on GitHub, parks the Map.
Park ==
  /\ stage \in {"awaiting-approval", "authorized"}
  /\ Trouble
  /\ stage' = "parked"
  /\ UNCHANGED <<action, decision, overdue, history, ledger, mutation, intent, busy, op,
                 reach, read, rolled, reads>>

-----------------------------------------------------------------------------
(* Effects: one attempt is Dispatch, at most one Write, then Complete or Fail. *)

\* _enforce_external_effect_interlock, then the claim.
Dispatch(e) ==
  /\ intent[e] = "queued" /\ e \notin busy
  /\ Writable
  /\ busy' = busy \cup {e}
  /\ UNCHANGED <<action, decision, overdue, history, stage, ledger, mutation, intent,
                 op, reach, read, rolled, boundVars>>

ConsumptionEvent(m) == Event("consumed", m, mutation[m].late)

\* Mutant: completion without a readback that confirms the effect.
Confirmed_Unread(e) == TRUE

\* TrackerEffectAdapter.readback returns a confirmation.
Confirmed(e) ==
  CASE e[1] = "request"     -> Plain("requested") \in history[e[2]]
    [] e[1] = "decision"    -> Plain(decision[e[2]]) \in history[e[2]]
    [] e[1] = "revocation"  -> Plain("revoked") \in history[e[2]]
    [] e[1] = "consumption" -> ConsumptionEvent(e[2]) \in history[mutation[e[2]].request]
    [] e[1] = "stage"       -> stage = "authorized"
    [] e[1] = "close"       -> stage = "cancelled"

\* Mutant: a close does not compare the stage with the expected one.
Refused_CloseAnyway(e) == ~Confirmed(e) /\ e[1] = "stage" /\ stage # "awaiting-approval"

\* ... raises EffectTerminalError: the stage is neither the expected nor the new one.
Refused(e) ==
  /\ ~Confirmed(e)
  /\ \/ e[1] = "stage" /\ stage # "awaiting-approval"
     \/ e[1] = "close" /\ stage # mutation[e[2]].expected

WriteEvent(r, event) ==
  /\ history' = [history EXCEPT ![r] = @ \cup {event}]
  /\ UNCHANGED stage

\* TrackerEffectAdapter.apply
Write(e) ==
  /\ e \in busy
  /\ ~Confirmed(e) /\ ~Refused(e)
  /\ \/ e[1] = "request" /\ WriteEvent(e[2], Plain("requested"))
     \/ e[1] = "decision" /\ WriteEvent(e[2], Plain(decision[e[2]]))
     \/ e[1] = "revocation" /\ WriteEvent(e[2], Plain("revoked"))
     \/ e[1] = "consumption" /\ WriteEvent(mutation[e[2]].request, ConsumptionEvent(e[2]))
     \/ e[1] = "stage" /\ stage' = "authorized" /\ UNCHANGED history
     \/ e[1] = "close" /\ stage' = "cancelled" /\ UNCHANGED history
  /\ UNCHANGED <<action, decision, overdue, ledger, mutation, intent, busy, op, reach,
                 read, rolled, boundVars>>

\* The attempt ends: with a retry or the last one of the budget, ...
Fail(e) ==
  /\ e \in busy
  /\ Trouble
  /\ busy' = busy \ {e}
  /\ \E state \in {"queued", "terminal"} : intent' = [intent EXCEPT ![e] = state]
  /\ UNCHANGED <<action, decision, overdue, history, stage, ledger, mutation, op, reach,
                 read, rolled, reads>>

\* Mutant: a terminal effect keeps its lease.
Conflict_Leased(e) ==
  /\ intent' = [intent EXCEPT ![e] = "terminal"]
  /\ UNCHANGED <<busy, troubles>>

\* ... in a conflict, ...
Conflict(e) ==
  /\ busy' = busy \ {e}
  /\ intent' = [intent EXCEPT ![e] = "terminal"]
  /\ UNCHANGED troubles

\* ... or with its completion, whose acknowledgment may be lost.
Completed(e) ==
  /\ busy' = busy \ {e}
  /\ \/ intent' = [intent EXCEPT ![e] = "succeeded"] /\ UNCHANGED troubles
     \/ UNCHANGED intent /\ Trouble

Refuse(e) ==
  /\ e \in busy
  /\ Refused(e)
  /\ Conflict(e)
  /\ UNCHANGED <<action, decision, overdue, history, stage, ledger, mutation, op, reach,
                 read, rolled, reads>>

\* An operator repairs a terminal effect.
Repair(e) ==
  /\ Writable
  /\ intent[e] = "terminal"
  /\ Queue(e)
  /\ UNCHANGED <<action, decision, overdue, history, stage, ledger, mutation, busy, op,
                 reach, read, rolled, boundVars>>

\* Mutant: the insert of a request overwrites what is there.
RequestIsNew_Always(r) == TRUE

\* save_approval_request runs only when the ledger has no such request.
RequestIsNew(r) == ledger[r].status = "none"

\* Mutant: UPDATE ... without WHERE status = 'pending'.
DecisionApplies_Any(r) == TRUE

DecisionApplies(r) == ledger[r].status = "pending"

Unsettled == <<action, decision, overdue, history, stage, op, reach, read, rolled, reads>>

\* _complete_approval_effect, operation "request".
CompleteRequest(r) ==
  LET e == <<"request", r>>
  IN  /\ e \in busy /\ Confirmed(e)
      /\ Completed(e)
      /\ ledger' = IF RequestIsNew(r)
                   THEN [ledger EXCEPT ![r] = [status |-> "pending", by |-> NoOne]]
                   ELSE ledger
      /\ UNCHANGED <<mutation, Unsettled>>

\* ... operation "decision", apply_approval_decision.
CompleteDecision(r) ==
  LET e == <<"decision", r>>
  IN  /\ e \in busy /\ Confirmed(e)
      /\ \/ /\ DecisionApplies(r)
            /\ ledger' = [ledger EXCEPT ![r].status = decision[r]]
            /\ Completed(e)
         \/ /\ ~DecisionApplies(r)
            /\ IF ledger[r].status = decision[r] THEN Completed(e) ELSE Conflict(e)
            /\ UNCHANGED ledger
      /\ UNCHANGED <<mutation, Unsettled>>

\* ... operation "revocation", revoke_approval.
CompleteRevocation(r) ==
  LET e == <<"revocation", r>>
  IN  /\ e \in busy /\ Confirmed(e)
      /\ \/ /\ ledger[r].status = "approved"
            /\ ledger' = [ledger EXCEPT ![r].status = "revoked"]
            /\ Completed(e)
         \/ /\ ledger[r].status # "approved"
            /\ IF ledger[r].status = "revoked" THEN Completed(e) ELSE Conflict(e)
            /\ UNCHANGED ledger
      /\ UNCHANGED <<mutation, Unsettled>>

\* ... operation "consumption": the ledger must still name this mutation; the close
\* effect is queued with it.
CompleteConsumption(m) ==
  LET e == <<"consumption", m>>
      close == <<"close", m>>
  IN  /\ e \in busy /\ Confirmed(e)
      /\ \/ /\ ledger[mutation[m].request] = [status |-> "consumed", by |-> m]
            /\ busy' = busy \ {e}
            /\ \E state \in {"queued", "succeeded"} :
                 /\ intent' = [intent EXCEPT ![e] = state,
                                             ![close] = IF @ = "none" THEN "queued" ELSE @]
                 /\ IF state = "queued" THEN Trouble ELSE UNCHANGED troubles
         \/ /\ ledger[mutation[m].request] # [status |-> "consumed", by |-> m]
            /\ Conflict(e)
      /\ UNCHANGED <<ledger, mutation, Unsettled>>

\* _complete_external_effect of the stage transition and of the close.
CompleteMutation(e) ==
  LET m == e[2]
  IN  /\ e \in busy /\ e[1] \in {"stage", "close"} /\ Confirmed(e)
      /\ Completed(e)
      /\ mutation' = [mutation EXCEPT ![m].state = "confirmed"]
      /\ UNCHANGED <<ledger, Unsettled>>

-----------------------------------------------------------------------------
(* Rebuilding the ledger from the Issue: refresh, and bind_map on a bound Map,
   which does the same without announcing it in project_reachability. *)

Types(H) == {e.type : e \in H}

Consumptions(H) == {e \in H : e.type = "consumed"}

\* What _approval_reconcile_projections makes of the Issue's history of a request.
StatusOf(H) ==
  LET latest == {t \in Types(H) : t # "requested"}
  IN  CASE "consumed" \in latest -> "consumed"
        [] "consumed" \notin latest /\ "revoked" \in latest -> "revoked"
        [] latest \in {{"approved"}, {"rejected"}} -> CHOOSE t \in latest : TRUE
        [] latest = {} -> "pending"

LocalTerminal == {"expired", "consumed"}

\* ... and when it raises no ApprovalRequestConflict.
Accepts(H, row) ==
  /\ Cardinality(Consumptions(H)) <= 1
  /\ "revoked" \in Types(H) => "approved" \in Types(H)
  /\ \A e \in Consumptions(H) : "approved" \in Types(H) /\ "revoked" \notin Types(H) /\ ~e.late
  /\ row.status \in LocalTerminal => StatusOf(H) \in {"approved", "consumed"}

\* Mutant: the local enforcement record does not outlive a reconcile.
EffectiveStatus_FromIssue(H, row) == StatusOf(H)

EffectiveStatus(H, row) ==
  IF row.status \in LocalTerminal THEN row.status ELSE StatusOf(H)

Projection(H, row) ==
  [status |-> EffectiveStatus(H, row),
   by |-> IF Consumptions(H) = {} THEN row.by ELSE (CHOOSE e \in Consumptions(H) : TRUE).by]

\* _authoritative_map_history: a cancelled Issue needs its consumed cancellation.
Accounted(H, row, at) ==
  at = "cancelled" =>
    \E r \in Requests : /\ action[r] = "cancel_map" /\ H[r] # {}
                        /\ Projection(H[r], row[r]).status = "consumed"
                        /\ Projection(H[r], row[r]).by # NoOne

Rebuildable(H, row, at) ==
  /\ \A r \in Requests : H[r] # {} => Accepts(H[r], row[r])
  /\ Accounted(H, row, at)

Unread == <<action, decision, overdue, history, stage, mutation, intent, busy, op>>

StartRead(k, via) ==
  /\ read[k].step = "idle"
  /\ reads < MaxReads
  /\ reads' = reads + 1
  /\ via = "bind" => Writable
  /\ reach' = IF via = "refresh" THEN "reconciling" ELSE reach
  /\ read' = [read EXCEPT ![k] = [NotReading EXCEPT !.step = "started", !.via = via]]
  /\ UNCHANGED <<Unread, ledger, rolled, troubles>>

\* get_issue, list_approval_events
Fetch(k) ==
  /\ read[k].step = "started"
  /\ read' = [read EXCEPT ![k].step = "fetched", ![k].history = history, ![k].stage = stage]
  /\ UNCHANGED <<Unread, ledger, reach, rolled, boundVars>>

Stop(k, reached) ==
  /\ read' = [read EXCEPT ![k] = NotReading]
  /\ reach' = reached

Failed(k) == IF read[k].via = "refresh" THEN "stale" ELSE reach

\* The history joined with the local rows of this moment.
Project(k) ==
  /\ read[k].step = "fetched"
  /\ \/ /\ Rebuildable(read[k].history, ledger, read[k].stage)
        /\ read' = [read EXCEPT ![k].step = "projected", ![k].row = ledger]
        /\ UNCHANGED reach
     \/ /\ ~Rebuildable(read[k].history, ledger, read[k].stage)
        /\ Stop(k, Failed(k))
  /\ UNCHANGED <<Unread, ledger, rolled, boundVars>>

\* The row would change although the row or the history it was computed from has.
Overtaken(k, r) ==
  /\ read[k].history[r] # history[r] \/ read[k].row[r] # ledger[r]
  /\ Projection(read[k].history[r], read[k].row[r]) # ledger[r]

\* apply_project_reconcile, replace_approval_projections: local requests must not be
\* missing; every other row is overwritten.
Apply(k) ==
  LET H == read[k].history
      found == {r \in Requests : H[r] # {}}
      missing == {r \in Requests \ found : ledger[r].status # "none"}
  IN  /\ read[k].step = "projected"
      /\ \/ /\ missing = {}
            /\ ledger' = [r \in Requests |-> IF r \in found THEN Projection(H[r], read[k].row[r])
                                             ELSE ledger[r]]
            /\ rolled' = rolled \cup {r \in found : Overtaken(k, r)}
            /\ Stop(k, IF read[k].via = "refresh" THEN "healthy" ELSE reach)
         \/ /\ missing # {}
            /\ Stop(k, Failed(k))
            /\ UNCHANGED <<ledger, rolled>>
      /\ UNCHANGED <<Unread, boundVars>>

\* A tracker read fails: of a reconcile, or of any other operation (_tracker_read).
ReadFails(k) ==
  /\ read[k].step = "started"
  /\ Trouble
  /\ Stop(k, "stale")
  /\ UNCHANGED <<Unread, ledger, rolled, reads>>

Outage ==
  /\ reach # "stale"
  /\ Trouble
  /\ reach' = "stale"
  /\ UNCHANGED <<Unread, ledger, read, rolled, reads>>

-----------------------------------------------------------------------------
Attempt(e) ==
  \/ Dispatch(e) \/ Write(e) \/ Fail(e) \/ Refuse(e) \/ Repair(e) \/ CompleteMutation(e)

Operation(r) ==
  \/ RequestApproval(r) \/ RevokeApproval(r) \/ Expire(r) \/ PassExpiry(r)
  \/ \E d \in Decisions : DecideApproval(r, d)
  \/ \E m \in Mutations : Validate(m, r)

Completion ==
  \/ \E r \in Requests : CompleteRequest(r) \/ CompleteDecision(r) \/ CompleteRevocation(r)
  \/ \E m \in Mutations : CompleteConsumption(m)

Reading(k) ==
  \/ \E via \in {"refresh", "bind"} : StartRead(k, via)
  \/ Fetch(k) \/ Project(k) \/ Apply(k) \/ ReadFails(k)

Next ==
  \/ \E r \in Requests : Operation(r)
  \/ Reserve \/ Abandon \/ Park
  \/ \E e \in Effects : Attempt(e)
  \/ Completion
  \/ \E k \in Readers : Reading(k)
  \/ Outage

Spec == Init /\ [][Next]_vars

-----------------------------------------------------------------------------
TypeOK ==
  /\ action \in [Requests -> Actions]
  /\ decision \in [Requests -> Decisions \cup {"none"}]
  /\ overdue \in [Requests -> BOOLEAN]
  /\ \A r \in Requests : \A e \in history[r] :
       e.type \in Statuses \cup {"requested"} /\ e.by \in Mutations \cup {NoOne}
  /\ stage \in Stages
  /\ ledger \in [Requests -> [status : Statuses, by : Mutations \cup {NoOne}]]
  /\ mutation \in [Mutations -> [state : {"none", "reserved", "confirmed"},
                                 request : Requests \cup {NoOne},
                                 expected : Stages \cup {"none"},
                                 late : BOOLEAN, revoked : BOOLEAN]]
  /\ intent \in [Effects -> {"none", "queued", "succeeded", "terminal"}]
  /\ busy \subseteq {e \in Effects : intent[e] = "queued"}
  /\ op \in [by : Mutations \cup {NoOne}, request : Requests \cup {NoOne}]
  /\ reach \in {"healthy", "reconciling", "stale"}
  /\ DOMAIN read = Readers
  /\ rolled \subseteq Requests

\* A protected mutation is reserved only under an approval the Issue shows, whatever
\* reconciles, lost acknowledgments and expiries come between (README.md, "缺失、过期、
\* 撤销、已消费 ... 均在 tracker mutation 前拒绝").
GrantIsReal ==
  \A r \in Requests : UsersOf(r) # {} => Plain("approved") \in history[r]

\* A grant is used by one mutation, also when an overtaken reconcile shows it as
\* approved again (reserve_protected_mutation: "bind one approved ledger record to
\* exactly one mutation").
UsedOnce ==
  \A r \in Requests : Cardinality(UsersOf(r)) <= 1

\* A transition never uses a grant whose revocation was accepted before, finished or
\* not, unless an overtaken reconcile gave it back (_approval_revocation_unfinished).
RevocationStops ==
  \A r \in Requests \ rolled :
    action[r] = "transition_map" /\ intent[<<"revocation", r>>] # "none" => UsersOf(r) = {}

Settled(r) ==
  \A e \in Effects : e[2] \in {r} \cup UsersOf(r) => intent[e] \in {"none", "succeeded"}

\* When every effect of a request has succeeded, the ledger says what the Issue says
\* or has closed the approval locally (_complete_approval_effect, reconciles).
LedgerAgrees ==
  \A r \in Requests \ rolled : Settled(r) =>
    IF ledger[r].status \in LocalTerminal
    THEN StatusOf(history[r]) \in {"approved", "consumed"}
    ELSE IF history[r] = {} THEN ledger[r].status = "none"
    ELSE ledger[r].status = StatusOf(history[r])

\* A final status never changes again, unless an overtaken reconcile overwrites it.
FinalStays ==
  [][\A r \in Requests \ rolled' :
       ledger[r].status \in {"rejected", "revoked", "expired", "consumed"}
         => ledger'[r] = ledger[r]]_vars

\* What somebody outside sees: the events on the Issue, who took which grant, and what
\* the system says is done.
Told == [r \in Requests |-> Types(history[r])]
Grants == [m \in Mutations |-> [request |-> mutation[m].request, from |-> mutation[m].expected]]
Done == {m \in Mutations : mutation[m].state = "confirmed"}

\* Protected mutations keep the promise of ApprovalPromise: what the Issue tells of a
\* request, the use of its grant and the stage of the Map follow from one another.
Promise == INSTANCE ApprovalPromise WITH
  told <- Told, grant <- Grants, done <- Done, disputed <- rolled

KeepsApprovalPromise == Promise!Spec

\* A grant the Issue shows as revoked is not used (README.md, the same sentence;
\* test_unresolved_confirmed_revocation_blocks_approval_consumption).
RevokedIsRefused ==
  \A m \in Mutations : ~mutation[m].revoked

\* An empty ledger can be rebuilt from the Issue
\* (docs/architecture/current-system-map.md: "projection 可删除重建").
RebuildsFromIssue ==
  \A r \in Requests : history[r] # {} => Accepts(history[r], [status |-> "none", by |-> NoOne])
=============================================================================
