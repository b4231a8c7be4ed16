---------------------------- MODULE Commissioning ----------------------------
(***************************************************************************)
(* commission_map, with CoordinatorRuntime.ensure_root and prompt_ready:   *)
(* the one owned workspace and agent of a Map, its binding to the PM       *)
(* assignment, the commissioning turn and the transition to delivery,      *)
(* together with the PM turns that follow (PmTurns).                       *)
(*                                                                         *)
(* The CEO may call it again at any time; one call at a time holds         *)
(* commission_lease.  Approval of the delivery (Approvals.tla), the        *)
(* project's prerequisites and the start of the Herdr server, which all    *)
(* Maps share, come before the first step of the model.                    *)
(***************************************************************************)
EXTENDS PmTurns

VARIABLES
  workspaces,  \* Herdr workspaces that carry the Map's label
  started,     \* agent sessions started so far
  commission   \* the commission_map under way

vars == <<pmVars, workspaces, started, commission>>

NoRow == [state |-> "none", workspace |-> FALSE]
NoCommission == [step |-> "none", path |-> "none", existing |-> NoRow, session |-> 0]
Idle == commission.step = "none"

Init ==
  /\ PmInit
  /\ workspaces = runtime.session /\ started = runtime.session
  /\ commission = NoCommission

Step(step) == commission' = [commission EXCEPT !.step = step]
Stop == commission' = NoCommission

Released == IF runtimeLease = Ready THEN None ELSE runtimeLease

\* The call ends in repair_required.
NeedsRepair ==
  /\ runtime' = [runtime EXCEPT !.state = "repair_required"]
  /\ runtimeLease' = Released
  /\ Stop

\* _commission_map up to ensure_root: a Map in delivery is only verified.
StartCommission ==
  /\ Idle /\ Weighs(1)
  /\ stage \in {"authorized", "delivery"}
  /\ IF stage = "delivery" /\ ~runtime.ready
     THEN NeedsRepair
     ELSE /\ commission' = [NoCommission EXCEPT !.step = "root", !.path = stage]
          /\ UNCHANGED <<runtime, runtimeLease>>
  /\ UNCHANGED <<tables, outbox, tracker, agent, prompts, late, callers,
                 workspaces, started>>

\* _ensure_root up to the reservation, which precedes every Herdr mutation.
ReserveRuntime ==
  /\ commission.step = "root" /\ runtimeLease = None
  /\ runtimeLease' = Ready
  /\ runtime' = [runtime EXCEPT !.state = IF @ = "none" THEN "reserved" ELSE @]
  /\ commission' = [commission EXCEPT
                      !.step = "workspace",
                      !.existing = [state |-> runtime.state,
                                    workspace |-> runtime.workspace]]
  /\ UNCHANGED <<tables, outbox, tracker, agent, prompts, late, callers, events,
                 workspaces, started>>

\* Mutant: only a recorded workspace is looked for.
Matching_Recorded == IF commission.existing.workspace THEN workspaces ELSE 0

\* The workspaces that carry the Map's label.
Matching == workspaces

\* _ensure_workspace.  A workspace of the label is ours if it is the recorded one, or if
\* the reservation was there before this call.
EnsureWorkspace ==
  LET existing == commission.existing IN
  /\ commission.step = "workspace"
  /\ \/ /\ Matching = 1 /\ existing.state # "none"
        /\ Step("owned") /\ UNCHANGED <<workspaces, runtime, runtimeLease>>
     \/ /\ \/ Matching > 1
           \/ Matching = 1 /\ existing.state = "none"
           \/ Matching = 0 /\ existing.workspace
        /\ NeedsRepair /\ UNCHANGED workspaces
     \/ /\ Matching = 0 /\ ~existing.workspace
        /\ workspaces' = workspaces + 1
        /\ Step("owned") /\ UNCHANGED <<runtime, runtimeLease>>
  /\ UNCHANGED <<tables, outbox, tracker, agent, prompts, late, callers, events,
                 started>>

RecordWorkspace ==
  /\ commission.step = "owned"
  /\ runtime' = [runtime EXCEPT !.state = "workspace_ready", !.workspace = TRUE]
  /\ Step("agent")
  /\ UNCHANGED <<tables, outbox, tracker, agent, prompts, late, runtimeLease, callers,
                 events, workspaces, started>>

\* _ensure_agent: an absent agent is started, with a session of its own.
EnsureAgent ==
  /\ commission.step = "agent"
  /\ \/ /\ agent # 0
        /\ commission' = [commission EXCEPT !.step = "started", !.session = agent]
        /\ UNCHANGED <<agent, started>>
     \/ /\ agent = 0 /\ workspaces = 1 /\ started < MaxSessions
        /\ started' = started + 1
        /\ agent' = started'
        /\ commission' = [commission EXCEPT !.step = "started", !.session = started']
  /\ UNCHANGED <<tables, outbox, tracker, runtime, prompts, late, runtimeLease, callers,
                 events, workspaces>>

RecordAgent ==
  /\ commission.step = "started"
  /\ runtime' = [runtime EXCEPT
                   !.session = commission.session,
                   !.state = IF commission.existing.state \in {"ready_confirmed", "active"}
                             THEN commission.existing.state ELSE "pm_ready"]
  /\ runtimeLease' = None
  /\ commission' = [commission EXCEPT !.step = "assign", !.existing = NoRow]
  /\ UNCHANGED <<tables, outbox, tracker, agent, prompts, late, callers, events,
                 workspaces, started>>

\* _bind_pm_runtime_identity; a Map in delivery is then active again.
AssignPm ==
  /\ commission.step = "assign"
  /\ \/ /\ assignment.session \notin {0, commission.session}
        /\ NeedsRepair
        /\ UNCHANGED assignment
     \/ /\ assignment.session \in {0, commission.session}
        /\ assignment' = IF assignment.state = "none"
                         THEN [NoAssignment EXCEPT !.state = "idle",
                                                   !.session = commission.session]
                         ELSE assignment
        /\ IF commission.path = "delivery"
           THEN runtime' = [runtime EXCEPT !.state = "active"] /\ Stop
           ELSE Step("read") /\ UNCHANGED runtime
        /\ UNCHANGED runtimeLease
  /\ UNCHANGED <<receipt, acks, outbox, tracker, agent, prompts, late, callers,
                 events, workspaces, started>>

\* _tracker_ready_record
ReadyReported == <<"report", Ready>> \in issue

\* Mutant: the answer to the prompt is taken for the report.
ReadyConfirmed_ByPrompt == ReadyReported \/ receipt[Ready] = "prompted"

ReadyConfirmed == ReadyReported

\* The Issue is read before the prompt and again after it.
ReadReady ==
  /\ commission.step \in {"read", "reread"}
  /\ \/ ReadyConfirmed /\ Step("finish")
     \/ ~ReadyConfirmed /\ commission.step = "read" /\ Step("reserve")
     \/ ~ReadyConfirmed /\ commission.step = "reread" /\ Stop
  /\ UNCHANGED <<pmVars, workspaces, started>>

\* _reserve_pm_turn
ReserveReady ==
  /\ commission.step = "reserve" /\ TurnLeaseFree
  /\ \/ /\ MayStart(Ready) /\ MayBegin(Ready)
        /\ assignment' = Begun(Ready)
        /\ Step("ready") /\ UNCHANGED <<runtime, runtimeLease>>
     \/ /\ ~(MayStart(Ready) /\ MayBegin(Ready))
        /\ NeedsRepair /\ UNCHANGED assignment
  /\ UNCHANGED <<receipt, acks, outbox, tracker, agent, prompts, late, callers,
                 events, workspaces, started>>

Awaiting == runtime' = [runtime EXCEPT !.state = "awaiting_ready"]

\* prompt_ready up to its prompt; what it cannot do now does not end the call.
PrepareReady ==
  /\ commission.step = "ready" /\ runtimeLease = None
  /\ \/ /\ assignment.turn # Ready
        /\ NeedsRepair /\ UNCHANGED receipt
     \/ /\ assignment.turn = Ready
        /\ RuntimeLives
        /\ receipt[Ready] = "none" \/ Rearmed(Ready)
        /\ receipt' = [receipt EXCEPT ![Ready] = "dispatching"]
        /\ runtimeLease' = Ready
        /\ Step("prompt") /\ UNCHANGED runtime
     \/ /\ assignment.turn = Ready
        /\ receipt[Ready] \in {"dispatching", "rejected", "retry"}
        /\ RuntimeLives /\ Delivered(Ready)
        /\ receipt' = [receipt EXCEPT ![Ready] = "prompted"]
        /\ Awaiting /\ Step("reread") /\ UNCHANGED runtimeLease
     \/ /\ assignment.turn = Ready
        /\ \/ receipt[Ready] = "prompted" \/ ~RuntimeLives
           \/ receipt[Ready] = "none"
           \/ receipt[Ready] # "none" /\ ~Delivered(Ready) /\ ~Rearmed(Ready)
        /\ Awaiting /\ Step("reread") /\ UNCHANGED <<receipt, runtimeLease>>
  /\ UNCHANGED <<assignment, acks, outbox, tracker, agent, prompts, late, callers,
                 events, workspaces, started>>

PromptReady ==
  /\ commission.step = "prompt"
  /\ \/ Prompted(Ready) /\ Step("wait") /\ UNCHANGED <<runtime, runtimeLease>>
     \/ PromptFails(Ready) /\ Awaiting /\ Step("reread") /\ runtimeLease' = None
  /\ UNCHANGED <<assignment, acks, outbox, tracker, agent, callers, workspaces, started>>

\* herdr answers once the agent has stopped working.
ReadyPrompted ==
  /\ commission.step = "wait" /\ agent # 0
  /\ receipt' = [receipt EXCEPT ![Ready] = "prompted"]
  /\ Awaiting
  /\ runtimeLease' = None
  /\ Step("reread")
  /\ UNCHANGED <<assignment, acks, outbox, tracker, agent, prompts, late, callers,
                 events, workspaces, started>>

FinishReady ==
  /\ commission.step = "finish" /\ TurnLeaseFree
  /\ \/ /\ MayFinish(Ready, Ready)
        /\ assignment' = IF EndedBy(Ready, Ready) THEN assignment
                         ELSE Finished(Ready, Ready)
        /\ Step("confirm") /\ UNCHANGED <<runtime, runtimeLease>>
     \/ /\ ~MayFinish(Ready, Ready)
        /\ NeedsRepair /\ UNCHANGED assignment
  /\ UNCHANGED <<receipt, acks, outbox, tracker, agent, prompts, late, callers,
                 events, workspaces, started>>

ConfirmReady ==
  /\ commission.step = "confirm"
  /\ runtime' = [runtime EXCEPT !.state = "ready_confirmed", !.ready = TRUE]
  /\ Step("transition")
  /\ UNCHANGED <<tables, outbox, tracker, agent, prompts, late, runtimeLease, callers,
                 events, workspaces, started>>

\* _transition_commissioned_delivery
TransitionDelivery ==
  /\ commission.step = "transition"
  /\ intent' = Enqueued(<<"stage", Ready>>)
  /\ Step("activate")
  /\ UNCHANGED <<tables, at, tracker, herdr, runtimeLease, callers, events,
                 workspaces, started>>

\* The transition has succeeded, or the call ends with it pending.
Activate ==
  /\ commission.step = "activate"
  /\ \/ /\ intent[<<"stage", Ready>>] = "succeeded"
        /\ runtime' = [runtime EXCEPT !.state = "active"]
     \/ /\ intent[<<"stage", Ready>>] # "succeeded"
        /\ UNCHANGED runtime
  /\ Stop
  /\ UNCHANGED <<tables, outbox, tracker, agent, prompts, late, runtimeLease, callers,
                 events, workspaces, started>>

\* A command or a read fails, also after it had its effect: the state stays.
CommissionFails ==
  /\ ~Idle /\ Trouble
  /\ runtimeLease' = Released
  /\ Stop
  /\ UNCHANGED <<tables, outbox, tracker, herdr, callers, workspaces, started>>

Crash ==
  /\ UnderWay \/ ~Idle
  /\ Trouble
  /\ PmCrash
  /\ Stop
  /\ UNCHANGED <<workspaces, started>>

\* Somebody closes the workspace, and the agent in it ends.
WorkspaceCloses ==
  /\ Trouble
  /\ workspaces > 0
  /\ workspaces' = 0
  /\ agent' = 0
  /\ UNCHANGED <<tables, outbox, tracker, runtime, prompts, late, runtimeLease,
                 callers, started, commission>>

CommissionStep ==
  \/ StartCommission \/ ReserveRuntime \/ EnsureWorkspace \/ RecordWorkspace
  \/ EnsureAgent \/ RecordAgent \/ AssignPm \/ ReadReady \/ ReserveReady
  \/ PrepareReady \/ PromptReady \/ ReadyPrompted \/ FinishReady \/ ConfirmReady
  \/ TransitionDelivery \/ Activate \/ CommissionFails

Next ==
  \/ CommissionStep
  \/ Crash
  \/ WorkspaceCloses
  \/ /\ TurnStep \/ PmStep \/ EffectStep \/ AgentExits
     /\ UNCHANGED <<workspaces, started, commission>>

Spec == Init /\ [][Next]_vars
-----------------------------------------------------------------------------
(* Properties. *)

Receipts == {"none", "dispatching", "rejected", "retry", "prompted"}
IntentStates == {"none", "pending", "dead", "succeeded"}
AttemptSteps == {"rest", "prompt", "prompted", "seen", "applied", "route", "done"}
Stages == {"authorized", "delivery", "decision", "acceptance"}
RuntimeStates ==
  {"none", "reserved", "workspace_ready", "pm_ready", "awaiting_ready", "ready_confirmed",
   "active", "repair_required"}
CommissionSteps ==
  {"none", "root", "workspace", "owned", "agent", "started", "assign", "read", "reserve",
   "ready", "prompt", "wait", "reread", "finish", "confirm", "transition", "activate"}
ReportKinds == Kinds \cup {"checkpoint"}
Asked == {"none", "decision", "acceptance"}
ReportRecords ==
  {NoReport} \cup [turn : Turns, kind : ReportKinds, from : Stages, to : Asked]
CallRecords ==
  {NoCall} \cup [of : AllReports, turn : Turns, kind : ReportKinds, stage : Stages]
AckRecords == [turn : Turns \cup {None}, outcome : Outcomes \cup {"none"}]

AssignmentOK ==
  /\ assignment \in [state : {"none", "idle", "active"}, turn : Turns \cup {None},
                     last : Turns \cup {None},
                     outcome : AllReports \cup {None, "dispatch"}, session : 0..MaxSessions]
  /\ assignment.state = "active" <=> assignment.turn # None
ReceiptOK == receipt \in [Turns -> Receipts]
AcksOK == acks \in [Reports -> AckRecords]
OutboxOK == intent \in [Effects -> IntentStates] /\ at \in [Effects -> AttemptSteps]
ReportOK == report \in [AllReports -> ReportRecords]
AnswerOK ==
  answer \in [Reports -> [outcome : Outcomes \cup {"none"}, applied : BOOLEAN,
                          ended : BOOLEAN]]
IssueOK == issue \subseteq Effects /\ stage \in Stages
HerdrOK ==
  /\ agent \in 0..MaxSessions /\ started \in 0..MaxSessions /\ workspaces \in Nat
  /\ prompts \in [Turns -> [Sessions -> Nat]] /\ late \subseteq Turns
RuntimeOK ==
  runtime \in [state : RuntimeStates, workspace : BOOLEAN, session : 0..MaxSessions,
               ready : BOOLEAN]
CallersOK ==
  /\ runtimeLease \in Effects \cup {None, Ready}
  /\ coordinator \in Plain \cup {None} /\ call \in CallRecords
  /\ reply \in [of : Reports \cup {None}, step : {"none", "save", "follow"},
                ack : AckRecords]
  /\ reply.step # "none" => reply.of \in Reports
CommissionOK ==
  /\ commission \in [step : CommissionSteps, path : {"none", "authorized", "delivery"},
                     existing : [state : RuntimeStates, workspace : BOOLEAN],
                     session : 0..MaxSessions]
  /\ commission.step = "none" => commission = NoCommission

\* The type of every variable; a turn is recorded exactly while it is active.
TypeOK ==
  /\ AssignmentOK /\ ReceiptOK /\ AcksOK /\ OutboxOK /\ ReportOK /\ AnswerOK /\ IssueOK
  /\ HerdrOK /\ RuntimeOK /\ CallersOK /\ CommissionOK /\ events \in Nat

\* A session is prompted at most once for a turn, whatever fails, times out, crashes
\* or is repaired, and although a prompt that timed out may still arrive: a prompt is
\* repeated only after Herdr rejected it and its marker is not in the transcript
\* (resume, prompt_ready and readback of coordinator.py).
OnePromptPerTurn == \A t \in Turns, s \in Sessions : prompts[t][s] <= 1

\* A turn other than the commissioning turn becomes the active one only after its
\* prompt was confirmed and an agent did take it in (completion of COORDINATOR_RESUME).
ActiveTurnWasPrompted ==
  assignment.state = "active" /\ assignment.turn # Ready =>
    LET t == assignment.turn IN
      receipt[t] = "prompted" /\ \E s \in Sessions : prompts[t][s] = 1

\* No two reports are the outcome of one turn, also when the turn is begun again after
\* it ended, or a crash separates a report from the end of its turn
\* (_pm_report_outcome_reserved).
OneReportPerTurn ==
  \A r1, r2 \in AllReports :
    report[r1] # NoReport /\ report[r1].turn = report[r2].turn => r1 = r2

\* A question whose last effect is acknowledged has reached the CEO: no crash or
\* failure between the end of the turn and the CEO's prompt loses it
\* (_finalize_pm_report, _route_pm_question_to_ceo).
QuestionReachesCeo ==
  \A r \in Reports :
    LET last == IF report[r].to = "none" THEN <<"report", r>> ELSE <<"stage", r>> IN
      Question(r) /\ intent[last] = "succeeded" => intent[<<"wake", r>>] = "succeeded"

\* A committed answer has its resume durably queued before its own effect is over, and
\* a second one, for the other outcome, only if the grant ended between two completions
\* of that effect (completions of TRACKER_DECISION and of an approval's decision).
AnswerResumes ==
  \A q \in Reports :
    LET queued == {o \in Outcomes : intent[<<"resume", <<q, o>>>>] # "none"} IN
      /\ intent[<<"answer", q>>] = "succeeded" => queued # {}
      /\ Cardinality(queued) = 2 => answer[q].ended

\* A Map leaves the authorized stage only when the Issue shows the ready report and
\* the commissioning turn is over, and its runtime is active only then
\* (_commission_map).
ReadyBeforeDelivery ==
  stage # "authorized" \/ runtime.state = "active" =>
    /\ ReadyReported
    /\ ~(assignment.state = "active" /\ assignment.turn = Ready)

\* Crashes, lost answers and repeated calls of commission_map never leave a second
\* workspace of the Map (_ensure_workspace, after the reservation).
OneWorkspace == workspaces <= 1

\* What somebody outside sees: the reports and the answers on the Issue, the questions
\* the CEO had a turn for, the grants that ended, and the operator's orders.
Told ==
  [r \in AllReports |->
     IF <<"report", r>> \in issue THEN [turn |-> report[r].turn, kind |-> report[r].kind]
     ELSE [turn |-> None, kind |-> "none"]]
Answered == [q \in Reports |-> IF <<"answer", q>> \in issue THEN answer[q].outcome ELSE "none"]
Woken == {q \in Reports : intent[<<"wake", q>>] = "succeeded"}
Withdrawn == {q \in Reports : answer[q].ended}
Ordered == {m \in Orders : intent[<<"order", m>>] # "none"}

\* Turns keep the promise of TurnPromise: prompts, reports, questions, answers,
\* orders and the stage follow from one another, whatever happens inside.
Promise == INSTANCE TurnPromise WITH
  told <- Told, answered <- Answered, woken <- Woken, withdrawn <- Withdrawn,
  ordered <- Ordered

KeepsTurnPromise == Promise!Spec

\* What the operating guide says of a report or a dispatch: it ends its turn.  A turn
\* that ended is not active again.
EndedTurnStaysEnded ==
  [][assignment.state = "idle" /\ assignment'.state = "active" =>
       assignment'.turn # assignment.last]_vars
=============================================================================
