------------------------------ MODULE PmTurns -------------------------------
(***************************************************************************)
(* The turns of one Map's PM: begin_pm_turn, report_pm,                    *)
(* complete_pm_dispatch, acknowledge_pm_decision and answer_pm_question of *)
(* application.py, the completions of the effects they queue, the prompt   *)
(* receipts of CoordinatorRuntime.readback and resume, the tables          *)
(* pm_assignments, pm_resume_receipts and pm_decision_acknowledgments, and *)
(* the transitions an operator orders meanwhile (transition_map).          *)
(*                                                                         *)
(* An effect is attempted by one worker at a time (Outbox.tla); an attempt *)
(* that fails leaves it pending, or dead once its budget is used up.  The  *)
(* correlation of a question is its report.  A blocker that does not block *)
(* the Map is a checkpoint.  Commissioning.tla creates the                 *)
(* agent the turns are prompted to and runs the first turn, Ready.  The    *)
(* agent is busy or idle as it likes: what needs it idle may just wait.    *)
(***************************************************************************)
EXTENDS FiniteSets, Naturals

CONSTANTS Plain,        \* turns the coordinator asks for
          Reports,      \* reports the PM may send, besides the ready report
          Kinds,        \* their kinds
          Orders,       \* transitions an operator may order
          Ready,        \* the commissioning turn, its report and its transition
          None,         \* no turn, no report, no owner of the runtime lease
          MaxSessions, MaxEvents  \* bounds of the model

VARIABLES
  assignment,  \* table pm_assignments
  receipt,     \* table pm_resume_receipts: state with its two flags
  acks,        \* table pm_decision_acknowledgments
  intent,      \* Outbox state of every effect
  at,          \* how far the attempt of an effect is
  report,      \* payload of each report effect
  answer,      \* the committed answer to each question
  issue,       \* what the Issue shows: reports, and answers to questions
  stage,       \* the Issue's executive stage
  agent,       \* the session of the Herdr agent, 0 when it does not run
  runtime,     \* table pm_runtime_bindings
  prompts,     \* history: prompts each agent session has taken in, per turn
  late,        \* prompts whose command timed out and that may still arrive
  runtimeLease,\* who holds pm_runtime_lease
  coordinator, \* begin_pm_turn under way, holding pm_turn_lease
  call,        \* report_pm under way, holding pm_turn_lease
  reply,       \* acknowledge_pm_decision under way, which holds no lease
  events       \* bounded together: commissionings, reports, orders, and all that goes wrong

tables == <<assignment, receipt, acks>>
outbox == <<intent, at>>
tracker == <<report, answer, issue, stage>>
herdr == <<agent, runtime, prompts, late>>
callers == <<coordinator, call, reply>>
pmVars == <<tables, outbox, tracker, herdr, runtimeLease, callers, events>>

Outcomes == {"continue", "blocked"}
AllReports == Reports \cup {Ready}
Turns == Plain \cup {Ready} \cup (Reports \X Outcomes)
Sessions == 1..MaxSessions
Resumes == {"resume"} \X (Turns \ {Ready})
Effects == Resumes \cup ({"report", "stage"} \X AllReports)
             \cup ({"answer", "wake"} \X Reports) \cup ({"order"} \X Orders)

\* ALLOWED_TRANSITIONS between the stages a commissioned Map goes through; delivery is
\* entered from the authorized stage by the commissioning alone.
Transitions ==
  {<<"delivery", "decision">>, <<"delivery", "acceptance">>,
   <<"decision", "delivery">>, <<"acceptance", "delivery">>}

\* Names of different kinds are different.
ASSUME PmTurnsAssumption ==
  /\ Ready \notin Plain \cup Reports \cup (Reports \X Outcomes)
  /\ None \notin Turns \cup Reports
  /\ Plain \cap (Reports \X Outcomes) = {}
  /\ Kinds \subseteq {"checkpoint", "question", "blocking", "blocker", "acceptance"}
  /\ Orders \subseteq Transitions
  /\ MaxSessions \in Nat \ {0} /\ MaxEvents \in Nat

NoCall == [of |-> None, turn |-> None, kind |-> "none", stage |-> "none"]
NoAck == [turn |-> None, outcome |-> "none"]
NoReply == [of |-> None, step |-> "none", ack |-> NoAck]
NoAnswer == [outcome |-> "none", applied |-> FALSE, ended |-> FALSE]
NoReport == [turn |-> None, kind |-> "none", from |-> "none", to |-> "none"]
NoAssignment == [state |-> "none", turn |-> None, last |-> None, outcome |-> None,
                 session |-> 0]

NoRuntime == [state |-> "none", workspace |-> FALSE, session |-> 0, ready |-> FALSE]
Commissioned == [state |-> "active", workspace |-> TRUE, session |-> 1, ready |-> TRUE]

\* An authorized Map nobody has commissioned, or one in delivery whose commissioning
\* met no trouble: its first turn is over and nothing is under way.
PmInit ==
  /\ runtime \in {NoRuntime, Commissioned}
  /\ LET over == runtime = Commissioned
         done == {<<"report", Ready>>, <<"stage", Ready>>} IN
       /\ assignment = IF over THEN [state |-> "idle", turn |-> None, last |-> Ready,
                                     outcome |-> Ready, session |-> 1]
                       ELSE NoAssignment
       /\ receipt = [t \in Turns |-> IF over /\ t = Ready THEN "prompted" ELSE "none"]
       /\ intent = [e \in Effects |-> IF over /\ e \in done THEN "succeeded" ELSE "none"]
       /\ report = [r \in AllReports |->
                      IF over /\ r = Ready
                      THEN [turn |-> Ready, kind |-> "checkpoint", from |-> "authorized",
                            to |-> "none"]
                      ELSE NoReport]
       /\ issue = IF over THEN {<<"report", Ready>>} ELSE {}
       /\ stage = IF over THEN "delivery" ELSE "authorized"
       /\ agent = IF over THEN 1 ELSE 0
       /\ prompts = [t \in Turns |->
                       [s \in Sessions |-> IF over /\ t = Ready /\ s = 1 THEN 1 ELSE 0]]
  /\ acks = [q \in Reports |-> NoAck]
  /\ at = [e \in Effects |-> "rest"]
  /\ answer = [q \in Reports |-> NoAnswer]
  /\ late = {}
  /\ runtimeLease = None /\ coordinator = None
  /\ call = NoCall /\ reply = NoReply
  /\ events = IF runtime = Commissioned THEN 0 ELSE 1

\* The bound of the model: a report or an order weighs 2, anything else 1.
Weighs(n) ==
  /\ events + n <= MaxEvents
  /\ events' = events + n
Trouble == Weighs(1)

TurnLeaseFree == coordinator = None /\ call = NoCall
Question(r) == report[r].kind \in {"question", "blocking"}

Enqueued(e) == IF intent[e] = "none" THEN [intent EXCEPT ![e] = "pending"] ELSE intent
GoTo(e, step) == at' = [at EXCEPT ![e] = step]

\* The effect stops for good: EffectTerminalError, or the retry budget is used up.
Dies(e) == intent' = [intent EXCEPT ![e] = "dead"] /\ GoTo(e, "rest")

-----------------------------------------------------------------------------
(* The assignment: begin_pm_turn and finish_pm_turn of storage.py. *)

MayBegin(t) == assignment.state = "idle" \/ assignment.turn = t
Begun(t) == [assignment EXCEPT !.state = "active", !.turn = t]

EndedBy(t, outcome) ==
  assignment.state = "idle" /\ assignment.last = t /\ assignment.outcome = outcome
MayFinish(t, outcome) ==
  EndedBy(t, outcome) \/ (assignment.state = "active" /\ assignment.turn = t)
\* Mutant: a turn that ends leaves its id in the row.
Finished_KeepsTurn(t, outcome) ==
  [assignment EXCEPT !.state = "idle", !.last = t, !.outcome = outcome]

Finished(t, outcome) ==
  [assignment EXCEPT !.state = "idle", !.turn = None, !.last = t, !.outcome = outcome]

\* unfinished_intents of _validate_pm_turn_start: dead ones count too.
Unresolved(t) == {e \in Resumes : intent[e] \in {"pending", "dead"} /\ e[2] # t}

MayStart(t) ==
  /\ assignment.state = "active" => assignment.turn = t
  /\ Unresolved(t) = {}

-----------------------------------------------------------------------------
(* A turn the coordinator begins, and one that resumes the PM after an answer: *)
(* an effect that prompts the agent and then begins the turn.                  *)

BeginPmTurn(t) ==
  /\ TurnLeaseFree
  /\ assignment.state # "none" /\ MayStart(t)
  /\ intent[<<"resume", t>>] = "none"
  /\ coordinator' = t
  /\ UNCHANGED <<tables, outbox, tracker, herdr, runtimeLease, call, reply, events>>

EnqueueResume ==
  /\ coordinator # None
  /\ intent' = Enqueued(<<"resume", coordinator>>)
  /\ coordinator' = None
  /\ UNCHANGED <<tables, at, tracker, herdr, runtimeLease, call, reply, events>>

\* _validate_owned_record and _validate_live_runtime: the recorded agent runs.
RuntimeLives == runtime.session # 0 /\ agent = runtime.session

\* _pm_turn_marker_visible, over the session of the agent that runs now.
MarkerVisible(t) == agent # 0 /\ prompts[t][agent] > 0

\* Mutant: a rejected prompt is repeated without a look at the agent's transcript.
Rearmed_Blindly(t) == receipt[t] = "rejected"

\* readback re-arms only a rejected prompt that did not reach the agent after all.
Rearmed(t) ==
  receipt[t] \in {"rejected", "retry"} /\ ~MarkerVisible(t)

\* Mutant: a prompt that was being sent counts as delivered.
Delivered_Assumed(t) == receipt[t] = "dispatching"

Delivered(t) == MarkerVisible(t)

\* CoordinatorRuntime.readback of a turn that was prepared before.
Readback(t) ==
  LET e == <<"resume", t>> IN
  /\ intent[e] = "pending" /\ at[e] = "rest" /\ runtimeLease = None
  /\ \/ receipt[t] = "prompted" /\ GoTo(e, "seen") /\ UNCHANGED receipt
     \/ /\ receipt[t] \in {"dispatching", "rejected", "retry"}
        /\ assignment.state = "idle" /\ RuntimeLives
        /\ \/ /\ Delivered(t)
              /\ receipt' = [receipt EXCEPT ![t] = "prompted"]
              /\ GoTo(e, "seen")
           \/ /\ Rearmed(t)
              /\ receipt' = [receipt EXCEPT ![t] = "retry"]
              /\ UNCHANGED at
  /\ UNCHANGED <<assignment, acks, intent, tracker, herdr, runtimeLease, callers,
                 events>>

\* CoordinatorRuntime.resume up to its prompt: the receipt is written first.
Prepare(t) ==
  LET e == <<"resume", t>> IN
  /\ intent[e] = "pending" /\ at[e] = "rest" /\ runtimeLease = None
  /\ receipt[t] \in {"none", "retry"}
  /\ assignment.state = "idle" /\ RuntimeLives
  /\ receipt' = [receipt EXCEPT ![t] = "dispatching"]
  /\ runtimeLease' = e
  /\ GoTo(e, "prompt")
  /\ UNCHANGED <<assignment, acks, intent, tracker, herdr, callers, events>>

Takes(t) ==
  /\ agent # 0
  /\ prompts' = [prompts EXCEPT ![t][agent] = @ + 1]

\* herdr agent prompt: answered; failed, taken in or not; timed out, and taken in
\* now, later or never.  Only a failure is recorded as a rejection.
Prompted(t) == Takes(t) /\ UNCHANGED <<receipt, late, events>>

PromptFails(t) ==
  /\ Trouble
  /\ \/ /\ receipt' = [receipt EXCEPT ![t] = "rejected"]
        /\ Takes(t) \/ UNCHANGED prompts
        /\ UNCHANGED late
     \/ late' = late \cup {t} /\ UNCHANGED <<receipt, prompts>>

Prompt(t) ==
  LET e == <<"resume", t>> IN
  /\ at[e] = "prompt"
  /\ \/ Prompted(t) /\ GoTo(e, "prompted") /\ UNCHANGED runtimeLease
     \/ PromptFails(t) /\ GoTo(e, "rest") /\ runtimeLease' = None
  /\ UNCHANGED <<assignment, acks, intent, tracker, agent, runtime, callers>>

ConfirmPrompt(t) ==
  LET e == <<"resume", t>> IN
  /\ at[e] = "prompted"
  /\ receipt' = [receipt EXCEPT ![t] = "prompted"]
  /\ runtimeLease' = None
  /\ GoTo(e, "seen")
  /\ UNCHANGED <<assignment, acks, intent, tracker, herdr, callers, events>>

\* Completion of COORDINATOR_RESUME.
BeginTurn(t) ==
  LET e == <<"resume", t>> IN
  /\ at[e] = "seen"
  /\ \/ MayBegin(t) /\ assignment' = Begun(t) /\ GoTo(e, "done") /\ UNCHANGED intent
     \/ ~MayBegin(t) /\ Dies(e) /\ UNCHANGED assignment
  /\ UNCHANGED <<receipt, acks, tracker, herdr, runtimeLease, callers, events>>

LatePrompt(t) ==
  /\ t \in late
  /\ late' = late \ {t}
  /\ Takes(t)
  /\ UNCHANGED <<tables, outbox, tracker, agent, runtime, runtimeLease, callers, events>>

-----------------------------------------------------------------------------
(* Tools of the PM.  They know the PM by its session. *)

PmCalls == agent # 0 /\ agent = assignment.session

\* _pm_report_requested_stage: a blocking question and a blocker stop the delivery.
RequestedStage(kind, current) ==
  IF current # "delivery" THEN "none"
  ELSE CASE kind = "acceptance" -> "acceptance"
         [] kind \in {"blocking", "blocker"} -> "decision"
         [] OTHER -> "none"

\* Mutant: only a report that is still under way reserves the turn.
Reserved_WhilePending(t) ==
  \E r \in AllReports :
    report[r].turn = t /\ intent[<<"report", r>>] = "pending" /\ at[<<"report", r>>] # "seen"

\* _pm_report_outcome_reserved
Reserved(t) == \E r \in AllReports : report[r].turn = t

\* report_pm up to the queueing of its effect.  A replay of a report only
\* dispatches it again.
ReportPm(r, kind) ==
  /\ PmCalls /\ TurnLeaseFree
  /\ intent[<<"report", r>>] = "none"
  /\ assignment.state = "active" /\ ~Reserved(assignment.turn)
  /\ IF r = Ready THEN UNCHANGED events ELSE Weighs(2)
  /\ call' = [of |-> r, turn |-> assignment.turn, kind |-> kind, stage |-> stage]
  /\ UNCHANGED <<tables, outbox, tracker, herdr, runtimeLease, coordinator, reply>>

EnqueueReport ==
  /\ call # NoCall
  /\ report' = [report EXCEPT ![call.of] =
                  [turn |-> call.turn, kind |-> call.kind, from |-> call.stage,
                   to |-> RequestedStage(call.kind, call.stage)]]
  /\ intent' = Enqueued(<<"report", call.of>>)
  /\ call' = NoCall
  /\ UNCHANGED <<tables, at, answer, issue, stage, herdr, runtimeLease, coordinator,
                 reply, events>>

\* complete_pm_dispatch: a finished dispatch of a lane ends the turn.
CompleteDispatch ==
  /\ PmCalls /\ TurnLeaseFree
  /\ assignment.state = "active" /\ ~Reserved(assignment.turn)
  /\ stage = "delivery"
  /\ assignment' = Finished(assignment.turn, "dispatch")
  /\ UNCHANGED <<receipt, acks, outbox, tracker, herdr, runtimeLease, callers,
                 events>>

\* Mutant: whatever the answer says, the PM resumes as if it was granted.
CurrentAnswer_Granted(q) == "continue"

\* _authoritative_pm_answer: a grant that is no longer approved says blocked.
CurrentAnswer(q) == IF answer[q].ended THEN "blocked" ELSE answer[q].outcome

AnsweredIn(q, t) ==
  \E o \in Outcomes : t = <<q, o>> /\ intent[<<"resume", <<q, o>>>>] = "succeeded"

\* acknowledge_pm_decision up to its write, then the write, then what follows from
\* the answer; a call that finds the acknowledgment goes on from there.
AcknowledgeDecision(q) ==
  /\ PmCalls /\ reply = NoReply
  /\ <<"answer", q>> \in issue
  /\ \/ /\ acks[q] = NoAck
        /\ assignment.state = "active" /\ AnsweredIn(q, assignment.turn)
        /\ reply' = [of |-> q, step |-> "save",
                     ack |-> [turn |-> assignment.turn, outcome |-> CurrentAnswer(q)]]
     \/ /\ acks[q].outcome = CurrentAnswer(q)
        /\ assignment.state = "active" => assignment.turn = acks[q].turn
        /\ reply' = [of |-> q, step |-> "follow", ack |-> acks[q]]
  /\ UNCHANGED <<tables, outbox, tracker, herdr, runtimeLease, coordinator, call,
                 events>>

SaveAcknowledgment ==
  /\ reply.step = "save"
  /\ acks' = [acks EXCEPT ![reply.of] = reply.ack]
  /\ reply' = [reply EXCEPT !.step = "follow"]
  /\ UNCHANGED <<assignment, receipt, outbox, tracker, herdr, runtimeLease,
                 coordinator, call, events>>

FollowAnswer ==
  /\ reply.step = "follow"
  /\ \/ /\ reply.ack.outcome = "continue"
        /\ stage' = IF report[reply.of].kind = "blocking" /\ stage = "decision"
                    THEN "delivery" ELSE stage
        /\ UNCHANGED assignment
     \/ /\ reply.ack.outcome = "blocked"
        /\ assignment' = IF MayFinish(reply.ack.turn, reply.of)
                         THEN Finished(reply.ack.turn, reply.of) ELSE assignment
        /\ UNCHANGED stage
  /\ reply' = NoReply
  /\ UNCHANGED <<receipt, acks, outbox, report, answer, issue, herdr, runtimeLease,
                 coordinator, call, events>>

-----------------------------------------------------------------------------
(* Reports, the stage transitions they ask for, and the questions among them. *)

WriteReport(r) ==
  LET e == <<"report", r>> IN
  /\ intent[e] = "pending" /\ at[e] = "rest"
  /\ issue' = issue \cup {e}
  /\ GoTo(e, "seen")
  /\ UNCHANGED <<tables, intent, report, answer, stage, herdr, runtimeLease, callers,
                 events>>

\* _finalize_pm_report, in the completion of effect e: the turn ends, then a question
\* is routed to the CEO.
FinalizeReport(e, r) ==
  LET t == report[r].turn IN
  \/ /\ MayFinish(t, r)
     /\ assignment' = Finished(t, r)
     /\ GoTo(e, IF Question(r) THEN "route" ELSE "done")
     /\ UNCHANGED intent
  \/ /\ ~MayFinish(t, r)
     /\ Dies(e)
     /\ UNCHANGED assignment

\* _complete_pm_report_effect
CompleteReport(r) ==
  LET e == <<"report", r>> IN
  /\ at[e] = "seen"
  /\ IF report[r].to = "none"
     THEN FinalizeReport(e, r)
     ELSE /\ intent' = Enqueued(<<"stage", r>>)
          /\ GoTo(e, "done")
          /\ UNCHANGED assignment
  /\ UNCHANGED <<receipt, acks, tracker, herdr, runtimeLease, callers, events>>

\* The transition a report asks for, and the one of the commissioning.
Move(r) ==
  IF r = Ready THEN [from |-> "authorized", to |-> "delivery"]
  ELSE [from |-> report[r].from, to |-> report[r].to]

\* An effect that finds another stage than the one it expects fails for good.
WriteStage(r) ==
  LET e == <<"stage", r>> IN
  /\ intent[e] = "pending" /\ at[e] = "rest"
  /\ stage \in {Move(r).from, Move(r).to}
  /\ stage' = Move(r).to
  /\ GoTo(e, "seen")
  /\ UNCHANGED <<tables, intent, report, answer, issue, herdr, runtimeLease, callers,
                 events>>

\* Completion of TRACKER_STAGE_TRANSITION; the transition of the commissioning itself
\* carries no report to finish.
CompleteStage(r) ==
  LET e == <<"stage", r>> IN
  /\ at[e] = "seen"
  /\ IF r = Ready THEN GoTo(e, "done") /\ UNCHANGED <<assignment, intent>>
     ELSE FinalizeReport(e, r)
  /\ UNCHANGED <<receipt, acks, tracker, herdr, runtimeLease, callers, events>>

\* transition_map, called by an operator: it reads the stage and queues a new occurrence
\* of the transition, unless the last one is unfinished.
OrderStage(m) ==
  LET e == <<"order", m>> IN
  /\ Weighs(2)
  /\ stage = m[1]
  /\ intent[e] \in {"none", "succeeded"}
  /\ intent' = [intent EXCEPT ![e] = "pending"]
  /\ UNCHANGED <<tables, at, tracker, herdr, runtimeLease, callers>>

WriteOrder(m) ==
  LET e == <<"order", m>> IN
  /\ intent[e] = "pending" /\ at[e] = "rest"
  /\ stage \in {m[1], m[2]}
  /\ stage' = m[2]
  /\ GoTo(e, "done")
  /\ UNCHANGED <<tables, intent, report, answer, issue, herdr, runtimeLease, callers,
                 events>>

\* Mutant: the completion does not wait for the CEO's turn.
Routed_Queued(r) == intent[<<"wake", r>>] # "none"

Routed(r) == intent[<<"wake", r>>] = "succeeded"

\* _route_pm_question_to_ceo: the completion goes on once the CEO's turn has succeeded.
RouteQuestion(r) ==
  \E e \in {<<"report", r>>, <<"stage", r>>} :
    /\ at[e] = "route"
    /\ intent' = Enqueued(<<"wake", r>>)
    /\ IF Routed(r) THEN GoTo(e, "done") ELSE UNCHANGED at
    /\ UNCHANGED <<tables, tracker, herdr, runtimeLease, callers, events>>

\* SESSION_RESUME, nested in that completion or retried by a worker.
WakeCeo(r) ==
  /\ intent[<<"wake", r>>] = "pending"
  /\ intent' = [intent EXCEPT ![<<"wake", r>>] = "succeeded"]
  /\ UNCHANGED <<tables, at, tracker, herdr, runtimeLease, callers, events>>

-----------------------------------------------------------------------------
(* Answers. *)

\* answer_pm_question, and decide_approval where the class is the chairman's.
AnswerQuestion(q, outcome) ==
  /\ <<"report", q>> \in issue /\ Question(q)
  /\ intent[<<"answer", q>>] = "none"
  /\ answer' = [answer EXCEPT ![q].outcome = outcome]
  /\ intent' = Enqueued(<<"answer", q>>)
  /\ UNCHANGED <<tables, at, report, issue, stage, herdr, runtimeLease, callers,
                 events>>

WriteAnswer(q) ==
  LET e == <<"answer", q>> IN
  /\ intent[e] = "pending" /\ at[e] = "rest"
  /\ issue' = issue \cup {e}
  /\ GoTo(e, "seen")
  /\ UNCHANGED <<tables, intent, report, answer, stage, herdr, runtimeLease, callers,
                 events>>

\* The local projection, which refuses a grant that has ended since it was applied.
ApplyAnswer(q) ==
  LET e == <<"answer", q>> IN
  /\ at[e] = "seen"
  /\ \/ /\ answer[q].ended
        /\ Dies(e)
        /\ UNCHANGED answer
     \/ /\ ~answer[q].ended
        /\ answer' = [answer EXCEPT ![q].applied = TRUE]
        /\ GoTo(e, "applied")
        /\ UNCHANGED intent
  /\ UNCHANGED <<tables, report, issue, stage, herdr, runtimeLease, callers,
                 events>>

\* Mutant: the acknowledgment does not depend on the resume's intent.
AnswerResume_Forgotten(q) == intent

AnswerResume(q) == Enqueued(<<"resume", <<q, CurrentAnswer(q)>>>>)

\* _enqueue_pm_decision_resume: it asks for no lease and looks at no other turn.
EnqueueDecisionResume(q) ==
  LET e == <<"answer", q>> IN
  /\ at[e] = "applied"
  /\ intent' = AnswerResume(q)
  /\ GoTo(e, "done")
  /\ UNCHANGED <<tables, tracker, herdr, runtimeLease, callers, events>>

\* The answer was the chairman's grant, and it is revoked or expires.
EndGrant(q) ==
  /\ Trouble
  /\ answer[q].outcome = "continue" /\ answer[q].applied /\ ~answer[q].ended
  /\ answer' = [answer EXCEPT ![q].ended = TRUE]
  /\ UNCHANGED <<tables, outbox, report, issue, stage, herdr, runtimeLease, callers>>

-----------------------------------------------------------------------------
(* Attempts of effects, and the world. *)

Acknowledge(e) ==
  /\ at[e] = "done"
  /\ intent' = [intent EXCEPT ![e] = "succeeded"]
  /\ GoTo(e, "rest")
  /\ UNCHANGED <<tables, tracker, herdr, runtimeLease, callers, events>>

\* An attempt fails, a lost answer and a lost acknowledgment included, or the last
\* attempt that the budget allows has failed.
Fail(e) ==
  /\ Trouble
  /\ intent[e] = "pending"
  /\ \/ Dies(e)
     \/ at[e] # "rest" /\ GoTo(e, "rest") /\ UNCHANGED intent
  /\ runtimeLease' = IF runtimeLease = e THEN None ELSE runtimeLease
  /\ UNCHANGED <<tables, tracker, herdr, callers>>

\* repair_outbox
RepairEffect(e) ==
  /\ intent[e] = "dead"
  /\ intent' = [intent EXCEPT ![e] = "pending"]
  /\ UNCHANGED <<tables, at, tracker, herdr, runtimeLease, callers, events>>

UnderWay ==
  \/ \E e \in Effects : at[e] # "rest"
  \/ runtimeLease # None \/ ~TurnLeaseFree \/ reply # NoReply

\* The process dies: attempts and calls end, leases are released.  The agent lives on.
PmCrash ==
  /\ at' = [e \in Effects |-> "rest"]
  /\ runtimeLease' = None /\ coordinator' = None
  /\ call' = NoCall /\ reply' = NoReply
  /\ UNCHANGED <<tables, intent, tracker, herdr>>

AgentExits ==
  /\ Trouble
  /\ agent # 0
  /\ agent' = 0
  /\ UNCHANGED <<tables, outbox, tracker, runtime, prompts, late, runtimeLease,
                 callers>>

TurnStep ==
  \/ \E t \in Plain : BeginPmTurn(t)
  \/ EnqueueResume
  \/ \E t \in Turns \ {Ready} :
       Readback(t) \/ Prepare(t) \/ Prompt(t) \/ ConfirmPrompt(t) \/ BeginTurn(t)
  \/ \E t \in Turns : LatePrompt(t)

PmStep ==
  \/ ReportPm(Ready, "checkpoint")
  \/ \E r \in Reports, kind \in Kinds : ReportPm(r, kind)
  \/ EnqueueReport \/ CompleteDispatch
  \/ \E q \in Reports : AcknowledgeDecision(q)
  \/ SaveAcknowledgment \/ FollowAnswer

EffectStep ==
  \/ \E r \in AllReports : \/ WriteReport(r) \/ CompleteReport(r)
                           \/ WriteStage(r) \/ CompleteStage(r)
  \/ \E q \in Reports :
       \/ RouteQuestion(q) \/ WakeCeo(q)
       \/ \E o \in Outcomes : AnswerQuestion(q, o)
       \/ WriteAnswer(q) \/ ApplyAnswer(q) \/ EnqueueDecisionResume(q) \/ EndGrant(q)
  \/ \E m \in Orders : OrderStage(m) \/ WriteOrder(m)
  \/ \E e \in Effects : Acknowledge(e) \/ Fail(e) \/ RepairEffect(e)

=============================================================================
