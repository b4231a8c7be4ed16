----------------------- MODULE CommissioningPromiseProofs -----------------------
(***************************************************************************)
(* Commissioning implements TurnPromise, for any turns, reports, sessions  *)
(* and bounds: what the agent, the Issue and the CEO see of a turn follows *)
(* in order and once.                                                      *)
(***************************************************************************)
EXTENDS CommissioningProofs

(***************************************************************************)
(* What holds of the records on the Issue, besides Inv: they are behind    *)
(* what the outbox does with them.                                         *)
(***************************************************************************)
ShownReport(r) == <<"report", r>> \in issue
ShownAnswer(q) == <<"answer", q>> \in issue

\* The attempt of the effect is past its write.
Past(e) == at[e] \in {"seen", "applied", "route", "done"}

\* A record is on the Issue once its attempt is past the write, and only if it was
\* queued; the stage effect of a report comes later.
RecordOf(r) ==
  /\ ShownReport(r) => intent[<<"report", r>>] # "none"
  /\ Past(<<"report", r>>) => ShownReport(r)
  /\ intent[<<"stage", r>>] # "none" => ShownReport(r)
  /\ intent[<<"report", r>>] # "none" => report[r].turn \in Turns

\* Only a question is routed and answered, and only one the Issue shows.
QuestionShown(q) ==
  /\ at[<<"report", q>>] = "route" \/ at[<<"stage", q>>] = "route" => Question(q)
  /\ intent[<<"wake", q>>] # "none" \/ intent[<<"answer", q>>] # "none" =>
       ShownReport(q) /\ Question(q)

\* An answer is shown as it was given; its resumes carry it, or the end of the grant.
AnswerShown(q) ==
  /\ ShownAnswer(q) => intent[<<"answer", q>>] # "none"
  /\ Past(<<"answer", q>>) \/ answer[q].applied => ShownAnswer(q)
  /\ answer[q].ended => answer[q].outcome = "continue" /\ answer[q].applied
  /\ \A o \in Outcomes : Queued(q, o) =>
       /\ ShownAnswer(q)
       /\ o = answer[q].outcome \/ (o = "blocked" /\ answer[q].ended)

\* An acknowledgment that lets the PM continue rests on such an answer.
Backed(q, ack) == ack.outcome = "continue" => ShownAnswer(q) /\ answer[q].outcome = "continue"
AckShown ==
  /\ \A q \in Reports : Backed(q, acks[q])
  /\ reply.step # "none" => Backed(reply.of, reply.ack)

\* A prompt is under way only for a turn whose resume was queued.
PromptDue(t) == receipt[t] # "none" => intent[<<"resume", t>>] # "none"

\* A report speaks for a turn that was prompted, and asks for the stage of its kind.
ReportDue(r) ==
  /\ report[r].turn \in Turns \ {Ready} => Taken(report[r].turn)
  /\ report[r].to = "decision" => report[r].kind \in {"blocking", "blocker"}
  /\ report[r].to = "acceptance" => report[r].kind = "acceptance"
CallDue == call.turn \in Turns \ {Ready} => Taken(call.turn)

ShownInv ==
  /\ \A r \in AllReports : RecordOf(r) /\ ReportDue(r)
  /\ \A q \in Reports : QuestionShown(q) /\ AnswerShown(q)
  /\ \A t \in Turns \ {Ready} : PromptDue(t)
  /\ AckShown /\ CallDue

-----------------------------------------------------------------------------
(***************************************************************************)
(* How a step moves the attempts, the intents, and the tables they serve.  *)
(***************************************************************************)

\* The steps that move the attempt of an effect on.
Forward(e) ==
  \/ \E t \in Turns \ {Ready} : e = <<"resume", t>>
  \/ \E r \in AllReports :
       \/ e = <<"report", r>> /\ (WriteReport(r) \/ CompleteReport(r))
       \/ e = <<"stage", r>> /\ (WriteStage(r) \/ CompleteStage(r))
  \/ \E q \in Reports :
       \/ e \in {<<"report", q>>, <<"stage", q>>} /\ RouteQuestion(q)
       \/ /\ e = <<"answer", q>>
          /\ WriteAnswer(q) \/ ApplyAnswer(q) \/ EnqueueDecisionResume(q)
  \/ \E m \in Orders : e = <<"order", m>>

LEMMA AtMoves ==
  ASSUME TypeOK, [Next]_vars, NEW e \in Effects
  PROVE  at'[e] \in {at[e], "rest"} \/ Forward(e)
<1> DEFINE Goal == at'[e] \in {at[e], "rest"} \/ Forward(e)
<1>1. ASSUME NEW f, NEW s, GoTo(f, s), e # f PROVE Goal
  BY <1>1 DEF GoTo, TypeOK, OutboxOK
<1>2. ASSUME NEW f, GoTo(f, "rest") PROVE Goal
  BY <1>2 DEF GoTo, TypeOK, OutboxOK
<1>3. ASSUME UNCHANGED at PROVE Goal
  BY <1>3
<1>4. ASSUME NEW f, Dies(f) PROVE Goal
  BY <1>2, <1>4 DEF Dies
<1>5. CASE TurnStep
  <2>1. ASSUME NEW t \in Turns \ {Ready},
               Readback(t) \/ Prepare(t) \/ Prompt(t) \/ ConfirmPrompt(t) \/ BeginTurn(t)
        PROVE  Goal
    <3>1. CASE e = <<"resume", t>>
      BY <3>1 DEF Forward
    <3>2. UNCHANGED at \/ \E s : GoTo(<<"resume", t>>, s)
      BY <2>1 DEF Readback, Prepare, Prompt, ConfirmPrompt, BeginTurn, Dies
    <3> QED BY <1>1, <1>3, <3>1, <3>2
  <2>2. ASSUME NEW t, BeginPmTurn(t) \/ LatePrompt(t) PROVE Goal
    BY <1>3, <2>2 DEF BeginPmTurn, LatePrompt, outbox
  <2>3. CASE EnqueueResume
    BY <1>3, <2>3 DEF EnqueueResume
  <2> QED BY <1>5, <2>1, <2>2, <2>3 DEF TurnStep
<1>6. CASE PmStep
  BY <1>3, <1>6 DEF PmStep, ReportPm, EnqueueReport, CompleteDispatch, AcknowledgeDecision,
                    SaveAcknowledgment, FollowAnswer, outbox
<1>7. CASE EffectStep
  <2>1. ASSUME NEW r \in AllReports, WriteReport(r) \/ CompleteReport(r) PROVE Goal
    <3>1. CASE e = <<"report", r>>
      BY <2>1, <3>1 DEF Forward
    <3>2. UNCHANGED at \/ \E s : GoTo(<<"report", r>>, s)
      BY <2>1 DEF WriteReport, CompleteReport, FinalizeReport, Dies
    <3> QED BY <1>1, <1>3, <3>1, <3>2
  <2>2. ASSUME NEW r \in AllReports, WriteStage(r) \/ CompleteStage(r) PROVE Goal
    <3>1. CASE e = <<"stage", r>>
      BY <2>2, <3>1 DEF Forward
    <3>2. UNCHANGED at \/ \E s : GoTo(<<"stage", r>>, s)
      BY <2>2 DEF WriteStage, CompleteStage, FinalizeReport, Dies
    <3> QED BY <1>1, <1>3, <3>1, <3>2
  <2>3. ASSUME NEW q \in Reports, RouteQuestion(q) PROVE Goal
    <3>1. CASE e \in {<<"report", q>>, <<"stage", q>>}
      BY <2>3, <3>1 DEF Forward
    <3>2. UNCHANGED at \/ \E f \in {<<"report", q>>, <<"stage", q>>} : \E s : GoTo(f, s)
      BY <2>3 DEF RouteQuestion
    <3> QED BY <1>1, <1>3, <3>1, <3>2
  <2>4. ASSUME NEW q \in Reports, WriteAnswer(q) \/ ApplyAnswer(q) \/ EnqueueDecisionResume(q)
        PROVE  Goal
    <3>1. CASE e = <<"answer", q>>
      BY <2>4, <3>1 DEF Forward
    <3>2. \E s : GoTo(<<"answer", q>>, s)
      BY <2>4 DEF WriteAnswer, ApplyAnswer, EnqueueDecisionResume, Dies
    <3> QED BY <1>1, <3>1, <3>2
  <2>5. ASSUME NEW q \in Reports, NEW o \in Outcomes,
               WakeCeo(q) \/ AnswerQuestion(q, o) \/ EndGrant(q)
        PROVE  Goal
    BY <1>3, <2>5 DEF WakeCeo, AnswerQuestion, EndGrant, outbox
  <2>6. ASSUME NEW f \in Effects, Acknowledge(f) \/ Fail(f) \/ RepairEffect(f) PROVE Goal
    BY <1>2, <1>3, <1>4, <2>6 DEF Acknowledge, Fail, RepairEffect
  <2>7. ASSUME NEW m \in Orders, OrderStage(m) \/ WriteOrder(m) PROVE Goal
    <3>1. CASE e = <<"order", m>>
      BY <3>1 DEF Forward
    <3>2. UNCHANGED at \/ GoTo(<<"order", m>>, "done")
      BY <2>7 DEF OrderStage, WriteOrder
    <3> QED BY <1>1, <1>3, <3>1, <3>2
  <2> QED BY <1>7, <2>1, <2>2, <2>3, <2>4, <2>5, <2>6, <2>7 DEF EffectStep, Outcomes
<1>8. CASE CommissionStep
  BY <1>3, <1>8 DEF CommissionStep, StartCommission, ReserveRuntime, EnsureWorkspace,
                    RecordWorkspace, EnsureAgent, RecordAgent, AssignPm, ReadReady,
                    ReserveReady, PrepareReady, PromptReady, ReadyPrompted, FinishReady,
                    ConfirmReady, TransitionDelivery, Activate, CommissionFails, pmVars,
                    outbox
<1>9. CASE Crash
  BY <1>9 DEF Crash, PmCrash
<1>10. CASE WorkspaceCloses \/ AgentExits \/ UNCHANGED vars
  BY <1>3, <1>10 DEF WorkspaceCloses, AgentExits, vars, pmVars, outbox
<1> QED BY <1>5, <1>6, <1>7, <1>8, <1>9, <1>10 DEF Next

\* Which step queues a report, a CEO's turn, an answer and an order, and which one wakes
\* the CEO.
Causes ==
  /\ \A r \in AllReports : Starts(<<"report", r>>) => EnqueueReport /\ r = call.of
  /\ \A q \in Reports :
       LET w == <<"wake", q>> IN
       /\ Starts(w) => RouteQuestion(q)
       /\ Starts(<<"answer", q>>) => \E o \in Outcomes : AnswerQuestion(q, o)
       /\ \/ intent'[w] = "succeeded" <=> intent[w] = "succeeded"
          \/ WakeCeo(q)
  /\ \A m \in Orders : Starts(<<"order", m>>) => OrderStage(m)

LEMMA IntentMoves ==
  ASSUME TypeOK, EffectInv, [Next]_vars
  PROVE  Causes
<1> DEFINE Plainly(f) ==
      /\ \A r \in AllReports : f # <<"report", r>>
      /\ \A q \in Reports : f # <<"answer", q>> /\ f # <<"wake", q>>
      /\ \A m \in Orders : f # <<"order", m>>
<1>1. CASE UNCHANGED intent
  BY <1>1, Zenon DEF Causes, Starts
<1>2. ASSUME NEW f, intent' = Enqueued(f), Plainly(f) PROVE Causes
  <2>1. \A e \in Effects : e # f => intent'[e] = intent[e]
    BY <1>2 DEF Enqueued, TypeOK, OutboxOK
  <2>2. \A r \in AllReports : intent'[<<"report", r>>] = intent[<<"report", r>>]
    BY <1>2, <2>1, Names
  <2>3. \A q \in Reports : /\ intent'[<<"answer", q>>] = intent[<<"answer", q>>]
                           /\ intent'[<<"wake", q>>] = intent[<<"wake", q>>]
    BY <1>2, <2>1, Names
  <2>4. \A m \in Orders : intent'[<<"order", m>>] = intent[<<"order", m>>]
    BY <1>2, <2>1, Names
  <2> HIDE DEF Plainly
  <2> QED BY <2>2, <2>3, <2>4, Zenon DEF Causes, Starts
<1>3. ASSUME NEW f \in Effects, NEW s, intent' = [intent EXCEPT ![f] = s],
             intent[f] # "none",
             \/ intent[f] # "succeeded" /\ s # "succeeded"
             \/ \A q \in Reports : f # <<"wake", q>>
      PROVE  Causes
  <2>1. \A e \in Effects : intent'[e] = IF e = f THEN s ELSE intent[e]
    BY <1>3 DEF TypeOK, OutboxOK
  <2>2. \A e \in Effects : ~Starts(e)
    BY <1>3, <2>1 DEF Starts
  <2>3. \A q \in Reports :
          intent'[<<"wake", q>>] = "succeeded" <=> intent[<<"wake", q>>] = "succeeded"
    BY <1>3, <2>1, Names
  <2> QED BY <2>2, <2>3, Names, Zenon DEF Causes
<1>4. CASE TurnStep
  <2>1. CASE EnqueueResume
    BY <1>2, <2>1 DEF EnqueueResume
  <2>2. ASSUME NEW t \in Turns \ {Ready}, BeginTurn(t) PROVE Causes
    <3>1. intent[<<"resume", t>>] = "pending" /\ <<"resume", t>> \in Effects
      BY <2>2, Names DEF BeginTurn, EffectInv
    <3> QED BY <1>1, <1>3, <2>2, <3>1 DEF BeginTurn, Dies
  <2>3. CASE ~EnqueueResume /\ \A t \in Turns \ {Ready} : ~BeginTurn(t)
    <3>1. UNCHANGED intent
      BY <1>4, <2>3 DEF TurnStep, BeginPmTurn, Readback, Prepare, Prompt, ConfirmPrompt,
                        LatePrompt, outbox
    <3> QED BY <1>1, <3>1
  <2> QED BY <2>1, <2>2, <2>3
<1>5. CASE PmStep
  <2>1. CASE EnqueueReport
    <3>1. /\ \A e \in Effects : e # <<"report", call.of>> => intent'[e] = intent[e]
      BY <2>1 DEF EnqueueReport, Enqueued, TypeOK, OutboxOK
    <3>2. \A r \in AllReports : Starts(<<"report", r>>) => r = call.of
      BY <3>1, Names DEF Starts
    <3>3. \A q \in Reports : /\ intent'[<<"answer", q>>] = intent[<<"answer", q>>]
                             /\ intent'[<<"wake", q>>] = intent[<<"wake", q>>]
      BY <3>1, Names
    <3>4. \A m \in Orders : intent'[<<"order", m>>] = intent[<<"order", m>>]
      BY <3>1, Names
    <3> QED BY <2>1, <3>2, <3>3, <3>4, Zenon DEF Causes, Starts
  <2>2. CASE ~EnqueueReport
    <3>1. UNCHANGED intent
      BY <1>5, <2>2 DEF PmStep, ReportPm, CompleteDispatch, AcknowledgeDecision,
                        SaveAcknowledgment, FollowAnswer, outbox
    <3> QED BY <1>1, <3>1
  <2> QED BY <2>1, <2>2
<1>6. CASE EffectStep
  <2>1. ASSUME NEW r \in AllReports, WriteReport(r) \/ WriteStage(r) PROVE Causes
    BY <1>1, <2>1 DEF WriteReport, WriteStage
  <2>2. ASSUME NEW r \in AllReports, NEW f \in {<<"report", r>>, <<"stage", r>>},
               at[f] = "seen", Dies(f)
        PROVE  Causes
    <3>1. intent[f] = "pending" /\ f \in Effects
      BY <2>2, Names DEF EffectInv
    <3> QED BY <1>3, <2>2, <3>1 DEF Dies
  <2>3. ASSUME NEW r \in AllReports, CompleteReport(r) \/ CompleteStage(r) PROVE Causes
    <3>1. \/ UNCHANGED intent
          \/ intent' = Enqueued(<<"stage", r>>)
          \/ \E f \in {<<"report", r>>, <<"stage", r>>} : at[f] = "seen" /\ Dies(f)
      BY <2>3 DEF CompleteReport, CompleteStage, FinalizeReport
    <3> QED BY <1>1, <1>2, <2>2, <3>1
  <2>4. ASSUME NEW q \in Reports, RouteQuestion(q) PROVE Causes
    <3>1. \A e \in Effects :
            intent'[e] = IF e = <<"wake", q>> /\ intent[e] = "none" THEN "pending" ELSE intent[e]
      BY <2>4, Names DEF RouteQuestion, Enqueued, TypeOK, OutboxOK
    <3>2. \A r \in AllReports : intent'[<<"report", r>>] = intent[<<"report", r>>]
      BY <3>1, Names
    <3>3. \A p \in Reports :
            /\ intent'[<<"answer", p>>] = intent[<<"answer", p>>]
            /\ Starts(<<"wake", p>>) => p = q
            /\ intent'[<<"wake", p>>] = "succeeded" <=> intent[<<"wake", p>>] = "succeeded"
      BY <3>1, Names DEF Starts
    <3>4. \A m \in Orders : intent'[<<"order", m>>] = intent[<<"order", m>>]
      BY <3>1, Names
    <3> QED BY <2>4, <3>2, <3>3, <3>4, Zenon DEF Causes, Starts
  <2>5. ASSUME NEW q \in Reports, WakeCeo(q) PROVE Causes
    <3>1. \A e \in Effects : e # <<"wake", q>> => intent'[e] = intent[e]
      BY <2>5 DEF WakeCeo, TypeOK, OutboxOK
    <3>2. \A e \in Effects : ~Starts(e)
      BY <2>5, <3>1 DEF WakeCeo, Starts
    <3>3. \A p \in Reports : p # q =>
            (intent'[<<"wake", p>>] = "succeeded" <=> intent[<<"wake", p>>] = "succeeded")
      BY <3>1, Names
    <3> QED BY <2>5, <3>2, <3>3, Names, Zenon DEF Causes
  <2>6. ASSUME NEW q \in Reports, NEW o \in Outcomes, AnswerQuestion(q, o) PROVE Causes
    <3>1. \A e \in Effects : e # <<"answer", q>> => intent'[e] = intent[e]
      BY <2>6 DEF AnswerQuestion, Enqueued, TypeOK, OutboxOK
    <3>2. /\ \A r \in AllReports : intent'[<<"report", r>>] = intent[<<"report", r>>]
          /\ \A p \in Reports : /\ intent'[<<"wake", p>>] = intent[<<"wake", p>>]
                                /\ Starts(<<"answer", p>>) => p = q
      BY <3>1, Names DEF Starts
    <3>3. \A m \in Orders : intent'[<<"order", m>>] = intent[<<"order", m>>]
      BY <3>1, Names
    <3> QED BY <2>6, <3>2, <3>3, Zenon DEF Causes, Starts
  <2>7. ASSUME NEW q \in Reports,
               WriteAnswer(q) \/ ApplyAnswer(q) \/ EnqueueDecisionResume(q) \/ EndGrant(q)
        PROVE  Causes
    <3>1. CASE Dies(<<"answer", q>>) /\ at[<<"answer", q>>] = "seen"
      <4>1. intent[<<"answer", q>>] = "pending" /\ <<"answer", q>> \in Effects
        BY <3>1, Names DEF EffectInv
      <4> QED BY <1>3, <3>1, <4>1 DEF Dies
    <3>2. \/ UNCHANGED intent \/ \E t : intent' = Enqueued(<<"resume", t>>)
          \/ Dies(<<"answer", q>>) /\ at[<<"answer", q>>] = "seen"
      BY <2>7 DEF WriteAnswer, ApplyAnswer, EnqueueDecisionResume, AnswerResume, EndGrant,
                  outbox
    <3>3. ASSUME NEW t, intent' = Enqueued(<<"resume", t>>) PROVE Causes
      BY <1>2, <3>3
    <3> QED BY <1>1, <3>1, <3>2, <3>3
  <2>8. ASSUME NEW e \in Effects, Acknowledge(e) \/ Fail(e) \/ RepairEffect(e) PROVE Causes
    <3>1. CASE Acknowledge(e)
      <4>1. intent[e] = "pending" /\ \A q \in Reports : e # <<"wake", q>>
        BY <3>1 DEF Acknowledge, EffectInv
      <4> QED BY <1>3, <3>1, <4>1 DEF Acknowledge
    <3>2. CASE Fail(e)
      BY <1>1, <1>3, <3>2 DEF Fail, Dies
    <3>3. CASE RepairEffect(e)
      BY <1>3, <3>3 DEF RepairEffect
    <3> QED BY <2>8, <3>1, <3>2, <3>3
  <2>9. ASSUME NEW m \in Orders, OrderStage(m) \/ WriteOrder(m) PROVE Causes
    <3> DEFINE e == <<"order", m>>
    <3>1. e \in Effects /\ \A q \in Reports : e # <<"wake", q>>
      BY Names
    <3>2. CASE WriteOrder(m)
      BY <1>1, <3>2 DEF WriteOrder
    <3>3. CASE OrderStage(m) /\ intent[e] # "none"
      BY <1>3, <3>1, <3>3 DEF OrderStage
    <3>4. CASE OrderStage(m) /\ intent[e] = "none"
      <4>1. \A f \in Effects : f # e => intent'[f] = intent[f]
        BY <3>4 DEF OrderStage, TypeOK, OutboxOK
      <4>2. /\ \A r \in AllReports : intent'[<<"report", r>>] = intent[<<"report", r>>]
            /\ \A q \in Reports : /\ intent'[<<"answer", q>>] = intent[<<"answer", q>>]
                                  /\ intent'[<<"wake", q>>] = intent[<<"wake", q>>]
            /\ \A n \in Orders : Starts(<<"order", n>>) => n = m
        BY <4>1, Names DEF Starts
      <4> QED BY <3>4, <4>2, Zenon DEF Causes, Starts
    <3> QED BY <2>9, <3>2, <3>3, <3>4
  <2> QED BY <1>6, <2>1, <2>3, <2>4, <2>5, <2>6, <2>7, <2>8, <2>9 DEF EffectStep
<1>7. CASE CommissionStep
  <2>1. CASE TransitionDelivery
    BY <1>2, <2>1 DEF TransitionDelivery
  <2>2. CASE ~TransitionDelivery
    <3>1. UNCHANGED intent
      BY <1>7, <2>2
         DEF CommissionStep, StartCommission, ReserveRuntime, EnsureWorkspace,
             RecordWorkspace, EnsureAgent, RecordAgent, AssignPm, ReadReady, ReserveReady,
             PrepareReady, PromptReady, ReadyPrompted, FinishReady, ConfirmReady, Activate,
             CommissionFails, pmVars, outbox
    <3> QED BY <1>1, <3>1
  <2> QED BY <2>1, <2>2
<1>8. CASE Crash \/ WorkspaceCloses \/ AgentExits \/ UNCHANGED vars
  BY <1>1, <1>8 DEF Crash, PmCrash, WorkspaceCloses, AgentExits, vars, pmVars, outbox
<1> QED BY <1>4, <1>5, <1>6, <1>7, <1>8 DEF Next

\* The Issue changes by a write, its stage by a transition, by what follows an answer, or
\* by an order.
LEMMA IssueSteps ==
  ASSUME [Next]_vars
  PROVE  /\ \/ UNCHANGED issue
            \/ \E r \in AllReports : WriteReport(r)
            \/ \E q \in Reports : WriteAnswer(q)
         /\ \/ UNCHANGED stage
            \/ \E r \in AllReports : WriteStage(r)
            \/ FollowAnswer \/ \E m \in Orders : WriteOrder(m)
<1> DEFINE Goal == /\ \/ UNCHANGED issue
                      \/ \E r \in AllReports : WriteReport(r)
                      \/ \E q \in Reports : WriteAnswer(q)
                   /\ \/ UNCHANGED stage
                      \/ \E r \in AllReports : WriteStage(r)
                      \/ FollowAnswer \/ \E m \in Orders : WriteOrder(m)
<1>1. CASE UNCHANGED <<issue, stage>>
  BY <1>1
<1>2. CASE TurnStep
  BY <1>1, <1>2 DEF TurnStep, BeginPmTurn, EnqueueResume, Readback, Prepare, Prompt,
                    ConfirmPrompt, BeginTurn, LatePrompt, tracker
<1>3. CASE PmStep
  <2>1. CASE FollowAnswer
    BY <2>1 DEF FollowAnswer
  <2>2. CASE ~FollowAnswer
    BY <1>1, <1>3, <2>2 DEF PmStep, ReportPm, EnqueueReport, CompleteDispatch,
                            AcknowledgeDecision, SaveAcknowledgment, tracker
  <2> QED BY <2>1, <2>2
<1>4. CASE EffectStep
  <2>1. ASSUME NEW r \in AllReports, WriteReport(r) PROVE Goal
    BY <2>1 DEF WriteReport
  <2>2. ASSUME NEW r \in AllReports, WriteStage(r) PROVE Goal
    BY <2>2 DEF WriteStage
  <2>3. ASSUME NEW q \in Reports, WriteAnswer(q) PROVE Goal
    BY <2>3 DEF WriteAnswer
  <2>4. ASSUME NEW m \in Orders, WriteOrder(m) PROVE Goal
    BY <2>4 DEF WriteOrder
  <2>5. CASE /\ \A r \in AllReports : ~WriteReport(r) /\ ~WriteStage(r)
             /\ \A q \in Reports : ~WriteAnswer(q)
             /\ \A m \in Orders : ~WriteOrder(m)
    <3>1. UNCHANGED <<issue, stage>>
      BY <1>4, <2>5 DEF EffectStep, CompleteReport, CompleteStage, RouteQuestion, WakeCeo,
                        AnswerQuestion, ApplyAnswer, EnqueueDecisionResume, EndGrant,
                        OrderStage, Acknowledge, Fail, RepairEffect, tracker
    <3> QED BY <1>1, <3>1
  <2> QED BY <2>1, <2>2, <2>3, <2>4, <2>5
<1>5. CASE CommissionStep
  BY <1>1, <1>5 DEF CommissionStep, StartCommission, ReserveRuntime, EnsureWorkspace,
                    RecordWorkspace, EnsureAgent, RecordAgent, AssignPm, ReadReady,
                    ReserveReady, PrepareReady, PromptReady, ReadyPrompted, FinishReady,
                    ConfirmReady, TransitionDelivery, Activate, CommissionFails, pmVars,
                    tracker
<1>6. CASE Crash \/ WorkspaceCloses \/ AgentExits \/ UNCHANGED vars
  BY <1>1, <1>6 DEF Crash, PmCrash, WorkspaceCloses, AgentExits, vars, pmVars, tracker
<1> QED BY <1>2, <1>3, <1>4, <1>5, <1>6 DEF Next

\* An answer is given, applied, and ended by steps of its own.
LEMMA AnswerSteps ==
  ASSUME [Next]_vars
  PROVE  \/ UNCHANGED answer
         \/ \E q \in Reports :
              ApplyAnswer(q) \/ EndGrant(q) \/ \E o \in Outcomes : AnswerQuestion(q, o)
<1>1. CASE TurnStep \/ PmStep
  BY <1>1 DEF TurnStep, BeginPmTurn, EnqueueResume, Readback, Prepare, Prompt,
              ConfirmPrompt, BeginTurn, LatePrompt, PmStep, ReportPm, EnqueueReport,
              CompleteDispatch, AcknowledgeDecision, SaveAcknowledgment, FollowAnswer, tracker
<1>2. CASE EffectStep
  BY <1>2 DEF EffectStep, WriteReport, CompleteReport, WriteStage, CompleteStage,
              RouteQuestion, WakeCeo, WriteAnswer, EnqueueDecisionResume, OrderStage, WriteOrder,
              Acknowledge, Fail, RepairEffect, tracker
<1>3. CASE CommissionStep \/ Crash \/ WorkspaceCloses \/ AgentExits \/ UNCHANGED vars
  BY <1>3 DEF CommissionStep, StartCommission, ReserveRuntime, EnsureWorkspace,
              RecordWorkspace, EnsureAgent, RecordAgent, AssignPm, ReadReady, ReserveReady,
              PrepareReady, PromptReady, ReadyPrompted, FinishReady, ConfirmReady,
              TransitionDelivery, Activate, CommissionFails, Crash, PmCrash,
              WorkspaceCloses, AgentExits, vars, pmVars, tracker
<1> QED BY <1>1, <1>2, <1>3 DEF Next

\* How an acknowledgment is saved.
LEMMA AckSteps ==
  ASSUME [Next]_vars
  PROVE  \/ UNCHANGED <<acks, reply>>
         \/ UNCHANGED acks /\ reply' = NoReply
         \/ SaveAcknowledgment
         \/ \E q \in Reports : AcknowledgeDecision(q)
<1>1. CASE TurnStep \/ EffectStep
  BY <1>1 DEF TurnStep, BeginPmTurn, EnqueueResume, Readback, Prepare, Prompt,
              ConfirmPrompt, BeginTurn, LatePrompt, EffectStep, WriteReport, CompleteReport,
              WriteStage, CompleteStage, RouteQuestion, WakeCeo, AnswerQuestion, WriteAnswer,
              ApplyAnswer, EnqueueDecisionResume, EndGrant, OrderStage, WriteOrder, Acknowledge,
              Fail, RepairEffect, tables, callers
<1>2. CASE PmStep
  BY <1>2 DEF PmStep, ReportPm, EnqueueReport, CompleteDispatch, FollowAnswer, tables, callers
<1>3. CASE CommissionStep \/ Crash \/ WorkspaceCloses \/ AgentExits \/ UNCHANGED vars
  BY <1>3 DEF CommissionStep, StartCommission, ReserveRuntime, EnsureWorkspace,
              RecordWorkspace, EnsureAgent, RecordAgent, AssignPm, ReadReady, ReserveReady,
              PrepareReady, PromptReady, ReadyPrompted, FinishReady, ConfirmReady,
              TransitionDelivery, Activate, CommissionFails, Crash, PmCrash,
              WorkspaceCloses, AgentExits, vars, pmVars, tables, callers
<1> QED BY <1>1, <1>2, <1>3 DEF Next

\* A call is for the active turn.
LEMMA CallTurn ==
  ASSUME TypeOK, [Next]_vars
  PROVE  \/ call' \in {call, NoCall}
         \/ assignment.state = "active" /\ call'.turn = assignment.turn
<1>1. CASE TurnStep \/ EffectStep
  BY <1>1 DEF TurnStep, BeginPmTurn, EnqueueResume, Readback, Prepare, Prompt,
              ConfirmPrompt, BeginTurn, LatePrompt, EffectStep, WriteReport, CompleteReport,
              WriteStage, CompleteStage, RouteQuestion, WakeCeo, AnswerQuestion, WriteAnswer,
              ApplyAnswer, EnqueueDecisionResume, EndGrant, OrderStage, WriteOrder, Acknowledge,
              Fail, RepairEffect, callers
<1>2. CASE PmStep
  <2>1. ASSUME NEW r, NEW kind, ReportPm(r, kind)
        PROVE  assignment.state = "active" /\ call'.turn = assignment.turn
    BY <2>1 DEF ReportPm
  <2>2. CASE \A r, kind : ~ReportPm(r, kind)
    <3>1. call' \in {call, NoCall}
      BY <1>2, <2>2 DEF PmStep, EnqueueReport, CompleteDispatch, AcknowledgeDecision,
                        SaveAcknowledgment, FollowAnswer, callers
    <3> QED BY <3>1
  <2> QED BY <2>1, <2>2
<1>3. CASE CommissionStep \/ Crash \/ WorkspaceCloses \/ AgentExits \/ UNCHANGED vars
  BY <1>3 DEF CommissionStep, StartCommission, ReserveRuntime, EnsureWorkspace,
              RecordWorkspace, EnsureAgent, RecordAgent, AssignPm, ReadReady, ReserveReady,
              PrepareReady, PromptReady, ReadyPrompted, FinishReady, ConfirmReady,
              TransitionDelivery, Activate, CommissionFails, Crash, PmCrash,
              WorkspaceCloses, AgentExits, vars, pmVars, callers
<1> QED BY <1>1, <1>2, <1>3 DEF Next

\* The receipt of a turn changes in the attempt of its resume.
LEMMA ReceiptSteps ==
  ASSUME TypeOK, EffectInv, [Next]_vars, NEW t \in Turns \ {Ready}
  PROVE  receipt'[t] = receipt[t] \/ intent[<<"resume", t>>] = "pending"
<1> DEFINE Goal == receipt'[t] = receipt[t] \/ intent[<<"resume", t>>] = "pending"
<1>1. CASE UNCHANGED receipt
  BY <1>1
<1>2. ASSUME NEW u, NEW s, receipt' = [receipt EXCEPT ![u] = s], u # t PROVE Goal
  BY <1>2 DEF TypeOK, ReceiptOK
<1>3. CASE TurnStep
  <2>1. ASSUME NEW u \in Turns \ {Ready},
               Readback(u) \/ Prepare(u) \/ Prompt(u) \/ ConfirmPrompt(u)
        PROVE  Goal
    <3>1. intent[<<"resume", u>>] = "pending"
      BY <2>1, Names DEF Readback, Prepare, Prompt, ConfirmPrompt, EffectInv
    <3>2. UNCHANGED receipt \/ \E s : receipt' = [receipt EXCEPT ![u] = s]
      BY <2>1 DEF Readback, Prepare, Prompt, Prompted, PromptFails, ConfirmPrompt
    <3> QED BY <1>1, <1>2, <3>1, <3>2
  <2>2. CASE \A u \in Turns \ {Ready} :
               ~Readback(u) /\ ~Prepare(u) /\ ~Prompt(u) /\ ~ConfirmPrompt(u)
    <3>1. UNCHANGED receipt
      BY <1>3, <2>2 DEF TurnStep, BeginPmTurn, EnqueueResume, BeginTurn, LatePrompt, tables
    <3> QED BY <1>1, <3>1
  <2> QED BY <2>1, <2>2
<1>4. CASE PmStep \/ EffectStep
  BY <1>1, <1>4 DEF PmStep, ReportPm, EnqueueReport, CompleteDispatch, AcknowledgeDecision,
              SaveAcknowledgment, FollowAnswer, EffectStep, WriteReport, CompleteReport,
              WriteStage, CompleteStage, RouteQuestion, WakeCeo, AnswerQuestion, WriteAnswer,
              ApplyAnswer, EnqueueDecisionResume, EndGrant, OrderStage, WriteOrder, Acknowledge,
              Fail, RepairEffect, tables
<1>5. CASE CommissionStep
  <2>1. CASE PrepareReady \/ PromptReady \/ ReadyPrompted
    <3>1. UNCHANGED receipt \/ \E s : receipt' = [receipt EXCEPT ![Ready] = s]
      BY <2>1 DEF PrepareReady, PromptReady, ReadyPrompted, Prompted, PromptFails
    <3> QED BY <1>1, <1>2, <3>1
  <2>2. CASE ~PrepareReady /\ ~PromptReady /\ ~ReadyPrompted
    <3>1. UNCHANGED receipt
      BY <1>5, <2>2
         DEF CommissionStep, StartCommission, ReserveRuntime, EnsureWorkspace,
             RecordWorkspace, EnsureAgent, RecordAgent, AssignPm, ReadReady, ReserveReady,
             FinishReady, ConfirmReady, TransitionDelivery, Activate, CommissionFails,
             pmVars, tables
    <3> QED BY <1>1, <3>1
  <2> QED BY <2>1, <2>2
<1>6. CASE Crash \/ WorkspaceCloses \/ AgentExits \/ UNCHANGED vars
  BY <1>1, <1>6 DEF Crash, PmCrash, WorkspaceCloses, AgentExits, vars, pmVars, tables
<1> QED BY <1>3, <1>4, <1>5, <1>6 DEF Next

\* A session takes a prompt in only once the turn has a receipt, and nothing else that
\* shows changes with it.
PromptTaken(t) ==
  Takes(t) /\ receipt[t] # "none" /\ UNCHANGED <<intent, report, answer, issue, stage>>

LEMMA PromptSteps ==
  ASSUME TypeOK, PromptInv, [Next]_vars
  PROVE  UNCHANGED prompts \/ \E t \in Turns : PromptTaken(t)
<1> DEFINE Goal == UNCHANGED prompts \/ \E t \in Turns : PromptTaken(t)
<1>1. CASE TurnStep
  <2>1. ASSUME NEW t \in Turns \ {Ready}, Prompt(t) PROVE Goal
    <3>1. Asks(t) /\ PromptOf(t)
      BY <2>1 DEF Prompt, Asks, PromptStep, PromptInv
    <3>2. receipt[t] # "none"
      BY <3>1 DEF PromptOf
    <3>3. UNCHANGED prompts \/ Takes(t)
      BY <2>1 DEF Prompt, Prompted, PromptFails
    <3>4. UNCHANGED <<intent, report, answer, issue, stage>>
      BY <2>1 DEF Prompt, tracker
    <3> QED BY <3>2, <3>3, <3>4 DEF PromptTaken
  <2>2. ASSUME NEW t \in Turns, LatePrompt(t) PROVE Goal
    <3>1. PromptOf(t) /\ t \in late
      BY <2>2 DEF LatePrompt, PromptInv
    <3>2. receipt[t] # "none"
      BY <3>1 DEF PromptOf
    <3>3. Takes(t) /\ UNCHANGED <<intent, report, answer, issue, stage>>
      BY <2>2 DEF LatePrompt, outbox, tracker
    <3> QED BY <3>2, <3>3 DEF PromptTaken
  <2>3. CASE (\A t \in Turns \ {Ready} : ~Prompt(t)) /\ (\A t \in Turns : ~LatePrompt(t))
    BY <1>1, <2>3 DEF TurnStep, BeginPmTurn, EnqueueResume, Readback, Prepare,
                      ConfirmPrompt, BeginTurn, herdr
  <2> QED BY <2>1, <2>2, <2>3
<1>2. CASE PmStep \/ EffectStep
  BY <1>2 DEF PmStep, ReportPm, EnqueueReport, CompleteDispatch, AcknowledgeDecision,
              SaveAcknowledgment, FollowAnswer, EffectStep, WriteReport, CompleteReport,
              WriteStage, CompleteStage, RouteQuestion, WakeCeo, AnswerQuestion, WriteAnswer,
              ApplyAnswer, EnqueueDecisionResume, EndGrant, OrderStage, WriteOrder, Acknowledge,
              Fail, RepairEffect, herdr
<1>3. CASE CommissionStep
  <2>1. CASE PromptReady
    <3>1. Asks(Ready) /\ PromptOf(Ready) /\ Ready \in Turns
      BY <2>1, Names DEF PromptReady, Asks, PromptStep, PromptInv
    <3>2. receipt[Ready] # "none"
      BY <3>1 DEF PromptOf
    <3>3. UNCHANGED prompts \/ Takes(Ready)
      BY <2>1 DEF PromptReady, Prompted, PromptFails
    <3>4. UNCHANGED <<intent, report, answer, issue, stage>>
      BY <2>1 DEF PromptReady, outbox, tracker
    <3> QED BY <3>1, <3>2, <3>3, <3>4 DEF PromptTaken
  <2>2. CASE ~PromptReady
    BY <1>3, <2>2
       DEF CommissionStep, StartCommission, ReserveRuntime, EnsureWorkspace,
           RecordWorkspace, EnsureAgent, RecordAgent, AssignPm, ReadReady, ReserveReady,
           PrepareReady, ReadyPrompted, FinishReady, ConfirmReady, TransitionDelivery,
           Activate, CommissionFails, pmVars, herdr
  <2> QED BY <2>1, <2>2
<1>4. CASE Crash \/ WorkspaceCloses \/ AgentExits \/ UNCHANGED vars
  BY <1>4 DEF Crash, PmCrash, WorkspaceCloses, AgentExits, vars, pmVars, herdr
<1> QED BY <1>1, <1>2, <1>3, <1>4 DEF Next

LEMMA Routing ==
  ASSUME TypeOK, NEW q \in Reports, RouteQuestion(q),
         NEW e \in {<<"report", q>>, <<"stage", q>>}
  PROVE  at'[e] = at[e] \/ (at[e] = "route" /\ at'[e] = "done")
<1>1. PICK f \in {<<"report", q>>, <<"stage", q>>} :
        at[f] = "route" /\ (GoTo(f, "done") \/ UNCHANGED at)
  BY DEF RouteQuestion
<1>2. e \in Effects /\ f \in Effects
  BY Names
<1> QED BY <1>1, <1>2 DEF GoTo, TypeOK, OutboxOK

\* A record is written before its attempt goes past the write; only a question is routed.
LEMMA WritesMove ==
  ASSUME TypeOK, [Next]_vars
  PROVE  /\ \A e \in Effects : e \in issue' => e \in issue \/ intent[e] = "pending"
         /\ \A r \in AllReports : Past(<<"report", r>>)' => Past(<<"report", r>>) \/ ShownReport(r)'
         /\ \A q \in Reports : Past(<<"answer", q>>)' => Past(<<"answer", q>>) \/ ShownAnswer(q)'
         /\ \A r \in Reports : \A e \in {<<"report", r>>, <<"stage", r>>} :
              at'[e] = "route" => at[e] = "route" \/ (Question(r) /\ UNCHANGED report)
<1>1. ASSUME NEW e \in Effects, e \in issue', e \notin issue PROVE intent[e] = "pending"
  BY <1>1, IssueSteps DEF WriteReport, WriteAnswer
<1>2. ASSUME NEW r \in AllReports, Past(<<"report", r>>)'
      PROVE  Past(<<"report", r>>) \/ ShownReport(r)'
  <2> DEFINE e == <<"report", r>>
  <2>1. e \in Effects
    BY Names
  <2>2. CASE at'[e] = at[e]
    BY <1>2, <2>2 DEF Past
  <2>3. CASE WriteReport(r)
    BY <2>3 DEF WriteReport, ShownReport
  <2>4. CASE CompleteReport(r)
    BY <2>4 DEF CompleteReport, Past
  <2>5. CASE r \in Reports /\ RouteQuestion(r)
    BY <2>2, <2>5, Routing DEF Past
  <2>6. Forward(e) => WriteReport(r) \/ CompleteReport(r) \/ (r \in Reports /\ RouteQuestion(r))
    BY DEF Forward
  <2>7. at'[e] = at[e] \/ at'[e] = "rest" \/ Forward(e)
    BY <2>1, AtMoves
  <2> QED BY <1>2, <2>2, <2>3, <2>4, <2>5, <2>6, <2>7 DEF Past
<1>3. ASSUME NEW q \in Reports, Past(<<"answer", q>>)'
      PROVE  Past(<<"answer", q>>) \/ ShownAnswer(q)'
  <2> DEFINE e == <<"answer", q>>
  <2>1. e \in Effects
    BY Names
  <2>2. CASE at'[e] = at[e]
    BY <1>3, <2>2 DEF Past
  <2>3. CASE WriteAnswer(q)
    BY <2>3 DEF WriteAnswer, ShownAnswer
  <2>4. CASE ApplyAnswer(q) \/ EnqueueDecisionResume(q)
    BY <2>4 DEF ApplyAnswer, EnqueueDecisionResume, Past
  <2>6. Forward(e) => WriteAnswer(q) \/ ApplyAnswer(q) \/ EnqueueDecisionResume(q)
    BY DEF Forward
  <2>7. at'[e] = at[e] \/ at'[e] = "rest" \/ Forward(e)
    BY <2>1, AtMoves
  <2> QED BY <1>3, <2>2, <2>3, <2>4, <2>6, <2>7 DEF Past
<1>4. ASSUME NEW r \in Reports, NEW e \in {<<"report", r>>, <<"stage", r>>},
             at'[e] = "route", at[e] # "route"
      PROVE  Question(r) /\ UNCHANGED report
  <2>1. e \in Effects /\ r \in AllReports
    BY Names
  <2>2. ~RouteQuestion(r)
    BY <1>4, Routing
  <2>3. \A s : GoTo(e, s) => at'[e] = s
    BY <2>1 DEF GoTo, TypeOK, OutboxOK
  <2>4. Forward(e) => \/ e = <<"report", r>> /\ (WriteReport(r) \/ CompleteReport(r))
                      \/ e = <<"stage", r>> /\ (WriteStage(r) \/ CompleteStage(r))
    BY <2>2 DEF Forward
  <2>5. Forward(e)
    BY <1>4, <2>1, AtMoves
  <2>6. CASE e = <<"report", r>> /\ (WriteReport(r) \/ CompleteReport(r))
    BY <1>4, <2>3, <2>6 DEF WriteReport, CompleteReport, FinalizeReport, Dies, tracker
  <2>7. CASE e = <<"stage", r>> /\ (WriteStage(r) \/ CompleteStage(r))
    <3>1. r # Ready
      BY Names
    <3> QED BY <1>4, <2>3, <2>7, <3>1 DEF WriteStage, CompleteStage, FinalizeReport, Dies, tracker
  <2> QED BY <2>4, <2>5, <2>6, <2>7
<1> QED BY <1>1, <1>2, <1>3, <1>4

\* What is queued stays queued.
LEMMA QueuedStays ==
  ASSUME TypeOK, EffectInv, AnswerInv, [Next]_vars, NEW e \in Effects
  PROVE  intent[e] # "none" => intent'[e] # "none"
BY LiveStep DEF EffectsLive, Lives

\* The record of a report that was queued stays what it is.
LEMMA ReportStays ==
  ASSUME TypeOK, ReportInv, [Next]_vars, NEW r \in AllReports, intent[<<"report", r>>] # "none"
  PROVE  report'[r] = report[r]
<1>1. CASE UNCHANGED report
  BY <1>1
<1>2. CASE call # NoCall /\ report' = [report EXCEPT ![call.of] =
                     [turn |-> call.turn, kind |-> call.kind, from |-> call.stage,
                      to |-> RequestedStage(call.kind, call.stage)]]
  <2>1. call.of # r
    BY <1>2 DEF ReportInv
  <2> DEFINE new == [turn |-> call.turn, kind |-> call.kind, from |-> call.stage,
                     to |-> RequestedStage(call.kind, call.stage)]
  <2>2. report' = [report EXCEPT ![call.of] = new]
    BY <1>2
  <2> HIDE DEF new
  <2> QED BY <2>1, <2>2 DEF TypeOK, ReportOK
<1> QED BY <1>1, <1>2, ReportMoves DEF ReportsMove

-----------------------------------------------------------------------------
(***************************************************************************)
(* That strengthening is inductive, given Inv.                             *)
(***************************************************************************)
LEMMA RecordStepInv ==
  ASSUME TypeOK, Inv, ShownInv, [Next]_vars, NEW r \in AllReports
  PROVE  RecordOf(r)'
<1> USE DEF Inv
<1> DEFINE e == <<"report", r>>
           s == <<"stage", r>>
<1>1. e \in Effects /\ s \in Effects /\ RecordOf(r) /\ issue \subseteq issue'
  BY Names, IssueMoves DEF ShownInv
<1>2. intent[e] # "none" => intent'[e] # "none" /\ report'[r] = report[r]
  BY <1>1, QueuedStays, ReportStays
<1>3. ShownReport(r)' => intent'[e] # "none"
  BY <1>1, <1>2, WritesMove DEF RecordOf, ShownReport
<1>4. Past(e)' => ShownReport(r)'
  BY <1>1, WritesMove DEF RecordOf, ShownReport
<1>5. intent'[s] # "none" => ShownReport(r)'
  <2>1. CASE intent[s] # "none"
    BY <1>1, <2>1 DEF RecordOf, ShownReport
  <2>2. CASE Starts(s)
    <3>1. \/ at[e] = "seen"
          \/ r = Ready /\ commission.step = "transition"
      BY <2>2, LiveStep DEF EffectsLive, StartsDuly
    <3>2. ShownReport(r)
      BY <1>1, <3>1 DEF RecordOf, Past, DeliveryInv, ReadyReported, ShownReport
    <3> QED BY <1>1, <3>2 DEF ShownReport
  <2> QED BY <2>1, <2>2 DEF Starts
<1>6. intent'[e] # "none" => report'[r].turn \in Turns
  <2>1. CASE intent[e] # "none"
    BY <1>1, <1>2, <2>1 DEF RecordOf
  <2>2. CASE Starts(e)
    <3>1. EnqueueReport /\ r = call.of
      BY <2>2, IntentMoves DEF Causes
    <3>2. call.turn \in Turns
      BY <3>1 DEF EnqueueReport, TypeOK, CallersOK, CallRecords
    <3>3. report'[r].turn = call.turn
      BY <3>1 DEF EnqueueReport, TypeOK, ReportOK
    <3> QED BY <3>2, <3>3
  <2> QED BY <2>1, <2>2 DEF Starts
<1> QED BY <1>3, <1>4, <1>5, <1>6 DEF RecordOf

LEMMA QuestionShownStep ==
  ASSUME TypeOK, Inv, ShownInv, [Next]_vars, NEW q \in Reports
  PROVE  QuestionShown(q)'
<1> USE DEF Inv
<1> DEFINE e == <<"report", q>>
           s == <<"stage", q>>
           w == <<"wake", q>>
           a == <<"answer", q>>
<1>1. /\ q \in AllReports /\ e \in Effects /\ s \in Effects /\ w \in Effects /\ a \in Effects
      /\ RecordOf(q) /\ QuestionShown(q) /\ issue \subseteq issue'
  BY Names, IssueMoves DEF ShownInv
<1>2. intent[e] # "none" => report'[q] = report[q]
  BY <1>1, ReportStays
<1>3. ShownReport(q) /\ Question(q) => ShownReport(q)' /\ Question(q)'
  BY <1>1, <1>2 DEF RecordOf, ShownReport, Question
<1>4. at[e] = "route" \/ at[s] = "route" => ShownReport(q)
  <2>1. at[s] = "route" => intent[s] # "none"
    BY <1>1 DEF EffectInv
  <2> QED BY <1>1, <2>1 DEF RecordOf, Past
<1>5. at'[e] = "route" \/ at'[s] = "route" => Question(q)'
  <2>1. ASSUME NEW f \in {e, s}, at'[f] = "route" PROVE Question(q)'
    <3>1. at[f] = "route" \/ (Question(q) /\ UNCHANGED report)
      BY <2>1, WritesMove
    <3>2. CASE at[f] = "route"
      BY <1>1, <1>3, <1>4, <3>2 DEF QuestionShown
    <3> QED BY <3>1, <3>2 DEF Question
  <2> QED BY <2>1
<1>6. intent'[w] # "none" => ShownReport(q)' /\ Question(q)'
  <2>1. CASE intent[w] # "none"
    BY <1>1, <1>3, <2>1 DEF QuestionShown
  <2>2. CASE Starts(w)
    <3>1. at[e] = "route" \/ at[s] = "route"
      BY <2>2, IntentMoves DEF Causes, RouteQuestion
    <3> QED BY <1>1, <1>3, <1>4, <3>1 DEF QuestionShown
  <2> QED BY <2>1, <2>2 DEF Starts
<1>7. intent'[a] # "none" => ShownReport(q)' /\ Question(q)'
  <2>1. CASE intent[a] # "none"
    BY <1>1, <1>3, <2>1 DEF QuestionShown
  <2>2. CASE Starts(a)
    BY <1>3, <2>2, IntentMoves DEF Causes, AnswerQuestion, ShownReport
  <2> QED BY <2>1, <2>2 DEF Starts
<1> QED BY <1>5, <1>6, <1>7 DEF QuestionShown

\* How an answer goes from one step to the next.
LEMMA AnswerFields ==
  ASSUME TypeOK, [Next]_vars, NEW q \in Reports
  PROVE  /\ answer[q].applied => answer'[q].applied
         /\ answer'[q].applied => answer[q].applied \/ Past(<<"answer", q>>)
         /\ answer'[q].ended => \/ answer[q].ended
                                \/ answer[q].outcome = "continue" /\ answer[q].applied
<1> DEFINE Goal == /\ answer[q].applied => answer'[q].applied
                   /\ answer'[q].applied => answer[q].applied \/ Past(<<"answer", q>>)
                   /\ answer'[q].ended => \/ answer[q].ended
                                          \/ answer[q].outcome = "continue" /\ answer[q].applied
<1>1. CASE UNCHANGED answer
  BY <1>1
<1>2. ASSUME NEW p \in Reports, NEW o \in Outcomes, AnswerQuestion(p, o) PROVE Goal
  <2>1. answer'[q].applied = answer[q].applied /\ answer'[q].ended = answer[q].ended
    BY <1>2 DEF AnswerQuestion, TypeOK, AnswerOK
  <2> QED BY <2>1
<1>3. ASSUME NEW p \in Reports, ApplyAnswer(p) PROVE Goal
  <2>1. CASE UNCHANGED answer
    BY <2>1
  <2>2. CASE at[<<"answer", p>>] = "seen" /\ answer' = [answer EXCEPT ![p].applied = TRUE]
    <3>1. /\ answer'[q].ended = answer[q].ended
          /\ p = q => answer'[q].applied
          /\ p # q => answer'[q] = answer[q]
      BY <2>2 DEF TypeOK, AnswerOK
    <3> QED BY <2>2, <3>1 DEF Past
  <2> QED BY <1>3, <2>1, <2>2 DEF ApplyAnswer
<1>4. ASSUME NEW p \in Reports, EndGrant(p) PROVE Goal
  <2>1. /\ answer'[q].applied = answer[q].applied
        /\ p # q => answer'[q] = answer[q]
    BY <1>4 DEF EndGrant, TypeOK, AnswerOK
  <2> QED BY <1>4, <2>1 DEF EndGrant
<1> QED BY <1>1, <1>2, <1>3, <1>4, AnswerSteps

LEMMA AnswerShownStep ==
  ASSUME TypeOK, Inv, ShownInv, [Next]_vars, NEW q \in Reports
  PROVE  AnswerShown(q)'
<1> USE DEF Inv
<1> DEFINE a == <<"answer", q>>
<1>1. /\ a \in Effects /\ AnswerShown(q) /\ issue \subseteq issue'
      /\ \A o \in Outcomes : <<"resume", <<q, o>>>> \in Effects
  BY Names, IssueMoves DEF ShownInv
<1>2. intent[a] # "none" => intent'[a] # "none" /\ answer'[q].outcome = answer[q].outcome
  BY <1>1, QueuedStays, AnswerMoves
<1>3. answer[q].ended => answer'[q].ended
  BY AnswerMoves
<1>4. ShownAnswer(q)' => intent'[a] # "none"
  BY <1>1, <1>2, WritesMove DEF AnswerShown, ShownAnswer
<1>5. Past(a)' \/ answer'[q].applied => ShownAnswer(q)'
  BY <1>1, WritesMove, AnswerFields DEF AnswerShown, ShownAnswer
<1>6. answer'[q].ended => answer'[q].outcome = "continue" /\ answer'[q].applied
  <2>1. answer'[q].ended => answer[q].outcome = "continue" /\ answer[q].applied
    BY <1>1, AnswerFields DEF AnswerShown
  <2>2. answer[q].applied => intent[a] # "none"
    BY <1>1 DEF AnswerShown
  <2> QED BY <1>2, <2>1, <2>2, AnswerFields
<1>7. ASSUME NEW o \in Outcomes, Queued(q, o)'
      PROVE  /\ ShownAnswer(q)'
             /\ o = answer'[q].outcome \/ (o = "blocked" /\ answer'[q].ended)
  <2>1. CASE Queued(q, o)
    BY <1>1, <1>2, <1>3, <2>1 DEF AnswerShown, ShownAnswer
  <2>2. CASE ~Queued(q, o)
    <3>1. at[a] = "applied" /\ o = CurrentAnswer(q) /\ UNCHANGED answer
      BY <1>7, <2>2, LiveStep DEF EffectsLive, StartsDuly, Starts, Queued
    <3>2. ShownAnswer(q)
      BY <1>1, <3>1 DEF AnswerShown, Past
    <3> QED BY <1>1, <3>1, <3>2 DEF CurrentAnswer, ShownAnswer
  <2> QED BY <2>1, <2>2
<1> QED BY <1>4, <1>5, <1>6, <1>7 DEF AnswerShown

LEMMA TakenStays ==
  ASSUME TypeOK, Inv, [Next]_vars, NEW t \in Turns, Taken(t)
  PROVE  Taken(t)'
<1>1. PICK s \in Sessions : prompts[t][s] = 1
  BY DEF Taken
<1>2. prompts'[t][s] <= 1
  BY InvStep DEF Inv, PromptInv, PromptOf, Turns, Outcomes, Sessions
<1>3. prompts'[t][s] \in {1, 2}
  <2>1. CASE UNCHANGED prompts
    BY <1>1, <2>1
  <2>2. ASSUME NEW u \in Turns, Takes(u) PROVE prompts'[t][s] \in {1, 2}
    <3>1. prompts[t] \in [Sessions -> Nat]
      BY DEF TypeOK, HerdrOK
    <3>2. CASE u = t
      <4>1. prompts'[t] = [prompts[t] EXCEPT ![agent] = prompts[t][agent] + 1]
        BY <2>2, <3>2 DEF Takes, TypeOK, HerdrOK
      <4> QED BY <1>1, <3>1, <4>1
    <3>3. CASE u # t
      BY <1>1, <2>2, <3>3 DEF Takes, TypeOK, HerdrOK
    <3> QED BY <3>2, <3>3
  <2> QED BY <2>1, <2>2, PromptSteps DEF Inv, PromptTaken
<1>4. prompts'[t][s] = 1
  BY <1>2, <1>3
<1> QED BY <1>4 DEF Taken, Sessions

LEMMA ReportDueStep ==
  ASSUME TypeOK, Inv, ShownInv, [Next]_vars, NEW r \in AllReports
  PROVE  ReportDue(r)'
<1>1. ReportDue(r) /\ CallDue
  BY DEF ShownInv
<1>2. CASE report'[r] = report[r]
  BY <1>1, <1>2, TakenStays DEF ReportDue, Turns, Outcomes
<1>3. CASE /\ call # NoCall
           /\ report'[r] = [turn |-> call.turn, kind |-> call.kind, from |-> call.stage,
                            to |-> RequestedStage(call.kind, call.stage)]
  <2>1. ASSUME NEW t \in Turns \ {Ready}, t = report'[r].turn PROVE Taken(t)'
    <3>1. t = call.turn
      BY <1>3, <2>1
    <3>2. Taken(t)
      BY <1>1, <3>1 DEF CallDue
    <3> QED BY <3>2, TakenStays
  <2>2. /\ report'[r].to = "decision" => report'[r].kind \in {"blocking", "blocker"}
        /\ report'[r].to = "acceptance" => report'[r].kind = "acceptance"
    BY <1>3 DEF RequestedStage
  <2> QED BY <2>1, <2>2 DEF ReportDue, Turns, Outcomes, Taken, Sessions
<1>4. \/ report'[r] = report[r]
      \/ /\ call # NoCall
         /\ report'[r] = [turn |-> call.turn, kind |-> call.kind, from |-> call.stage,
                          to |-> RequestedStage(call.kind, call.stage)]
  <2> DEFINE new == [turn |-> call.turn, kind |-> call.kind, from |-> call.stage,
                     to |-> RequestedStage(call.kind, call.stage)]
  <2>1. UNCHANGED report \/ (call # NoCall /\ report' = [report EXCEPT ![call.of] = new])
    BY ReportMoves DEF ReportsMove
  <2>2. report'[r] = report[r] \/ (call # NoCall /\ report'[r] = new)
    <3> HIDE DEF new
    <3> QED BY <2>1 DEF TypeOK, ReportOK
  <2> QED BY <2>2
<1> QED BY <1>2, <1>3, <1>4

LEMMA CallDueStep ==
  ASSUME TypeOK, Inv, ShownInv, [Next]_vars
  PROVE  CallDue'
<1>1. ASSUME NEW t \in Turns \ {Ready}, t = call'.turn PROVE Taken(t)'
  <2>1. CASE call' = call
    BY <1>1, <2>1, TakenStays DEF ShownInv, CallDue
  <2>2. CASE call' = NoCall
    BY <1>1, <2>2, Names DEF NoCall
  <2>3. CASE assignment.state = "active" /\ call'.turn = assignment.turn
    <3>1. receipt[t] = "prompted"
      BY <1>1, <2>3 DEF Inv, TurnInv
    <3>2. Taken(t)
      BY <3>1 DEF Inv, PromptInv, PromptOf
    <3> QED BY <3>2, TakenStays
  <2> QED BY <2>1, <2>2, <2>3, CallTurn
<1> QED BY <1>1 DEF CallDue, Taken, Turns, Outcomes, Sessions

LEMMA PromptDueStep ==
  ASSUME TypeOK, Inv, ShownInv, [Next]_vars, NEW t \in Turns \ {Ready}
  PROVE  PromptDue(t)'
<1> DEFINE e == <<"resume", t>>
<1>1. e \in Effects /\ (intent[e] # "none" => intent'[e] # "none") /\ PromptDue(t)
  BY Names, QueuedStays DEF Inv, ShownInv
<1>2. receipt'[t] = receipt[t] \/ intent[e] = "pending"
  BY ReceiptSteps DEF Inv
<1> QED BY <1>1, <1>2 DEF PromptDue

\* What an acknowledgment rests on stays.
LEMMA BackedStays ==
  ASSUME TypeOK, Inv, ShownInv, [Next]_vars, NEW q \in Reports, NEW ack, Backed(q, ack)
  PROVE  ack.outcome = "continue" => ShownAnswer(q)' /\ answer'[q].outcome = "continue"
<1>1. ShownAnswer(q) => ShownAnswer(q)' /\ answer'[q].outcome = answer[q].outcome
  BY IssueMoves, AnswerMoves DEF ShownInv, AnswerShown, ShownAnswer
<1> QED BY <1>1 DEF Backed

LEMMA AckShownStep ==
  ASSUME TypeOK, Inv, ShownInv, [Next]_vars
  PROVE  AckShown'
<1> DEFINE Rests(q, ack) ==
             ack.outcome = "continue" => ShownAnswer(q)' /\ answer'[q].outcome = "continue"
<1>1. \A q \in Reports : \A ack : Backed(q, ack) => Rests(q, ack)
  BY BackedStays
<1>2. ASSUME NEW q \in Reports, NEW ack, ack = acks[q] PROVE Rests(q, ack)
  BY <1>1, <1>2 DEF ShownInv, AckShown
<1>3. ASSUME NEW q \in Reports, NEW ack, ack = reply.ack, q = reply.of, reply.step # "none"
      PROVE  Rests(q, ack)
  BY <1>1, <1>3 DEF ShownInv, AckShown
<1>4. ASSUME \A q \in Reports : \A ack : ack = acks'[q] => Rests(q, ack),
             reply'.step # "none" =>
               \E q \in Reports : \E ack : q = reply'.of /\ ack = reply'.ack /\ Rests(q, ack)
      PROVE  AckShown'
  BY <1>4 DEF AckShown, Backed, ShownAnswer
<1>5. reply.step # "none" => reply.of \in Reports
  BY DEF TypeOK, CallersOK
<1>6. CASE UNCHANGED <<acks, reply>>
  <2>1. reply'.step # "none" =>
          \E q \in Reports : \E ack : q = reply'.of /\ ack = reply'.ack /\ Rests(q, ack)
    BY <1>3, <1>5, <1>6
  <2> QED BY <1>2, <1>4, <1>6, <2>1
<1>7. CASE UNCHANGED acks /\ reply' = NoReply
  BY <1>2, <1>4, <1>7 DEF NoReply
<1>8. CASE SaveAcknowledgment
  <2>1. /\ reply'.of = reply.of /\ reply'.ack = reply.ack /\ reply.step = "save"
        /\ \A q \in Reports : acks'[q] = IF q = reply.of THEN reply.ack ELSE acks[q]
    BY <1>8 DEF SaveAcknowledgment, TypeOK, AcksOK, CallersOK
  <2>2. ASSUME NEW q \in Reports, NEW ack, ack = acks'[q] PROVE Rests(q, ack)
    BY <1>2, <1>3, <2>1, <2>2
  <2>3. \E q \in Reports : \E ack : q = reply'.of /\ ack = reply'.ack /\ Rests(q, ack)
    BY <1>3, <1>5, <2>1
  <2> QED BY <1>4, <2>2, <2>3
<1>9. ASSUME NEW q \in Reports, AcknowledgeDecision(q) PROVE AckShown'
  <2>1. reply'.of = q /\ reply'.ack.outcome = CurrentAnswer(q) /\ UNCHANGED acks
    BY <1>9 DEF AcknowledgeDecision, tables
  <2>2. CurrentAnswer(q) = "continue" => answer[q].outcome = "continue"
    BY DEF CurrentAnswer
  <2>3. ShownAnswer(q)
    BY <1>9 DEF AcknowledgeDecision, ShownAnswer
  <2>4. ASSUME NEW ack, ack = reply'.ack PROVE Rests(q, ack)
    <3>1. Backed(q, ack)
      BY <2>1, <2>2, <2>3, <2>4 DEF Backed
    <3> QED BY <1>1, <3>1
  <2> QED BY <1>2, <1>4, <2>1, <2>4
<1> QED BY <1>6, <1>7, <1>8, <1>9, AckSteps

LEMMA ShownInit == Init => ShownInv
<1> SUFFICES ASSUME Init PROVE ShownInv
  OBVIOUS
<1>1. /\ acks = [q \in Reports |-> NoAck] /\ at = [e \in Effects |-> "rest"]
      /\ answer = [q \in Reports |-> NoAnswer] /\ call = NoCall /\ reply = NoReply
  BY DEF Init, PmInit
<1>2. /\ \A e \in Effects : /\ ~Past(e) /\ at[e] # "route"
                            /\ intent[e] # "none" =>
                                 e \in {<<"report", Ready>>, <<"stage", Ready>>}
      /\ \A e \in issue : e = <<"report", Ready>> /\ intent[e] = "succeeded"
      /\ \A r \in AllReports :
           /\ report[r].turn \in {None, Ready} /\ report[r].to = "none"
           /\ intent[<<"report", r>>] # "none" => r = Ready /\ report[r].turn = Ready
           /\ intent[<<"stage", r>>] # "none" => r = Ready /\ <<"report", Ready>> \in issue
  <2>1. \A e \in Effects : ~Past(e) /\ at[e] # "route"
    BY <1>1 DEF Past
  <2>2. \A r \in AllReports :
          /\ <<"report", r>> \in Effects /\ <<"stage", r>> \in Effects
          /\ <<"report", r>> # <<"stage", Ready>> /\ <<"stage", r>> # <<"report", Ready>>
    BY Names
  <2>3. CASE /\ intent = [e \in Effects |-> "none"] /\ issue = {}
             /\ report = [r \in AllReports |-> NoReport]
    BY <2>1, <2>2, <2>3 DEF NoReport
  <2>4. CASE /\ intent = [e \in Effects |->
                            IF e \in {<<"report", Ready>>, <<"stage", Ready>>}
                            THEN "succeeded" ELSE "none"]
             /\ issue = {<<"report", Ready>>}
             /\ report = [r \in AllReports |->
                           IF r = Ready
                           THEN [turn |-> Ready, kind |-> "checkpoint",
                                 from |-> "authorized", to |-> "none"]
                           ELSE NoReport]
    BY <2>1, <2>2, <2>4, Names DEF NoReport
  <2> QED BY <2>3, <2>4, InitCases
<1>3. ASSUME NEW r \in AllReports PROVE RecordOf(r) /\ ReportDue(r)
  <2>1. <<"report", r>> \in Effects
    BY Names
  <2> QED BY <1>2, <2>1, Names DEF RecordOf, ReportDue, ShownReport
<1>4. ASSUME NEW q \in Reports PROVE QuestionShown(q) /\ AnswerShown(q)
  <2>1. /\ <<"wake", q>> \in Effects /\ <<"answer", q>> \in Effects
        /\ <<"report", q>> \in Effects /\ <<"stage", q>> \in Effects
        /\ \A o \in Outcomes : <<"resume", <<q, o>>>> \in Effects
    BY Names
  <2>2. ~answer[q].applied /\ ~answer[q].ended
    BY <1>1 DEF NoAnswer
  <2>3. QuestionShown(q)
    BY <1>2, <2>1 DEF QuestionShown
  <2>4. <<"answer", q>> \notin issue /\ \A o \in Outcomes : ~Queued(q, o)
    BY <1>2, <2>1 DEF Queued
  <2> QED BY <1>2, <2>1, <2>2, <2>3, <2>4 DEF AnswerShown, ShownAnswer
<1>5. \A t \in Turns \ {Ready} : PromptDue(t)
  BY InitCases DEF PromptDue
<1>6. AckShown
  BY <1>1 DEF AckShown, Backed, NoAck, NoReply
<1>7. CallDue
  BY <1>1, Names DEF CallDue, NoCall
<1> QED BY <1>3, <1>4, <1>5, <1>6, <1>7 DEF ShownInv

LEMMA ShownStep ==
  ASSUME TypeOK, Inv, ShownInv, [Next]_vars
  PROVE  ShownInv'
<1>1. \A r \in AllReports : RecordOf(r)' /\ ReportDue(r)'
  BY RecordStepInv, ReportDueStep
<1>2. \A q \in Reports : QuestionShown(q)' /\ AnswerShown(q)'
  BY QuestionShownStep, AnswerShownStep
<1>3. \A t \in Turns \ {Ready} : PromptDue(t)'
  BY PromptDueStep
<1> QED BY <1>1, <1>2, <1>3, AckShownStep, CallDueStep DEF ShownInv, AllReports, Turns, Outcomes

LEMMA ShownAlways == Spec => [](TypeOK /\ Inv /\ ShownInv)
<1>1. Init => TypeOK /\ Inv /\ ShownInv
  BY TypeInit, InvInit, ShownInit
<1>2. TypeOK /\ Inv /\ ShownInv /\ [Next]_vars => (TypeOK /\ Inv /\ ShownInv)'
  BY InvStep, ShownStep
<1> QED BY <1>1, <1>2, PTL DEF Spec

-----------------------------------------------------------------------------
(***************************************************************************)
(* The refinement: what shows of every step is a step of TurnPromise, or   *)
(* nothing.                                                                *)
(***************************************************************************)
shown == <<prompts, Told, Woken, Answered, Withdrawn, Ordered, stage>>

LEMMA SameNames ==
  /\ Promise!AllReports = AllReports /\ Promise!Turns = Turns /\ Promise!Outcomes = Outcomes
  /\ Promise!Nothing = [turn |-> None, kind |-> "none"]
BY DEF Promise!AllReports, AllReports, Promise!Turns, Turns, Promise!Outcomes, Outcomes,
       Promise!Nothing

LEMMA PromiseInit == Init => Promise!Init
<1> SUFFICES ASSUME Init PROVE Promise!Init
  OBVIOUS
<1> USE SameNames
<1>1. answer = [q \in Reports |-> NoAnswer]
  BY DEF Init, PmInit
<1>2. Withdrawn = {}
  BY <1>1 DEF Withdrawn, NoAnswer
<1>3. CASE /\ intent = [e \in Effects |-> "none"] /\ issue = {} /\ stage = "authorized"
           /\ prompts = [t \in Turns |-> [s \in Sessions |-> 0]]
  <2>1. Woken = {} /\ Ordered = {}
    BY <1>3, Names DEF Woken, Ordered
  <2>2. Told = [r \in AllReports |-> Promise!Nothing] /\ Answered = [q \in Reports |-> "none"]
    BY <1>3 DEF Told, Answered
  <2> HIDE DEF Promise!Nothing
  <2> QED BY <1>2, <1>3, <2>1, <2>2 DEF Promise!Init
<1>4. CASE /\ intent = [e \in Effects |->
                          IF e \in {<<"report", Ready>>, <<"stage", Ready>>}
                          THEN "succeeded" ELSE "none"]
           /\ report = [r \in AllReports |->
                          IF r = Ready
                          THEN [turn |-> Ready, kind |-> "checkpoint",
                                from |-> "authorized", to |-> "none"]
                          ELSE NoReport]
           /\ issue = {<<"report", Ready>>} /\ stage = "delivery"
           /\ prompts = [t \in Turns |->
                           [s \in Sessions |-> IF t = Ready /\ s = 1 THEN 1 ELSE 0]]
  <2>1. Woken = {} /\ Ordered = {}
    BY <1>4, Names DEF Woken, Ordered
  <2>2. Answered = [q \in Reports |-> "none"]
    BY <1>4 DEF Answered
  <2>3. Told = [r \in AllReports |-> IF r = Ready THEN [turn |-> Ready, kind |-> "checkpoint"]
                                     ELSE Promise!Nothing]
    BY <1>4 DEF Told
  <2> QED BY <1>2, <1>4, <2>1, <2>2, <2>3 DEF Promise!Init
<1> QED BY <1>3, <1>4, InitCases

\* What the Issue shows of a record stays while no record is written.
LEMMA ToldStays ==
  ASSUME TypeOK, Inv, ShownInv, [Next]_vars
  PROVE  /\ \A r \in AllReports : ShownReport(r) => report'[r] = report[r]
         /\ \A q \in Reports : ShownAnswer(q) => answer'[q].outcome = answer[q].outcome
         /\ UNCHANGED issue => UNCHANGED <<Told, Answered>>
<1>1. ASSUME NEW r \in AllReports, ShownReport(r) PROVE report'[r] = report[r]
  BY <1>1, ReportStays DEF Inv, ShownInv, RecordOf
<1>2. ASSUME NEW q \in Reports, ShownAnswer(q) PROVE answer'[q].outcome = answer[q].outcome
  BY <1>2, AnswerMoves DEF ShownInv, AnswerShown
<1>3. ASSUME UNCHANGED issue PROVE UNCHANGED Told
  BY <1>1, <1>3 DEF Told, ShownReport, AllReports
<1>4. ASSUME UNCHANGED issue PROVE UNCHANGED Answered
  BY <1>2, <1>4 DEF Answered, ShownAnswer
<1> QED BY <1>1, <1>2, <1>3, <1>4

LEMMA WokenStays ==
  ASSUME TypeOK, Inv, ShownInv, [Next]_vars
  PROVE  /\ UNCHANGED Withdrawn \/ \E q \in Reports : EndGrant(q)
         /\ UNCHANGED Woken \/ \E q \in Reports : WakeCeo(q)
         /\ UNCHANGED Ordered \/ \E m \in Orders : OrderStage(m)
<1>1. ASSUME \A q \in Reports : ~EndGrant(q) PROVE UNCHANGED Withdrawn
  <2>1. ASSUME NEW q \in Reports, NEW p \in Reports, NEW o \in Outcomes,
               ApplyAnswer(p) \/ AnswerQuestion(p, o)
        PROVE  answer'[q].ended = answer[q].ended
    BY <2>1 DEF ApplyAnswer, AnswerQuestion, TypeOK, AnswerOK
  <2>2. \A q \in Reports : answer'[q].ended = answer[q].ended
    BY <1>1, <2>1, AnswerSteps DEF Outcomes
  <2> QED BY <2>2 DEF Withdrawn
<1>2. ASSUME \A q \in Reports : ~WakeCeo(q) PROVE UNCHANGED Woken
  <2>1. \A q \in Reports :
          intent'[<<"wake", q>>] = "succeeded" <=> intent[<<"wake", q>>] = "succeeded"
    BY <1>2, IntentMoves DEF Causes, Inv
  <2> QED BY <2>1 DEF Woken
<1>3. ASSUME \A m \in Orders : ~OrderStage(m) PROVE UNCHANGED Ordered
  <2>1. ASSUME NEW m \in Orders
        PROVE  intent'[<<"order", m>>] # "none" <=> intent[<<"order", m>>] # "none"
    <3>1. ~Starts(<<"order", m>>)
      BY <1>3, IntentMoves DEF Causes, Inv
    <3>2. intent[<<"order", m>>] # "none" => intent'[<<"order", m>>] # "none"
      BY LiveStep, Names DEF EffectsLive, Lives, Inv
    <3> QED BY <3>1, <3>2 DEF Starts
  <2> QED BY <2>1 DEF Ordered
<1> QED BY <1>1, <1>2, <1>3

LEMMA PromiseReport ==
  ASSUME TypeOK, Inv, ShownInv, [Next]_vars, NEW r \in AllReports, WriteReport(r)
  PROVE  [Promise!Next]_shown
<1>1. /\ UNCHANGED <<prompts, stage, intent, answer, report>> /\ issue' = issue \cup {<<"report", r>>}
      /\ intent[<<"report", r>>] = "pending"
  BY DEF WriteReport, herdr
<1>2. UNCHANGED <<Ordered, Woken, Withdrawn, Answered>>
  BY <1>1 DEF Ordered, Woken, Withdrawn, Answered
<1>3. CASE ShownReport(r)
  <2>1. UNCHANGED issue
    BY <1>1, <1>3 DEF ShownReport
  <2> QED BY <1>1, <1>2, <2>1, ToldStays DEF shown
<1>4. CASE ~ShownReport(r)
  <2>1. report[r].turn \in Turns /\ report[r] # NoReport
    <3>1. RecordOf(r) /\ NoReport.turn = None
      BY DEF ShownInv, NoReport
    <3>2. report[r].turn \in Turns
      BY <1>1, <3>1 DEF RecordOf
    <3> QED BY <3>1, <3>2, Names
  <2>2. report[r].kind \in {"checkpoint", "question", "blocking", "blocker", "acceptance"}
    BY <2>1, PmTurnsAssumption DEF TypeOK, ReportOK, ReportRecords, ReportKinds
  <2>3. Told[r] = Promise!Nothing
    BY <1>4, SameNames DEF Told, ShownReport
  <2>4. report[r].turn # Ready => \E s \in Sessions : prompts[report[r].turn][s] = 1
    BY <2>1 DEF ShownInv, ReportDue, Taken
  <2>5. ASSUME NEW other \in AllReports PROVE Told[other].turn # report[r].turn
    <3>1. CASE ShownReport(other)
      <4>1. other # r /\ Told[other].turn = report[other].turn
        BY <1>4, <3>1 DEF Told, ShownReport
      <4>2. report[other].turn = report[r].turn => other = r
        BY <2>1 DEF Inv, ReportInv, OneReportPerTurn
      <4> QED BY <4>1, <4>2
    <3>2. CASE ~ShownReport(other)
      <4>1. Told[other].turn = None
        BY <3>2 DEF Told, ShownReport
      <4> QED BY <2>1, <4>1, Names
    <3> QED BY <3>1, <3>2
  <2> DEFINE new == [turn |-> report[r].turn, kind |-> report[r].kind]
  <2>6. Told' = [Told EXCEPT ![r] = new]
    <3>1. \A x \in AllReports : <<"report", x>> \in issue' <=> x = r \/ <<"report", x>> \in issue
      BY <1>1
    <3>2. \A x \in AllReports : Told'[x] = IF x = r THEN new ELSE Told[x]
      BY <1>1, <3>1 DEF Told
    <3> QED BY <3>2 DEF Told, AllReports
  <2>7. Told'[r].turn = report[r].turn
    BY <2>6 DEF Told
  <2>8. Promise!Report(r)
    <3> HIDE DEF Told, Woken, Answered, Withdrawn
    <3> QED BY <1>1, <1>2, <2>1, <2>2, <2>3, <2>4, <2>5, <2>6, <2>7, SameNames
        DEF Promise!Report
  <2> QED BY <2>8, SameNames DEF Promise!Next
<1> QED BY <1>3, <1>4

LEMMA PromiseAnswer ==
  ASSUME TypeOK, Inv, ShownInv, [Next]_vars, NEW q \in Reports, WriteAnswer(q)
  PROVE  [Promise!Next]_shown
<1>1. /\ UNCHANGED <<prompts, stage, intent, answer, report>> /\ issue' = issue \cup {<<"answer", q>>}
      /\ intent[<<"answer", q>>] = "pending"
  BY DEF WriteAnswer, herdr
<1>2. UNCHANGED <<Ordered, Woken, Withdrawn, Told>>
  BY <1>1 DEF Ordered, Woken, Withdrawn, Told
<1>3. CASE ShownAnswer(q)
  <2>1. UNCHANGED issue
    BY <1>1, <1>3 DEF ShownAnswer
  <2> QED BY <1>1, <1>2, <2>1, ToldStays DEF shown
<1>4. CASE ~ShownAnswer(q)
  <2>1. answer[q].outcome \in Outcomes
    BY <1>1 DEF Inv, AnswerInv, AnswerOf
  <2>2. Promise!Asked(q)
    <3>1. ShownReport(q) /\ Question(q) /\ q \in AllReports
      BY <1>1, Names DEF ShownInv, QuestionShown
    <3> QED BY <3>1 DEF Promise!Asked, Told, ShownReport, Question
  <2>3. Answered[q] = "none"
    BY <1>4 DEF Answered, ShownAnswer
  <2>4. Answered' = [Answered EXCEPT ![q] = answer[q].outcome]
    BY <1>1 DEF Answered
  <2>5. Promise!Answer(q, answer[q].outcome)
    BY <1>1, <1>2, <2>2, <2>3, <2>4 DEF Promise!Answer
  <2> QED BY <2>1, <2>5, SameNames DEF Promise!Next
<1> QED BY <1>3, <1>4

LEMMA PromiseWake ==
  ASSUME TypeOK, Inv, ShownInv, [Next]_vars, NEW q \in Reports, WakeCeo(q)
  PROVE  [Promise!Next]_shown
<1>1. /\ UNCHANGED <<prompts, stage, answer, report, issue>>
      /\ intent[<<"wake", q>>] = "pending"
      /\ intent' = [intent EXCEPT ![<<"wake", q>>] = "succeeded"]
  BY DEF WakeCeo, herdr, tracker
<1>2. UNCHANGED <<Withdrawn, Told, Answered>>
  BY <1>1 DEF Withdrawn, Told, Answered
<1>3. q \notin Woken /\ Woken' = Woken \cup {q}
  BY <1>1, Names DEF Woken, TypeOK, OutboxOK
<1>4. Promise!Asked(q)
  <2>1. ShownReport(q) /\ Question(q) /\ q \in AllReports
    BY <1>1, Names DEF ShownInv, QuestionShown
  <2> QED BY <2>1 DEF Promise!Asked, Told, ShownReport, Question
<1>5. UNCHANGED Ordered
  <2>1. \A m \in Orders : intent'[<<"order", m>>] = intent[<<"order", m>>]
    BY Names DEF WakeCeo, TypeOK, OutboxOK
  <2> QED BY <2>1 DEF Ordered
<1>6. Promise!Wake(q)
  BY <1>1, <1>2, <1>3, <1>4, <1>5 DEF Promise!Wake
<1> QED BY <1>6 DEF Promise!Next

LEMMA PromiseWithdraw ==
  ASSUME TypeOK, Inv, ShownInv, [Next]_vars, NEW q \in Reports, EndGrant(q)
  PROVE  [Promise!Next]_shown
<1>1. /\ UNCHANGED <<prompts, stage, intent, report, issue>>
      /\ answer[q].outcome = "continue" /\ answer[q].applied /\ ~answer[q].ended
      /\ answer' = [answer EXCEPT ![q].ended = TRUE]
  BY DEF EndGrant, herdr, outbox
<1>2. UNCHANGED <<Ordered, Woken, Told, Answered>>
  BY <1>1, ToldStays DEF Woken, Ordered
<1>3. q \notin Withdrawn /\ Withdrawn' = Withdrawn \cup {q}
  BY <1>1 DEF Withdrawn, TypeOK, AnswerOK
<1>4. Answered[q] = "continue"
  BY <1>1 DEF ShownInv, AnswerShown, Answered, ShownAnswer
<1>5. Promise!Withdraw(q)
  BY <1>1, <1>2, <1>3, <1>4 DEF Promise!Withdraw
<1> QED BY <1>5 DEF Promise!Next

LEMMA PromiseStage ==
  ASSUME TypeOK, Inv, ShownInv, [Next]_vars, NEW r \in AllReports, WriteStage(r)
  PROVE  [Promise!Next]_shown
<1>1. /\ UNCHANGED <<prompts, intent, answer, report, issue>>
      /\ intent[<<"stage", r>>] = "pending"
      /\ stage \in {Move(r).from, Move(r).to} /\ stage' = Move(r).to
  BY DEF WriteStage, herdr
<1>2. UNCHANGED <<Ordered, Woken, Withdrawn, Told, Answered>>
  BY <1>1 DEF Ordered, Woken, Withdrawn, Told, Answered
<1>3. CASE UNCHANGED stage
  BY <1>1, <1>2, <1>3 DEF shown
<1>4. CASE stage = Move(r).from
  <2>1. Told[r] = [turn |-> report[r].turn, kind |-> report[r].kind] /\ report[r].turn \in Turns
    BY <1>1 DEF ShownInv, RecordOf, ShownReport, Told
  <2>2. CASE r = Ready
    <3>1. stage = "authorized" /\ stage' = "delivery"
      BY <1>1, <1>4, <2>2 DEF Move
    <3>2. Told[Ready] # Promise!Nothing
      BY <2>1, <2>2, Names, SameNames
    <3> QED BY <1>1, <1>2, <3>1, <3>2 DEF Promise!Next, Promise!MoveOn, Promise!Move
  <2>3. CASE r # Ready
    <3>1. r \in Reports /\ stage = report[r].from /\ stage' = report[r].to
      BY <1>1, <1>4, <2>3 DEF Move, AllReports
    <3>2. report[r].to # "none"
      BY <1>1, <3>1 DEF Inv, QuestionInv, QuestionOf
    <3>3. report[r].from = "delivery" /\ report[r].to \in {"decision", "acceptance"}
      BY <3>2 DEF Inv, DeliveryInv, TypeOK, ReportOK, ReportRecords, NoReport, Asked
    <3>4. /\ report[r].to = "decision" => report[r].kind \in {"blocking", "blocker"}
          /\ report[r].to = "acceptance" => report[r].kind = "acceptance"
      BY DEF ShownInv, ReportDue
    <3>5. Told[r].kind = report[r].kind
      BY <2>1
    <3>6. Promise!MoveOn
      BY <1>1, <1>2, <3>1, <3>3, <3>4, <3>5 DEF Promise!MoveOn, Promise!Move
    <3> QED BY <3>6 DEF Promise!Next
  <2> QED BY <2>2, <2>3
<1> QED BY <1>1, <1>3, <1>4

LEMMA PromiseFollow ==
  ASSUME TypeOK, Inv, ShownInv, [Next]_vars, FollowAnswer
  PROVE  [Promise!Next]_shown
<1>1. UNCHANGED <<prompts, intent, answer, report, issue>>
  BY DEF FollowAnswer, outbox, herdr
<1>2. UNCHANGED <<Ordered, Woken, Withdrawn, Told, Answered>>
  BY <1>1 DEF Ordered, Woken, Withdrawn, Told, Answered
<1>3. CASE UNCHANGED stage
  BY <1>1, <1>2, <1>3 DEF shown
<1>4. CASE stage' # stage
  <2>1. /\ reply.step = "follow" /\ reply.ack.outcome = "continue"
        /\ report[reply.of].kind = "blocking" /\ stage = "decision" /\ stage' = "delivery"
    BY <1>4 DEF FollowAnswer
  <2>2. PICK q \in Reports : q = reply.of
    BY <2>1 DEF TypeOK, CallersOK
  <2>3. ShownAnswer(q) /\ answer[q].outcome = "continue"
    BY <2>1, <2>2 DEF ShownInv, AckShown, Backed
  <2>4. ShownReport(q) /\ q \in AllReports
    BY <2>3, Names DEF ShownInv, AnswerShown, QuestionShown
  <2>5. Told[q].kind = "blocking" /\ Answered[q] = "continue"
    BY <2>1, <2>2, <2>3, <2>4 DEF Told, Answered, ShownReport, ShownAnswer
  <2>6. Promise!MoveOn
    BY <1>1, <1>2, <2>1, <2>5 DEF Promise!MoveOn, Promise!Move
  <2> QED BY <2>6 DEF Promise!Next
<1> QED BY <1>3, <1>4

LEMMA PromiseOrder ==
  ASSUME TypeOK, Inv, ShownInv, [Next]_vars, NEW m \in Orders, OrderStage(m)
  PROVE  [Promise!Next]_shown
<1> DEFINE e == <<"order", m>>
<1>1. UNCHANGED <<prompts, stage, answer, report, issue>> /\ e \in Effects
  BY Names DEF OrderStage, herdr, tracker
<1>2. /\ \A f \in Effects : f # e => intent'[f] = intent[f]
      /\ intent'[e] # "none"
  BY <1>1 DEF OrderStage, TypeOK, OutboxOK
<1>3. UNCHANGED <<Withdrawn, Told, Answered>>
  BY <1>1, ToldStays DEF Withdrawn
<1>4. UNCHANGED Woken
  <2>1. \A q \in Reports : intent'[<<"wake", q>>] = intent[<<"wake", q>>]
    BY <1>2, Names
  <2> QED BY <2>1 DEF Woken
<1>5. Ordered' = Ordered \cup {m}
  <2>1. \A n \in Orders : n # m => intent'[<<"order", n>>] = intent[<<"order", n>>]
    BY <1>2, Names
  <2> QED BY <1>2, <2>1 DEF Ordered
<1>6. Promise!Order(m)
  BY <1>1, <1>3, <1>4, <1>5 DEF Promise!Order
<1> QED BY <1>6 DEF Promise!Next

LEMMA PromiseOrdered ==
  ASSUME TypeOK, Inv, ShownInv, [Next]_vars, NEW m \in Orders, WriteOrder(m)
  PROVE  [Promise!Next]_shown
<1>1. /\ UNCHANGED <<prompts, intent, answer, report, issue>>
      /\ intent[<<"order", m>>] = "pending"
      /\ stage \in {m[1], m[2]} /\ stage' = m[2]
  BY DEF WriteOrder, herdr
<1>2. UNCHANGED <<Ordered, Woken, Withdrawn, Told, Answered>>
  BY <1>1 DEF Ordered, Woken, Withdrawn, Told, Answered
<1>3. CASE UNCHANGED stage
  BY <1>1, <1>2, <1>3 DEF shown
<1>4. CASE stage = m[1]
  <2>1. m \in Ordered
    BY <1>1 DEF Ordered
  <2>2. Promise!MoveOn
    BY <1>1, <1>2, <1>4, <2>1 DEF Promise!MoveOn, Promise!Move
  <2> QED BY <2>2 DEF Promise!Next
<1> QED BY <1>1, <1>3, <1>4

LEMMA PromisePrompt ==
  ASSUME TypeOK, Inv, ShownInv, [Next]_vars, NEW t \in Turns, PromptTaken(t)
  PROVE  [Promise!Next]_shown
<1>1. /\ UNCHANGED <<intent, report, answer, issue, stage>> /\ receipt[t] # "none"
      /\ agent # 0 /\ prompts' = [prompts EXCEPT ![t][agent] = prompts[t][agent] + 1]
  BY DEF PromptTaken, Takes
<1>2. UNCHANGED <<Ordered, Woken, Withdrawn, Told, Answered>>
  BY <1>1 DEF Ordered, Woken, Withdrawn, Told, Answered
<1>3. PICK s \in Sessions : s = agent
  BY <1>1, PmTurnsAssumption DEF TypeOK, HerdrOK, Sessions
<1>4. prompts[t] \in [Sessions -> Nat]
  BY DEF TypeOK, HerdrOK
<1>5. prompts'[t][s] <= 1
  BY InvStep DEF Inv, PromptInv, PromptOf, Turns, Outcomes, Sessions
<1>6. prompts'[t][s] = prompts[t][s] + 1
  BY <1>1, <1>3, <1>4 DEF TypeOK, HerdrOK
<1>7. prompts[t][s] = 0 /\ prompts' = [prompts EXCEPT ![t][s] = 1]
  <2>1. prompts[t][s] = 0
    BY <1>4, <1>5, <1>6
  <2> QED BY <1>1, <1>3, <2>1
<1>8. Promise!Granted(t)
  <2>1. ASSUME NEW q \in Reports, NEW o \in Outcomes, t = <<q, o>>
        PROVE  o = Answered[q] \/ (o = "blocked" /\ q \in Withdrawn)
    <3>1. Queued(q, o)
      BY <1>1, <2>1, Names DEF ShownInv, PromptDue, Queued
    <3>2. ShownAnswer(q) /\ (o = answer[q].outcome \/ (o = "blocked" /\ answer[q].ended))
      BY <3>1 DEF ShownInv, AnswerShown
    <3> QED BY <3>2 DEF Answered, Withdrawn, ShownAnswer
  <2> QED BY <2>1, SameNames DEF Promise!Granted
<1>9. Promise!Prompt(t, s)
  BY <1>1, <1>2, <1>7, <1>8 DEF Promise!Prompt
<1> QED BY <1>9, SameNames DEF Promise!Next

LEMMA PromiseStep ==
  ASSUME TypeOK, Inv, ShownInv, [Next]_vars
  PROVE  [Promise!Next]_shown
<1>1. CASE \E t \in Turns : PromptTaken(t)
  BY <1>1, PromisePrompt
<1>2. CASE \E r \in AllReports : WriteReport(r) \/ WriteStage(r)
  BY <1>2, PromiseReport, PromiseStage
<1>3. CASE \E q \in Reports : WriteAnswer(q) \/ WakeCeo(q) \/ EndGrant(q)
  BY <1>3, PromiseAnswer, PromiseWake, PromiseWithdraw
<1>4. CASE FollowAnswer
  BY <1>4, PromiseFollow
<1>5. CASE \E m \in Orders : OrderStage(m) \/ WriteOrder(m)
  BY <1>5, PromiseOrder, PromiseOrdered
<1>6. CASE /\ \A t \in Turns : ~PromptTaken(t)
           /\ \A r \in AllReports : ~WriteReport(r) /\ ~WriteStage(r)
           /\ \A q \in Reports : ~WriteAnswer(q) /\ ~WakeCeo(q) /\ ~EndGrant(q)
           /\ ~FollowAnswer
           /\ \A m \in Orders : ~OrderStage(m) /\ ~WriteOrder(m)
  <2>1. UNCHANGED prompts
    BY <1>6, PromptSteps DEF Inv
  <2>2. UNCHANGED <<issue, stage>>
    BY <1>6, IssueSteps
  <2>3. UNCHANGED <<Ordered, Woken, Withdrawn>>
    BY <1>6, WokenStays
  <2> QED BY <2>1, <2>2, <2>3, ToldStays DEF shown
<1> QED BY <1>1, <1>2, <1>3, <1>4, <1>5, <1>6

(***************************************************************************)
(* Theorem.                                                                *)
(***************************************************************************)

\* Commissioning and the turns after it implement what TurnPromise says: whatever fails,
\* crashes, arrives late or is repaired, a session takes the prompt of a turn in once, a
\* report on the Issue speaks for a prompted turn and alone, a question reaches the CEO
\* and is answered once, the PM resumes with that answer, and the stage follows these or
\* the orders of an operator
\* (report_pm, answer_pm_question, acknowledge_pm_decision and the completions of their
\* effects in application.py; resume, prompt_ready and readback of coordinator.py).
THEOREM TurnsKeepPromise == Spec => KeepsTurnPromise
<1>1. Init => Promise!Init
  BY PromiseInit
<1>2. TypeOK /\ Inv /\ ShownInv /\ [Next]_vars
        => [Promise!Next]_<<prompts, Told, Woken, Answered, Withdrawn, Ordered, stage>>
  BY PromiseStep DEF shown
<1> QED BY <1>1, <1>2, ShownAlways, PTL DEF Spec, KeepsTurnPromise, Promise!Spec
=============================================================================
