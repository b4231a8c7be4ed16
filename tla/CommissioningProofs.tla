------------------------- MODULE CommissioningProofs --------------------------
(***************************************************************************)
(* Machine-checked theorems about Commissioning and the PM turns it runs,  *)
(* for any number of turns, reports, agent sessions and troubles.          *)
(***************************************************************************)
EXTENDS Commissioning, FiniteSetTheorems, TLAPS

(***************************************************************************)
(* The inductive invariant.                                                *)
(***************************************************************************)

\* An attempt is under way only while its effect is pending.
EffectInv ==
  /\ \A e \in Effects : at[e] # "rest" => intent[e] = "pending"
  /\ \A r \in Reports : at[<<"wake", r>>] = "rest"

\* How far the prompt of a turn is.
PromptStep(t) == IF t = Ready THEN commission.step ELSE at[<<"resume", t>>]
Asks(t) == PromptStep(t) = "prompt"
Sent(t) == PromptStep(t) = IF t = Ready THEN "wait" ELSE "prompted"
Seen(t) == t # Ready /\ PromptStep(t) \in {"seen", "done"}

\* Neither the agent that runs now nor a later one has taken in the prompt.
Unseen(t) == \A s \in Sessions : s >= started => prompts[t][s] = 0
Taken(t) == \E s \in Sessions : prompts[t][s] = 1

PromptOf(t) ==
  /\ \A s \in Sessions : prompts[t][s] <= 1 /\ (s > started => prompts[t][s] = 0)
  /\ receipt[t] = "none" => t \notin late /\ \A s \in Sessions : prompts[t][s] = 0
  /\ Asks(t) \/ t \in late \/ receipt[t] = "retry" => Unseen(t)
  /\ Asks(t) \/ Sent(t) => receipt[t] = "dispatching" /\ t \notin late
  /\ t \in late => receipt[t] = "dispatching"
  /\ Sent(t) \/ receipt[t] = "prompted" => Taken(t)
  /\ Seen(t) => receipt[t] = "prompted"

PromptInv == agent \in {0, started} /\ \A t \in Turns : PromptOf(t)

TurnInv ==
  assignment.state = "active" /\ assignment.turn # Ready =>
    receipt[assignment.turn] = "prompted"

\* A report that is recorded was queued; the one under way is of a free turn.
ReportInv ==
  /\ \A r \in AllReports : report[r] # NoReport => intent[<<"report", r>>] # "none"
  /\ call # NoCall => /\ intent[<<"report", call.of>>] = "none"
                      /\ \A r \in AllReports : report[r].turn # call.turn
  /\ OneReportPerTurn

QuestionOf(r) ==
  LET routed == Question(r) => intent[<<"wake", r>>] = "succeeded" IN
  /\ intent[<<"stage", r>>] # "none" =>
       intent[<<"report", r>>] # "none" /\ report[r].to # "none"
  /\ at[<<"report", r>>] = "done" \/ intent[<<"report", r>>] = "succeeded" =>
       report[r].to # "none" \/ routed
  /\ at[<<"stage", r>>] = "done" \/ intent[<<"stage", r>>] = "succeeded" => routed
QuestionInv == \A r \in Reports : QuestionOf(r)

Queued(q, o) == intent[<<"resume", <<q, o>>>>] # "none"

AnswerOf(q) ==
  /\ intent[<<"answer", q>>] # "none" => answer[q].outcome \in Outcomes
  /\ \A o \in Outcomes : Queued(q, o) =>
       /\ intent[<<"answer", q>>] # "none"
       /\ answer[q].ended \/ o = answer[q].outcome
  /\ at[<<"answer", q>>] = "done" \/ intent[<<"answer", q>>] = "succeeded" =>
       \E o \in Outcomes : Queued(q, o)
AnswerInv == \A q \in Reports : AnswerOf(q)

\* The transition to delivery has been asked for.
Handed == intent[<<"stage", Ready>>] # "none"
ReadyActive == assignment.state = "active" /\ assignment.turn = Ready

\* The Map is in delivery, or this call takes it for one that is.
Delivering ==
  \/ stage # "authorized" \/ runtime.state = "active"
  \/ commission.existing.state = "active" \/ commission.path = "delivery"
  \/ commission.step = "activate"

DeliveryInv ==
  /\ report[Ready].to = "none" /\ (call.of = Ready => call.kind = "checkpoint")
  /\ \A r \in AllReports : report[r].to # "none" => report[r].from = "delivery"
  /\ Delivering => Handed
  /\ Handed => ReadyReported /\ ~ReadyActive /\ commission.step # "reserve"
  /\ commission.step \in {"finish", "confirm", "transition"} => ReadyReported
  /\ commission.step \in {"confirm", "transition"} => ~ReadyActive

Inv ==
  /\ EffectInv /\ PromptInv /\ TurnInv /\ ReportInv /\ QuestionInv /\ AnswerInv
  /\ DeliveryInv

-----------------------------------------------------------------------------
(***************************************************************************)
(* Types.                                                                  *)
(***************************************************************************)
LEMMA Names ==
  /\ \A t \in Turns \ {Ready} : <<"resume", t>> \in Effects
  /\ \A r \in AllReports : <<"report", r>> \in Effects /\ <<"stage", r>> \in Effects
  /\ \A q \in Reports : <<"answer", q>> \in Effects /\ <<"wake", q>> \in Effects
  /\ \A m \in Orders : <<"order", m>> \in Effects
  /\ \A q \in Reports, o \in Outcomes : <<q, o>> \in Turns \ {Ready}
  /\ Plain \subseteq Turns \ {Ready} /\ Reports \subseteq AllReports
  /\ Ready \in Turns /\ Ready \in AllReports /\ Ready \notin Reports
  /\ None \notin Turns /\ None \notin AllReports
  BY PmTurnsAssumption DEF Turns, Effects, Resumes, AllReports

LEMMA NothingTypes ==
  /\ NoCall \in CallRecords /\ NoReport \in ReportRecords /\ NoAck \in AckRecords
  /\ NoReply.step = "none" /\ NoReply.of = None /\ NoReply.ack \in AckRecords
  /\ NoReply \in [of : Reports \cup {None}, step : {"none", "save", "follow"},
                  ack : AckRecords]
  BY DEF CallRecords, ReportRecords, NoAck, AckRecords, NoReply

\* What a primed part of the type comes to.
LEMMA PartsTo ==
  /\ /\ assignment' \in [state : {"none", "idle", "active"}, turn : Turns \cup {None},
                         last : Turns \cup {None},
                         outcome : AllReports \cup {None, "dispatch"},
                         session : 0..MaxSessions]
     /\ assignment'.state = "active" <=> assignment'.turn # None
     => AssignmentOK'
  /\ receipt' \in [Turns -> Receipts] => ReceiptOK'
  /\ acks' \in [Reports -> AckRecords] => AcksOK'
  /\ intent' \in [Effects -> IntentStates] /\ at' \in [Effects -> AttemptSteps] => OutboxOK'
  /\ report' \in [AllReports -> ReportRecords] => ReportOK'
  /\ answer' \in [Reports -> [outcome : Outcomes \cup {"none"}, applied : BOOLEAN,
                              ended : BOOLEAN]] => AnswerOK'
  /\ issue' \subseteq Effects /\ stage' \in Stages => IssueOK'
<1>1. /\ assignment' \in [state : {"none", "idle", "active"}, turn : Turns \cup {None},
                          last : Turns \cup {None},
                          outcome : AllReports \cup {None, "dispatch"},
                          session : 0..MaxSessions]
      /\ assignment'.state = "active" <=> assignment'.turn # None
      => AssignmentOK'
  BY DEF AssignmentOK, Turns, AllReports, Outcomes
<1>2. receipt' \in [Turns -> Receipts] => ReceiptOK'
  BY DEF ReceiptOK, Turns, Outcomes, Receipts
<1>3. acks' \in [Reports -> AckRecords] => AcksOK'
  BY DEF AcksOK, AckRecords, Turns, Outcomes
<1>4. intent' \in [Effects -> IntentStates] /\ at' \in [Effects -> AttemptSteps] => OutboxOK'
  BY DEF OutboxOK, Effects, IntentStates, AttemptSteps, Resumes, Turns, AllReports, Outcomes
<1>5. report' \in [AllReports -> ReportRecords] => ReportOK'
  BY DEF ReportOK, ReportRecords, AllReports, NoReport, ReportKinds, Stages, Asked, Turns,
         Outcomes
<1>6. answer' \in [Reports -> [outcome : Outcomes \cup {"none"}, applied : BOOLEAN,
                               ended : BOOLEAN]] => AnswerOK'
  BY DEF AnswerOK, Outcomes
<1>7. issue' \subseteq Effects /\ stage' \in Stages => IssueOK'
  BY DEF IssueOK, Effects, Stages, Resumes, Turns, AllReports, Outcomes
<1> QED BY <1>1, <1>2, <1>3, <1>4, <1>5, <1>6, <1>7

LEMMA PartsOfHerdr ==
  /\ /\ agent' \in 0..MaxSessions /\ started' \in 0..MaxSessions
     /\ workspaces' \in Nat /\ prompts' \in [Turns -> [Sessions -> Nat]]
     /\ late' \subseteq Turns
     => HerdrOK'
  /\ runtime' \in [state : RuntimeStates, workspace : BOOLEAN, session : 0..MaxSessions,
                   ready : BOOLEAN] => RuntimeOK'
  /\ /\ runtimeLease' \in Effects \cup {None, Ready}
     /\ coordinator' \in Plain \cup {None} /\ call' \in CallRecords
     /\ reply' \in [of : Reports \cup {None}, step : {"none", "save", "follow"},
                    ack : AckRecords]
     /\ reply'.step # "none" => reply'.of \in Reports
     => CallersOK'
  /\ /\ commission' \in [step : CommissionSteps, path : {"none", "authorized", "delivery"},
                         existing : [state : RuntimeStates, workspace : BOOLEAN],
                         session : 0..MaxSessions]
     /\ commission'.step = "none" => commission' = NoCommission
     => CommissionOK'
<1>1. /\ agent' \in 0..MaxSessions /\ started' \in 0..MaxSessions
      /\ workspaces' \in Nat /\ prompts' \in [Turns -> [Sessions -> Nat]]
      /\ late' \subseteq Turns
      => HerdrOK'
  BY DEF HerdrOK, Turns, Outcomes, Sessions
<1>2. runtime' \in [state : RuntimeStates, workspace : BOOLEAN, session : 0..MaxSessions,
                    ready : BOOLEAN] => RuntimeOK'
  BY DEF RuntimeOK, RuntimeStates
<1>3. /\ runtimeLease' \in Effects \cup {None, Ready}
      /\ coordinator' \in Plain \cup {None} /\ call' \in CallRecords
      /\ reply' \in [of : Reports \cup {None}, step : {"none", "save", "follow"},
                     ack : AckRecords]
      /\ reply'.step # "none" => reply'.of \in Reports
      => CallersOK'
  BY DEF CallersOK, Effects, Resumes, Turns, AllReports, Outcomes, CallRecords, NoCall,
         ReportKinds, Stages, AckRecords
<1>4. /\ commission' \in [step : CommissionSteps, path : {"none", "authorized", "delivery"},
                          existing : [state : RuntimeStates, workspace : BOOLEAN],
                          session : 0..MaxSessions]
      /\ commission'.step = "none" => commission' = NoCommission
      => CommissionOK'
  BY DEF CommissionOK, CommissionSteps, RuntimeStates, NoCommission, NoRow
<1> QED BY <1>1, <1>2, <1>3, <1>4

\* A part of the type stays while its variables do.
LEMMA Frames ==
  ASSUME TypeOK
  PROVE  /\ UNCHANGED assignment => AssignmentOK'
         /\ UNCHANGED receipt => ReceiptOK'
         /\ UNCHANGED acks => AcksOK'
         /\ UNCHANGED outbox => OutboxOK'
         /\ UNCHANGED report => ReportOK'
         /\ UNCHANGED answer => AnswerOK'
         /\ UNCHANGED <<issue, stage>> => IssueOK'
         /\ UNCHANGED <<agent, started, workspaces, prompts, late>> => HerdrOK'
         /\ UNCHANGED runtime => RuntimeOK'
         /\ UNCHANGED <<runtimeLease, callers>> => CallersOK'
         /\ UNCHANGED commission => CommissionOK'
         /\ UNCHANGED events => (events \in Nat)'
<1>1. /\ UNCHANGED assignment => AssignmentOK'
      /\ UNCHANGED receipt => ReceiptOK'
      /\ UNCHANGED acks => AcksOK'
      /\ UNCHANGED outbox => OutboxOK'
      /\ UNCHANGED report => ReportOK'
      /\ UNCHANGED answer => AnswerOK'
      /\ UNCHANGED <<issue, stage>> => IssueOK'
  BY PartsTo DEF TypeOK, AssignmentOK, ReceiptOK, AcksOK, OutboxOK, ReportOK, AnswerOK,
                 IssueOK, outbox
<1>2. /\ UNCHANGED <<agent, started, workspaces, prompts, late>> => HerdrOK'
      /\ UNCHANGED runtime => RuntimeOK'
      /\ UNCHANGED <<runtimeLease, callers>> => CallersOK'
      /\ UNCHANGED commission => CommissionOK'
      /\ UNCHANGED events => (events \in Nat)'
  BY PartsOfHerdr DEF TypeOK, HerdrOK, RuntimeOK, CallersOK, CommissionOK, callers
<1> QED BY <1>1, <1>2

-----------------------------------------------------------------------------
\* How the outbox moves: an effect is queued, dies, or its attempt moves on.
LEMMA OutboxMoves ==
  ASSUME TypeOK, NEW e \in Effects
  PROVE  /\ Enqueued(e) \in [Effects -> IntentStates]
         /\ intent[e] \in IntentStates /\ at[e] \in AttemptSteps
         /\ \A s \in AttemptSteps :
              /\ GoTo(e, s) => at' \in [Effects -> AttemptSteps]
              /\ GoTo(e, s) /\ UNCHANGED intent => OutboxOK'
         /\ UNCHANGED at /\ intent' = Enqueued(e) => OutboxOK'
         /\ Dies(e) => OutboxOK'
<1>1. intent \in [Effects -> IntentStates] /\ at \in [Effects -> AttemptSteps]
  BY DEF TypeOK, OutboxOK
<1>2. Enqueued(e) \in [Effects -> IntentStates]
  BY <1>1 DEF Enqueued, IntentStates
<1>3. \A s \in AttemptSteps : GoTo(e, s) => at' \in [Effects -> AttemptSteps]
  BY <1>1 DEF GoTo
<1>4. Dies(e) => intent' \in [Effects -> IntentStates] /\ at' \in [Effects -> AttemptSteps]
  BY <1>1, <1>3 DEF Dies, IntentStates, AttemptSteps
<1> QED BY <1>1, <1>2, <1>3, <1>4, PartsTo

LEMMA AssignmentMoves ==
  ASSUME TypeOK, NEW t \in Turns, NEW o \in AllReports \cup {"dispatch"}
  PROVE  /\ assignment' = Begun(t) => AssignmentOK'
         /\ assignment' = Finished(t, o) => AssignmentOK'
<1>1. AssignmentOK
  BY DEF TypeOK
<1>2. assignment' = Begun(t) => AssignmentOK'
  BY <1>1, Names, PartsTo DEF AssignmentOK, Begun
<1>3. assignment' = Finished(t, o) => AssignmentOK'
  BY <1>1, Names, PartsTo DEF AssignmentOK, Finished
<1> QED BY <1>2, <1>3

LEMMA EventsMove ==
  ASSUME TypeOK, NEW n \in Nat, Weighs(n)
  PROVE  (events \in Nat)'
  BY DEF TypeOK, Weighs

LEMMA PromptMoves ==
  ASSUME TypeOK, NEW t \in Turns, Takes(t)
  PROVE  prompts' \in [Turns -> [Sessions -> Nat]]
<1>1. agent \in Sessions
  BY PmTurnsAssumption DEF TypeOK, HerdrOK, Takes, Sessions
<1> QED BY <1>1 DEF TypeOK, HerdrOK, Takes

LEMMA CommissionMoves ==
  ASSUME TypeOK
  PROVE  /\ Stop => CommissionOK'
         /\ \A s \in CommissionSteps \ {"none"} : Step(s) => CommissionOK'
         /\ \A s \in RuntimeStates :
              runtime' = [runtime EXCEPT !.state = s] => RuntimeOK'
         /\ NeedsRepair => /\ CommissionOK' /\ RuntimeOK'
                           /\ runtimeLease' \in Effects \cup {None, Ready}
<1>1. Stop => CommissionOK'
  <2>1. NoCommission \in [step : CommissionSteps, path : {"none", "authorized", "delivery"},
                          existing : [state : RuntimeStates, workspace : BOOLEAN],
                          session : 0..MaxSessions]
    BY PmTurnsAssumption DEF NoCommission, NoRow, CommissionSteps, RuntimeStates
  <2> QED BY <2>1, PartsOfHerdr DEF Stop
<1>2. ASSUME NEW s \in CommissionSteps \ {"none"}, Step(s) PROVE CommissionOK'
  BY <1>2, PartsOfHerdr DEF Step, TypeOK, CommissionOK
<1>3. ASSUME NEW s \in RuntimeStates, runtime' = [runtime EXCEPT !.state = s]
      PROVE  RuntimeOK'
  BY <1>3, PartsOfHerdr DEF TypeOK, RuntimeOK
<1>4. "repair_required" \in RuntimeStates
  BY DEF RuntimeStates
<1> QED BY <1>1, <1>2, <1>3, <1>4 DEF NeedsRepair, Released, TypeOK, CallersOK

-----------------------------------------------------------------------------
\* The two initial states.
LEMMA InitCases ==
  ASSUME Init
  PROVE  \/ /\ runtime = NoRuntime /\ assignment = NoAssignment
            /\ receipt = [t \in Turns |-> "none"] /\ intent = [e \in Effects |-> "none"]
            /\ report = [r \in AllReports |-> NoReport] /\ issue = {}
            /\ stage = "authorized" /\ agent = 0 /\ workspaces = 0 /\ started = 0
            /\ prompts = [t \in Turns |-> [s \in Sessions |-> 0]]
         \/ /\ runtime = Commissioned
            /\ assignment = [state |-> "idle", turn |-> None, last |-> Ready,
                             outcome |-> Ready, session |-> 1]
            /\ receipt = [t \in Turns |-> IF t = Ready THEN "prompted" ELSE "none"]
            /\ intent = [e \in Effects |->
                            IF e \in {<<"report", Ready>>, <<"stage", Ready>>}
                            THEN "succeeded" ELSE "none"]
            /\ report = [r \in AllReports |->
                           IF r = Ready
                           THEN [turn |-> Ready, kind |-> "checkpoint",
                                 from |-> "authorized", to |-> "none"]
                           ELSE NoReport]
            /\ issue = {<<"report", Ready>>} /\ stage = "delivery" /\ agent = 1
            /\ workspaces = 1 /\ started = 1
            /\ prompts = [t \in Turns |->
                             [s \in Sessions |-> IF t = Ready /\ s = 1 THEN 1 ELSE 0]]
<1>1. NoRuntime # Commissioned
  BY DEF NoRuntime, Commissioned
<1>2. runtime = NoRuntime \/ runtime = Commissioned
  BY DEF Init, PmInit
<1>3. CASE runtime = NoRuntime
  <2>1. runtime # Commissioned /\ runtime.session = 0
    BY <1>1, <1>3 DEF NoRuntime
  <2> HIDE DEF NoRuntime, Commissioned
  <2> QED BY <1>3, <2>1, Zenon DEF Init, PmInit
<1>4. CASE runtime = Commissioned
  <2>1. runtime.session = 1
    BY <1>4 DEF Commissioned
  <2> QED BY <1>4, <2>1, Zenon DEF Init, PmInit
<1> QED BY <1>2, <1>3, <1>4

LEMMA TypeInit == Init => TypeOK
<1> SUFFICES ASSUME Init PROVE TypeOK
  OBVIOUS
<1> USE PmTurnsAssumption, Names, InitCases
<1>1. AssignmentOK
  BY DEF AssignmentOK, NoAssignment
<1>2. ReceiptOK
  BY DEF ReceiptOK, Receipts
<1>3. AcksOK
  BY NothingTypes DEF AcksOK, Init, PmInit
<1>4. OutboxOK
  <2>1. at \in [Effects -> AttemptSteps]
    BY DEF Init, PmInit, AttemptSteps
  <2>2. intent \in [Effects -> IntentStates]
    BY DEF IntentStates
  <2> QED BY <2>1, <2>2 DEF OutboxOK
<1>5. ReportOK
  <2>1. [turn |-> Ready, kind |-> "checkpoint", from |-> "authorized", to |-> "none"]
          \in ReportRecords
    BY DEF ReportRecords, ReportKinds, Stages, Asked
  <2> QED BY <2>1, NothingTypes DEF ReportOK
<1>6. AnswerOK
  BY DEF AnswerOK, NoAnswer, Init, PmInit
<1>7. IssueOK
  BY DEF IssueOK, Stages
<1>8. HerdrOK
  <2>1. prompts \in [Turns -> [Sessions -> Nat]]
    OBVIOUS
  <2>2. late \subseteq Turns
    BY DEF Init, PmInit
  <2> QED BY <2>1, <2>2 DEF HerdrOK
<1>9. RuntimeOK
  <2>1. NoRuntime \in [state : RuntimeStates, workspace : BOOLEAN,
                       session : 0..MaxSessions, ready : BOOLEAN]
    BY DEF NoRuntime, RuntimeStates
  <2>2. Commissioned \in [state : RuntimeStates, workspace : BOOLEAN,
                          session : 0..MaxSessions, ready : BOOLEAN]
    BY DEF Commissioned, RuntimeStates
  <2> QED BY <2>1, <2>2 DEF RuntimeOK
<1>10. CallersOK
  BY NothingTypes DEF CallersOK, Init, PmInit
<1>11. CommissionOK
  BY DEF CommissionOK, NoCommission, NoRow, CommissionSteps, RuntimeStates, Init
<1>12. events \in Nat
  BY DEF Init, PmInit
<1> QED
  BY <1>1, <1>2, <1>3, <1>4, <1>5, <1>6, <1>7, <1>8, <1>9, <1>10, <1>11, <1>12 DEF TypeOK

LEMMA TypeTurn ==
  ASSUME TypeOK, TurnStep, UNCHANGED <<workspaces, started, commission>>
  PROVE  TypeOK'
<1> USE DEF tables, tracker, herdr
<1>1. ASSUME NEW t \in Plain, BeginPmTurn(t) PROVE TypeOK'
  <2>1. CallersOK'
    BY <1>1, PartsOfHerdr DEF BeginPmTurn, TypeOK, CallersOK
  <2> QED BY <1>1, <2>1, Frames DEF BeginPmTurn, TypeOK
<1>2. CASE EnqueueResume
  <2>1. OutboxOK'
    <3>1. coordinator \in Turns \ {Ready}
      BY <1>2, Names DEF EnqueueResume, TypeOK, CallersOK
    <3> QED BY <1>2, <3>1, Names, OutboxMoves DEF EnqueueResume
  <2>2. CallersOK'
    BY <1>2, PartsOfHerdr DEF EnqueueResume, TypeOK, CallersOK
  <2> QED BY <1>2, <2>1, <2>2, Frames DEF EnqueueResume, TypeOK
<1>3. ASSUME NEW t \in Turns \ {Ready}, Readback(t) PROVE TypeOK'
  <2>1. OutboxOK'
    BY <1>3, Names, OutboxMoves, Frames DEF Readback, AttemptSteps, outbox
  <2>2. ReceiptOK'
    BY <1>3, PartsTo DEF Readback, TypeOK, ReceiptOK, Receipts
  <2> QED BY <1>3, <2>1, <2>2, Frames DEF Readback, TypeOK
<1>4. ASSUME NEW t \in Turns \ {Ready}, Prepare(t) PROVE TypeOK'
  <2>1. OutboxOK'
    BY <1>4, Names, OutboxMoves DEF Prepare, AttemptSteps
  <2>2. ReceiptOK'
    BY <1>4, PartsTo DEF Prepare, TypeOK, ReceiptOK, Receipts
  <2>3. CallersOK'
    BY <1>4, Names, PartsOfHerdr DEF Prepare, TypeOK, CallersOK, callers
  <2> QED BY <1>4, <2>1, <2>2, <2>3, Frames DEF Prepare, TypeOK
<1>5. ASSUME NEW t \in Turns \ {Ready}, Prompt(t) PROVE TypeOK'
  <2>1. OutboxOK'
    BY <1>5, Names, OutboxMoves DEF Prompt, AttemptSteps
  <2>2. ReceiptOK'
    BY <1>5, PartsTo
       DEF Prompt, Prompted, PromptFails, TypeOK, ReceiptOK, Receipts
  <2>3. HerdrOK'
    <3>1. prompts' \in [Turns -> [Sessions -> Nat]] /\ late' \subseteq Turns
      BY <1>5, PromptMoves DEF Prompt, Prompted, PromptFails, TypeOK, HerdrOK
    <3> QED BY <1>5, <3>1, PartsOfHerdr DEF Prompt, TypeOK, HerdrOK
  <2>4. CallersOK'
    BY <1>5, PartsOfHerdr DEF Prompt, TypeOK, CallersOK, callers
  <2>5. (events \in Nat)'
    BY <1>5, EventsMove DEF Prompt, Prompted, PromptFails, Trouble, TypeOK
  <2> QED BY <1>5, <2>1, <2>2, <2>3, <2>4, <2>5, Frames DEF Prompt, TypeOK
<1>6. ASSUME NEW t \in Turns \ {Ready}, ConfirmPrompt(t) PROVE TypeOK'
  <2>1. OutboxOK'
    BY <1>6, Names, OutboxMoves DEF ConfirmPrompt, AttemptSteps
  <2>2. ReceiptOK'
    BY <1>6, PartsTo DEF ConfirmPrompt, TypeOK, ReceiptOK, Receipts
  <2>3. CallersOK'
    BY <1>6, PartsOfHerdr DEF ConfirmPrompt, TypeOK, CallersOK, callers
  <2> QED BY <1>6, <2>1, <2>2, <2>3, Frames DEF ConfirmPrompt, TypeOK
<1>7. ASSUME NEW t \in Turns \ {Ready}, BeginTurn(t) PROVE TypeOK'
  <2>1. OutboxOK'
    BY <1>7, Names, OutboxMoves DEF BeginTurn, AttemptSteps
  <2>2. AssignmentOK'
    BY <1>7, AssignmentMoves, Frames DEF BeginTurn
  <2> QED BY <1>7, <2>1, <2>2, Frames DEF BeginTurn, TypeOK
<1>8. ASSUME NEW t \in Turns, LatePrompt(t) PROVE TypeOK'
  <2>1. HerdrOK'
    BY <1>8, PromptMoves, PartsOfHerdr DEF LatePrompt, TypeOK, HerdrOK
  <2> QED BY <1>8, <2>1, Frames DEF LatePrompt, TypeOK
<1> QED
  BY <1>1, <1>2, <1>3, <1>4, <1>5, <1>6, <1>7, <1>8 DEF TurnStep

LEMMA TypePm ==
  ASSUME TypeOK, PmStep, UNCHANGED <<workspaces, started, commission>>
  PROVE  TypeOK'
<1> USE DEF tables, tracker, herdr
<1>1. ASSUME NEW r \in AllReports, NEW kind \in ReportKinds, ReportPm(r, kind)
      PROVE  TypeOK'
  <2>1. CallersOK'
    <3>1. assignment.turn \in Turns /\ stage \in Stages
      BY <1>1 DEF ReportPm, TypeOK, AssignmentOK, IssueOK
    <3>2. call' \in CallRecords
      BY <1>1, <3>1 DEF ReportPm, CallRecords
    <3> QED BY <1>1, <3>2, PartsOfHerdr DEF ReportPm, TypeOK, CallersOK
  <2>2. (events \in Nat)'
    BY <1>1, EventsMove, Frames DEF ReportPm
  <2> QED BY <1>1, <2>1, <2>2, Frames DEF ReportPm, TypeOK
<1>2. CASE EnqueueReport
  <2>1. /\ call.of \in AllReports /\ call.turn \in Turns /\ call.kind \in ReportKinds
        /\ call.stage \in Stages
    BY <1>2 DEF EnqueueReport, TypeOK, CallersOK, CallRecords
  <2>2. ReportOK'
    <3>1. RequestedStage(call.kind, call.stage) \in Asked
      BY DEF RequestedStage, Asked
    <3> QED BY <1>2, <2>1, <3>1, PartsTo DEF EnqueueReport, TypeOK, ReportOK, ReportRecords
  <2>3. OutboxOK'
    BY <1>2, <2>1, Names, OutboxMoves DEF EnqueueReport
  <2>4. CallersOK'
    BY <1>2, NothingTypes, PartsOfHerdr DEF EnqueueReport, TypeOK, CallersOK
  <2> QED BY <1>2, <2>2, <2>3, <2>4, Frames DEF EnqueueReport, TypeOK
<1>3. CASE CompleteDispatch
  <2>1. assignment.turn \in Turns
    BY <1>3 DEF CompleteDispatch, TypeOK, AssignmentOK
  <2>2. AssignmentOK'
    BY <1>3, <2>1, AssignmentMoves DEF CompleteDispatch
  <2> QED BY <1>3, <2>2, Frames DEF CompleteDispatch, TypeOK
<1>4. ASSUME NEW q \in Reports, AcknowledgeDecision(q) PROVE TypeOK'
  <2>1. CurrentAnswer(q) \in Outcomes \cup {"none"}
    BY DEF CurrentAnswer, TypeOK, AnswerOK, Outcomes
  <2>2. assignment.turn \in Turns \cup {None} /\ acks[q] \in AckRecords
    BY DEF TypeOK, AssignmentOK, AcksOK
  <2>3. CallersOK'
    BY <1>4, <2>1, <2>2, PartsOfHerdr
       DEF AcknowledgeDecision, TypeOK, CallersOK, AckRecords
  <2> QED BY <1>4, <2>3, Frames DEF AcknowledgeDecision, TypeOK
<1>5. CASE SaveAcknowledgment
  <2>1. reply.of \in Reports /\ reply.ack \in AckRecords
    BY <1>5 DEF SaveAcknowledgment, TypeOK, CallersOK
  <2>2. AcksOK'
    BY <1>5, <2>1, PartsTo DEF SaveAcknowledgment, TypeOK, AcksOK
  <2>3. CallersOK'
    BY <1>5, <2>1, PartsOfHerdr DEF SaveAcknowledgment, TypeOK, CallersOK
  <2> QED BY <1>5, <2>2, <2>3, Frames DEF SaveAcknowledgment, TypeOK
<1>6. CASE FollowAnswer
  <2>1. reply.of \in AllReports /\ reply.ack \in AckRecords
    BY <1>6, Names DEF FollowAnswer, TypeOK, CallersOK
  <2>2. AssignmentOK'
    <3>1. CASE reply.ack.turn \in Turns
      BY <1>6, <2>1, <3>1, AssignmentMoves, Frames DEF FollowAnswer
    <3>2. CASE reply.ack.turn = None
      BY <1>6, <2>1, <3>2, PartsTo
         DEF FollowAnswer, Finished, TypeOK, AssignmentOK
    <3> QED BY <2>1, <3>1, <3>2 DEF AckRecords
  <2>3. IssueOK'
    BY <1>6, PartsTo DEF FollowAnswer, TypeOK, IssueOK, Stages
  <2>4. CallersOK'
    BY <1>6, NothingTypes, PartsOfHerdr DEF FollowAnswer, TypeOK, CallersOK
  <2> QED BY <1>6, <2>2, <2>3, <2>4, Frames DEF FollowAnswer, TypeOK
<1> QED
  BY <1>1, <1>2, <1>3, <1>4, <1>5, <1>6, Names DEF PmStep, ReportKinds

\* A transition writes a stage because a report that asks for none queues none.
LEMMA TypeEffect ==
  ASSUME TypeOK, QuestionInv, EffectStep, UNCHANGED <<workspaces, started, commission>>
  PROVE  TypeOK'
<1> USE DEF tables, tracker, herdr
<1>1. ASSUME NEW r \in AllReports, WriteReport(r) PROVE TypeOK'
  <2>1. OutboxOK'
    BY <1>1, Names, OutboxMoves DEF WriteReport, AttemptSteps
  <2>2. IssueOK'
    BY <1>1, Names, PartsTo DEF WriteReport, TypeOK, IssueOK
  <2> QED BY <1>1, <2>1, <2>2, Frames DEF WriteReport, TypeOK
<1>2. ASSUME NEW r \in AllReports, NEW e \in Effects, FinalizeReport(e, r)
      PROVE  AssignmentOK' /\ OutboxOK'
  <2>1. OutboxOK'
    BY <1>2, OutboxMoves DEF FinalizeReport, AttemptSteps
  <2>2. report[r].turn \in Turns \cup {None}
    BY DEF TypeOK, ReportOK, ReportRecords, NoReport
  <2>3. CASE report[r].turn \in Turns
    BY <1>2, <2>1, <2>3, AssignmentMoves, Frames DEF FinalizeReport
  <2>4. CASE report[r].turn = None
    BY <1>2, <2>1, <2>4, PartsTo, Frames DEF FinalizeReport, Finished, TypeOK, AssignmentOK
  <2> QED BY <2>2, <2>3, <2>4
<1>3. ASSUME NEW r \in AllReports, CompleteReport(r) PROVE TypeOK'
  <2>1. AssignmentOK'
    BY <1>3, <1>2, Names, Frames DEF CompleteReport
  <2>2. OutboxOK'
    <3>1. CASE report[r].to = "none"
      BY <1>3, <3>1, <1>2, Names DEF CompleteReport
    <3>2. CASE report[r].to # "none"
      <4>1. at' \in [Effects -> AttemptSteps] /\ intent' \in [Effects -> IntentStates]
        BY <1>3, <3>2, Names, OutboxMoves DEF CompleteReport, AttemptSteps
      <4> QED BY <4>1, PartsTo
    <3> QED BY <3>1, <3>2
  <2> QED BY <1>3, <2>1, <2>2, Frames DEF CompleteReport, TypeOK
<1>4. ASSUME NEW r \in AllReports, WriteStage(r) PROVE TypeOK'
  <2>1. OutboxOK'
    BY <1>4, Names, OutboxMoves DEF WriteStage, AttemptSteps
  <2>2. IssueOK'
    <3>1. CASE r = Ready
      BY <1>4, <3>1, PartsTo DEF WriteStage, Move, TypeOK, IssueOK, Stages
    <3>2. CASE r # Ready
      <4>1. r \in Reports /\ report[r].to # "none"
        BY <1>4, <3>2, Names DEF QuestionInv, QuestionOf, WriteStage, AllReports
      <4>2. report[r].to \in Stages
        BY <4>1, Names DEF TypeOK, ReportOK, ReportRecords, NoReport, Asked, Stages
      <4> QED BY <1>4, <3>2, <4>2, PartsTo DEF WriteStage, Move, TypeOK, IssueOK
    <3> QED BY <3>1, <3>2
  <2> QED BY <1>4, <2>1, <2>2, Frames DEF WriteStage, TypeOK
<1>5. ASSUME NEW r \in AllReports, CompleteStage(r) PROVE TypeOK'
  <2>1. CASE r = Ready
    <3>1. OutboxOK'
      BY <1>5, <2>1, Names, OutboxMoves DEF CompleteStage, AttemptSteps
    <3> QED BY <1>5, <2>1, <3>1, Frames DEF CompleteStage, TypeOK
  <2>2. CASE r # Ready
    BY <1>5, <2>2, <1>2, Names, Frames DEF CompleteStage, TypeOK
  <2> QED BY <2>1, <2>2
<1>6. ASSUME NEW r \in Reports, RouteQuestion(r) PROVE TypeOK'
  <2>1. /\ intent' \in [Effects -> IntentStates]
        /\ at' \in [Effects -> AttemptSteps]
    <3>1. \A e \in Effects : GoTo(e, "done") => at' \in [Effects -> AttemptSteps]
      BY OutboxMoves DEF AttemptSteps
    <3>2. intent' = Enqueued(<<"wake", r>>)
      BY <1>6 DEF RouteQuestion
    <3>3. UNCHANGED at \/ GoTo(<<"report", r>>, "done") \/ GoTo(<<"stage", r>>, "done")
      BY <1>6 DEF RouteQuestion
    <3> QED BY <3>1, <3>2, <3>3, Names, OutboxMoves DEF TypeOK, OutboxOK
  <2> QED BY <1>6, <2>1, PartsTo, Frames DEF RouteQuestion, TypeOK
<1>7. ASSUME NEW r \in Reports, WakeCeo(r) PROVE TypeOK'
  <2>1. OutboxOK'
    BY <1>7, PartsTo DEF WakeCeo, TypeOK, OutboxOK, IntentStates
  <2> QED BY <1>7, <2>1, Frames DEF WakeCeo, TypeOK
<1>8. ASSUME NEW q \in Reports, NEW o \in Outcomes, AnswerQuestion(q, o) PROVE TypeOK'
  <2>1. OutboxOK'
    BY <1>8, Names, OutboxMoves DEF AnswerQuestion
  <2>2. AnswerOK'
    BY <1>8, PartsTo DEF AnswerQuestion, TypeOK, AnswerOK
  <2> QED BY <1>8, <2>1, <2>2, Frames DEF AnswerQuestion, TypeOK
<1>9. ASSUME NEW q \in Reports, WriteAnswer(q) PROVE TypeOK'
  <2>1. OutboxOK'
    BY <1>9, Names, OutboxMoves DEF WriteAnswer, AttemptSteps
  <2>2. IssueOK'
    BY <1>9, Names, PartsTo DEF WriteAnswer, TypeOK, IssueOK
  <2> QED BY <1>9, <2>1, <2>2, Frames DEF WriteAnswer, TypeOK
<1>10. ASSUME NEW q \in Reports, ApplyAnswer(q) PROVE TypeOK'
  <2>1. OutboxOK'
    BY <1>10, Names, OutboxMoves DEF ApplyAnswer, AttemptSteps
  <2>2. AnswerOK'
    BY <1>10, PartsTo, Frames DEF ApplyAnswer, TypeOK, AnswerOK
  <2> QED BY <1>10, <2>1, <2>2, Frames DEF ApplyAnswer, TypeOK
<1>11. ASSUME NEW q \in Reports, EnqueueDecisionResume(q) PROVE TypeOK'
  <2>1. OutboxOK'
    <3>1. at' \in [Effects -> AttemptSteps]
      BY <1>11, Names, OutboxMoves DEF EnqueueDecisionResume, AttemptSteps
    <3>2. intent' \in [Effects -> IntentStates]
      <4>1. intent' = Enqueued(<<"resume", <<q, CurrentAnswer(q)>>>>)
        BY <1>11 DEF EnqueueDecisionResume, AnswerResume
      <4> QED BY <4>1 DEF Enqueued, TypeOK, OutboxOK, IntentStates
    <3> QED BY <3>1, <3>2, PartsTo
  <2> QED BY <1>11, <2>1, Frames DEF EnqueueDecisionResume, TypeOK
<1>12. ASSUME NEW q \in Reports, EndGrant(q) PROVE TypeOK'
  <2>1. AnswerOK'
    BY <1>12, PartsTo DEF EndGrant, TypeOK, AnswerOK
  <2>2. (events \in Nat)'
    BY <1>12, EventsMove DEF EndGrant, Trouble
  <2> QED BY <1>12, <2>1, <2>2, Frames DEF EndGrant, TypeOK
<1>13. ASSUME NEW e \in Effects, Acknowledge(e) PROVE TypeOK'
  <2>1. OutboxOK'
    <3>1. at' \in [Effects -> AttemptSteps]
      BY <1>13, OutboxMoves DEF Acknowledge, AttemptSteps
    <3> QED BY <1>13, <3>1, PartsTo DEF Acknowledge, TypeOK, OutboxOK, IntentStates
  <2> QED BY <1>13, <2>1, Frames DEF Acknowledge, TypeOK
<1>14. ASSUME NEW e \in Effects, Fail(e) PROVE TypeOK'
  <2>1. OutboxOK'
    BY <1>14, OutboxMoves DEF Fail, AttemptSteps
  <2>2. CallersOK'
    BY <1>14, PartsOfHerdr DEF Fail, TypeOK, CallersOK, callers
  <2>3. (events \in Nat)'
    BY <1>14, EventsMove DEF Fail, Trouble
  <2> QED BY <1>14, <2>1, <2>2, <2>3, Frames DEF Fail, TypeOK
<1>15. ASSUME NEW e \in Effects, RepairEffect(e) PROVE TypeOK'
  <2>1. OutboxOK'
    BY <1>15, PartsTo DEF RepairEffect, TypeOK, OutboxOK, IntentStates
  <2> QED BY <1>15, <2>1, Frames DEF RepairEffect, TypeOK
<1>16. ASSUME NEW m \in Orders, OrderStage(m) PROVE TypeOK'
  <2>1. OutboxOK'
    BY <1>16, PartsTo DEF OrderStage, TypeOK, OutboxOK, IntentStates
  <2>2. (events \in Nat)'
    BY <1>16, EventsMove DEF OrderStage
  <2> QED BY <1>16, <2>1, <2>2, Frames DEF OrderStage, TypeOK
<1>17. ASSUME NEW m \in Orders, WriteOrder(m) PROVE TypeOK'
  <2>1. OutboxOK'
    BY <1>17, Names, OutboxMoves DEF WriteOrder, AttemptSteps
  <2>2. m[2] \in Stages
    BY PmTurnsAssumption DEF Transitions, Stages
  <2>3. IssueOK'
    BY <1>17, <2>2, PartsTo DEF WriteOrder, TypeOK, IssueOK
  <2> QED BY <1>17, <2>1, <2>3, Frames DEF WriteOrder, TypeOK
<1> QED
  BY <1>1, <1>3, <1>4, <1>5, <1>6, <1>7, <1>8, <1>9, <1>10, <1>11, <1>12, <1>13, <1>14,
     <1>15, <1>16, <1>17 DEF EffectStep

LEMMA TypeAgentExits ==
  ASSUME TypeOK, AgentExits, UNCHANGED <<workspaces, started, commission>>
  PROVE  TypeOK'
<1>1. HerdrOK'
  BY PmTurnsAssumption, PartsOfHerdr DEF AgentExits, TypeOK, HerdrOK
<1>2. (events \in Nat)'
  BY EventsMove DEF AgentExits, Trouble
<1> QED BY <1>1, <1>2, Frames DEF AgentExits, TypeOK, tables, tracker

LEMMA TypeCrash ==
  ASSUME TypeOK, Crash
  PROVE  TypeOK'
<1> USE DEF Crash, PmCrash
<1>1. OutboxOK'
  <2>1. at' \in [Effects -> AttemptSteps]
    BY DEF AttemptSteps
  <2> QED BY <2>1, PartsTo DEF TypeOK, OutboxOK
<1>2. CallersOK'
  BY NothingTypes, PartsOfHerdr DEF TypeOK, CallersOK
<1>3. (events \in Nat)' /\ CommissionOK'
  BY EventsMove, CommissionMoves DEF Trouble
<1> QED BY <1>1, <1>2, <1>3, Frames DEF TypeOK, tables, tracker, herdr

LEMMA TypeWorkspaceCloses ==
  ASSUME TypeOK, WorkspaceCloses
  PROVE  TypeOK'
<1>1. HerdrOK'
  BY PmTurnsAssumption, PartsOfHerdr DEF WorkspaceCloses, TypeOK, HerdrOK
<1>2. (events \in Nat)'
  BY EventsMove DEF WorkspaceCloses, Trouble
<1> QED BY <1>1, <1>2, Frames DEF WorkspaceCloses, TypeOK, tables, tracker

\* The first half of commission_map: the workspace and the agent.
LEMMA TypeRoot ==
  ASSUME TypeOK,
         \/ StartCommission \/ ReserveRuntime \/ EnsureWorkspace \/ RecordWorkspace
         \/ EnsureAgent \/ RecordAgent \/ AssignPm
  PROVE  TypeOK'
<1> USE DEF tables, tracker
<1>1. CASE StartCommission
  <2>1. (events \in Nat)'
    BY <1>1, EventsMove DEF StartCommission
  <2>2. CommissionOK' /\ RuntimeOK' /\ CallersOK'
    <3>1. CASE NeedsRepair
      BY <1>1, <3>1, CommissionMoves, PartsOfHerdr
         DEF StartCommission, TypeOK, CallersOK, callers
    <3>2. CASE /\ commission' = [NoCommission EXCEPT !.step = "root", !.path = stage]
               /\ UNCHANGED <<runtime, runtimeLease>>
      <4>1. commission' = [step |-> "root", path |-> stage, existing |-> NoRow,
                           session |-> 0]
        BY <3>2 DEF NoCommission
      <4>2. NoRow \in [state : RuntimeStates, workspace : BOOLEAN] /\ 0 \in 0..MaxSessions
        BY PmTurnsAssumption DEF NoRow, RuntimeStates
      <4>3. CommissionOK'
        BY <1>1, <4>1, <4>2, PartsOfHerdr DEF StartCommission, CommissionSteps
      <4> QED BY <1>1, <3>2, <4>3, Frames DEF StartCommission, callers
    <3> QED BY <1>1, <3>1, <3>2 DEF StartCommission
  <2> QED BY <1>1, <2>1, <2>2, Frames DEF StartCommission, TypeOK
<1>2. CASE ReserveRuntime
  <2>1. RuntimeOK'
    BY <1>2, PartsOfHerdr DEF ReserveRuntime, TypeOK, RuntimeOK, RuntimeStates
  <2>2. CommissionOK'
    <3> DEFINE row == [state |-> runtime.state, workspace |-> runtime.workspace]
    <3>1. row \in [state : RuntimeStates, workspace : BOOLEAN]
      BY DEF TypeOK, RuntimeOK
    <3>2. commission' = [commission EXCEPT !.step = "workspace", !.existing = row]
      BY <1>2 DEF ReserveRuntime
    <3> HIDE DEF row
    <3> QED BY <3>1, <3>2, PartsOfHerdr DEF TypeOK, CommissionOK, CommissionSteps
  <2>3. CallersOK'
    BY <1>2, PartsOfHerdr DEF ReserveRuntime, TypeOK, CallersOK, callers
  <2> QED BY <1>2, <2>1, <2>2, <2>3, Frames DEF ReserveRuntime, TypeOK
<1>3. CASE EnsureWorkspace
  <2>1. \/ UNCHANGED workspaces
        \/ workspaces = 0 /\ workspaces' = workspaces + 1
    BY <1>3 DEF EnsureWorkspace, Matching
  <2>2. HerdrOK'
    BY <1>3, <2>1, PartsOfHerdr DEF EnsureWorkspace, TypeOK, HerdrOK
  <2>3. CommissionOK' /\ RuntimeOK' /\ CallersOK'
    <3>1. CASE NeedsRepair
      BY <1>3, <3>1, CommissionMoves, PartsOfHerdr
         DEF EnsureWorkspace, TypeOK, CallersOK, callers
    <3>2. CASE Step("owned") /\ UNCHANGED <<runtime, runtimeLease>>
      BY <1>3, <3>2, CommissionMoves, Frames DEF EnsureWorkspace, CommissionSteps
    <3> QED BY <1>3, <3>1, <3>2 DEF EnsureWorkspace
  <2> QED BY <1>3, <2>2, <2>3, Frames DEF EnsureWorkspace, TypeOK
<1>4. CASE RecordWorkspace
  <2>1. RuntimeOK'
    BY <1>4, PartsOfHerdr DEF RecordWorkspace, TypeOK, RuntimeOK, RuntimeStates
  <2>2. CommissionOK'
    BY <1>4, CommissionMoves DEF RecordWorkspace, CommissionSteps
  <2> QED BY <1>4, <2>1, <2>2, Frames DEF RecordWorkspace, TypeOK
<1>5. CASE EnsureAgent
  <2>1. started' \in 0..MaxSessions /\ agent' \in 0..MaxSessions
    BY <1>5, PmTurnsAssumption DEF EnsureAgent, TypeOK, HerdrOK
  <2>2. CommissionOK'
    BY <1>5, <2>1, PartsOfHerdr DEF EnsureAgent, TypeOK, CommissionOK, CommissionSteps, HerdrOK
  <2>3. HerdrOK'
    BY <1>5, <2>1, PartsOfHerdr DEF EnsureAgent, TypeOK, HerdrOK
  <2> QED BY <1>5, <2>2, <2>3, Frames DEF EnsureAgent, TypeOK
<1>6. CASE RecordAgent
  <2>1. commission.session \in 0..MaxSessions
    BY DEF TypeOK, CommissionOK
  <2>2. RuntimeOK'
    BY <1>6, <2>1, PartsOfHerdr DEF RecordAgent, TypeOK, RuntimeOK, RuntimeStates
  <2>3. CommissionOK'
    BY <1>6, PartsOfHerdr
       DEF RecordAgent, TypeOK, CommissionOK, CommissionSteps, NoRow, RuntimeStates
  <2>4. CallersOK'
    BY <1>6, PartsOfHerdr DEF RecordAgent, TypeOK, CallersOK, callers
  <2> QED BY <1>6, <2>2, <2>3, <2>4, Frames DEF RecordAgent, TypeOK
<1>7. CASE AssignPm
  <2>1. AssignmentOK'
    <3>1. UNCHANGED assignment
          \/ assignment' = [NoAssignment EXCEPT !.state = "idle",
                                                !.session = commission.session]
      BY <1>7 DEF AssignPm
    <3>2. commission.session \in 0..MaxSessions
      BY DEF TypeOK, CommissionOK
    <3> QED BY <3>1, <3>2, PartsTo, Frames DEF NoAssignment
  <2>2. CommissionOK' /\ RuntimeOK' /\ CallersOK'
    <3>1. CASE NeedsRepair
      BY <1>7, <3>1, CommissionMoves, PartsOfHerdr
         DEF AssignPm, TypeOK, CallersOK, callers
    <3>2. CASE /\ runtime' = [runtime EXCEPT !.state = "active"] /\ Stop
               /\ UNCHANGED runtimeLease
      BY <1>7, <3>2, CommissionMoves, Frames DEF AssignPm, RuntimeStates
    <3>3. CASE Step("read") /\ UNCHANGED <<runtime, runtimeLease>>
      BY <1>7, <3>3, CommissionMoves, Frames DEF AssignPm, CommissionSteps
    <3> QED BY <1>7, <3>1, <3>2, <3>3 DEF AssignPm
  <2> QED BY <1>7, <2>1, <2>2, Frames DEF AssignPm, TypeOK
<1> QED BY <1>1, <1>2, <1>3, <1>4, <1>5, <1>6, <1>7

\* The second half: the commissioning turn and the transition.
LEMMA TypeReady ==
  ASSUME TypeOK,
         \/ ReadReady \/ ReserveReady \/ PrepareReady \/ PromptReady \/ ReadyPrompted
         \/ FinishReady \/ ConfirmReady \/ TransitionDelivery \/ Activate
         \/ CommissionFails
  PROVE  TypeOK'
<1> USE DEF tables, tracker
<1>1. CASE ReadReady
  <2>1. CommissionOK'
    BY <1>1, CommissionMoves DEF ReadReady, CommissionSteps
  <2> QED BY <1>1, <2>1, Frames DEF ReadReady, TypeOK, pmVars, herdr
<1>2. CASE ReserveReady
  <2>1. AssignmentOK'
    BY <1>2, Names, AssignmentMoves, Frames DEF ReserveReady
  <2>2. CommissionOK' /\ RuntimeOK' /\ CallersOK'
    <3>1. CASE NeedsRepair
      BY <1>2, <3>1, CommissionMoves, PartsOfHerdr
         DEF ReserveReady, TypeOK, CallersOK, callers
    <3>2. CASE Step("ready") /\ UNCHANGED <<runtime, runtimeLease>>
      BY <1>2, <3>2, CommissionMoves, Frames DEF ReserveReady, CommissionSteps
    <3> QED BY <1>2, <3>1, <3>2 DEF ReserveReady
  <2> QED BY <1>2, <2>1, <2>2, Frames DEF ReserveReady, TypeOK
<1>3. CASE PrepareReady
  <2>1. ReceiptOK'
    <3>1. \/ UNCHANGED receipt
          \/ receipt' = [receipt EXCEPT ![Ready] = "dispatching"]
          \/ receipt' = [receipt EXCEPT ![Ready] = "prompted"]
      BY <1>3 DEF PrepareReady
    <3> QED BY <3>1, PartsTo, Frames DEF TypeOK, ReceiptOK, Receipts
  <2>2. CommissionOK' /\ RuntimeOK' /\ CallersOK'
    <3>1. CASE NeedsRepair
      BY <1>3, <3>1, CommissionMoves, PartsOfHerdr
         DEF PrepareReady, TypeOK, CallersOK, callers
    <3>2. CASE Step("prompt") /\ UNCHANGED runtime /\ runtimeLease' = Ready
      BY <1>3, <3>2, CommissionMoves, PartsOfHerdr, Frames
         DEF PrepareReady, CommissionSteps, TypeOK, CallersOK, callers
    <3>3. CASE Awaiting /\ Step("reread") /\ UNCHANGED runtimeLease
      BY <1>3, <3>3, CommissionMoves, Frames
         DEF PrepareReady, Awaiting, CommissionSteps, RuntimeStates
    <3> QED BY <1>3, <3>1, <3>2, <3>3 DEF PrepareReady
  <2> QED BY <1>3, <2>1, <2>2, Frames DEF PrepareReady, TypeOK
<1>4. CASE PromptReady
  <2>1. ReceiptOK'
    <3>1. \/ UNCHANGED receipt
          \/ receipt' = [receipt EXCEPT ![Ready] = "rejected"]
      BY <1>4 DEF PromptReady, Prompted, PromptFails
    <3> QED BY <3>1, PartsTo, Frames DEF TypeOK, ReceiptOK, Receipts
  <2>2. HerdrOK'
    <3>1. prompts' \in [Turns -> [Sessions -> Nat]] /\ late' \subseteq Turns
      BY <1>4, Names, PromptMoves DEF PromptReady, Prompted, PromptFails, TypeOK, HerdrOK
    <3> QED BY <1>4, <3>1, PartsOfHerdr DEF PromptReady, TypeOK, HerdrOK
  <2>3. (events \in Nat)'
    BY <1>4, EventsMove DEF PromptReady, Prompted, PromptFails, Trouble, TypeOK
  <2>4. CommissionOK' /\ RuntimeOK' /\ CallersOK'
    <3>1. CASE Step("wait") /\ UNCHANGED <<runtime, runtimeLease>>
      BY <1>4, <3>1, CommissionMoves, Frames DEF PromptReady, CommissionSteps
    <3>2. CASE Awaiting /\ Step("reread") /\ runtimeLease' = None
      BY <1>4, <3>2, CommissionMoves, PartsOfHerdr
         DEF PromptReady, Awaiting, CommissionSteps, RuntimeStates, TypeOK, CallersOK,
             callers
    <3> QED BY <1>4, <3>1, <3>2 DEF PromptReady
  <2> QED BY <1>4, <2>1, <2>2, <2>3, <2>4, Frames DEF PromptReady, TypeOK
<1>5. CASE ReadyPrompted
  <2>1. ReceiptOK'
    BY <1>5, PartsTo DEF ReadyPrompted, TypeOK, ReceiptOK, Receipts
  <2>2. CommissionOK' /\ RuntimeOK'
    BY <1>5, CommissionMoves DEF ReadyPrompted, Awaiting, CommissionSteps, RuntimeStates
  <2>3. CallersOK'
    BY <1>5, PartsOfHerdr DEF ReadyPrompted, TypeOK, CallersOK, callers
  <2> QED BY <1>5, <2>1, <2>2, <2>3, Frames DEF ReadyPrompted, TypeOK
<1>6. CASE FinishReady
  <2>1. AssignmentOK'
    BY <1>6, Names, AssignmentMoves, Frames DEF FinishReady
  <2>2. CommissionOK' /\ RuntimeOK' /\ CallersOK'
    <3>1. CASE NeedsRepair
      BY <1>6, <3>1, CommissionMoves, PartsOfHerdr
         DEF FinishReady, TypeOK, CallersOK, callers
    <3>2. CASE Step("confirm") /\ UNCHANGED <<runtime, runtimeLease>>
      BY <1>6, <3>2, CommissionMoves, Frames DEF FinishReady, CommissionSteps
    <3> QED BY <1>6, <3>1, <3>2 DEF FinishReady
  <2> QED BY <1>6, <2>1, <2>2, Frames DEF FinishReady, TypeOK
<1>7. CASE ConfirmReady
  <2>1. RuntimeOK'
    BY <1>7, PartsOfHerdr DEF ConfirmReady, TypeOK, RuntimeOK, RuntimeStates
  <2>2. CommissionOK'
    BY <1>7, CommissionMoves DEF ConfirmReady, CommissionSteps
  <2> QED BY <1>7, <2>1, <2>2, Frames DEF ConfirmReady, TypeOK
<1>8. CASE TransitionDelivery
  <2>1. OutboxOK'
    BY <1>8, Names, OutboxMoves DEF TransitionDelivery
  <2>2. CommissionOK'
    BY <1>8, CommissionMoves DEF TransitionDelivery, CommissionSteps
  <2> QED BY <1>8, <2>1, <2>2, Frames DEF TransitionDelivery, TypeOK, herdr
<1>9. CASE Activate
  <2>1. CommissionOK' /\ RuntimeOK'
    BY <1>9, CommissionMoves, Frames DEF Activate, RuntimeStates
  <2> QED BY <1>9, <2>1, Frames DEF Activate, TypeOK
<1>10. CASE CommissionFails
  <2>1. (events \in Nat)' /\ CommissionOK'
    BY <1>10, EventsMove, CommissionMoves DEF CommissionFails, Trouble
  <2>2. CallersOK'
    BY <1>10, PartsOfHerdr DEF CommissionFails, Released, TypeOK, CallersOK, callers
  <2> QED BY <1>10, <2>1, <2>2, Frames DEF CommissionFails, TypeOK, herdr
<1> QED BY <1>1, <1>2, <1>3, <1>4, <1>5, <1>6, <1>7, <1>8, <1>9, <1>10

LEMMA TypeStep ==
  ASSUME TypeOK, QuestionInv, [Next]_vars
  PROVE  TypeOK'
<1>1. CASE Next
  BY <1>1, TypeTurn, TypePm, TypeEffect, TypeAgentExits, TypeCrash, TypeWorkspaceCloses,
     TypeRoot, TypeReady DEF Next, CommissionStep
<1>2. CASE UNCHANGED vars
  BY <1>2, Frames DEF vars, pmVars, TypeOK, tables, tracker, herdr
<1> QED BY <1>1, <1>2

-----------------------------------------------------------------------------
(***************************************************************************)
(* How effects live: what a step may do to their intents and attempts.     *)
(***************************************************************************)

Starts(e) == intent[e] = "none" /\ intent'[e] # "none"
Finishes(e) == at[e] # "done" /\ at'[e] = "done"
Handled(r) == Question(r) => intent[<<"wake", r>>] = "succeeded"

\* An effect is queued once, and is succeeded for good after its completion; only an order
\* may be given again.
Lives ==
  /\ \A e \in Effects :
       /\ intent[e] # "none" => intent'[e] # "none"
       /\ intent[e] = "succeeded" =>
            intent'[e] = "succeeded" \/ \E m \in Orders : e = <<"order", m>>
       /\ at'[e] # "rest" => intent'[e] = "pending"
       /\ intent'[e] = "succeeded" =>
            \/ intent[e] = "succeeded" \/ at[e] = "done"
            \/ \E r \in Reports : e = <<"wake", r>>
  /\ \A r \in Reports : at'[<<"wake", r>>] = "rest"

\* What an effect is queued upon.
StartsDuly ==
  /\ \A r \in AllReports : Starts(<<"report", r>>) => r = call.of /\ call' = NoCall
  /\ \A r \in AllReports : Starts(<<"stage", r>>) =>
       \/ at[<<"report", r>>] = "seen" /\ report[r].to # "none"
       \/ r = Ready /\ commission.step = "transition"
  /\ \A q \in Reports : Starts(<<"answer", q>>) => answer'[q].outcome \in Outcomes
  /\ \A q \in Reports, o \in Outcomes : Starts(<<"resume", <<q, o>>>>) =>
       at[<<"answer", q>>] = "applied" /\ o = CurrentAnswer(q) /\ UNCHANGED answer

\* What an effect is completed upon.
FinishesDuly ==
  /\ \A r \in Reports : Finishes(<<"report", r>>) => report[r].to # "none" \/ Handled(r)
  /\ \A r \in Reports : Finishes(<<"stage", r>>) => Handled(r)
  /\ \A q \in Reports : Finishes(<<"answer", q>>) =>
       at[<<"answer", q>>] = "applied" /\ intent'[<<"resume", <<q, CurrentAnswer(q)>>>>] # "none"

EffectsLive == Lives /\ StartsDuly /\ FinishesDuly

\* Effects of different kinds, or of different objects, are different.
LEMMA Apart ==
  \A a, b, x, y : <<a, x>> = <<b, y>> => a = b /\ x = y
  OBVIOUS

\* A step that leaves the outbox alone, or only ends attempts.
LEMMA LiveQuiet ==
  ASSUME TypeOK, EffectInv, UNCHANGED intent,
         \A e \in Effects : at'[e] \in {at[e], "rest"}
  PROVE  EffectsLive
  BY Names DEF EffectsLive, Lives, StartsDuly, FinishesDuly, Starts, Finishes, EffectInv

\* A step that moves one attempt on, short of the end.
LEMMA LiveMove ==
  ASSUME TypeOK, EffectInv, UNCHANGED intent,
         NEW e \in Effects, intent[e] = "pending", \A r \in Reports : e # <<"wake", r>>,
         NEW s \in AttemptSteps \ {"done"}, GoTo(e, s)
  PROVE  EffectsLive
<1>1. \A f \in Effects : at'[f] = IF f = e THEN s ELSE at[f]
  BY DEF GoTo, TypeOK, OutboxOK
<1> QED
  BY <1>1, Names DEF EffectsLive, Lives, StartsDuly, FinishesDuly, Starts, Finishes, EffectInv

LEMMA LiveDies ==
  ASSUME TypeOK, EffectInv, NEW e \in Effects, intent[e] = "pending", Dies(e)
  PROVE  EffectsLive
<1>1. \A f \in Effects : /\ at'[f] = IF f = e THEN "rest" ELSE at[f]
                         /\ intent'[f] = IF f = e THEN "dead" ELSE intent[f]
  BY DEF Dies, GoTo, TypeOK, OutboxOK
<1> QED
  BY <1>1, Names DEF EffectsLive, Lives, StartsDuly, FinishesDuly, Starts, Finishes, EffectInv

LEMMA LiveTurn ==
  ASSUME TypeOK, EffectInv, TurnStep
  PROVE  EffectsLive
<1>1. ASSUME NEW t \in Plain, BeginPmTurn(t) PROVE EffectsLive
  BY <1>1, LiveQuiet DEF BeginPmTurn, outbox
<1>2. CASE EnqueueResume
  <2> DEFINE e == <<"resume", coordinator>>
  <2>1. /\ e \in Effects /\ coordinator \in Plain
        /\ \A q \in Reports, o \in Outcomes : coordinator # <<q, o>>
    BY <1>2, Names, PmTurnsAssumption DEF EnqueueResume, TypeOK, CallersOK
  <2>2. \A f \in Effects :
          /\ at'[f] = at[f]
          /\ intent'[f] = IF f = e /\ intent[e] = "none" THEN "pending" ELSE intent[f]
    BY <1>2, <2>1 DEF EnqueueResume, Enqueued, TypeOK, OutboxOK
  <2> QED
    BY <2>1, <2>2, Names
       DEF EffectsLive, Lives, StartsDuly, FinishesDuly, Starts, Finishes, EffectInv
<1>3. ASSUME NEW t \in Turns \ {Ready},
             Readback(t) \/ Prepare(t) \/ Prompt(t) \/ ConfirmPrompt(t)
      PROVE  EffectsLive
  <2> DEFINE e == <<"resume", t>>
  <2>1. e \in Effects /\ \A r \in Reports : e # <<"wake", r>>
    BY Names
  <2>2. intent[e] = "pending" /\ UNCHANGED intent
    BY <1>3, <2>1 DEF Readback, Prepare, Prompt, ConfirmPrompt, EffectInv
  <2>3. \/ UNCHANGED at
        \/ \E s \in {"seen", "prompt", "prompted", "rest"} : GoTo(e, s)
    BY <1>3 DEF Readback, Prepare, Prompt, ConfirmPrompt
  <2> QED BY <2>1, <2>2, <2>3, LiveMove, LiveQuiet DEF AttemptSteps
<1>4. ASSUME NEW t \in Turns \ {Ready}, BeginTurn(t) PROVE EffectsLive
  <2> DEFINE e == <<"resume", t>>
  <2>1. e \in Effects
    BY Names
  <2>2. intent[e] = "pending"
    BY <1>4, <2>1 DEF BeginTurn, EffectInv
  <2>3. CASE Dies(e)
    BY <2>1, <2>2, <2>3, LiveDies
  <2>4. CASE GoTo(e, "done") /\ UNCHANGED intent
    <3>1. \A f \in Effects : at'[f] = IF f = e THEN "done" ELSE at[f]
      BY <2>4 DEF GoTo, TypeOK, OutboxOK
    <3> QED
      BY <3>1, <2>2, <2>4, Names
         DEF EffectsLive, Lives, StartsDuly, FinishesDuly, Starts, Finishes, EffectInv
  <2> QED BY <1>4, <2>3, <2>4 DEF BeginTurn
<1>5. ASSUME NEW t \in Turns, LatePrompt(t) PROVE EffectsLive
  BY <1>5, LiveQuiet DEF LatePrompt, outbox
<1> QED BY <1>1, <1>2, <1>3, <1>4, <1>5 DEF TurnStep

LEMMA LivePm ==
  ASSUME TypeOK, EffectInv, PmStep
  PROVE  EffectsLive
<1>1. CASE EnqueueReport
  <2> DEFINE e == <<"report", call.of>>
  <2>1. e \in Effects
    BY <1>1, Names DEF EnqueueReport, TypeOK, CallersOK, CallRecords
  <2>2. \A f \in Effects :
          /\ at'[f] = at[f]
          /\ intent'[f] = IF f = e /\ intent[e] = "none" THEN "pending" ELSE intent[f]
    BY <1>1, <2>1 DEF EnqueueReport, Enqueued, TypeOK, OutboxOK
  <2>3. call' = NoCall
    BY <1>1 DEF EnqueueReport
  <2> QED
    BY <2>1, <2>2, <2>3, Names
       DEF EffectsLive, Lives, StartsDuly, FinishesDuly, Starts, Finishes, EffectInv
<1>2. CASE ~EnqueueReport
  <2>1. UNCHANGED outbox
    BY <1>2 DEF PmStep, ReportPm, CompleteDispatch, AcknowledgeDecision, SaveAcknowledgment,
                FollowAnswer
  <2> QED BY <2>1, LiveQuiet DEF outbox
<1> QED BY <1>1, <1>2

LEMMA LiveReport ==
  ASSUME TypeOK, EffectInv, NEW r \in AllReports,
         WriteReport(r) \/ CompleteReport(r) \/ WriteStage(r) \/ CompleteStage(r)
  PROVE  EffectsLive
<1> DEFINE e == <<"report", r>>
           f == <<"stage", r>>
<1>1. /\ e \in Effects /\ f \in Effects
      /\ \A q \in Reports : e # <<"wake", q>> /\ f # <<"wake", q>>
  BY Names
<1>2. ASSUME NEW g \in {e, f}, intent[g] = "pending",
             FinalizeReport(g, r), UNCHANGED report, r = Ready => report[r].to = "none"
      PROVE  EffectsLive
  <2>1. CASE Dies(g)
    BY <1>1, <1>2, <2>1, LiveDies
  <2>2. CASE GoTo(g, IF Question(r) THEN "route" ELSE "done") /\ UNCHANGED intent
    <3>1. CASE Question(r)
      BY <1>1, <1>2, <2>2, <3>1, LiveMove DEF AttemptSteps
    <3>2. CASE ~Question(r)
      <4>1. \A h \in Effects : at'[h] = IF h = g THEN "done" ELSE at[h]
        BY <2>2, <3>2 DEF GoTo, TypeOK, OutboxOK
      <4>2. Lives
        BY <1>1, <1>2, <2>2, <4>1, Names DEF Lives, EffectInv
      <4>3. StartsDuly
        BY <2>2, Names DEF StartsDuly, Starts
      <4>4. \A h \in Effects : Finishes(h) => h = g
        BY <4>1 DEF Finishes
      <4>5. \A q \in AllReports :
              Finishes(<<"report", q>>) \/ Finishes(<<"stage", q>>) => q = r
        BY <1>2, <4>4, Names
      <4>6. \A q \in Reports : ~Finishes(<<"answer", q>>)
        <5>1. \A q \in Reports : <<"answer", q>> # e /\ <<"answer", q>> # f
          OBVIOUS
        <5>2. g = e \/ g = f
          BY <1>2
        <5> HIDE DEF e, f
        <5> QED BY <4>4, <5>1, <5>2, Names
      <4>7. Handled(r)
        BY <3>2 DEF Handled
      <4>8. FinishesDuly
        BY <4>5, <4>6, <4>7, Names DEF FinishesDuly
      <4> QED BY <4>2, <4>3, <4>8 DEF EffectsLive
    <3> QED BY <3>1, <3>2
  <2> QED BY <1>2, <2>1, <2>2 DEF FinalizeReport
<1>3. CASE WriteReport(r) \/ WriteStage(r)
  BY <1>1, <1>3, LiveMove DEF WriteReport, WriteStage, AttemptSteps
<1>4. CASE CompleteReport(r)
  <2>1. intent[e] = "pending" /\ at[e] = "seen" /\ UNCHANGED report
    BY <1>1, <1>4 DEF CompleteReport, EffectInv, tracker
  <2>2. CASE report[r].to = "none"
    BY <1>2, <1>4, <2>1, <2>2 DEF CompleteReport
  <2>3. CASE report[r].to # "none"
    <3>1. \A h \in Effects :
            /\ at'[h] = IF h = e THEN "done" ELSE at[h]
            /\ intent'[h] = IF h = f /\ intent[f] = "none" THEN "pending" ELSE intent[h]
      BY <1>1, <1>4, <2>3 DEF CompleteReport, Enqueued, GoTo, TypeOK, OutboxOK
    <3> QED
      BY <1>1, <2>1, <2>3, <3>1, Names
         DEF EffectsLive, Lives, StartsDuly, FinishesDuly, Starts, Finishes, EffectInv
  <2> QED BY <2>2, <2>3
<1>5. CASE CompleteStage(r)
  <2>1. intent[f] = "pending" /\ UNCHANGED report
    BY <1>1, <1>5 DEF CompleteStage, EffectInv, tracker
  <2>2. CASE r = Ready
    <3>1. UNCHANGED intent /\ \A h \in Effects : at'[h] = IF h = f THEN "done" ELSE at[h]
      BY <1>1, <1>5, <2>2 DEF CompleteStage, GoTo, TypeOK, OutboxOK
    <3> QED
      BY <1>1, <2>1, <2>2, <3>1, Names
         DEF EffectsLive, Lives, StartsDuly, FinishesDuly, Starts, Finishes, EffectInv
  <2>3. CASE r # Ready
    BY <1>2, <1>5, <2>1, <2>3 DEF CompleteStage
  <2> QED BY <2>2, <2>3
<1> QED BY <1>3, <1>4, <1>5

LEMMA LiveQuestion ==
  ASSUME TypeOK, EffectInv, AnswerInv, NEW q \in Reports,
         \/ RouteQuestion(q) \/ WakeCeo(q)
         \/ \E o \in Outcomes : AnswerQuestion(q, o)
         \/ WriteAnswer(q) \/ ApplyAnswer(q) \/ EnqueueDecisionResume(q) \/ EndGrant(q)
  PROVE  EffectsLive
<1> DEFINE e == <<"answer", q>>
           w == <<"wake", q>>
<1>1. e \in Effects /\ w \in Effects /\ \A r \in Reports : e # <<"wake", r>>
  BY Names
<1>2. CASE RouteQuestion(q)
  <2>1. PICK g \in {<<"report", q>>, <<"stage", q>>} :
          /\ at[g] = "route" /\ intent' = Enqueued(w)
          /\ IF Routed(q) THEN GoTo(g, "done") ELSE UNCHANGED at
    BY <1>2 DEF RouteQuestion
  <2>2. g \in Effects /\ intent[g] = "pending"
    BY <2>1, Names DEF EffectInv
  <2>3. \A h \in Effects :
          /\ at'[h] = IF h = g /\ Routed(q) THEN "done" ELSE at[h]
          /\ intent'[h] = IF h = w /\ intent[w] = "none" THEN "pending" ELSE intent[h]
    BY <1>1, <2>1, <2>2 DEF Enqueued, GoTo, TypeOK, OutboxOK
  <2>4. Lives
    BY <1>1, <2>1, <2>2, <2>3, Names DEF Lives, EffectInv
  <2>5. StartsDuly
    BY <2>3, Names DEF StartsDuly, Starts
  <2>6. \A h \in Effects : Finishes(h) => h = g /\ Routed(q)
    BY <2>3 DEF Finishes
  <2>7. \A r \in Reports :
          Finishes(<<"report", r>>) \/ Finishes(<<"stage", r>>) => r = q /\ Handled(q)
    BY <2>1, <2>6, Names DEF Handled, Routed
  <2>8. \A r \in Reports : ~Finishes(<<"answer", r>>)
    <3>1. \A r \in Reports : <<"answer", r>> # <<"report", q>> /\ <<"answer", r>> # <<"stage", q>>
      OBVIOUS
    <3>2. \A r \in Reports : <<"answer", r>> # g
      BY <2>1, <3>1
    <3> QED BY <2>6, <3>2, Names
  <2>9. FinishesDuly
    BY <2>7, <2>8 DEF FinishesDuly
  <2> QED BY <2>4, <2>5, <2>9 DEF EffectsLive
<1>3. CASE WakeCeo(q)
  <2>1. \A h \in Effects :
          at'[h] = at[h] /\ intent'[h] = IF h = w THEN "succeeded" ELSE intent[h]
    BY <1>1, <1>3 DEF WakeCeo, TypeOK, OutboxOK
  <2> QED
    BY <1>1, <1>3, <2>1, Names
       DEF EffectsLive, Lives, StartsDuly, FinishesDuly, Starts, Finishes, EffectInv, WakeCeo
<1>4. ASSUME NEW o \in Outcomes, AnswerQuestion(q, o) PROVE EffectsLive
  <2>1. \A h \in Effects :
          at'[h] = at[h] /\ intent'[h] = IF h = e THEN "pending" ELSE intent[h]
    BY <1>1, <1>4 DEF AnswerQuestion, Enqueued, TypeOK, OutboxOK
  <2>2. answer'[q].outcome \in Outcomes /\ intent[e] = "none"
    BY <1>4 DEF AnswerQuestion, TypeOK, AnswerOK
  <2> QED
    BY <1>1, <2>1, <2>2, Names
       DEF EffectsLive, Lives, StartsDuly, FinishesDuly, Starts, Finishes, EffectInv
<1>5. CASE WriteAnswer(q)
  BY <1>1, <1>5, LiveMove DEF WriteAnswer, AttemptSteps
<1>6. CASE ApplyAnswer(q)
  <2>1. intent[e] = "pending"
    BY <1>1, <1>6 DEF ApplyAnswer, EffectInv
  <2> QED BY <1>1, <1>6, <2>1, LiveMove, LiveDies DEF ApplyAnswer, AttemptSteps
<1>7. CASE EnqueueDecisionResume(q)
  <2> DEFINE g == <<"resume", <<q, CurrentAnswer(q)>>>>
  <2>1. intent[e] = "pending" /\ at[e] = "applied" /\ UNCHANGED answer
    BY <1>1, <1>7 DEF EnqueueDecisionResume, EffectInv, tracker
  <2>2. g \in Effects
    <3>1. CurrentAnswer(q) \in Outcomes
      BY <1>1, <2>1 DEF AnswerInv, AnswerOf, CurrentAnswer, Outcomes
    <3> QED BY <3>1, Names
  <2>3. \A h \in Effects :
          /\ at'[h] = IF h = e THEN "done" ELSE at[h]
          /\ intent'[h] = IF h = g /\ intent[g] = "none" THEN "pending" ELSE intent[h]
    BY <1>1, <1>7, <2>2 DEF EnqueueDecisionResume, AnswerResume, Enqueued, GoTo, TypeOK, OutboxOK
  <2>4. Lives
    BY <1>1, <2>1, <2>3, Names DEF Lives, EffectInv
  <2>5. \A h \in Effects : Starts(h) => h = g
    BY <2>3 DEF Starts
  <2>6. StartsDuly
    BY <2>1, <2>5, Names, Apart DEF StartsDuly
  <2>7. \A h \in Effects : Finishes(h) => h = e
    BY <2>3 DEF Finishes
  <2>8. intent'[g] # "none"
    BY <2>2, <2>3
  <2>9. FinishesDuly
    BY <2>1, <2>7, <2>8, Names, Apart DEF FinishesDuly
  <2> QED BY <2>4, <2>6, <2>9 DEF EffectsLive
<1>8. CASE EndGrant(q)
  BY <1>8, LiveQuiet DEF EndGrant, outbox
<1> QED BY <1>2, <1>3, <1>4, <1>5, <1>6, <1>7, <1>8

LEMMA LiveOrder ==
  ASSUME TypeOK, EffectInv, NEW m \in Orders, OrderStage(m) \/ WriteOrder(m)
  PROVE  EffectsLive
<1> DEFINE e == <<"order", m>>
<1>1. /\ e \in Effects
      /\ \A r \in AllReports : e # <<"report", r>> /\ e # <<"stage", r>>
      /\ \A q \in Reports : e # <<"wake", q>> /\ e # <<"answer", q>>
      /\ \A t : e # <<"resume", t>>
  BY Names
<1>2. \A f \in Effects : f # e => at'[f] = at[f] /\ intent'[f] = intent[f]
  BY DEF OrderStage, WriteOrder, GoTo, TypeOK, OutboxOK, outbox
<1>3. /\ intent'[e] = "pending"
      /\ at'[e] # at[e] => intent[e] = "pending"
  BY <1>1 DEF OrderStage, WriteOrder, GoTo, TypeOK, OutboxOK
<1>4. \A f \in Effects : f # e => ~Starts(f) /\ ~Finishes(f)
  BY <1>2 DEF Starts, Finishes
<1>5. Lives
  <2>1. ASSUME NEW f \in Effects
        PROVE  /\ intent[f] # "none" => intent'[f] # "none"
               /\ intent[f] = "succeeded" => intent'[f] = "succeeded" \/ f = e
               /\ at'[f] # "rest" => intent'[f] = "pending"
               /\ intent'[f] = "succeeded" => intent[f] = "succeeded"
    BY <1>2, <1>3, <2>1 DEF EffectInv
  <2>2. \A r \in Reports : at'[<<"wake", r>>] = "rest"
    BY <1>1, <1>2, Names DEF EffectInv
  <2> HIDE DEF e
  <2> QED BY <2>1, <2>2 DEF Lives, e
<1> HIDE DEF e
<1> QED BY <1>1, <1>4, <1>5, Names DEF EffectsLive, StartsDuly, FinishesDuly

LEMMA LiveAttempt ==
  ASSUME TypeOK, EffectInv, NEW e \in Effects, Acknowledge(e) \/ Fail(e) \/ RepairEffect(e)
  PROVE  EffectsLive
<1>1. \A f \in Effects : f # e => at'[f] = at[f] /\ intent'[f] = intent[f]
  BY DEF Acknowledge, Fail, RepairEffect, Dies, GoTo, TypeOK, OutboxOK
<1>2. /\ at'[e] \in {at[e], "rest"}
      /\ at'[e] # "rest" => intent'[e] = "pending"
      /\ intent[e] \in {"pending", "dead"} /\ intent'[e] # "none"
      /\ intent'[e] = "succeeded" => at[e] = "done"
  BY DEF Acknowledge, Fail, RepairEffect, Dies, GoTo, TypeOK, OutboxOK, EffectInv
<1>3. Lives
  <2>1. ASSUME NEW f \in Effects
        PROVE  /\ intent[f] # "none" => intent'[f] # "none"
               /\ intent[f] = "succeeded" => intent'[f] = "succeeded"
               /\ at'[f] # "rest" => intent'[f] = "pending"
               /\ intent'[f] = "succeeded" => intent[f] = "succeeded" \/ at[f] = "done"
               /\ at[f] = "rest" => at'[f] = "rest"
    BY <1>1, <1>2 DEF EffectInv
  <2> QED BY <2>1, Names DEF Lives, EffectInv
<1>4. \A f \in Effects : ~Starts(f) /\ ~Finishes(f)
  BY <1>1, <1>2 DEF Starts, Finishes
<1> QED BY <1>3, <1>4, Names DEF EffectsLive, StartsDuly, FinishesDuly

LEMMA LiveStep ==
  ASSUME TypeOK, EffectInv, AnswerInv, [Next]_vars
  PROVE  EffectsLive
<1>1. CASE CommissionStep
  <2>1. CASE TransitionDelivery
    <3> DEFINE e == <<"stage", Ready>>
    <3>1. /\ e \in Effects /\ commission.step = "transition"
          /\ \A r \in Reports : e # <<"wake", r>>
      BY <2>1, Names DEF TransitionDelivery
    <3>2. \A f \in Effects :
            /\ at'[f] = at[f]
            /\ intent'[f] = IF f = e /\ intent[e] = "none" THEN "pending" ELSE intent[f]
      BY <2>1, <3>1 DEF TransitionDelivery, Enqueued, TypeOK, OutboxOK
    <3> QED
      BY <3>1, <3>2, Names
         DEF EffectsLive, Lives, StartsDuly, FinishesDuly, Starts, Finishes, EffectInv
  <2>2. CASE ~TransitionDelivery
    <3>1. CASE \/ StartCommission \/ ReserveRuntime \/ EnsureWorkspace \/ RecordWorkspace
               \/ EnsureAgent \/ RecordAgent \/ AssignPm
      <4>1. UNCHANGED outbox
        BY <3>1 DEF StartCommission, ReserveRuntime, EnsureWorkspace, RecordWorkspace,
                    EnsureAgent, RecordAgent, AssignPm
      <4> QED BY <4>1, LiveQuiet DEF outbox
    <3>2. CASE \/ ReserveReady \/ PrepareReady \/ PromptReady \/ ReadyPrompted
               \/ FinishReady \/ ConfirmReady \/ Activate \/ CommissionFails
      <4>1. UNCHANGED outbox
        BY <3>2 DEF ReserveReady, PrepareReady, PromptReady, ReadyPrompted, FinishReady,
                    ConfirmReady, Activate, CommissionFails
      <4> QED BY <4>1, LiveQuiet DEF outbox
    <3>3. CASE ReadReady
      BY <3>3, LiveQuiet DEF ReadReady, pmVars, outbox
    <3> QED BY <1>1, <2>2, <3>1, <3>2, <3>3 DEF CommissionStep
  <2> QED BY <2>1, <2>2
<1>2. CASE Crash
  <2>1. UNCHANGED intent /\ \A e \in Effects : at'[e] = "rest"
    BY <1>2 DEF Crash, PmCrash
  <2> QED BY <2>1, LiveQuiet
<1>3. CASE WorkspaceCloses \/ AgentExits \/ UNCHANGED vars
  <2>1. UNCHANGED outbox
    BY <1>3 DEF WorkspaceCloses, AgentExits, vars, pmVars
  <2> QED BY <2>1, LiveQuiet DEF outbox
<1>4. CASE EffectStep
  BY <1>4, LiveReport, LiveQuestion, LiveOrder, LiveAttempt DEF EffectStep
<1> QED BY <1>1, <1>2, <1>3, <1>4, LiveTurn, LivePm DEF Next

LEMMA EffectStepInv ==
  ASSUME TypeOK, EffectInv, AnswerInv, [Next]_vars
  PROVE  EffectInv'
  BY LiveStep DEF EffectsLive, Lives, EffectInv

-----------------------------------------------------------------------------
(***************************************************************************)
(* Prompts.                                                                *)
(***************************************************************************)

\* The prompt of a turn does not go on in this step, though its attempt may end.
Still(t) ==
  /\ prompts'[t] = prompts[t] /\ receipt'[t] = receipt[t]
  /\ t \in late' => t \in late
  /\ IF t = Ready
     THEN commission'.step \in {"prompt", "wait"} => commission'.step = commission.step
     ELSE \/ at'[<<"resume", t>>] \in {at[<<"resume", t>>], "rest"}
          \/ at[<<"resume", t>>] = "seen" /\ at'[<<"resume", t>>] = "done"

\* A prompt that was confirmed stays confirmed.
Confirmed == \A t \in Turns : receipt[t] = "prompted" => receipt'[t] = "prompted"

LEMMA StillOf ==
  ASSUME NEW t \in Turns, PromptOf(t), Still(t), UNCHANGED started
  PROVE  PromptOf(t)' /\ (receipt[t] = "prompted" => receipt'[t] = "prompted")
<1>1. Asks(t)' => Asks(t)
  BY DEF Still, Asks, PromptStep
<1>2. Sent(t)' => Sent(t)
  BY DEF Still, Sent, PromptStep
<1>3. Seen(t)' => Seen(t)
  BY DEF Still, Seen, PromptStep
<1>4. (Unseen(t)' <=> Unseen(t)) /\ (Taken(t)' <=> Taken(t))
  BY DEF Still, Unseen, Taken
<1> QED BY <1>1, <1>2, <1>3, <1>4 DEF PromptOf, Still

\* Nobody's prompt goes on.
LEMMA StillAll ==
  ASSUME PromptInv, UNCHANGED started, agent' \in {0, agent}, \A t \in Turns : Still(t)
  PROVE  PromptInv' /\ Confirmed
  BY StillOf DEF PromptInv, Confirmed

\* The prompt of one turn goes on.
LEMMA StillOthers ==
  ASSUME PromptInv, UNCHANGED <<started, agent>>, NEW t \in Turns,
         \A u \in Turns \ {t} : Still(u),
         PromptOf(t)', receipt[t] = "prompted" => receipt'[t] = "prompted"
  PROVE  PromptInv' /\ Confirmed
  BY StillOf DEF PromptInv, Confirmed

\* The agent that runs is the one started last; what takes a prompt in now is alone.
LEMMA AgentRuns ==
  ASSUME TypeOK, PromptInv, NEW t \in Turns, agent # 0
  PROVE  /\ agent = started /\ agent \in Sessions
         /\ prompts[t] \in [Sessions -> Nat]
         /\ MarkerVisible(t) => Taken(t) /\ ~Unseen(t)
         /\ ~MarkerVisible(t) => Unseen(t)
         /\ Unseen(t) /\ Takes(t) =>
              /\ \A u \in Turns \ {t} : prompts'[u] = prompts[u]
              /\ Taken(t)' /\ prompts'[t] \in [Sessions -> Nat]
              /\ \A s \in Sessions :
                   prompts'[t][s] <= 1 /\ (s > started => prompts'[t][s] = 0)
<1>1. agent = started /\ agent \in Sessions /\ prompts[t] \in [Sessions -> Nat]
  BY PmTurnsAssumption DEF TypeOK, HerdrOK, PromptInv, Sessions
<1>2. \A s \in Sessions : prompts[t][s] <= 1 /\ (s > started => prompts[t][s] = 0)
  BY DEF PromptInv, PromptOf
<1>3. MarkerVisible(t) => Taken(t) /\ ~Unseen(t)
  <2>1. ASSUME MarkerVisible(t) PROVE prompts[t][agent] = 1
    BY <1>1, <1>2, <2>1 DEF MarkerVisible
  <2> QED BY <1>1, <2>1 DEF Taken, Unseen, Sessions
<1>4. ~MarkerVisible(t) => Unseen(t)
  BY <1>1, <1>2, PmTurnsAssumption DEF MarkerVisible, Unseen, Sessions
<1>5. ASSUME Unseen(t), Takes(t)
      PROVE  /\ \A u \in Turns \ {t} : prompts'[u] = prompts[u]
             /\ Taken(t)' /\ prompts'[t] \in [Sessions -> Nat]
             /\ \A s \in Sessions :
                  prompts'[t][s] <= 1 /\ (s > started => prompts'[t][s] = 0)
  <2>1. prompts[t][agent] = 0
    BY <1>1, <1>5 DEF Unseen, Sessions
  <2>2. /\ \A u \in Turns \ {t} : prompts'[u] = prompts[u]
        /\ prompts'[t] = [prompts[t] EXCEPT ![agent] = prompts[t][agent] + 1]
    BY <1>5 DEF Takes, TypeOK, HerdrOK
  <2>3. \A s \in Sessions : prompts'[t][s] = IF s = agent THEN 1 ELSE prompts[t][s]
    BY <1>1, <2>1, <2>2
  <2>4. Taken(t)'
    BY <1>1, <2>3 DEF Taken
  <2>5. prompts'[t] \in [Sessions -> Nat]
    BY <1>1, <2>1, <2>2
  <2>6. \A s \in Sessions : prompts'[t][s] <= 1 /\ (s > started => prompts'[t][s] = 0)
    BY <1>1, <1>2, <2>3 DEF Sessions
  <2> QED BY <2>2, <2>4, <2>5, <2>6
<1> QED BY <1>1, <1>3, <1>4, <1>5

\* The steps of a turn's own resume.
LEMMA PromptTurn ==
  ASSUME TypeOK, PromptInv, TurnStep, UNCHANGED <<workspaces, started, commission>>
  PROVE  PromptInv' /\ Confirmed
<1>1. ASSUME NEW t \in Plain, BeginPmTurn(t) PROVE PromptInv' /\ Confirmed
  BY <1>1, StillAll DEF BeginPmTurn, Still, tables, outbox, herdr
<1>2. CASE EnqueueResume
  BY <1>2, StillAll DEF EnqueueResume, Still, tables, herdr
<1>3. ASSUME NEW t \in Turns \ {Ready},
             Readback(t) \/ Prepare(t) \/ Prompt(t) \/ ConfirmPrompt(t) \/ BeginTurn(t)
      PROVE  PromptInv' /\ Confirmed
  <2> DEFINE e == <<"resume", t>>
  <2>1. e \in Effects /\ PromptOf(t)
    BY Names DEF PromptInv
  <2>2. /\ UNCHANGED <<started, agent, commission>>
        /\ \A u \in Turns \ {t, Ready} : at'[<<"resume", u>>] = at[<<"resume", u>>]
        /\ \A u \in Turns \ {t} : receipt'[u] = receipt[u] /\ (u \in late' => u \in late)
    BY <1>3, <2>1, Names
       DEF Readback, Prepare, Prompt, ConfirmPrompt, BeginTurn, GoTo, Dies, herdr, TypeOK,
           OutboxOK, ReceiptOK, Prompted, PromptFails
  <2>3. CASE UNCHANGED prompts
    <3>1. ASSUME PromptOf(t)', receipt[t] = "prompted" => receipt'[t] = "prompted"
          PROVE  PromptInv' /\ Confirmed
      BY <2>2, <2>3, <3>1, StillOthers DEF Still
    <3>2. /\ Taken(t)' <=> Taken(t)
          /\ Unseen(t)' <=> Unseen(t)
      BY <2>2, <2>3 DEF Taken, Unseen
    <3>3. CASE Readback(t)
      <4>1. at[e] = "rest" /\ UNCHANGED late
        BY <3>3 DEF Readback, herdr
      <4>2. CASE receipt[t] = "prompted" /\ GoTo(e, "seen") /\ UNCHANGED receipt
        <5>1. at'[e] = "seen"
          BY <2>1, <4>2 DEF GoTo, TypeOK, OutboxOK
        <5> QED BY <2>1, <2>2, <2>3, <3>1, <3>2, <4>1, <4>2, <5>1
            DEF PromptOf, Asks, Sent, Seen, PromptStep
      <4>3. CASE /\ receipt[t] \in {"dispatching", "rejected", "retry"} /\ Delivered(t)
                 /\ receipt' = [receipt EXCEPT ![t] = "prompted"] /\ GoTo(e, "seen")
        <5>1. at'[e] = "seen" /\ receipt'[t] = "prompted"
          BY <2>1, <4>3 DEF GoTo, TypeOK, OutboxOK, ReceiptOK
        <5>2. Taken(t) /\ ~Unseen(t)
          BY <4>3, AgentRuns DEF Delivered, MarkerVisible
        <5> QED BY <2>1, <2>2, <2>3, <3>1, <3>2, <4>1, <5>1, <5>2
            DEF PromptOf, Asks, Sent, Seen, PromptStep
      <4>4. CASE /\ Rearmed(t) /\ RuntimeLives
                 /\ receipt' = [receipt EXCEPT ![t] = "retry"] /\ UNCHANGED at
        <5>1. receipt'[t] = "retry" /\ agent # 0 /\ receipt[t] \in {"rejected", "retry"}
          BY <4>4 DEF TypeOK, ReceiptOK, Rearmed, RuntimeLives
        <5>2. Unseen(t)
          BY <4>4, <5>1, AgentRuns DEF Rearmed
        <5> QED BY <2>1, <2>2, <2>3, <3>1, <3>2, <4>1, <4>4, <5>1, <5>2
            DEF PromptOf, Asks, Sent, Seen, PromptStep
      <4> QED BY <3>3, <4>2, <4>3, <4>4 DEF Readback
    <3>4. CASE Prepare(t)
      <4>1. /\ receipt'[t] = "dispatching" /\ at'[e] = "prompt" /\ UNCHANGED late
            /\ receipt[t] \in {"none", "retry"}
        BY <2>1, <3>4 DEF Prepare, GoTo, TypeOK, OutboxOK, ReceiptOK, herdr
      <4>2. Unseen(t)
        BY <2>1, <4>1 DEF PromptOf, Unseen
      <4> QED BY <2>1, <2>2, <2>3, <3>1, <3>2, <4>1, <4>2
          DEF PromptOf, Asks, Sent, Seen, PromptStep
    <3>5. CASE Prompt(t)
      <4>1. /\ Asks(t) /\ at'[e] = "rest" /\ late' \subseteq late \cup {t}
            /\ \/ UNCHANGED receipt
               \/ receipt' = [receipt EXCEPT ![t] = "rejected"] /\ UNCHANGED late
        <5>1. Asks(t)
          BY <3>5 DEF Prompt, Asks, PromptStep
        <5>2. ~Prompted(t)
          <6>1. ASSUME Prompted(t) PROVE FALSE
            <7>1. agent # 0 /\ Takes(t)
              BY <6>1 DEF Prompted, Takes
            <7>2. prompts[t][agent] \in Nat
              BY <7>1, AgentRuns
            <7>3. prompts'[t][agent] = prompts[t][agent] + 1
              BY <7>1, AgentRuns DEF Takes, TypeOK, HerdrOK
            <7> QED BY <2>3, <7>2, <7>3
          <6> QED BY <6>1
        <5>3. PromptFails(t) /\ GoTo(e, "rest")
          BY <3>5, <5>2 DEF Prompt
        <5>4. at'[e] = "rest"
          BY <2>1, <5>3 DEF GoTo, TypeOK, OutboxOK
        <5> QED BY <5>1, <5>3, <5>4 DEF PromptFails
      <4>2. receipt'[t] \in {receipt[t], "rejected"}
        BY <4>1 DEF TypeOK, ReceiptOK
      <4> QED BY <2>1, <2>2, <2>3, <3>1, <3>2, <4>1, <4>2
          DEF PromptOf, Asks, Sent, Seen, PromptStep
    <3>6. CASE ConfirmPrompt(t)
      <4>1. receipt'[t] = "prompted" /\ at'[e] = "seen" /\ UNCHANGED late /\ Sent(t)
        BY <2>1, <3>6
           DEF ConfirmPrompt, GoTo, TypeOK, OutboxOK, ReceiptOK, herdr, Sent, PromptStep
      <4> QED BY <2>1, <2>2, <2>3, <3>1, <3>2, <4>1
          DEF PromptOf, Asks, Sent, Seen, PromptStep
    <3>7. CASE BeginTurn(t)
      <4>1. Still(t)
        BY <2>1, <2>3, <3>7 DEF BeginTurn, Still, GoTo, Dies, TypeOK, OutboxOK, herdr
      <4> QED BY <2>1, <2>2, <3>1, <4>1, StillOf
    <3> QED BY <1>3, <3>3, <3>4, <3>5, <3>6, <3>7
  <2>4. CASE prompts' # prompts
    <3>1. Prompt(t) /\ Takes(t) /\ UNCHANGED late /\ Asks(t)
      BY <1>3, <2>4
         DEF Readback, Prepare, Prompt, ConfirmPrompt, BeginTurn, herdr, Prompted,
             PromptFails, Asks, PromptStep
    <3>2. Unseen(t) /\ t \notin late /\ receipt[t] = "dispatching" /\ agent # 0
      BY <2>1, <3>1 DEF PromptOf, Takes
    <3>3. \/ at'[e] = "prompted" /\ UNCHANGED receipt
          \/ at'[e] = "rest" /\ receipt'[t] = "rejected"
      BY <2>1, <3>1, <2>4
         DEF Prompt, Prompted, PromptFails, GoTo, TypeOK, OutboxOK, ReceiptOK
    <3>4. PromptOf(t)'
      BY <2>2, <3>1, <3>2, <3>3, AgentRuns DEF PromptOf, Asks, Sent, Seen, PromptStep
    <3>5. \A u \in Turns \ {t} : Still(u)
      BY <2>2, <3>1, <3>2, AgentRuns DEF Still
    <3> QED BY <2>2, <3>2, <3>4, <3>5, StillOthers
  <2> QED BY <2>3, <2>4
<1>4. ASSUME NEW t \in Turns, LatePrompt(t) PROVE PromptInv' /\ Confirmed
  <2>1. /\ PromptOf(t) /\ t \in late /\ late' = late \ {t} /\ agent # 0 /\ Takes(t)
        /\ UNCHANGED <<receipt, at, agent, started, commission>>
    BY <1>4 DEF LatePrompt, PromptInv, Takes, tables, outbox
  <2>2. Unseen(t) /\ receipt[t] = "dispatching" /\ ~Asks(t) /\ ~Sent(t) /\ ~Seen(t)
    BY <2>1 DEF PromptOf
  <2>3. ~Asks(t)' /\ ~Sent(t)' /\ ~Seen(t)'
    BY <2>1, <2>2 DEF Asks, Sent, Seen, PromptStep
  <2>4. PromptOf(t)'
    BY <2>1, <2>2, <2>3, AgentRuns DEF PromptOf
  <2>5. \A u \in Turns \ {t} : Still(u)
    BY <2>1, <2>2, AgentRuns DEF Still
  <2> QED BY <2>1, <2>4, <2>5, StillOthers
<1> QED BY <1>1, <1>2, <1>3, <1>4 DEF TurnStep

LEMMA PromptEffect ==
  ASSUME TypeOK, PromptInv, PmStep \/ EffectStep,
         UNCHANGED <<workspaces, started, commission>>
  PROVE  PromptInv' /\ Confirmed
<1>1. UNCHANGED <<receipt, prompts, late, agent>>
  <2>1. CASE PmStep
    BY <2>1 DEF PmStep, ReportPm, EnqueueReport, CompleteDispatch, AcknowledgeDecision,
                SaveAcknowledgment, FollowAnswer, tables, herdr
  <2>2. CASE EffectStep
    <3>1. ASSUME NEW r \in AllReports,
                 WriteReport(r) \/ CompleteReport(r) \/ WriteStage(r) \/ CompleteStage(r)
          PROVE  UNCHANGED <<receipt, prompts, late, agent>>
      BY <3>1 DEF WriteReport, CompleteReport, WriteStage, CompleteStage, tables, herdr
    <3>2. ASSUME NEW q \in Reports, NEW o \in Outcomes,
                 \/ RouteQuestion(q) \/ WakeCeo(q) \/ AnswerQuestion(q, o)
                 \/ WriteAnswer(q) \/ ApplyAnswer(q) \/ EnqueueDecisionResume(q) \/ EndGrant(q)
          PROVE  UNCHANGED <<receipt, prompts, late, agent>>
      BY <3>2 DEF RouteQuestion, WakeCeo, AnswerQuestion, WriteAnswer, ApplyAnswer,
                  EnqueueDecisionResume, EndGrant, tables, herdr
    <3>3. ASSUME NEW e \in Effects, Acknowledge(e) \/ Fail(e) \/ RepairEffect(e)
          PROVE  UNCHANGED <<receipt, prompts, late, agent>>
      BY <3>3 DEF Acknowledge, Fail, RepairEffect, tables, herdr
    <3>4. ASSUME NEW m \in Orders, OrderStage(m) \/ WriteOrder(m)
          PROVE  UNCHANGED <<receipt, prompts, late, agent>>
      BY <3>4 DEF OrderStage, WriteOrder, tables, herdr
    <3> QED BY <2>2, <3>1, <3>2, <3>3, <3>4 DEF EffectStep, Outcomes
  <2> QED BY <2>1, <2>2
<1>2. ASSUME NEW t \in Turns \ {Ready}
      PROVE  at'[<<"resume", t>>] \in {at[<<"resume", t>>], "rest"}
  <2> DEFINE e == <<"resume", t>>
  <2>1. e \in Effects
    BY Names
  <2>2. CASE PmStep
    BY <2>2 DEF PmStep, ReportPm, EnqueueReport, CompleteDispatch, AcknowledgeDecision,
                SaveAcknowledgment, FollowAnswer, outbox
  <2>3. ASSUME NEW r \in AllReports,
               WriteReport(r) \/ CompleteReport(r) \/ WriteStage(r) \/ CompleteStage(r)
        PROVE  at'[e] \in {at[e], "rest"}
    BY <2>1, <2>3 DEF WriteReport, CompleteReport, WriteStage, CompleteStage, FinalizeReport,
                      Dies, GoTo, TypeOK, OutboxOK
  <2>4. ASSUME NEW q \in Reports, NEW o \in Outcomes,
               \/ RouteQuestion(q) \/ WakeCeo(q) \/ AnswerQuestion(q, o)
               \/ WriteAnswer(q) \/ ApplyAnswer(q) \/ EnqueueDecisionResume(q) \/ EndGrant(q)
        PROVE  at'[e] \in {at[e], "rest"}
    BY <2>1, <2>4 DEF RouteQuestion, WakeCeo, AnswerQuestion, WriteAnswer, ApplyAnswer,
                      EnqueueDecisionResume, EndGrant, Dies, GoTo, TypeOK, OutboxOK, outbox
  <2>5. ASSUME NEW f \in Effects, Acknowledge(f) \/ Fail(f) \/ RepairEffect(f)
        PROVE  at'[e] \in {at[e], "rest"}
    BY <2>1, <2>5 DEF Acknowledge, Fail, RepairEffect, Dies, GoTo, TypeOK, OutboxOK
  <2>6. ASSUME NEW m \in Orders, OrderStage(m) \/ WriteOrder(m)
        PROVE  at'[e] \in {at[e], "rest"}
    BY <2>1, <2>6 DEF OrderStage, WriteOrder, GoTo, TypeOK, OutboxOK
  <2> QED BY <2>2, <2>3, <2>4, <2>5, <2>6 DEF EffectStep, Outcomes
<1> QED BY <1>1, <1>2, StillAll DEF Still

LEMMA PromptWorld ==
  ASSUME PromptInv, \/ Crash \/ WorkspaceCloses \/ UNCHANGED vars
                    \/ AgentExits /\ UNCHANGED <<workspaces, started, commission>>
  PROVE  PromptInv' /\ Confirmed
<1>1. CASE Crash
  <2>1. /\ UNCHANGED <<receipt, prompts, late, agent, started>>
        /\ commission'.step = "none"
    BY <1>1 DEF Crash, PmCrash, Stop, NoCommission, tables, herdr
  <2>2. \A t \in Turns \ {Ready} : at'[<<"resume", t>>] = "rest"
    BY <1>1, Names DEF Crash, PmCrash
  <2> QED BY <2>1, <2>2, StillAll DEF Still
<1>2. CASE \/ WorkspaceCloses \/ UNCHANGED vars
           \/ AgentExits /\ UNCHANGED <<workspaces, started, commission>>
  <2>1. UNCHANGED <<receipt, prompts, late, at, started, commission>> /\ agent' \in {0, agent}
    BY <1>2 DEF WorkspaceCloses, AgentExits, vars, pmVars, tables, outbox, herdr
  <2> QED BY <2>1, StillAll DEF Still
<1> QED BY <1>1, <1>2

LEMMA PromptRoot ==
  ASSUME TypeOK, PromptInv,
         \/ StartCommission \/ ReserveRuntime \/ EnsureWorkspace \/ RecordWorkspace
         \/ EnsureAgent \/ RecordAgent \/ AssignPm
  PROVE  PromptInv' /\ Confirmed
<1>1. UNCHANGED <<receipt, at, prompts, late>>
  BY DEF StartCommission, ReserveRuntime, EnsureWorkspace, RecordWorkspace, EnsureAgent,
         RecordAgent, AssignPm, tables, outbox
<1>2. commission'.step \notin {"prompt", "wait"}
  <2>1. Stop \/ NeedsRepair => commission'.step = "none"
    BY DEF NeedsRepair, Stop, NoCommission
  <2>2. \A s : Step(s) => commission'.step = s
    BY DEF Step, TypeOK, CommissionOK
  <2>3. CASE StartCommission
    <3>1. commission' = [NoCommission EXCEPT !.step = "root", !.path = stage]
            => commission'.step = "root"
      BY DEF NoCommission
    <3> QED BY <2>1, <2>3, <3>1 DEF StartCommission
  <2>4. CASE ReserveRuntime \/ EnsureAgent \/ RecordAgent
    BY <2>4 DEF ReserveRuntime, EnsureAgent, RecordAgent, TypeOK, CommissionOK
  <2>5. CASE EnsureWorkspace \/ RecordWorkspace \/ AssignPm
    BY <2>1, <2>2, <2>5 DEF EnsureWorkspace, RecordWorkspace, AssignPm
  <2> QED BY <2>3, <2>4, <2>5
<1>3. CASE UNCHANGED <<started, agent>>
  BY <1>1, <1>2, <1>3, StillAll DEF Still
<1>4. CASE started' = started + 1 /\ agent' = started' /\ agent = 0
  <2>1. ASSUME NEW t \in Turns PROVE PromptOf(t)' /\ UNCHANGED receipt
    <3>1. PromptOf(t) /\ started \in Nat /\ Sessions \subseteq Nat
      BY DEF PromptInv, TypeOK, HerdrOK, Sessions
    <3>2. Unseen(t)'
      BY <1>1, <1>4, <3>1 DEF PromptOf, Unseen
    <3>3. Taken(t)' <=> Taken(t)
      BY <1>1 DEF Taken
    <3>4. /\ Asks(t)' => Asks(t)
          /\ Sent(t)' => Sent(t)
          /\ Seen(t)' => Seen(t)
      BY <1>1, <1>2 DEF Asks, Sent, Seen, PromptStep
    <3>5. \A s \in Sessions : prompts'[t][s] <= 1 /\ (s > started' => prompts'[t][s] = 0)
      BY <1>1, <1>4, <3>1 DEF PromptOf
    <3> QED BY <1>1, <3>1, <3>2, <3>3, <3>4, <3>5 DEF PromptOf
  <2> QED BY <1>1, <1>4, <2>1 DEF PromptInv, Confirmed
<1> QED
  BY <1>3, <1>4 DEF StartCommission, ReserveRuntime, EnsureWorkspace, RecordWorkspace,
                    EnsureAgent, RecordAgent, AssignPm

\* The steps of the commissioning turn's own prompt.
LEMMA PromptReadyTurn ==
  ASSUME TypeOK, PromptInv,
         \/ ReadReady \/ ReserveReady \/ PrepareReady \/ PromptReady \/ ReadyPrompted
         \/ FinishReady \/ ConfirmReady \/ TransitionDelivery \/ Activate
         \/ CommissionFails
  PROVE  PromptInv' /\ Confirmed
<1>1. PromptOf(Ready) /\ Ready \in Turns
  BY Names DEF PromptInv
<1>2. /\ Stop \/ NeedsRepair => commission'.step = "none"
      /\ \A s : Step(s) => commission'.step = s
  BY DEF NeedsRepair, Stop, NoCommission, Step, TypeOK, CommissionOK
<1>3. CASE \/ ReadReady \/ ReserveReady \/ FinishReady \/ ConfirmReady
           \/ TransitionDelivery \/ Activate \/ CommissionFails
  <2>1. /\ UNCHANGED <<receipt, at, prompts, late, started, agent>>
        /\ commission'.step \notin {"prompt", "wait"}
    <3>1. CASE ReadReady
      BY <1>2, <3>1 DEF ReadReady, pmVars, tables, outbox, herdr
    <3>2. CASE ReserveReady \/ FinishReady \/ ConfirmReady
      BY <1>2, <3>2 DEF ReserveReady, FinishReady, ConfirmReady, tables, outbox
    <3>3. CASE TransitionDelivery \/ Activate \/ CommissionFails
      BY <1>2, <3>3 DEF TransitionDelivery, Activate, CommissionFails, tables, outbox, herdr
    <3> QED BY <1>3, <3>1, <3>2, <3>3
  <2> QED BY <2>1, StillAll DEF Still
<1>4. CASE PrepareReady \/ PromptReady \/ ReadyPrompted
  <2>1. /\ UNCHANGED <<started, agent, at>>
        /\ \A u \in Turns \ {Ready} :
             receipt'[u] = receipt[u] /\ (u \in late' => u \in late)
    <3>1. CASE PrepareReady
      BY <3>1 DEF PrepareReady, outbox, TypeOK, ReceiptOK
    <3>2. CASE PromptReady
      BY <3>2 DEF PromptReady, Prompted, PromptFails, outbox, TypeOK, ReceiptOK
    <3>3. CASE ReadyPrompted
      BY <3>3 DEF ReadyPrompted, outbox, TypeOK, ReceiptOK
    <3> QED BY <1>4, <3>1, <3>2, <3>3
  <2>2. ASSUME \A u \in Turns \ {Ready} : prompts'[u] = prompts[u],
               PromptOf(Ready)', receipt[Ready] = "prompted" => receipt'[Ready] = "prompted"
        PROVE  PromptInv' /\ Confirmed
    BY <1>1, <2>1, <2>2, StillOthers DEF Still
  <2>3. CASE PrepareReady
    <3>1. UNCHANGED <<prompts, late>> /\ commission.step = "ready"
      BY <2>3 DEF PrepareReady
    <3>2. /\ Taken(Ready)' <=> Taken(Ready)
          /\ Unseen(Ready)' <=> Unseen(Ready)
      BY <2>1, <3>1 DEF Taken, Unseen
    <3>3. CASE /\ RuntimeLives
               /\ receipt[Ready] = "none" \/ Rearmed(Ready)
               /\ receipt' = [receipt EXCEPT ![Ready] = "dispatching"] /\ Step("prompt")
      <4>1. receipt'[Ready] = "dispatching" /\ agent # 0 /\ commission'.step = "prompt"
        BY <1>1, <1>2, <3>3 DEF TypeOK, ReceiptOK, RuntimeLives
      <4>2. Unseen(Ready) /\ receipt[Ready] \in {"none", "rejected", "retry"}
        BY <1>1, <3>3, <4>1, AgentRuns DEF PromptOf, Unseen, Rearmed
      <4> QED BY <1>1, <2>1, <2>2, <3>1, <3>2, <4>1, <4>2
          DEF PromptOf, Asks, Sent, Seen, PromptStep
    <3>4. CASE /\ receipt[Ready] \in {"dispatching", "rejected", "retry"} /\ Delivered(Ready)
               /\ receipt' = [receipt EXCEPT ![Ready] = "prompted"] /\ Step("reread")
      <4>1. receipt'[Ready] = "prompted" /\ commission'.step = "reread"
        BY <1>1, <1>2, <3>4 DEF TypeOK, ReceiptOK
      <4>2. Taken(Ready) /\ ~Unseen(Ready)
        BY <1>1, <3>4, AgentRuns DEF Delivered, MarkerVisible
      <4> QED BY <1>1, <2>1, <2>2, <3>1, <3>2, <4>1, <4>2
          DEF PromptOf, Asks, Sent, Seen, PromptStep
    <3>5. CASE UNCHANGED receipt /\ (NeedsRepair \/ Step("reread"))
      <4>1. commission'.step \in {"none", "reread"}
        BY <1>2, <3>5
      <4> QED BY <1>1, <2>1, <2>2, <3>1, <3>2, <3>5, <4>1
          DEF PromptOf, Asks, Sent, Seen, PromptStep
    <3> QED BY <2>3, <3>3, <3>4, <3>5 DEF PrepareReady
  <2>4. CASE PromptReady
    <3>1. /\ Unseen(Ready) /\ Ready \notin late /\ receipt[Ready] = "dispatching"
          /\ commission.step = "prompt"
      BY <1>1, <2>4 DEF PromptReady, PromptOf, Asks, PromptStep
    <3>2. CASE Takes(Ready) /\ UNCHANGED late
      <4>1. agent # 0
        BY <3>2 DEF Takes
      <4>2. \/ commission'.step = "wait" /\ UNCHANGED receipt
            \/ commission'.step = "reread" /\ receipt'[Ready] = "rejected"
        <5>1. CASE Prompted(Ready) /\ Step("wait")
          BY <1>2, <5>1 DEF Prompted
        <5>2. CASE PromptFails(Ready) /\ Step("reread")
          BY <1>1, <1>2, <3>1, <3>2, <5>2 DEF PromptFails, TypeOK, ReceiptOK
        <5> QED BY <2>4, <5>1, <5>2 DEF PromptReady
      <4>3. PromptOf(Ready)'
        BY <1>1, <2>1, <3>1, <3>2, <4>1, <4>2, AgentRuns
           DEF PromptOf, Asks, Sent, Seen, PromptStep
      <4> QED BY <1>1, <2>2, <3>1, <3>2, <4>1, <4>3, AgentRuns
    <3>3. CASE UNCHANGED prompts
      <4>1. /\ Taken(Ready)' <=> Taken(Ready)
            /\ Unseen(Ready)' <=> Unseen(Ready)
        BY <2>1, <3>3 DEF Taken, Unseen
      <4>2. ~Prompted(Ready)
        <5>1. ASSUME Prompted(Ready) PROVE FALSE
          <6>1. agent # 0 /\ Takes(Ready)
            BY <5>1 DEF Prompted, Takes
          <6>2. prompts[Ready][agent] \in Nat
            BY <1>1, <6>1, AgentRuns
          <6>3. prompts'[Ready][agent] = prompts[Ready][agent] + 1
            BY <1>1, <6>1, AgentRuns DEF Takes, TypeOK, HerdrOK
          <6> QED BY <3>3, <6>2, <6>3
        <5> QED BY <5>1
      <4>3. PromptFails(Ready) /\ Step("reread")
        BY <2>4, <4>2 DEF PromptReady
      <4>4. /\ commission'.step = "reread"
            /\ \/ UNCHANGED receipt
               \/ receipt'[Ready] = "rejected" /\ UNCHANGED late
        BY <1>1, <1>2, <4>3 DEF PromptFails, TypeOK, ReceiptOK
      <4> QED BY <1>1, <2>1, <2>2, <3>1, <3>3, <4>1, <4>4
          DEF PromptOf, Asks, Sent, Seen, PromptStep
    <3> QED BY <2>4, <3>2, <3>3 DEF PromptReady, Prompted, PromptFails
  <2>5. CASE ReadyPrompted
    <3>1. /\ UNCHANGED <<prompts, late>> /\ Sent(Ready) /\ receipt'[Ready] = "prompted"
          /\ commission'.step = "reread"
      BY <1>1, <1>2, <2>5 DEF ReadyPrompted, Sent, PromptStep, TypeOK, ReceiptOK
    <3>2. /\ Taken(Ready)' <=> Taken(Ready)
          /\ Unseen(Ready)' <=> Unseen(Ready)
      BY <2>1, <3>1 DEF Taken, Unseen
    <3> QED BY <1>1, <2>1, <2>2, <3>1, <3>2 DEF PromptOf, Asks, Sent, Seen, PromptStep
  <2> QED BY <1>4, <2>3, <2>4, <2>5
<1> QED BY <1>3, <1>4

LEMMA PromptStepInv ==
  ASSUME TypeOK, PromptInv, [Next]_vars
  PROVE  PromptInv' /\ Confirmed
  BY PromptTurn, PromptEffect, PromptWorld, PromptRoot, PromptReadyTurn
     DEF Next, CommissionStep

-----------------------------------------------------------------------------
(***************************************************************************)
(* Turns and reports.                                                      *)
(***************************************************************************)

\* A turn is begun by its own resume or by the commissioning.
LEMMA TurnMoves ==
  ASSUME TypeOK, [Next]_vars
  PROVE  assignment'.state = "active" =>
           \/ assignment.state = "active" /\ assignment'.turn = assignment.turn
           \/ commission.step = "reserve" /\ assignment'.turn = Ready
           \/ \E t \in Turns \ {Ready} :
                at[<<"resume", t>>] = "seen" /\ assignment'.turn = t
<1> SUFFICES ASSUME assignment' # assignment, assignment'.state = "active"
    PROVE  \/ assignment.state = "active" /\ assignment'.turn = assignment.turn
           \/ commission.step = "reserve" /\ assignment'.turn = Ready
           \/ \E t \in Turns \ {Ready} :
                at[<<"resume", t>>] = "seen" /\ assignment'.turn = t
  OBVIOUS
<1>1. \A t, o : assignment' # Finished(t, o)
  BY DEF Finished, TypeOK, AssignmentOK
<1>2. \A t : assignment' = Begun(t) => assignment'.turn = t
  BY DEF Begun, TypeOK, AssignmentOK
<1>3. CASE TurnStep
  <2>1. ~EnqueueResume /\ \A t \in Turns : ~BeginPmTurn(t) /\ ~LatePrompt(t)
    BY DEF EnqueueResume, BeginPmTurn, LatePrompt, tables
  <2>2. \A t \in Turns : ~Readback(t) /\ ~Prepare(t) /\ ~Prompt(t) /\ ~ConfirmPrompt(t)
    BY DEF Readback, Prepare, Prompt, ConfirmPrompt
  <2>3. PICK t \in Turns \ {Ready} : BeginTurn(t)
    BY <1>3, <2>1, <2>2, Names DEF TurnStep
  <2>4. at[<<"resume", t>>] = "seen" /\ assignment' = Begun(t)
    BY <2>3 DEF BeginTurn
  <2> QED BY <1>2, <2>4
<1>4. ~PmStep
  <2>1. \A r, kind : ~ReportPm(r, kind)
    BY DEF ReportPm, tables
  <2>2. ~EnqueueReport /\ ~CompleteDispatch /\ ~SaveAcknowledgment /\ ~FollowAnswer
    BY <1>1 DEF EnqueueReport, CompleteDispatch, SaveAcknowledgment, FollowAnswer, tables
  <2>3. \A q \in Reports : ~AcknowledgeDecision(q)
    BY DEF AcknowledgeDecision, tables
  <2> QED BY <2>1, <2>2, <2>3 DEF PmStep
<1>5. ~EffectStep
  <2>1. \A r \in AllReports : ~WriteReport(r) /\ ~CompleteReport(r) /\ ~WriteStage(r)
                              /\ ~CompleteStage(r)
    BY <1>1 DEF WriteReport, CompleteReport, WriteStage, CompleteStage, FinalizeReport, tables
  <2>2. \A q \in Reports : /\ ~RouteQuestion(q) /\ ~WakeCeo(q) /\ ~WriteAnswer(q)
                           /\ ~ApplyAnswer(q) /\ ~EnqueueDecisionResume(q) /\ ~EndGrant(q)
                           /\ \A o \in Outcomes : ~AnswerQuestion(q, o)
    BY DEF RouteQuestion, WakeCeo, WriteAnswer, ApplyAnswer, EnqueueDecisionResume, EndGrant,
           AnswerQuestion, tables
  <2>3. \A e \in Effects : ~Acknowledge(e) /\ ~Fail(e) /\ ~RepairEffect(e)
    BY DEF Acknowledge, Fail, RepairEffect, tables
  <2>4. \A m \in Orders : ~OrderStage(m) /\ ~WriteOrder(m)
    BY DEF OrderStage, WriteOrder, tables
  <2> QED BY <2>1, <2>2, <2>3, <2>4 DEF EffectStep
<1>6. ~Crash /\ ~WorkspaceCloses /\ ~AgentExits /\ vars' # vars
  BY DEF Crash, PmCrash, WorkspaceCloses, AgentExits, vars, pmVars, tables
<1>7. CASE CommissionStep
  <2>1. /\ ~StartCommission /\ ~ReserveRuntime /\ ~EnsureWorkspace /\ ~RecordWorkspace
        /\ ~EnsureAgent /\ ~RecordAgent
    BY DEF StartCommission, ReserveRuntime, EnsureWorkspace, RecordWorkspace, EnsureAgent,
           RecordAgent, tables
  <2>2. /\ ~ReadReady /\ ~PrepareReady /\ ~PromptReady /\ ~ReadyPrompted /\ ~ConfirmReady
        /\ ~TransitionDelivery /\ ~Activate /\ ~CommissionFails
    BY DEF ReadReady, PrepareReady, PromptReady, ReadyPrompted, ConfirmReady,
           TransitionDelivery, Activate, CommissionFails, pmVars, tables
  <2>3. ~AssignPm
    BY DEF AssignPm, NoAssignment
  <2>4. ~FinishReady
    BY <1>1 DEF FinishReady
  <2>5. CASE ReserveReady
    BY <1>2, <2>5 DEF ReserveReady
  <2> QED BY <1>7, <2>1, <2>2, <2>3, <2>4, <2>5 DEF CommissionStep
<1> QED BY <1>3, <1>4, <1>5, <1>6, <1>7 DEF Next

LEMMA TurnStepInv ==
  ASSUME TypeOK, PromptInv, TurnInv, [Next]_vars
  PROVE  TurnInv'
<1> SUFFICES ASSUME assignment'.state = "active", assignment'.turn # Ready
             PROVE  receipt'[assignment'.turn] = "prompted"
  BY DEF TurnInv
<1>1. Confirmed
  BY PromptStepInv
<1>2. CASE assignment.state = "active" /\ assignment'.turn = assignment.turn
  BY <1>1, <1>2 DEF Confirmed, TurnInv, TypeOK, AssignmentOK
<1>3. ASSUME NEW t \in Turns \ {Ready}, at[<<"resume", t>>] = "seen", assignment'.turn = t
      PROVE  receipt'[assignment'.turn] = "prompted"
  <2>1. receipt[t] = "prompted"
    BY <1>3 DEF PromptInv, PromptOf, Seen, PromptStep
  <2> QED BY <1>1, <1>3, <2>1 DEF Confirmed
<1> QED BY <1>2, <1>3, TurnMoves

\* What a step may do to the reports and to the call that files one.
ReportsMove ==
  \/ UNCHANGED <<report, call>>
  \/ UNCHANGED report /\ call' = NoCall
  \/ /\ UNCHANGED <<report, intent>> /\ call # call'
     /\ call'.of \in AllReports /\ call'.turn \in Turns
     /\ intent[<<"report", call'.of>>] = "none" /\ ~Reserved(call'.turn)
     /\ call'.of = Ready => call'.kind = "checkpoint"
  \/ /\ call # NoCall /\ call' = NoCall
     /\ report' = [report EXCEPT ![call.of] =
                     [turn |-> call.turn, kind |-> call.kind, from |-> call.stage,
                      to |-> RequestedStage(call.kind, call.stage)]]
     /\ intent'[<<"report", call.of>>] # "none"
     /\ UNCHANGED <<at, issue, stage, assignment, runtime, commission>>

LEMMA ReportMoves ==
  ASSUME TypeOK, [Next]_vars
  PROVE  ReportsMove
<1>1. CASE TurnStep
  <2>1. UNCHANGED <<report, call>>
    BY <1>1 DEF TurnStep, BeginPmTurn, EnqueueResume, Readback, Prepare, Prompt,
                ConfirmPrompt, BeginTurn, LatePrompt, tracker, callers
  <2> QED BY <2>1 DEF ReportsMove
<1>2. ASSUME PmStep, UNCHANGED <<workspaces, started, commission>> PROVE ReportsMove
  <2>1. ASSUME NEW r \in AllReports, NEW kind, r = Ready => kind = "checkpoint",
               ReportPm(r, kind)
        PROVE  ReportsMove
    <3>1. /\ call'.of = r /\ call'.turn = assignment.turn /\ call'.kind = kind
          /\ call # call' /\ assignment.turn \in Turns
      BY <2>1, Names DEF ReportPm, TurnLeaseFree, NoCall, TypeOK, AssignmentOK
    <3> QED BY <2>1, <3>1 DEF ReportPm, ReportsMove, tracker, outbox
  <2>2. CASE EnqueueReport
    <3>1. <<"report", call.of>> \in Effects
      BY <2>2, Names DEF EnqueueReport, TypeOK, CallersOK, CallRecords
    <3>2. intent'[<<"report", call.of>>] # "none"
      BY <2>2, <3>1 DEF EnqueueReport, Enqueued, TypeOK, OutboxOK
    <3> QED BY <1>2, <2>2, <3>2 DEF EnqueueReport, ReportsMove, tables, herdr
  <2>3. CASE CompleteDispatch \/ SaveAcknowledgment \/ FollowAnswer
             \/ \E q \in Reports : AcknowledgeDecision(q)
    <3>1. UNCHANGED <<report, call>>
      BY <2>3 DEF CompleteDispatch, SaveAcknowledgment, FollowAnswer, AcknowledgeDecision,
                  tracker, callers
    <3> QED BY <3>1 DEF ReportsMove
  <2> QED BY <1>2, <2>1, <2>2, <2>3, Names DEF PmStep
<1>3. CASE EffectStep
  <2>1. UNCHANGED <<report, call>>
    BY <1>3 DEF EffectStep, WriteReport, CompleteReport, WriteStage, CompleteStage,
                RouteQuestion, WakeCeo, AnswerQuestion, WriteAnswer, ApplyAnswer,
                EnqueueDecisionResume, EndGrant, OrderStage, WriteOrder, Acknowledge, Fail,
                RepairEffect, tracker, callers
  <2> QED BY <2>1 DEF ReportsMove
<1>4. CASE Crash
  BY <1>4 DEF Crash, PmCrash, tracker, ReportsMove
<1>5. CASE CommissionStep \/ WorkspaceCloses \/ AgentExits \/ UNCHANGED vars
  <2>1. UNCHANGED <<report, call>>
    BY <1>5 DEF CommissionStep, StartCommission, ReserveRuntime, EnsureWorkspace,
                RecordWorkspace, EnsureAgent, RecordAgent, AssignPm, ReadReady, ReserveReady,
                PrepareReady, PromptReady, ReadyPrompted, FinishReady, ConfirmReady,
                TransitionDelivery, Activate, CommissionFails, WorkspaceCloses, AgentExits,
                vars, pmVars, tracker, callers
  <2> QED BY <2>1 DEF ReportsMove
<1> QED BY <1>1, <1>2, <1>3, <1>4, <1>5 DEF Next

LEMMA ReportStepInv ==
  ASSUME TypeOK, EffectInv, AnswerInv, ReportInv, [Next]_vars
  PROVE  ReportInv'
<1>1. EffectsLive /\ ReportsMove
  BY LiveStep, ReportMoves
<1>2. /\ \A r \in AllReports : intent[<<"report", r>>] # "none" => intent'[<<"report", r>>] # "none"
      /\ \A r \in AllReports :
           /\ intent[<<"report", r>>] = "none" /\ intent'[<<"report", r>>] # "none"
           => r = call.of /\ call' = NoCall
  BY <1>1, Names DEF EffectsLive, Lives, StartsDuly, Starts
<1>3. call # NoCall => call.of \in AllReports /\ call.turn \in Turns
  BY DEF TypeOK, CallersOK, CallRecords
<1>4. CASE UNCHANGED report /\ (UNCHANGED call \/ call' = NoCall)
  BY <1>2, <1>3, <1>4 DEF ReportInv, OneReportPerTurn
<1>5. CASE /\ UNCHANGED <<report, intent>> /\ call'.of \in AllReports
           /\ intent[<<"report", call'.of>>] = "none" /\ ~Reserved(call'.turn)
  BY <1>5 DEF ReportInv, OneReportPerTurn, Reserved
<1>6. CASE /\ call # NoCall /\ call' = NoCall
           /\ report' = [report EXCEPT ![call.of] =
                           [turn |-> call.turn, kind |-> call.kind, from |-> call.stage,
                            to |-> RequestedStage(call.kind, call.stage)]]
           /\ intent'[<<"report", call.of>>] # "none"
  <2> DEFINE new == [turn |-> call.turn, kind |-> call.kind, from |-> call.stage,
                     to |-> RequestedStage(call.kind, call.stage)]
  <2>1. new.turn = call.turn
    OBVIOUS
  <2>2. \A r \in AllReports : report'[r] = IF r = call.of THEN new ELSE report[r]
    <3> HIDE DEF new
    <3> QED BY <1>3, <1>6 DEF TypeOK, ReportOK, new
  <2> HIDE DEF new
  <2>3. \A r \in AllReports : report'[r] # NoReport => intent'[<<"report", r>>] # "none"
    BY <1>2, <1>6, <2>2 DEF ReportInv
  <2>4. ASSUME NEW r1 \in AllReports, NEW r2 \in AllReports, r1 # r2, report'[r1] # NoReport
        PROVE  report'[r1].turn # report'[r2].turn
    BY <1>6, <2>1, <2>2, <2>4 DEF ReportInv, OneReportPerTurn
  <2> QED BY <1>6, <2>3, <2>4 DEF ReportInv, OneReportPerTurn
<1> QED BY <1>1, <1>4, <1>5, <1>6 DEF ReportsMove

-----------------------------------------------------------------------------
(***************************************************************************)
(* Questions and answers.                                                  *)
(***************************************************************************)
LEMMA QuestionStepInv ==
  ASSUME TypeOK, EffectInv, AnswerInv, ReportInv, QuestionInv, [Next]_vars
  PROVE  QuestionInv'
<1> SUFFICES ASSUME NEW r \in Reports PROVE QuestionOf(r)'
  BY DEF QuestionInv
<1> DEFINE e == <<"report", r>>
           f == <<"stage", r>>
           w == <<"wake", r>>
<1>1. /\ e \in Effects /\ f \in Effects /\ w \in Effects /\ r \in AllReports /\ r # Ready
      /\ \A q \in Reports : e # <<"wake", q>> /\ f # <<"wake", q>>
      /\ QuestionOf(r) /\ EffectsLive /\ ReportsMove
  BY Names, LiveStep, ReportMoves DEF QuestionInv
<1>2. /\ intent[e] # "none" => intent'[e] # "none"
      /\ at[e] # "rest" => intent[e] = "pending"
      /\ intent'[e] = "succeeded" => intent[e] = "succeeded" \/ at[e] = "done"
      /\ intent'[f] = "succeeded" => intent[f] = "succeeded" \/ at[f] = "done"
      /\ intent[w] = "succeeded" => intent'[w] = "succeeded"
  BY <1>1 DEF EffectsLive, Lives, EffectInv
<1>3. intent[f] = "none" /\ intent'[f] # "none" => at[e] = "seen" /\ report[r].to # "none"
  BY <1>1 DEF EffectsLive, StartsDuly, Starts
<1>4. /\ at'[e] = "done" => at[e] = "done" \/ report[r].to # "none" \/ Handled(r)
      /\ at'[f] = "done" => at[f] = "done" \/ Handled(r)
  BY <1>1 DEF EffectsLive, FinishesDuly, Finishes
<1>5. CASE UNCHANGED report
  BY <1>1, <1>2, <1>3, <1>4, <1>5 DEF QuestionOf, Handled, Question
<1>6. CASE /\ call # NoCall /\ UNCHANGED at
           /\ \A s \in AllReports : s # call.of => report'[s] = report[s]
  <2>1. CASE r # call.of
    BY <1>1, <1>2, <1>3, <1>4, <1>6, <2>1 DEF QuestionOf, Handled, Question
  <2>2. CASE r = call.of
    <3>1. intent[e] = "none" /\ intent[f] = "none"
      BY <1>1, <1>6, <2>2 DEF ReportInv, QuestionOf
    <3>2. at[e] = "rest" /\ at[f] = "rest"
      BY <1>1, <3>1 DEF EffectInv
    <3>3. intent'[f] = "none" /\ intent'[e] # "succeeded"
      BY <1>2, <1>3, <3>1, <3>2
    <3> QED BY <1>6, <3>2, <3>3 DEF QuestionOf
  <2> QED BY <2>1, <2>2
<1>7. UNCHANGED report \/ (call # NoCall /\ UNCHANGED at)
  BY <1>1 DEF ReportsMove
<1>8. UNCHANGED report \/ \A s \in AllReports : s # call.of => report'[s] = report[s]
  BY <1>1 DEF ReportsMove, TypeOK, ReportOK
<1> QED BY <1>5, <1>6, <1>7, <1>8

\* An answer is given once; a grant that ended stays ended.
LEMMA AnswerMoves ==
  ASSUME TypeOK, [Next]_vars, NEW p \in Reports
  PROVE  /\ answer[p].ended => answer'[p].ended
         /\ intent[<<"answer", p>>] # "none" => answer'[p].outcome = answer[p].outcome
<1> DEFINE Moves == /\ answer[p].ended => answer'[p].ended
                    /\ intent[<<"answer", p>>] # "none" => answer'[p].outcome = answer[p].outcome
<1>1. CASE UNCHANGED answer
  BY <1>1
<1>2. ASSUME NEW q \in Reports, NEW o \in Outcomes, AnswerQuestion(q, o) PROVE Moves
  BY <1>2 DEF AnswerQuestion, TypeOK, AnswerOK
<1>3. ASSUME NEW q \in Reports, ApplyAnswer(q) \/ EndGrant(q) PROVE Moves
  BY <1>3 DEF ApplyAnswer, EndGrant, TypeOK, AnswerOK
<1>4. CASE EffectStep
  <2>1. ASSUME NEW r \in AllReports,
               WriteReport(r) \/ CompleteReport(r) \/ WriteStage(r) \/ CompleteStage(r)
        PROVE  UNCHANGED answer
    BY <2>1 DEF WriteReport, CompleteReport, WriteStage, CompleteStage, tracker
  <2>2. ASSUME NEW q \in Reports,
               RouteQuestion(q) \/ WakeCeo(q) \/ WriteAnswer(q) \/ EnqueueDecisionResume(q)
        PROVE  UNCHANGED answer
    BY <2>2 DEF RouteQuestion, WakeCeo, WriteAnswer, EnqueueDecisionResume, tracker
  <2>3. ASSUME NEW e \in Effects, Acknowledge(e) \/ Fail(e) \/ RepairEffect(e)
        PROVE  UNCHANGED answer
    BY <2>3 DEF Acknowledge, Fail, RepairEffect, tracker
  <2>4. ASSUME NEW m \in Orders, OrderStage(m) \/ WriteOrder(m) PROVE UNCHANGED answer
    BY <2>4 DEF OrderStage, WriteOrder, tracker
  <2> QED BY <1>1, <1>2, <1>3, <1>4, <2>1, <2>2, <2>3, <2>4 DEF EffectStep
<1>5. CASE TurnStep \/ PmStep
  <2>1. UNCHANGED answer
    BY <1>5 DEF TurnStep, BeginPmTurn, EnqueueResume, Readback, Prepare, Prompt,
                ConfirmPrompt, BeginTurn, LatePrompt, PmStep, ReportPm, EnqueueReport,
                CompleteDispatch, AcknowledgeDecision, SaveAcknowledgment, FollowAnswer,
                tracker
  <2> QED BY <1>1, <2>1
<1>6. CASE CommissionStep \/ Crash \/ WorkspaceCloses \/ AgentExits \/ UNCHANGED vars
  <2>1. UNCHANGED answer
    BY <1>6 DEF CommissionStep, StartCommission, ReserveRuntime, EnsureWorkspace,
                RecordWorkspace, EnsureAgent, RecordAgent, AssignPm, ReadReady, ReserveReady,
                PrepareReady, PromptReady, ReadyPrompted, FinishReady, ConfirmReady,
                TransitionDelivery, Activate, CommissionFails, Crash, PmCrash,
                WorkspaceCloses, AgentExits, vars, pmVars, tracker
  <2> QED BY <1>1, <2>1
<1> QED BY <1>4, <1>5, <1>6 DEF Next

LEMMA AnswerStepInv ==
  ASSUME TypeOK, EffectInv, AnswerInv, [Next]_vars
  PROVE  AnswerInv'
<1> SUFFICES ASSUME NEW q \in Reports PROVE AnswerOf(q)'
  BY DEF AnswerInv
<1> DEFINE e == <<"answer", q>>
<1>1. /\ e \in Effects /\ \A r \in Reports : e # <<"wake", r>>
      /\ \A o \in Outcomes : <<"resume", <<q, o>>>> \in Effects
      /\ AnswerOf(q) /\ EffectsLive
  BY Names, LiveStep DEF AnswerInv
<1>2. /\ intent[e] # "none" => intent'[e] # "none"
      /\ at[e] # "rest" => intent[e] = "pending"
      /\ intent'[e] = "succeeded" => intent[e] = "succeeded" \/ at[e] = "done"
      /\ \A o \in Outcomes : Queued(q, o) => Queued(q, o)'
  BY <1>1 DEF EffectsLive, Lives, EffectInv, Queued
<1>3. /\ answer[q].ended => answer'[q].ended
      /\ intent[e] # "none" => answer'[q].outcome = answer[q].outcome
  BY AnswerMoves
<1>4. intent'[e] # "none" => answer'[q].outcome \in Outcomes
  BY <1>1, <1>3 DEF EffectsLive, StartsDuly, Starts, AnswerOf
<1>5. ASSUME NEW o \in Outcomes, Queued(q, o)'
      PROVE  /\ intent'[e] # "none"
             /\ answer'[q].ended \/ o = answer'[q].outcome
  <2>1. CASE Queued(q, o)
    BY <1>1, <1>2, <1>3, <2>1 DEF AnswerOf
  <2>2. CASE ~Queued(q, o)
    <3>1. at[e] = "applied" /\ o = CurrentAnswer(q)
      BY <1>1, <1>5, <2>2 DEF EffectsLive, StartsDuly, Starts, Queued
    <3> QED BY <1>2, <1>3, <3>1 DEF CurrentAnswer
  <2> QED BY <2>1, <2>2
<1>6. ASSUME at'[e] = "done" \/ intent'[e] = "succeeded"
      PROVE  \E o \in Outcomes : Queued(q, o)'
  <2>1. CASE at[e] = "done" \/ intent[e] = "succeeded"
    BY <1>1, <1>2, <2>1 DEF AnswerOf
  <2>2. CASE at[e] # "done" /\ at'[e] = "done"
    <3>1. at[e] = "applied" /\ intent'[<<"resume", <<q, CurrentAnswer(q)>>>>] # "none"
      BY <1>1, <2>2 DEF EffectsLive, FinishesDuly, Finishes
    <3>2. CurrentAnswer(q) \in Outcomes
      BY <1>1, <1>2, <3>1 DEF AnswerOf, CurrentAnswer, Outcomes
    <3> QED BY <3>1, <3>2 DEF Queued
  <2> QED BY <1>2, <1>6, <2>1, <2>2
<1> QED BY <1>4, <1>5, <1>6 DEF AnswerOf

-----------------------------------------------------------------------------
(***************************************************************************)
(* The commissioning.                                                      *)
(***************************************************************************)

\* How the call, and the runtime it binds, move on.
CallMoves ==
  /\ commission'.step = "reserve" =>
       commission.step = "reserve" \/ (commission.step = "read" /\ ~ReadyReported)
  /\ commission'.step = "finish" => commission.step = "finish" \/ ReadyReported
  /\ commission'.step = "confirm" =>
       \/ commission.step = "confirm"
       \/ commission.step = "finish" /\ assignment'.state # "active"
  /\ commission'.step = "transition" => commission.step \in {"confirm", "transition"}
  /\ commission'.step = "activate" =>
       \/ commission.step = "activate"
       \/ intent'[<<"stage", Ready>>] # "none"
  /\ commission'.path = "delivery" => commission.path = "delivery" \/ stage = "delivery"
  /\ commission'.existing.state = "active" =>
       commission.existing.state = "active" \/ runtime.state = "active"
  /\ runtime'.state = "active" =>
       \/ runtime.state = "active" \/ commission.existing.state = "active"
       \/ commission.path = "delivery" \/ commission.step = "activate"

LEMMA RuntimeStays ==
  ASSUME \/ TurnStep \/ PmStep \/ EffectStep \/ AgentExits
  PROVE  UNCHANGED runtime
<1>1. TurnStep => UNCHANGED runtime
  BY DEF TurnStep, BeginPmTurn, EnqueueResume, Readback, Prepare, Prompt, ConfirmPrompt,
         BeginTurn, LatePrompt, herdr
<1>2. PmStep => UNCHANGED runtime
  BY DEF PmStep, ReportPm, EnqueueReport, CompleteDispatch, AcknowledgeDecision,
         SaveAcknowledgment, FollowAnswer, herdr
<1>3. EffectStep => UNCHANGED runtime
  BY DEF EffectStep, WriteReport, CompleteReport, WriteStage, CompleteStage, RouteQuestion,
         WakeCeo, AnswerQuestion, WriteAnswer, ApplyAnswer, EnqueueDecisionResume, EndGrant,
         OrderStage, WriteOrder, Acknowledge, Fail, RepairEffect, herdr
<1> QED BY <1>1, <1>2, <1>3 DEF AgentExits

LEMMA CallsMove ==
  ASSUME TypeOK, [Next]_vars
  PROVE  CallMoves
<1>1. CASE UNCHANGED <<commission, runtime>>
  BY <1>1 DEF CallMoves
<1>2. /\ Stop => /\ commission'.step = "none" /\ commission'.path = "none"
                 /\ commission'.existing.state = "none"
      /\ \A s : Step(s) => /\ commission'.step = s /\ commission'.path = commission.path
                           /\ commission'.existing = commission.existing
      /\ \A s : runtime' = [runtime EXCEPT !.state = s] => runtime'.state = s
  BY DEF Stop, NoCommission, NoRow, Step, TypeOK, CommissionOK, RuntimeOK
<1>3. NeedsRepair => /\ commission'.step = "none" /\ commission'.path = "none"
                     /\ commission'.existing.state = "none"
                     /\ runtime'.state = "repair_required"
  BY <1>2 DEF NeedsRepair
<1>4. Awaiting => runtime'.state = "awaiting_ready"
  BY <1>2 DEF Awaiting
<1>5. CASE StartCommission
  <2>1. CASE NeedsRepair
    BY <1>3, <2>1 DEF CallMoves
  <2>2. CASE /\ commission' = [NoCommission EXCEPT !.step = "root", !.path = stage]
             /\ UNCHANGED runtime
    <3>1. /\ commission'.step = "root" /\ commission'.path = stage
          /\ commission'.existing.state = "none"
      BY <2>2 DEF NoCommission, NoRow
    <3> QED BY <2>2, <3>1 DEF CallMoves
  <2> QED BY <1>5, <2>1, <2>2 DEF StartCommission
<1>6. CASE ReserveRuntime
  <2>1. /\ commission'.step = "workspace" /\ commission'.path = commission.path
        /\ commission'.existing.state = runtime.state
        /\ runtime'.state \in {runtime.state, "reserved"}
    BY <1>6 DEF ReserveRuntime, TypeOK, CommissionOK, RuntimeOK
  <2> QED BY <2>1 DEF CallMoves
<1>7. CASE EnsureWorkspace
  <2>1. NeedsRepair \/ (Step("owned") /\ UNCHANGED runtime)
    BY <1>7 DEF EnsureWorkspace
  <2> QED BY <1>2, <1>3, <2>1 DEF CallMoves
<1>8. CASE RecordWorkspace
  <2>1. runtime'.state = "workspace_ready"
    BY <1>8 DEF RecordWorkspace, TypeOK, RuntimeOK
  <2>2. Step("agent")
    BY <1>8 DEF RecordWorkspace
  <2> QED BY <1>2, <2>1, <2>2 DEF CallMoves
<1>9. CASE EnsureAgent
  <2>1. /\ commission'.step = "started" /\ commission'.path = commission.path
        /\ commission'.existing = commission.existing /\ UNCHANGED runtime
    BY <1>9 DEF EnsureAgent, TypeOK, CommissionOK
  <2> QED BY <2>1 DEF CallMoves
<1>10. CASE RecordAgent
  <2>1. /\ commission'.step = "assign" /\ commission'.path = commission.path
        /\ commission'.existing.state = "none"
        /\ runtime'.state = "active" => commission.existing.state = "active"
    BY <1>10 DEF RecordAgent, TypeOK, CommissionOK, RuntimeOK, NoRow
  <2> QED BY <2>1 DEF CallMoves
<1>11. CASE AssignPm
  <2>1. \/ NeedsRepair
        \/ commission.path = "delivery" /\ Stop
        \/ Step("read") /\ UNCHANGED runtime
    BY <1>11 DEF AssignPm
  <2> QED BY <1>2, <1>3, <2>1 DEF CallMoves
<1>12. CASE ReadReady
  <2>1. /\ \/ ReadyReported /\ Step("finish")
           \/ ~ReadyReported /\ commission.step = "read" /\ Step("reserve")
           \/ Stop
        /\ UNCHANGED runtime
    BY <1>12 DEF ReadReady, ReadyConfirmed, pmVars, herdr
  <2> QED BY <1>2, <2>1 DEF CallMoves
<1>13. CASE ReserveReady
  <2>1. NeedsRepair \/ (Step("ready") /\ UNCHANGED runtime)
    BY <1>13 DEF ReserveReady
  <2> QED BY <1>2, <1>3, <2>1 DEF CallMoves
<1>14. CASE PrepareReady
  <2>1. \/ NeedsRepair
        \/ Step("prompt") /\ UNCHANGED runtime
        \/ Awaiting /\ Step("reread")
    BY <1>14 DEF PrepareReady
  <2> QED BY <1>2, <1>3, <1>4, <2>1 DEF CallMoves
<1>15. CASE PromptReady
  <2>1. (Step("wait") /\ UNCHANGED runtime) \/ (Awaiting /\ Step("reread"))
    BY <1>15 DEF PromptReady
  <2> QED BY <1>2, <1>4, <2>1 DEF CallMoves
<1>16. CASE ReadyPrompted
  <2>1. Awaiting /\ Step("reread")
    BY <1>16 DEF ReadyPrompted
  <2> QED BY <1>2, <1>4, <2>1 DEF CallMoves
<1>17. CASE FinishReady
  <2>1. \/ NeedsRepair
        \/ /\ assignment'.state = "idle" /\ commission.step = "finish"
           /\ Step("confirm") /\ UNCHANGED runtime
    BY <1>17 DEF FinishReady, EndedBy, Finished, TypeOK, AssignmentOK
  <2> QED BY <1>2, <1>3, <2>1 DEF CallMoves
<1>18. CASE ConfirmReady
  <2>1. runtime'.state = "ready_confirmed"
    BY <1>18 DEF ConfirmReady, TypeOK, RuntimeOK
  <2>2. Step("transition") /\ commission.step = "confirm"
    BY <1>18 DEF ConfirmReady
  <2> QED BY <1>2, <2>1, <2>2 DEF CallMoves
<1>19. CASE TransitionDelivery
  <2>1. intent'[<<"stage", Ready>>] # "none"
    BY <1>19, Names DEF TransitionDelivery, Enqueued, TypeOK, OutboxOK
  <2>2. Step("activate") /\ UNCHANGED runtime
    BY <1>19 DEF TransitionDelivery, herdr
  <2> QED BY <1>2, <2>1, <2>2 DEF CallMoves
<1>20. CASE Activate
  <2>1. Stop /\ commission.step = "activate"
    BY <1>20 DEF Activate
  <2> QED BY <1>2, <2>1 DEF CallMoves
<1>21. CASE CommissionFails \/ Crash
  <2>1. Stop /\ UNCHANGED runtime
    BY <1>21 DEF CommissionFails, Crash, PmCrash, herdr
  <2> QED BY <1>2, <2>1 DEF CallMoves
<1>22. CASE WorkspaceCloses \/ UNCHANGED vars
  BY <1>1, <1>22 DEF WorkspaceCloses, vars, pmVars, herdr
<1> QED
  BY <1>1, <1>5, <1>6, <1>7, <1>8, <1>9, <1>10, <1>11, <1>12, <1>13, <1>14, <1>15, <1>16,
     <1>17, <1>18, <1>19, <1>20, <1>21, <1>22, RuntimeStays DEF Next, CommissionStep

\* What the Issue shows stays; its stage leaves "authorized" by a transition only.
LEMMA IssueMoves ==
  ASSUME TypeOK, [Next]_vars
  PROVE  /\ issue \subseteq issue'
         /\ \/ UNCHANGED stage \/ "authorized" \notin {stage, stage'}
            \/ \E r \in AllReports :
                 intent[<<"stage", r>>] = "pending" /\ stage \in {Move(r).from, Move(r).to}
<1> DEFINE Moves == /\ issue \subseteq issue'
                    /\ \/ UNCHANGED stage \/ "authorized" \notin {stage, stage'}
                       \/ \E r \in AllReports :
                            /\ intent[<<"stage", r>>] = "pending"
                            /\ stage \in {Move(r).from, Move(r).to}
<1>1. CASE UNCHANGED <<issue, stage>>
  BY <1>1
<1>2. CASE TurnStep
  BY <1>1, <1>2 DEF TurnStep, BeginPmTurn, EnqueueResume, Readback, Prepare, Prompt,
                    ConfirmPrompt, BeginTurn, LatePrompt, tracker
<1>3. CASE PmStep
  <2>1. CASE FollowAnswer
    BY <2>1 DEF FollowAnswer
  <2>2. CASE ~FollowAnswer
    BY <1>1, <1>3, <2>2 DEF PmStep, ReportPm, EnqueueReport, CompleteDispatch,
                            AcknowledgeDecision, SaveAcknowledgment, tracker
  <2> QED BY <2>1, <2>2
<1>4. CASE EffectStep
  <2>1. ASSUME NEW r \in AllReports,
               WriteReport(r) \/ CompleteReport(r) \/ WriteStage(r) \/ CompleteStage(r)
        PROVE  Moves
    BY <2>1 DEF WriteReport, CompleteReport, WriteStage, CompleteStage, tracker
  <2>2. ASSUME NEW q \in Reports, NEW o \in Outcomes,
               \/ RouteQuestion(q) \/ WakeCeo(q) \/ AnswerQuestion(q, o)
               \/ WriteAnswer(q) \/ ApplyAnswer(q) \/ EnqueueDecisionResume(q) \/ EndGrant(q)
        PROVE  Moves
    BY <2>2 DEF RouteQuestion, WakeCeo, AnswerQuestion, WriteAnswer, ApplyAnswer,
                EnqueueDecisionResume, EndGrant, tracker
  <2>3. ASSUME NEW e \in Effects, Acknowledge(e) \/ Fail(e) \/ RepairEffect(e)
        PROVE  Moves
    BY <2>3 DEF Acknowledge, Fail, RepairEffect, tracker
  <2>4. ASSUME NEW m \in Orders, OrderStage(m) \/ WriteOrder(m) PROVE Moves
    <3>1. {m[1], m[2]} \subseteq {"delivery", "decision", "acceptance"}
      BY PmTurnsAssumption DEF Transitions
    <3> QED BY <2>4, <3>1 DEF OrderStage, WriteOrder, tracker
  <2> QED BY <1>4, <2>1, <2>2, <2>3, <2>4 DEF EffectStep, Outcomes
<1>5. CASE CommissionStep
  BY <1>1, <1>5 DEF CommissionStep, StartCommission, ReserveRuntime, EnsureWorkspace,
                    RecordWorkspace, EnsureAgent, RecordAgent, AssignPm, ReadReady,
                    ReserveReady, PrepareReady, PromptReady, ReadyPrompted, FinishReady,
                    ConfirmReady, TransitionDelivery, Activate, CommissionFails, pmVars,
                    tracker
<1>6. CASE Crash \/ WorkspaceCloses \/ AgentExits \/ UNCHANGED vars
  BY <1>1, <1>6 DEF Crash, PmCrash, WorkspaceCloses, AgentExits, vars, pmVars, tracker
<1> QED BY <1>2, <1>3, <1>4, <1>5, <1>6 DEF Next

LEMMA DeliveryStepInv ==
  ASSUME TypeOK, EffectInv, QuestionInv, AnswerInv, DeliveryInv, [Next]_vars
  PROVE  DeliveryInv'
<1> DEFINE e == <<"stage", Ready>>
<1>1. e \in Effects /\ Ready \in AllReports /\ EffectsLive /\ ReportsMove /\ CallMoves
  BY Names, LiveStep, ReportMoves, CallsMove
<1>2. Handed => Handed'
  BY <1>1 DEF EffectsLive, Lives, Handed
<1>3. Handed' => Handed \/ commission.step = "transition"
  BY <1>1 DEF EffectsLive, StartsDuly, Starts, Handed, DeliveryInv
<1>4. ReadyReported => ReadyReported'
  BY IssueMoves DEF ReadyReported
<1>5. ReadyActive' => ReadyActive \/ commission.step = "reserve"
  BY TurnMoves DEF ReadyActive
<1>6. report'[Ready].to = "none" /\ (call'.of = Ready => call'.kind = "checkpoint")
  <2>1. CASE UNCHANGED report /\ (UNCHANGED call \/ call' = NoCall)
    BY <2>1, Names DEF DeliveryInv, NoCall
  <2>2. CASE UNCHANGED report /\ (call'.of = Ready => call'.kind = "checkpoint")
    BY <2>2 DEF DeliveryInv
  <2>3. CASE /\ call # NoCall /\ call' = NoCall
             /\ report' = [report EXCEPT ![call.of] =
                             [turn |-> call.turn, kind |-> call.kind, from |-> call.stage,
                              to |-> RequestedStage(call.kind, call.stage)]]
    <3>1. call'.of # Ready
      BY <2>3, Names DEF NoCall
    <3>2. report'[Ready].to = IF call.of = Ready THEN RequestedStage(call.kind, call.stage)
                                                 ELSE report[Ready].to
      BY <1>1, <2>3 DEF TypeOK, ReportOK
    <3>3. call.of = Ready => RequestedStage(call.kind, call.stage) = "none"
      BY DEF DeliveryInv, RequestedStage
    <3> QED BY <3>1, <3>2, <3>3 DEF DeliveryInv
  <2> QED BY <1>1, <2>1, <2>2, <2>3 DEF ReportsMove
<1>7. \A r \in AllReports : report'[r].to # "none" => report'[r].from = "delivery"
  <2>1. CASE UNCHANGED report
    BY <2>1 DEF DeliveryInv
  <2>2. CASE report' = [report EXCEPT ![call.of] =
                          [turn |-> call.turn, kind |-> call.kind, from |-> call.stage,
                           to |-> RequestedStage(call.kind, call.stage)]]
    <3> DEFINE new == [turn |-> call.turn, kind |-> call.kind, from |-> call.stage,
                       to |-> RequestedStage(call.kind, call.stage)]
    <3>1. new.to # "none" => new.from = "delivery"
      <4>1. RequestedStage(call.kind, call.stage) # "none" => call.stage = "delivery"
        BY DEF RequestedStage
      <4> QED BY <4>1
    <3>2. \A r \in AllReports : report'[r] = report[r] \/ report'[r] = new
      <4> HIDE DEF new
      <4> QED BY <2>2 DEF TypeOK, ReportOK, new
    <3> HIDE DEF new
    <3> QED BY <3>1, <3>2 DEF DeliveryInv
  <2> QED BY <1>1, <2>1, <2>2 DEF ReportsMove
<1>8. stage' # "authorized" => Handed'
  <2>1. CASE stage # "authorized"
    BY <1>2, <2>1 DEF DeliveryInv, Delivering
  <2>2. CASE stage = "authorized" /\ stage' # stage
    <3>1. PICK r \in AllReports :
            intent[<<"stage", r>>] = "pending" /\ stage \in {Move(r).from, Move(r).to}
      BY <2>2, IssueMoves
    <3>2. r = Ready
      <4>1. ASSUME r # Ready PROVE FALSE
        <5>1. report[r].to # "none" /\ r \in Reports
          BY <3>1, <4>1 DEF QuestionInv, QuestionOf, AllReports
        <5>2. report[r].from = "delivery" /\ report[r].to \in {"decision", "acceptance"}
          BY <5>1, Names DEF DeliveryInv, TypeOK, ReportOK, ReportRecords, NoReport, Asked
        <5> QED BY <2>2, <3>1, <4>1, <5>2 DEF Move
      <4> QED BY <4>1
    <3> QED BY <1>2, <3>1, <3>2 DEF Handed
  <2> QED BY <2>1, <2>2
<1>9. Delivering' => Handed'
  BY <1>1, <1>2, <1>8 DEF CallMoves, DeliveryInv, Delivering, Handed
<1>10. Handed' => ReadyReported' /\ ~ReadyActive' /\ commission'.step # "reserve"
  BY <1>1, <1>3, <1>4, <1>5 DEF CallMoves, DeliveryInv
<1>11. /\ commission'.step \in {"finish", "confirm", "transition"} => ReadyReported'
       /\ commission'.step \in {"confirm", "transition"} => ~ReadyActive'
  BY <1>1, <1>4, <1>5 DEF CallMoves, DeliveryInv, ReadyActive
<1> QED BY <1>6, <1>7, <1>9, <1>10, <1>11 DEF DeliveryInv

-----------------------------------------------------------------------------
(***************************************************************************)
(* The invariant holds.                                                    *)
(***************************************************************************)
LEMMA InvInit == Init => Inv
<1> SUFFICES ASSUME Init PROVE Inv
  OBVIOUS
<1>1. /\ at = [e \in Effects |-> "rest"] /\ late = {} /\ call = NoCall
      /\ commission = NoCommission /\ answer = [q \in Reports |-> NoAnswer]
  BY DEF Init, PmInit
<1>2. EffectInv
  BY <1>1, Names DEF EffectInv
<1>3. PromptInv
  <2>1. \A t \in Turns : ~Asks(t) /\ ~Sent(t) /\ ~Seen(t)
    BY <1>1, Names DEF Asks, Sent, Seen, PromptStep, NoCommission
  <2>2. /\ agent = started
        /\ \A t \in Turns : receipt[t] \in {"none", "prompted"}
        /\ \A t \in Turns : receipt[t] = "none" => \A s \in Sessions : prompts[t][s] = 0
        /\ \A t \in Turns : receipt[t] = "prompted" =>
             /\ started = 1
             /\ \A s \in Sessions : prompts[t][s] = IF s = 1 THEN 1 ELSE 0
    BY InitCases, Names
  <2>3. \A t \in Turns : receipt[t] = "prompted" => Taken(t)
    BY <2>2, PmTurnsAssumption DEF Taken, Sessions
  <2>4. ASSUME NEW t \in Turns
        PROVE  \A s \in Sessions :
                 prompts[t][s] <= 1 /\ (s > started => prompts[t][s] = 0)
    BY <2>2 DEF Sessions
  <2> QED BY <1>1, <2>1, <2>2, <2>3, <2>4 DEF PromptInv, PromptOf
<1>4. TurnInv
  BY InitCases DEF TurnInv, NoAssignment
<1>5. \A r \in Reports : report[r] = NoReport
  BY InitCases, Names
<1>6. /\ \A e \in Effects : intent[e] # "none" =>
           e \in {<<"report", Ready>>, <<"stage", Ready>>}
      /\ report[Ready] # NoReport => intent[<<"report", Ready>>] = "succeeded"
  <2>1. CASE intent = [e \in Effects |-> "none"] /\ report = [r \in AllReports |-> NoReport]
    BY <2>1, Names
  <2>2. CASE intent = [e \in Effects |->
                         IF e \in {<<"report", Ready>>, <<"stage", Ready>>}
                         THEN "succeeded" ELSE "none"]
    BY <2>2, Names
  <2> QED BY <2>1, <2>2, InitCases
<1>7. \A r \in AllReports : report[r].to = "none" /\ (report[r] # NoReport => r = Ready)
  <2>1. CASE report = [r \in AllReports |-> NoReport]
    BY <2>1 DEF NoReport
  <2>2. CASE report = [r \in AllReports |->
                         IF r = Ready
                         THEN [turn |-> Ready, kind |-> "checkpoint", from |-> "authorized",
                               to |-> "none"]
                         ELSE NoReport]
    BY <2>2 DEF NoReport
  <2> QED BY <2>1, <2>2, InitCases
<1>12. ReportInv
  <2>1. \A r \in AllReports : report[r] # NoReport => intent[<<"report", r>>] # "none"
    BY <1>6, <1>7
  <2>2. OneReportPerTurn
    <3>1. NoReport.turn = None
      BY DEF NoReport
    <3>2. ASSUME NEW r1 \in AllReports, NEW r2 \in AllReports, report[r1] # NoReport,
                 report[r1].turn = report[r2].turn
          PROVE  r1 = r2
      <4>1. r1 = Ready /\ report[r1].turn # None
        BY <1>7, <3>2, InitCases, Names
      <4>2. report[r2] # NoReport
        BY <3>1, <3>2, <4>1
      <4> QED BY <1>7, <4>1, <4>2
    <3> QED BY <3>2 DEF OneReportPerTurn
  <2> QED BY <1>1, <2>1, <2>2 DEF ReportInv
<1>8. \A r \in Reports : intent[<<"report", r>>] = "none" /\ intent[<<"stage", r>>] = "none"
  BY <1>6, Names
<1>9. QuestionInv
  BY <1>1, <1>8, Names DEF QuestionInv, QuestionOf
<1>10. AnswerInv
  <2>1. \A q \in Reports, o \in Outcomes : ~Queued(q, o)
    BY <1>6, Names DEF Queued
  <2>2. \A q \in Reports : intent[<<"answer", q>>] = "none"
    BY <1>6, Names
  <2> QED BY <1>1, <2>1, <2>2, Names DEF AnswerInv, AnswerOf
<1>11. DeliveryInv
  <2>1. ~ReadyActive
    BY InitCases, Names DEF ReadyActive, NoAssignment
  <2>2. stage # "authorized" \/ runtime.state = "active" => Handed /\ ReadyReported
    BY InitCases, Names DEF Handed, ReadyReported, NoRuntime
  <2>3. Handed => ReadyReported
    BY InitCases, Names DEF Handed, ReadyReported
  <2>4. call.of # Ready
    BY <1>1, Names DEF NoCall
  <2>5. /\ commission.step = "none" /\ commission.path = "none"
        /\ commission.existing.state = "none"
    BY <1>1 DEF NoCommission, NoRow
  <2> QED BY <1>7, <2>1, <2>2, <2>3, <2>4, <2>5, Names DEF DeliveryInv, Delivering
<1> QED BY <1>2, <1>3, <1>4, <1>12, <1>9, <1>10, <1>11 DEF Inv

\* The conjunction of the types and of the parts above is inductive.
LEMMA InvStep ==
  ASSUME TypeOK, Inv, [Next]_vars
  PROVE  TypeOK' /\ Inv'
  BY TypeStep, EffectStepInv, PromptStepInv, TurnStepInv, ReportStepInv, QuestionStepInv,
     AnswerStepInv, DeliveryStepInv DEF Inv

LEMMA Invariant == Spec => [](TypeOK /\ Inv)
<1>1. Init => TypeOK /\ Inv
  BY TypeInit, InvInit
<1>2. TypeOK /\ Inv /\ [Next]_vars => (TypeOK /\ Inv)'
  BY InvStep
<1> QED BY <1>1, <1>2, PTL DEF Spec

-----------------------------------------------------------------------------
(***************************************************************************)
(* Theorems.                                                               *)
(***************************************************************************)

\* Every variable keeps its type, and a turn is recorded exactly while it is active
\* (the tables of storage.py).
THEOREM TypeCorrect == Spec => []TypeOK
BY Invariant, PTL

\* A session is prompted at most once for a turn, however often prompts fail, time out
\* and arrive late, or effects are retried and repaired (resume, prompt_ready and
\* readback of coordinator.py).
THEOREM PromptedOnce == Spec => []OnePromptPerTurn
<1>1. TypeOK /\ Inv => OnePromptPerTurn
  BY DEF Inv, PromptInv, PromptOf, OnePromptPerTurn
<1> QED BY Invariant, <1>1, PTL

\* The active turn was prompted: its receipt says so and a session has taken it in
\* (the completion of COORDINATOR_RESUME).
THEOREM ActivePrompted == Spec => []ActiveTurnWasPrompted
<1>1. TypeOK /\ Inv => ActiveTurnWasPrompted
  <2>1. ASSUME TypeOK, Inv, assignment.state = "active", assignment.turn # Ready
        PROVE  /\ receipt[assignment.turn] = "prompted"
               /\ \E s \in Sessions : prompts[assignment.turn][s] = 1
    <3>1. receipt[assignment.turn] = "prompted" /\ assignment.turn \in Turns
      BY <2>1 DEF Inv, TurnInv, TypeOK, AssignmentOK
    <3>2. Taken(assignment.turn)
      BY <2>1, <3>1 DEF Inv, PromptInv, PromptOf
    <3> QED BY <3>1, <3>2 DEF Taken
  <2> QED BY <2>1 DEF ActiveTurnWasPrompted
<1> QED BY Invariant, <1>1, PTL

\* No two reports are the outcome of one turn (_pm_report_outcome_reserved).
THEOREM ReportedOnce == Spec => []OneReportPerTurn
<1>1. TypeOK /\ Inv => OneReportPerTurn
  BY DEF Inv, ReportInv
<1> QED BY Invariant, <1>1, PTL

\* A question whose last effect is acknowledged has reached the CEO, whatever crashed or
\* failed on the way (_finalize_pm_report, _route_pm_question_to_ceo).
THEOREM QuestionRouted == Spec => []QuestionReachesCeo
<1>1. TypeOK /\ Inv => QuestionReachesCeo
  <2>1. ASSUME Inv, NEW r \in Reports PROVE QuestionOf(r)
    BY <2>1 DEF Inv, QuestionInv
  <2> QED BY <2>1 DEF QuestionOf, QuestionReachesCeo
<1> QED BY Invariant, <1>1, PTL

\* A committed answer has its resume durably queued before its own effect is over, and
\* a second one only if the grant ended in between (completions of TRACKER_DECISION and
\* of an approval's decision).
THEOREM AnswerResumed == Spec => []AnswerResumes
<1>1. ASSUME Inv, NEW q \in Reports
      PROVE  LET queued == {o \in Outcomes : intent[<<"resume", <<q, o>>>>] # "none"} IN
               /\ intent[<<"answer", q>>] = "succeeded" => queued # {}
               /\ Cardinality(queued) = 2 => answer[q].ended
  <2> DEFINE queued == {o \in Outcomes : intent[<<"resume", <<q, o>>>>] # "none"}
  <2>1. AnswerOf(q)
    BY <1>1 DEF Inv, AnswerInv
  <2>2. intent[<<"answer", q>>] = "succeeded" => queued # {}
    BY <2>1 DEF AnswerOf, Queued
  <2>3. ASSUME ~answer[q].ended PROVE Cardinality(queued) # 2
    <3>1. queued \subseteq {answer[q].outcome}
      BY <2>1, <2>3 DEF AnswerOf, Queued
    <3>2. IsFiniteSet({answer[q].outcome}) /\ Cardinality({answer[q].outcome}) = 1
      BY FS_Singleton
    <3>3. Cardinality(queued) <= 1 /\ Cardinality(queued) \in Nat
      BY <3>1, <3>2, FS_Subset, FS_CardinalityType
    <3> QED BY <3>3
  <2> QED BY <2>2, <2>3
<1>2. TypeOK /\ Inv => AnswerResumes
  BY <1>1 DEF AnswerResumes
<1> QED BY Invariant, <1>2, PTL

\* A Map is in delivery, or its runtime active, only with the ready report on the Issue
\* and the commissioning turn over (_commission_map).
THEOREM ReadyFirst == Spec => []ReadyBeforeDelivery
<1>1. TypeOK /\ Inv => ReadyBeforeDelivery
  BY DEF Inv, DeliveryInv, Delivering, ReadyActive, ReadyBeforeDelivery
<1> QED BY Invariant, <1>1, PTL

\* Crashes, lost answers and repeated calls never leave a second workspace of the Map
\* (_ensure_workspace, after the reservation).
THEOREM SingleWorkspace == Spec => []OneWorkspace
<1>1. Init => OneWorkspace
  BY InitCases DEF OneWorkspace
<1>2. OneWorkspace /\ [Next]_vars => OneWorkspace'
  <2> SUFFICES ASSUME OneWorkspace, [Next]_vars PROVE OneWorkspace'
    OBVIOUS
  <2>1. CASE EnsureWorkspace
    BY <2>1 DEF EnsureWorkspace, Matching, OneWorkspace
  <2>2. CASE WorkspaceCloses
    BY <2>2 DEF WorkspaceCloses, OneWorkspace
  <2>3. CASE ~EnsureWorkspace /\ ~WorkspaceCloses
    <3>1. UNCHANGED workspaces
      BY <2>3
         DEF Next, CommissionStep, StartCommission, ReserveRuntime, RecordWorkspace,
             EnsureAgent, RecordAgent, AssignPm, ReadReady, ReserveReady, PrepareReady,
             PromptReady, ReadyPrompted, FinishReady, ConfirmReady, TransitionDelivery,
             Activate, CommissionFails, Crash, vars
    <3> QED BY <3>1 DEF OneWorkspace
  <2> QED BY <2>1, <2>2, <2>3
<1> QED BY <1>1, <1>2, PTL DEF Spec
=============================================================================
