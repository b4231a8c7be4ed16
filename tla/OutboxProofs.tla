---------------------------- MODULE OutboxProofs ----------------------------
(***************************************************************************)
(* Machine-checked theorems about Outbox, for any number of effects,       *)
(* workers and owners and any settings.                                    *)
(***************************************************************************)
EXTENDS Outbox, TLAPS

(***************************************************************************)
(* Type correctness.                                                       *)
(***************************************************************************)
Claimed == Steps \ {"idle", "named"}

\* What a worker may be working on at each step: only a composition with a publisher
\* works on a publication, and only a publication reaches the publication path.
Placed(w, step) ==
  /\ step # "idle" => task[w] \in Effects
  /\ step # "idle" /\ task[w] \in PublisherEffects => task[w] \in Adapters[w]
  /\ step \in {"check", "mark", "execute"} => task[w] \in PublisherEffects

\* A heartbeat runs only under a claim.
WorkerShape ==
  \A w \in Workers : Placed(w, pc[w]) /\ (beat[w] # "off" => pc[w] \in Claimed)

WorkerType ==
  /\ pc \in [Workers -> Steps]
  /\ task \in [Workers -> Effects \cup {None}]
  /\ cycle \in [Workers -> Nat]
  /\ found \in [Workers -> BOOLEAN]
  /\ err \in [Workers -> Errors]
  /\ beat \in [Workers -> {"off", "on", "lost"}]

\* A repair never starts a cycle beyond the attempts that were made.
CycleShape == \A e \in Effects : base[e] <= attempts[e]

TypeInv == TypeOK /\ WorkerShape /\ CycleShape

LEMMA BackoffType == \A n \in Nat : Backoff(n) \in Nat
  BY SettingsAssumption DEF Backoff

LEMMA TypeInit == Init => TypeInv
  BY SettingsAssumption, TopologyAssumption
     DEF Init, TypeInv, TypeOK, WorkerShape, Placed, CycleShape, States, Steps,
         Errors, Outcomes, Claimed

\* Moving one worker to a step it may be at keeps the workers' types.
LEMMA TypeGoTo ==
  ASSUME WorkerType, WorkerShape, NEW w \in Workers, NEW step \in Claimed,
         pc[w] \in Claimed, Placed(w, step), GoTo(w, step),
         found' \in [Workers -> BOOLEAN]
  PROVE  WorkerType' /\ WorkerShape'
  BY DEF WorkerType, WorkerShape, Placed, GoTo, Claimed, Steps

LEMMA TypeRaise ==
  ASSUME WorkerType, WorkerShape, NEW w \in Workers, NEW kind \in Errors,
         pc[w] \in Claimed, Raise(w, kind)
  PROVE  WorkerType' /\ WorkerShape'
  BY DEF WorkerType, WorkerShape, Placed, Raise, Claimed, Steps

LEMMA TypeRest ==
  ASSUME WorkerType, WorkerShape, NEW w \in Workers, Rest(w)
  PROVE  WorkerType' /\ WorkerShape'
  BY DEF WorkerType, WorkerShape, Placed, Rest, Claimed, Steps, Errors

LEMMA TypeClaim ==
  ASSUME TypeInv, NEW w \in Workers, NEW e \in Effects, Claim(w, e),
         e \in PublisherEffects => e \in Adapters[w]
  PROVE  TypeInv'
<1> USE DEF TypeInv, TypeOK
<1>1. cycle' \in [Workers -> Nat] /\ CycleShape'
  BY DEF Claim, CycleShape
<1>2. open' \in [Effects -> SUBSET Nat]
  BY DEF Claim, LeaseExpired
<1>3. WorkerShape'
  BY DEF Claim, WorkerShape, Placed, Claimed, Steps
<1>4. TypeOK'
  BY <1>1, <1>2, SettingsAssumption, TopologyAssumption
     DEF Claim, States, Steps, outcomeVars, remoteVars, boundVars
<1> QED BY <1>1, <1>3, <1>4

LEMMA TypeWrite ==
  ASSUME TypeOK, NEW e \in Effects, Write(e)
  PROVE  /\ remote' \in [Effects -> {"absent", "present", "conflict"}]
         /\ writes' \in [Effects -> Nat]
         /\ seen' \in [Effects -> BOOLEAN]
  BY DEF TypeOK, Write

LEMMA TypeClose ==
  ASSUME TypeOK, NEW e \in Effects, NEW s \in States, CloseAttempt(e, s)
  PROVE  /\ state' \in [Effects -> States]
         /\ owner' \in [Effects -> Owners \cup {None}]
         /\ lease' \in [Effects -> Nat]
         /\ open' \in [Effects -> SUBSET Nat]
  BY DEF TypeOK, CloseAttempt

\* A step of a worker that changes nothing else, a crash perhaps counted.
LEMMA TypeWorker ==
  ASSUME TypeInv, WorkerType', WorkerShape', crashes' \in Nat,
         UNCHANGED <<rowVars, tableVars, outcomeVars, remoteVars, inflight, stalls,
                     meddles, repairs, retried>>
  PROVE  TypeInv'
<1>1. TypeOK'
  BY DEF TypeInv, TypeOK, WorkerType, rowVars, tableVars, outcomeVars, remoteVars
<1>2. CycleShape'
  BY DEF TypeInv, CycleShape, rowVars, tableVars
<1> QED BY <1>1, <1>2 DEF TypeInv

LEMMA TypeStep == TypeInv /\ [Next]_vars => TypeInv'
<1> SUFFICES ASSUME TypeInv, [Next]_vars PROVE TypeInv'
  OBVIOUS
<1> USE SettingsAssumption, TopologyAssumption
<1>1. ASSUME NEW w \in Workers, DispatchNext(w) PROVE TypeInv'
  BY <1>1, TypeClaim, TopologyAssumption DEF DispatchNext
<1>2. ASSUME NEW w \in Workers, NEW e \in Effects, Expedite(w, e) PROVE TypeInv'
  BY <1>2
     DEF Expedite, TypeInv, TypeOK, WorkerType, WorkerShape, Placed, Claimed, Steps,
         Errors, CycleShape,
         rowVars, tableVars, outcomeVars, remoteVars, boundVars, workerVars
<1>3. ASSUME NEW w \in Workers, ClaimNamed(w) PROVE TypeInv'
  <2>1. task[w] \in Effects /\ WorkerType
    BY <1>3 DEF ClaimNamed, TypeInv, TypeOK, WorkerShape, Placed, WorkerType, Steps
  <2>2. CASE Claimable(task[w], FALSE)
    BY <1>3, <2>1, <2>2, TypeClaim DEF ClaimNamed, TypeInv, WorkerShape, Placed
  <2>3. CASE ~Claimable(task[w], FALSE)
    <3>1. WorkerType' /\ WorkerShape'
      BY <1>3, <2>1, <2>3, TypeRest DEF ClaimNamed, TypeInv
    <3>2. /\ crashes' \in Nat
          /\ UNCHANGED <<rowVars, tableVars, outcomeVars, remoteVars, inflight, stalls,
                         meddles, repairs, retried>>
      BY <1>3, <2>3 DEF ClaimNamed, boundVars, TypeInv, TypeOK
    <3> QED BY <3>1, <3>2, TypeWorker
  <2> QED BY <2>2, <2>3
<1>4. ASSUME NEW w \in Workers, Readback(w) PROVE TypeInv'
  <2>1. WorkerType' /\ WorkerShape'
    <3> DEFINE e == task[w]
               step == IF e \in PublisherEffects THEN "check"
                       ELSE IF FirstLook(e) THEN "complete" ELSE "apply"
    <3>1. WorkerType /\ WorkerShape /\ pc[w] \in Claimed
      BY <1>4 DEF Readback, TypeInv, TypeOK, WorkerType, Claimed, Steps
    <3>2. CASE Raise(w, "terminal")
      BY <3>1, <3>2, TypeRaise DEF Errors
    <3>3. CASE /\ e \in Adapters[w]
               /\ found' = [found EXCEPT ![w] = FirstLook(e)]
               /\ GoTo(w, step)
      <4>1. found' \in [Workers -> BOOLEAN]
        BY <3>1, <3>3 DEF WorkerType, FirstLook
      <4>2. step \in Claimed /\ Placed(w, step)
        BY <3>1, <3>3 DEF Placed, WorkerShape, Claimed, Steps
      <4> HIDE DEF step
      <4> QED BY <3>1, <3>3, <4>1, <4>2, TypeGoTo
    <3> QED BY <1>4, <3>2, <3>3 DEF Readback
  <2> QED
    BY <1>4, <2>1
       DEF Readback, TypeInv, TypeOK, WorkerType, CycleShape, rowVars, tableVars,
           outcomeVars, remoteVars, boundVars
<1>5. ASSUME NEW w \in Workers, CheckMarker(w) PROVE TypeInv'
  <2>1. WorkerType' /\ WorkerShape'
    BY <1>5, TypeGoTo, TypeRaise
       DEF CheckMarker, TypeInv, TypeOK, WorkerType, WorkerShape, Placed, Claimed,
           Steps, Errors
  <2> QED
    BY <1>5, <2>1
       DEF CheckMarker, TypeInv, TypeOK, WorkerType, CycleShape, rowVars, tableVars,
           outcomeVars, remoteVars, boundVars
<1>6. ASSUME NEW w \in Workers, Apply(w) PROVE TypeInv'
  <2>1. WorkerType' /\ WorkerShape'
    BY <1>6, TypeGoTo, TypeRaise
       DEF Apply, TypeInv, TypeOK, WorkerType, WorkerShape, Placed, Claimed, Steps,
           Errors, Write
  <2>2. task[w] \in Effects
    BY <1>6 DEF Apply, TypeInv, WorkerShape, Placed
  <2>3. /\ remote' \in [Effects -> {"absent", "present", "conflict"}]
        /\ writes' \in [Effects -> Nat]
        /\ seen' \in [Effects -> BOOLEAN]
    <3>1. Write(task[w]) \/ UNCHANGED remoteVars
      BY <1>6 DEF Apply
    <3> QED BY <2>2, <3>1, TypeWrite DEF TypeInv, TypeOK, remoteVars
  <2> QED
    BY <1>6, <2>1, <2>3
       DEF Apply, TypeInv, TypeOK, WorkerType, CycleShape, rowVars, tableVars,
           outcomeVars, remoteVars, boundVars
<1>7. ASSUME NEW w \in Workers, EnterFence(w) PROVE TypeInv'
  <2>1. WorkerType' /\ WorkerShape'
    BY <1>7, TypeGoTo, TypeRaise
       DEF EnterFence, TypeInv, TypeOK, WorkerType, WorkerShape, Placed, Claimed,
           Steps, Errors
  <2> QED
    BY <1>7, <2>1
       DEF EnterFence, TypeInv, TypeOK, WorkerType, CycleShape, rowVars, tableVars,
           outcomeVars, remoteVars, boundVars
<1>8. ASSUME NEW w \in Workers, MarkStarted(w) PROVE TypeInv'
  <2>1. WorkerType' /\ WorkerShape'
    <3>1. /\ pc[w] = "mark" /\ WorkerType /\ WorkerShape /\ Placed(w, "mark")
          /\ "mark" \in Claimed /\ "execute" \in Claimed /\ "retryable" \in Errors
      <4>1. WorkerType /\ WorkerShape
        BY DEF TypeInv, TypeOK, WorkerType
      <4>2. pc[w] = "mark"
        BY <1>8 DEF MarkStarted
      <4>3. Placed(w, "mark")
        BY <4>1, <4>2 DEF WorkerShape
      <4> QED BY <4>1, <4>2, <4>3 DEF Claimed, Steps, Errors
    <3>2. CASE GoTo(w, "execute") /\ UNCHANGED found
      <4>1. Placed(w, "execute") /\ found' \in [Workers -> BOOLEAN]
        BY <3>1, <3>2 DEF Placed, WorkerType
      <4> QED BY <3>1, <3>2, <4>1, TypeGoTo
    <3>3. CASE Raise(w, "retryable")
      BY <3>1, <3>3, TypeRaise
    <3> QED BY <1>8, <3>2, <3>3 DEF MarkStarted
  <2>2. task[w] \in Effects
    BY <1>8 DEF MarkStarted, TypeInv, WorkerShape, Placed
  <2>3. marker' \in [Effects -> Nat]
    <3>1. marker \in [Effects -> Nat] /\ attempts \in [Effects -> Nat]
      BY DEF TypeInv, TypeOK
    <3>2. marker' = marker \/ marker' = [marker EXCEPT ![task[w]] = attempts[task[w]]]
      BY <1>8 DEF MarkStarted
    <3> QED BY <2>2, <3>1, <3>2
  <2> QED
    BY <1>8, <2>1, <2>3
       DEF MarkStarted, TypeInv, TypeOK, WorkerType, CycleShape, rowVars, tableVars,
           outcomeVars, remoteVars, boundVars
<1>9. ASSUME NEW w \in Workers, Execute(w) PROVE TypeInv'
  <2>1. WorkerType' /\ WorkerShape'
    BY <1>9, TypeGoTo, TypeRaise
       DEF Execute, TypeInv, TypeOK, WorkerType, WorkerShape, Placed, Claimed,
           Steps, Errors, Write
  <2>2. task[w] \in Effects
    BY <1>9 DEF Execute, TypeInv, WorkerShape, Placed
  <2>3. /\ remote' \in [Effects -> {"absent", "present", "conflict"}]
        /\ writes' \in [Effects -> Nat]
        /\ seen' \in [Effects -> BOOLEAN]
    <3>1. Write(task[w]) \/ UNCHANGED remoteVars
      BY <1>9 DEF Execute
    <3> QED BY <2>2, <3>1, TypeWrite DEF TypeInv, TypeOK, remoteVars
  <2> QED
    BY <1>9, <2>1, <2>3
       DEF Execute, TypeInv, TypeOK, WorkerType, CycleShape, rowVars, tableVars,
           outcomeVars, remoteVars, boundVars
<1>10. ASSUME NEW w \in Workers, Confirm(w) PROVE TypeInv'
  <2>1. WorkerType' /\ WorkerShape'
    BY <1>10, TypeGoTo, TypeRaise
       DEF Confirm, TypeInv, TypeOK, WorkerType, WorkerShape, Placed, Claimed,
           Steps, Errors
  <2> QED
    BY <1>10, <2>1
       DEF Confirm, TypeInv, TypeOK, WorkerType, CycleShape, rowVars, tableVars,
           outcomeVars, remoteVars, boundVars
<1>11. ASSUME NEW w \in Workers, CompleteIncident(w) PROVE TypeInv'
  BY <1>11
     DEF CompleteIncident, TypeInv, TypeOK, WorkerType, WorkerShape, Placed,
         Claimed, Steps, Errors, CycleShape,
         rowVars, tableVars, outcomeVars, remoteVars, boundVars, workerVars
<1>12. ASSUME NEW w \in Workers, Complete(w) PROVE TypeInv'
  <2>1. WorkerType' /\ WorkerShape'
    BY <1>12, TypeGoTo, TypeRaise
       DEF Complete, TypeInv, TypeOK, WorkerType, WorkerShape, Placed, Claimed,
           Steps, Errors
  <2> QED
    BY <1>12, <2>1
       DEF Complete, TypeInv, TypeOK, WorkerType, CycleShape, rowVars, tableVars,
           outcomeVars, remoteVars, boundVars
<1>13. ASSUME NEW w \in Workers, CallFails(w) PROVE TypeInv'
  <2>1. WorkerType' /\ WorkerShape'
    <3>1. PICK kind \in Errors : Raise(w, kind)
      BY <1>13 DEF CallFails
    <3>2. WorkerType /\ WorkerShape /\ pc[w] \in Claimed
      BY <1>13 DEF CallFails, TypeInv, TypeOK, WorkerType, Claimed, Steps
    <3> QED BY <3>1, <3>2, TypeRaise
  <2> QED
    BY <1>13, <2>1
       DEF CallFails, TypeInv, TypeOK, WorkerType, CycleShape, rowVars, tableVars,
           outcomeVars, remoteVars, boundVars
<1>14. ASSUME NEW w \in Workers, Acknowledge(w) PROVE TypeInv'
  <2>1. WorkerType' /\ WorkerShape'
    BY <1>14, TypeRest, TypeRaise
       DEF Acknowledge, TypeInv, TypeOK, WorkerType, WorkerShape, Placed, Claimed,
           Steps, Errors
  <2>2. task[w] \in Effects
    BY <1>14 DEF Acknowledge, TypeInv, WorkerShape, Placed
  <2>3. /\ state' \in [Effects -> States]
        /\ owner' \in [Effects -> Owners \cup {None}]
        /\ lease' \in [Effects -> Nat]
        /\ open' \in [Effects -> SUBSET Nat]
        /\ ack' \in [Effects -> Outcomes \cup {None}]
    <3>1. CASE CloseAttempt(task[w], "succeeded") /\ ack' = [ack EXCEPT ![task[w]] = "evidence"]
      BY <2>2, <3>1, TypeClose DEF TypeInv, TypeOK, States, Outcomes
    <3>2. CASE UNCHANGED <<state, owner, lease, open, ack>>
      BY <3>2 DEF TypeInv, TypeOK
    <3> QED BY <1>14, <3>1, <3>2 DEF Acknowledge
  <2> QED
    BY <1>14, <2>1, <2>3
       DEF Acknowledge, TypeInv, TypeOK, WorkerType, CycleShape, rowVars, tableVars,
           outcomeVars, remoteVars, boundVars
<1>15. ASSUME NEW w \in Workers, FailureCallback(w) PROVE TypeInv'
  BY <1>15
     DEF FailureCallback, TypeInv, TypeOK, WorkerType, WorkerShape, Placed, Claimed,
         Steps, Errors, CycleShape,
         rowVars, tableVars, outcomeVars, remoteVars, boundVars, workerVars, NeedsIncident
<1>16. ASSUME NEW w \in Workers, FinishFailed(w) PROVE TypeInv'
  <2>1. WorkerType' /\ WorkerShape'
    BY <1>16, TypeRest
       DEF FinishFailed, TypeInv, TypeOK, WorkerType, WorkerShape, Placed, Claimed,
           Steps, Errors
  <2>2. task[w] \in Effects
    BY <1>16 DEF FinishFailed, TypeInv, WorkerShape, Placed
  <2>3. /\ state' \in [Effects -> States]
        /\ owner' \in [Effects -> Owners \cup {None}]
        /\ lease' \in [Effects -> Nat]
        /\ open' \in [Effects -> SUBSET Nat]
        /\ due' \in [Effects -> Nat]
        /\ retried' \in [Effects -> Nat]
    <3>1. CloseAttempt(task[w], FailedState(w)) /\ FailedState(w) \in States
      BY <1>16 DEF FinishFailed, FailedState, States
    <3>2. /\ due' = due \/ due' = [due EXCEPT ![task[w]] = Backoff(cycle[w])]
          /\ retried' = retried \/ retried' = [retried EXCEPT ![task[w]] = @ + 1]
      BY <1>16 DEF FinishFailed
    <3>3. Backoff(cycle[w]) \in Nat
      BY BackoffType DEF TypeInv, TypeOK
    <3>4. /\ state' \in [Effects -> States]
          /\ owner' \in [Effects -> Owners \cup {None}]
          /\ lease' \in [Effects -> Nat]
          /\ open' \in [Effects -> SUBSET Nat]
      BY <2>2, <3>1, TypeClose DEF TypeInv
    <3>5. due \in [Effects -> Nat] /\ retried \in [Effects -> Nat]
      BY DEF TypeInv, TypeOK
    <3>6. due' \in [Effects -> Nat]
      BY <3>2, <3>3, <3>5
    <3>7. retried' \in [Effects -> Nat]
      BY <3>2, <3>5
    <3> QED BY <3>4, <3>6, <3>7
  <2> QED
    BY <1>16, <2>1, <2>3
       DEF FinishFailed, TypeInv, TypeOK, WorkerType, CycleShape, rowVars,
           tableVars, outcomeVars, remoteVars, boundVars
<1>17. ASSUME NEW w \in Workers, FinishFenced(w) PROVE TypeInv'
  <2>1. WorkerType' /\ WorkerShape'
    BY <1>17, TypeRest
       DEF FinishFenced, TypeInv, TypeOK, WorkerType, WorkerShape, Placed, Claimed,
           Steps, Errors
  <2> QED
    BY <1>17, <2>1
       DEF FinishFenced, TypeInv, TypeOK, WorkerType, CycleShape, rowVars,
           tableVars, outcomeVars, remoteVars, boundVars
<1>18. ASSUME NEW w \in Workers, Renew(w) PROVE TypeInv'
  BY <1>18
     DEF Renew, TypeInv, TypeOK, WorkerType, WorkerShape, Placed, Claimed, Steps,
         Errors, CycleShape,
         rowVars, tableVars, outcomeVars, remoteVars, boundVars, workerVars
<1>19. ASSUME NEW w \in Workers, BeatFails(w) PROVE TypeInv'
  <2>1. WorkerType' /\ WorkerShape'
    BY <1>19
       DEF BeatFails, workerVars, TypeInv, TypeOK, WorkerType, WorkerShape, Placed,
           Claimed, Steps, Errors
  <2>2. stalls' \in Nat
    BY <1>19 DEF BeatFails, TypeInv, TypeOK, boundVars
  <2> QED
    BY <1>19, <2>1, <2>2
       DEF BeatFails, TypeInv, TypeOK, WorkerType, CycleShape, rowVars, tableVars,
           outcomeVars, remoteVars, boundVars
<1>20. ASSUME NEW w \in Workers, Crash(w) PROVE TypeInv'
  <2>1. WorkerType' /\ WorkerShape'
    BY <1>20, TypeRest
       DEF Crash, TypeInv, TypeOK, WorkerType
  <2>2. /\ crashes' \in Nat
        /\ UNCHANGED <<rowVars, tableVars, outcomeVars, remoteVars, inflight, stalls,
                       meddles, repairs, retried>>
    BY <1>20 DEF Crash, TypeInv, TypeOK
  <2> QED BY <2>1, <2>2, TypeWorker
<1>21. ASSUME NEW e \in Effects, Enqueue(e) PROVE TypeInv'
  BY <1>21
     DEF Enqueue, TypeInv, TypeOK, WorkerType, WorkerShape, Placed, Claimed, Steps,
         Errors, CycleShape,
         rowVars, tableVars, outcomeVars, remoteVars, boundVars, workerVars, States
<1>22. ASSUME NEW e \in Effects, Meddle(e) PROVE TypeInv'
  <2>1. WorkerType' /\ WorkerShape'
    BY <1>22
       DEF Meddle, workerVars, TypeInv, TypeOK, WorkerType, WorkerShape, Placed,
           Claimed, Steps, Errors
  <2>2. /\ remote' \in [Effects -> {"absent", "present", "conflict"}]
        /\ seen' \in [Effects -> BOOLEAN]
    BY <1>22 DEF Meddle, TypeInv, TypeOK, remoteVars
  <2> QED
    BY <1>22, <2>1, <2>2
       DEF Meddle, TypeInv, TypeOK, WorkerType, CycleShape, rowVars, tableVars,
           outcomeVars, remoteVars, boundVars
<1>23. ASSUME NEW e \in Effects, ConfirmIncident(e) PROVE TypeInv'
  BY <1>23
     DEF ConfirmIncident, TypeInv, TypeOK, WorkerType, WorkerShape, Placed, Claimed,
         Steps, Errors, CycleShape,
         rowVars, tableVars, outcomeVars, remoteVars, boundVars, workerVars
<1>24. ASSUME NEW e \in Effects, StartRepair(e) PROVE TypeInv'
  <2>1. WorkerType' /\ WorkerShape'
    BY <1>24
       DEF StartRepair, workerVars, TypeInv, TypeOK, WorkerType, WorkerShape, Placed
  <2>2. /\ inflight' \in [Effects -> SUBSET (Outcomes \cup {"repair"})]
        /\ repairs' \in Nat
    BY <1>24 DEF StartRepair, TypeInv, TypeOK
  <2>3. TypeOK'
    BY <1>24, <2>1, <2>2
       DEF StartRepair, TypeInv, TypeOK, WorkerType, rowVars, tableVars, outcomeVars,
           remoteVars
  <2>4. CycleShape'
    BY <1>24 DEF StartRepair, TypeInv, CycleShape, rowVars, tableVars
  <2> QED BY <2>1, <2>3, <2>4 DEF TypeInv
<1>25. ASSUME NEW e \in Effects, Repair(e) PROVE TypeInv'
  <2>1. WorkerType' /\ WorkerShape'
    BY <1>25
       DEF Repair, workerVars, TypeInv, TypeOK, WorkerType, WorkerShape, Placed,
           Claimed, Steps, Errors
  <2>2. /\ state' \in [Effects -> States]
        /\ due' \in [Effects -> Nat]
        /\ base' \in [Effects -> Nat] /\ CycleShape'
        /\ retried' \in [Effects -> Nat]
        /\ inflight' \in [Effects -> SUBSET (Outcomes \cup {"repair"})]
    <3>1. inflight' = [inflight EXCEPT ![e] = @ \ {"repair"}] /\ UNCHANGED attempts
      BY <1>25 DEF Repair
    <3>2. CASE /\ state' = [state EXCEPT ![e] = "pending"]
               /\ due' = [due EXCEPT ![e] = 0]
               /\ base' = [base EXCEPT ![e] = attempts[e]]
               /\ retried' = [retried EXCEPT ![e] = 0]
      BY <3>1, <3>2 DEF TypeInv, TypeOK, States, CycleShape
    <3>3. CASE UNCHANGED <<state, due, base, retried>>
      BY <3>1, <3>3 DEF TypeInv, TypeOK, CycleShape
    <3> QED BY <1>25, <3>2, <3>3 DEF Repair
  <2> QED
    BY <1>25, <2>1, <2>2
       DEF Repair, TypeInv, TypeOK, WorkerType, CycleShape, rowVars, tableVars,
           outcomeVars, remoteVars, boundVars
<1>26. ASSUME NEW e \in Effects, StartReconcile(e) PROVE TypeInv'
  BY <1>26
     DEF StartReconcile, TypeInv, TypeOK, WorkerType, WorkerShape, Placed, Claimed,
         Steps, Errors, CycleShape,
         rowVars, tableVars, outcomeVars, remoteVars, boundVars, workerVars, Outcomes
<1>27. ASSUME NEW e \in Effects, NEW outcome \in Outcomes, Reconcile(e, outcome) PROVE TypeInv'
  <2>1. WorkerType' /\ WorkerShape'
    BY <1>27
       DEF Reconcile, workerVars, TypeInv, TypeOK, WorkerType, WorkerShape, Placed,
           Claimed, Steps, Errors
  <2>2. /\ state' \in [Effects -> States]
        /\ base' \in [Effects -> Nat] /\ CycleShape'
        /\ ack' \in [Effects -> Outcomes \cup {None}]
        /\ completed' \in [Effects -> BOOLEAN]
        /\ inflight' \in [Effects -> SUBSET (Outcomes \cup {"repair"})]
    <3>1. inflight' = [inflight EXCEPT ![e] = @ \ {outcome}] /\ UNCHANGED attempts
      BY <1>27 DEF Reconcile
    <3>2. CASE /\ state' = [state EXCEPT ![e] = "succeeded"]
               /\ base' = [base EXCEPT ![e] = attempts[e]]
               /\ ack' = [ack EXCEPT ![e] = outcome]
               /\ completed' = [completed EXCEPT ![e] = TRUE]
      BY <3>1, <3>2 DEF TypeInv, TypeOK, States, CycleShape
    <3>3. CASE UNCHANGED <<state, base, ack, completed>>
      BY <3>1, <3>3 DEF TypeInv, TypeOK, CycleShape
    <3> QED BY <1>27, <3>2, <3>3 DEF Reconcile
  <2> QED
    BY <1>27, <2>1, <2>2
       DEF Reconcile, TypeInv, TypeOK, WorkerType, CycleShape, rowVars, tableVars,
           outcomeVars, remoteVars, boundVars
<1>28. CASE Tick
  <2>1. WorkerType' /\ WorkerShape'
    BY <1>28
       DEF Tick, workerVars, TypeInv, TypeOK, WorkerType, WorkerShape, Placed,
           Claimed, Steps, Errors
  <2>2. /\ lease' \in [Effects -> Nat]
        /\ due' \in [Effects -> Nat]
        /\ stalls' \in Nat
    <3>1. stalls' = stalls \/ stalls' = stalls + 1
      BY <1>28 DEF Tick
    <3>2. /\ lease' = [e \in Effects |-> Less1(lease[e])]
          /\ due' = [e \in Effects |-> Less1(due[e])]
      BY <1>28 DEF Tick
    <3>3. \A n \in Nat : Less1(n) \in Nat
      BY DEF Less1
    <3>4. /\ lease \in [Effects -> Nat]
          /\ due \in [Effects -> Nat]
          /\ stalls \in Nat
      BY DEF TypeInv, TypeOK
    <3> QED BY <3>1, <3>2, <3>3, <3>4
  <2> QED
    BY <1>28, <2>1, <2>2
       DEF Tick, TypeInv, TypeOK, WorkerType, CycleShape, rowVars, tableVars,
           outcomeVars, remoteVars, boundVars
<1>29. CASE UNCHANGED vars
  BY <1>29
     DEF vars, TypeInv, TypeOK, WorkerType, WorkerShape, Placed, Claimed, Steps,
         Errors, CycleShape,
         rowVars, tableVars, outcomeVars, remoteVars, boundVars, workerVars
<1> QED
  BY <1>1, <1>2, <1>3, <1>4, <1>5, <1>6, <1>7, <1>8, <1>9, <1>10, <1>11,
     <1>12, <1>13, <1>14, <1>15, <1>16, <1>17, <1>18, <1>19, <1>20, <1>21,
     <1>22, <1>23, <1>24, <1>25, <1>26, <1>27, <1>28, <1>29
     DEF Next, WorkerStep, Advance, EffectStep

\* Every variable keeps its type, in every instance.
THEOREM TypeCorrect == Spec => []TypeOK
<1>1. TypeInv => TypeOK
  BY DEF TypeInv
<1> QED BY TypeInit, TypeStep, <1>1, PTL DEF Spec

(***************************************************************************)
(* What one worker, one external call or one transaction touches.          *)
(***************************************************************************)
LEMMA GoToTouches ==
  ASSUME TypeInv, NEW w \in Workers, NEW step, GoTo(w, step)
  PROVE  /\ pc'[w] = step
         /\ \A v \in Workers : v # w => pc'[v] = pc[v]
         /\ UNCHANGED <<task, cycle, err, beat>>
  BY DEF TypeInv, TypeOK, GoTo

LEMMA RaiseTouches ==
  ASSUME TypeInv, NEW w \in Workers, NEW kind, Raise(w, kind)
  PROVE  /\ pc'[w] = "failed" /\ err'[w] = kind
         /\ beat'[w] = "off" /\ found'[w] = FALSE
         /\ \A v \in Workers : v # w => /\ pc'[v] = pc[v] /\ err'[v] = err[v]
                                        /\ beat'[v] = beat[v] /\ found'[v] = found[v]
         /\ UNCHANGED <<task, cycle>>
  BY DEF TypeInv, TypeOK, Raise

LEMMA RestTouches ==
  ASSUME TypeInv, NEW w \in Workers, Rest(w)
  PROVE  /\ pc'[w] = "idle" /\ task'[w] = None /\ beat'[w] = "off" /\ found'[w] = FALSE
         /\ \A v \in Workers : v # w =>
              /\ pc'[v] = pc[v] /\ task'[v] = task[v] /\ cycle'[v] = cycle[v]
              /\ err'[v] = err[v] /\ beat'[v] = beat[v] /\ found'[v] = found[v]
  BY DEF TypeInv, TypeOK, Rest

LEMMA ClaimTouches ==
  ASSUME TypeInv, NEW w \in Workers, NEW e \in Effects, Claim(w, e)
  PROVE  /\ pc'[w] = "readback" /\ task'[w] = e /\ beat'[w] = "on" /\ found'[w] = FALSE
         /\ cycle'[w] = attempts[e] + 1 - base[e]
         /\ \A v \in Workers : v # w =>
              /\ pc'[v] = pc[v] /\ task'[v] = task[v] /\ cycle'[v] = cycle[v]
              /\ beat'[v] = beat[v] /\ found'[v] = found[v]
  BY DEF TypeInv, TypeOK, Claim

LEMMA ClaimWrites ==
  ASSUME TypeInv, NEW w \in Workers, NEW e \in Effects, Claim(w, e)
  PROVE  /\ state'[e] = "leased" /\ owner'[e] = OwnerOf[w] /\ lease'[e] = LeaseTime
         /\ attempts'[e] = attempts[e] + 1
         /\ \A x \in Effects : x # e =>
              /\ state'[x] = state[x] /\ owner'[x] = owner[x] /\ lease'[x] = lease[x]
              /\ attempts'[x] = attempts[x]
  BY DEF TypeInv, TypeOK, Claim

LEMMA WriteTouches ==
  ASSUME TypeInv, NEW e \in Effects, Write(e)
  PROVE  /\ remote[e] # "conflict" /\ remote'[e] = "present"
         /\ writes'[e] = writes[e] + 1 /\ seen'[e] = TRUE
         /\ \A x \in Effects : x # e =>
              remote'[x] = remote[x] /\ writes'[x] = writes[x] /\ seen'[x] = seen[x]
  BY DEF TypeInv, TypeOK, Write

LEMMA CloseTouches ==
  ASSUME TypeInv, NEW e \in Effects, NEW s, CloseAttempt(e, s)
  PROVE  /\ state'[e] = s /\ owner'[e] = None /\ lease'[e] = 0
         /\ open'[e] = open[e] \ {attempts[e]}
         /\ \A x \in Effects : x # e =>
              /\ state'[x] = state[x] /\ owner'[x] = owner[x]
              /\ lease'[x] = lease[x] /\ open'[x] = open[x]
  BY DEF TypeInv, TypeOK, CloseAttempt

\* A dispatched effect is an effect, and one the worker has an adapter for.
LEMMA DispatchClaims ==
  ASSUME NEW w \in Workers, DispatchNext(w)
  PROVE  \E e \in Adapters[w] : e \in Effects /\ Claimable(e, w \in Polling) /\ Claim(w, e)
  BY TopologyAssumption DEF DispatchNext

\* A named claim is a claim, or the worker rests.
LEMMA NamedClaims ==
  ASSUME TypeInv, NEW w \in Workers, ClaimNamed(w)
  PROVE  /\ task[w] \in Effects /\ pc[w] = "named"
         /\ \/ Claimable(task[w], FALSE) /\ Claim(w, task[w])
            \/ /\ Rest(w)
               /\ UNCHANGED <<rowVars, tableVars, outcomeVars, remoteVars, inflight,
                              boundVars>>
  BY DEF ClaimNamed, TypeInv, WorkerShape, Placed

(***************************************************************************)
(* The attempt ledger.                                                     *)
(***************************************************************************)
LEMMA OpenClaim ==
  ASSUME TypeInv, OneOpenAttempt, NEW w \in Workers, NEW e \in Effects, Claim(w, e)
  PROVE  OneOpenAttempt'
<1> USE DEF TypeInv, TypeOK
<1>1. ASSUME NEW x \in Effects, x # e
      PROVE  open'[x] = open[x] /\ state'[x] = state[x] /\ attempts'[x] = attempts[x]
  BY <1>1 DEF Claim
<1>2. /\ state'[e] = "leased"
      /\ attempts'[e] = attempts[e] + 1
      /\ open'[e] = (open[e] \ LeaseExpired(e)) \cup {attempts[e] + 1}
  BY DEF Claim
<1>3. open[e] \ LeaseExpired(e) = {}
  BY DEF OneOpenAttempt, LeaseExpired
<1>4. open'[e] = {attempts'[e]}
  BY <1>2, <1>3
<1> QED BY <1>1, <1>2, <1>4 DEF OneOpenAttempt

LEMMA OpenClose ==
  ASSUME TypeInv, OneOpenAttempt, NEW w \in Workers, NEW e \in Effects,
         NEW s \in States \ {"leased"},
         OwnsLease(w, e), CloseAttempt(e, s), UNCHANGED attempts
  PROVE  OneOpenAttempt'
  BY DEF TypeInv, TypeOK, OneOpenAttempt, OwnsLease, CloseAttempt

LEMMA OpenStep == TypeInv /\ OneOpenAttempt /\ [Next]_vars => OneOpenAttempt'
<1> SUFFICES ASSUME TypeInv, OneOpenAttempt, [Next]_vars PROVE OneOpenAttempt'
  OBVIOUS
<1>1. ASSUME NEW w \in Workers, DispatchNext(w) PROVE OneOpenAttempt'
  BY <1>1, OpenClaim, TopologyAssumption DEF DispatchNext
<1>2. ASSUME NEW w \in Workers, NEW e \in Effects, Expedite(w, e) PROVE OneOpenAttempt'
  BY <1>2
     DEF Expedite, OneOpenAttempt, rowVars, tableVars, outcomeVars, remoteVars,
         workerVars, boundVars
<1>3. ASSUME NEW w \in Workers, ClaimNamed(w) PROVE OneOpenAttempt'
  <2>1. CASE Claimable(task[w], FALSE)
    BY <1>3, <2>1, OpenClaim DEF ClaimNamed, TypeInv, WorkerShape, Placed
  <2>2. CASE ~Claimable(task[w], FALSE)
    BY <1>3, <2>2
       DEF ClaimNamed, OneOpenAttempt, rowVars, tableVars, outcomeVars,
           remoteVars, workerVars, boundVars
  <2> QED BY <2>1, <2>2
<1>4. ASSUME NEW w \in Workers, Readback(w) PROVE OneOpenAttempt'
  BY <1>4
     DEF Readback, OneOpenAttempt, rowVars, tableVars, outcomeVars, remoteVars,
         workerVars, boundVars
<1>5. ASSUME NEW w \in Workers, CheckMarker(w) PROVE OneOpenAttempt'
  BY <1>5
     DEF CheckMarker, OneOpenAttempt, rowVars, tableVars, outcomeVars, remoteVars,
         workerVars, boundVars
<1>6. ASSUME NEW w \in Workers, Apply(w) PROVE OneOpenAttempt'
  BY <1>6
     DEF Apply, OneOpenAttempt, rowVars, tableVars, outcomeVars, remoteVars,
         workerVars, boundVars
<1>7. ASSUME NEW w \in Workers, EnterFence(w) PROVE OneOpenAttempt'
  BY <1>7
     DEF EnterFence, OneOpenAttempt, rowVars, tableVars, outcomeVars, remoteVars,
         workerVars, boundVars
<1>8. ASSUME NEW w \in Workers, MarkStarted(w) PROVE OneOpenAttempt'
  BY <1>8
     DEF MarkStarted, OneOpenAttempt, rowVars, tableVars, outcomeVars, remoteVars,
         workerVars, boundVars
<1>9. ASSUME NEW w \in Workers, Execute(w) PROVE OneOpenAttempt'
  BY <1>9
     DEF Execute, OneOpenAttempt, rowVars, tableVars, outcomeVars, remoteVars,
         workerVars, boundVars
<1>10. ASSUME NEW w \in Workers, Confirm(w) PROVE OneOpenAttempt'
  BY <1>10
     DEF Confirm, OneOpenAttempt, rowVars, tableVars, outcomeVars, remoteVars,
         workerVars, boundVars
<1>11. ASSUME NEW w \in Workers, CompleteIncident(w) PROVE OneOpenAttempt'
  BY <1>11
     DEF CompleteIncident, OneOpenAttempt, rowVars, tableVars, outcomeVars,
         remoteVars, workerVars, boundVars
<1>12. ASSUME NEW w \in Workers, Complete(w) PROVE OneOpenAttempt'
  BY <1>12
     DEF Complete, OneOpenAttempt, rowVars, tableVars, outcomeVars, remoteVars,
         workerVars, boundVars
<1>13. ASSUME NEW w \in Workers, CallFails(w) PROVE OneOpenAttempt'
  BY <1>13
     DEF CallFails, OneOpenAttempt, rowVars, tableVars, outcomeVars, remoteVars,
         workerVars, boundVars
<1>14. ASSUME NEW w \in Workers, Acknowledge(w) PROVE OneOpenAttempt'
  <2>1. CASE OwnsLease(w, task[w]) /\ CloseAttempt(task[w], "succeeded")
    BY <1>14, <2>1, OpenClose DEF Acknowledge, TypeInv, WorkerShape, Placed, States
  <2>2. CASE UNCHANGED <<state, open>>
    BY <1>14, <2>2 DEF Acknowledge, OneOpenAttempt
  <2> QED BY <1>14, <2>1, <2>2 DEF Acknowledge
<1>15. ASSUME NEW w \in Workers, FailureCallback(w) PROVE OneOpenAttempt'
  BY <1>15
     DEF FailureCallback, OneOpenAttempt, rowVars, tableVars, outcomeVars,
         remoteVars, workerVars, boundVars
<1>16. ASSUME NEW w \in Workers, FinishFailed(w) PROVE OneOpenAttempt'
  <2>1. /\ OwnsLease(w, task[w])
        /\ CloseAttempt(task[w], FailedState(w))
        /\ FailedState(w) \in {"retry_scheduled", "terminal"}
        /\ UNCHANGED attempts
    BY <1>16 DEF FinishFailed, FailedState
  <2> QED BY <1>16, <2>1, OpenClose DEF FinishFailed, TypeInv, WorkerShape, Placed, States
<1>17. ASSUME NEW w \in Workers, FinishFenced(w) PROVE OneOpenAttempt'
  BY <1>17
     DEF FinishFenced, OneOpenAttempt, rowVars, tableVars, outcomeVars,
         remoteVars, workerVars, boundVars
<1>18. ASSUME NEW w \in Workers, Renew(w) PROVE OneOpenAttempt'
  BY <1>18
     DEF Renew, OneOpenAttempt, rowVars, tableVars, outcomeVars, remoteVars,
         workerVars, boundVars
<1>19. ASSUME NEW w \in Workers, BeatFails(w) PROVE OneOpenAttempt'
  BY <1>19
     DEF BeatFails, OneOpenAttempt, rowVars, tableVars, outcomeVars, remoteVars,
         workerVars, boundVars
<1>20. ASSUME NEW w \in Workers, Crash(w) PROVE OneOpenAttempt'
  BY <1>20
     DEF Crash, OneOpenAttempt, rowVars, tableVars, outcomeVars, remoteVars,
         workerVars, boundVars
<1>21. ASSUME NEW e \in Effects, Enqueue(e) PROVE OneOpenAttempt'
  BY <1>21
     DEF Enqueue, TypeInv, TypeOK, OneOpenAttempt, rowVars, tableVars,
         outcomeVars, remoteVars, workerVars, boundVars
<1>22. ASSUME NEW e \in Effects, Meddle(e) PROVE OneOpenAttempt'
  BY <1>22
     DEF Meddle, OneOpenAttempt, rowVars, tableVars, outcomeVars, remoteVars,
         workerVars, boundVars
<1>23. ASSUME NEW e \in Effects, ConfirmIncident(e) PROVE OneOpenAttempt'
  BY <1>23
     DEF ConfirmIncident, OneOpenAttempt, rowVars, tableVars, outcomeVars,
         remoteVars, workerVars, boundVars
<1>24. ASSUME NEW e \in Effects, StartRepair(e) PROVE OneOpenAttempt'
  BY <1>24
     DEF StartRepair, OneOpenAttempt, rowVars, tableVars, outcomeVars, remoteVars,
         workerVars, boundVars
<1>25. ASSUME NEW e \in Effects, Repair(e) PROVE OneOpenAttempt'
  <2>1. CASE state[e] = "terminal" /\ state' = [state EXCEPT ![e] = "pending"]
    BY <1>25, <2>1 DEF Repair, TypeInv, TypeOK, OneOpenAttempt
  <2>2. CASE UNCHANGED state
    BY <1>25, <2>2 DEF Repair, OneOpenAttempt
  <2> QED BY <1>25, <2>1, <2>2 DEF Repair
<1>26. ASSUME NEW e \in Effects, StartReconcile(e) PROVE OneOpenAttempt'
  BY <1>26
     DEF StartReconcile, OneOpenAttempt, rowVars, tableVars, outcomeVars,
         remoteVars, workerVars, boundVars
<1>27. ASSUME NEW e \in Effects, NEW outcome \in Outcomes, Reconcile(e, outcome) PROVE OneOpenAttempt'
  <2>1. CASE state[e] = "terminal" /\ state' = [state EXCEPT ![e] = "succeeded"]
    BY <1>27, <2>1 DEF Reconcile, TypeInv, TypeOK, OneOpenAttempt
  <2>2. CASE UNCHANGED state
    BY <1>27, <2>2 DEF Reconcile, OneOpenAttempt
  <2> QED BY <1>27, <2>1, <2>2 DEF Reconcile
<1>28. CASE Tick
  BY <1>28
     DEF Tick, OneOpenAttempt, rowVars, tableVars, outcomeVars, remoteVars,
         workerVars, boundVars
<1>29. CASE UNCHANGED vars
  BY <1>29
     DEF vars, OneOpenAttempt, rowVars, tableVars, outcomeVars, remoteVars,
         workerVars, boundVars
<1> QED
  BY <1>1, <1>2, <1>3, <1>4, <1>5, <1>6, <1>7, <1>8, <1>9, <1>10, <1>11,
     <1>12, <1>13, <1>14, <1>15, <1>16, <1>17, <1>18, <1>19, <1>20, <1>21,
     <1>22, <1>23, <1>24, <1>25, <1>26, <1>27, <1>28, <1>29
     DEF Next, WorkerStep, Advance, EffectStep

\* The attempt ledger and the intent row never disagree: exactly the latest
\* attempt is open while the row is leased, and none otherwise (_claim,
\* _finish_failed_attempt, acknowledge).
THEOREM LedgerAgrees == Spec => []OneOpenAttempt
<1>1. Init => OneOpenAttempt
  <2>1. Init => \A e \in Effects : open[e] = {} /\ state[e] = "absent"
    BY DEF Init
  <2> QED BY <2>1 DEF OneOpenAttempt
<1> QED BY TypeInit, TypeStep, <1>1, OpenStep, PTL DEF Spec

\* A leased row has been claimed at least once.
LeasedOnce == \A e \in Effects : state[e] = "leased" => attempts[e] # 0

LEMMA LeasedInit == Init => LeasedOnce
  BY DEF Init, LeasedOnce

LEMMA LeasedStep == TypeInv /\ LeasedOnce /\ [Next]_vars => LeasedOnce'
<1> SUFFICES ASSUME TypeInv, LeasedOnce, [Next]_vars PROVE LeasedOnce'
  OBVIOUS
<1>a. state \in [Effects -> States] /\ attempts \in [Effects -> Nat]
  BY DEF TypeInv, TypeOK
<1>b. \A w \in Workers : pc[w] # "idle" => task[w] \in Effects
  BY DEF TypeInv, WorkerShape, Placed
<1> USE <1>a, <1>b DEF LeasedOnce
<1>1. ASSUME NEW w \in Workers, DispatchNext(w) PROVE LeasedOnce'
  BY <1>1, DispatchClaims, ClaimWrites
<1>2. ASSUME NEW w \in Workers, NEW e \in Effects, Expedite(w, e) PROVE LeasedOnce'
  BY <1>2 DEF Expedite, rowVars
<1>3. ASSUME NEW w \in Workers, ClaimNamed(w) PROVE LeasedOnce'
  <2>1. task[w] \in Effects
    BY <1>3, NamedClaims
  <2>2. CASE Claim(w, task[w])
    BY <2>1, <2>2, ClaimWrites
  <2>3. CASE UNCHANGED rowVars
    BY <2>3 DEF rowVars
  <2> QED BY <1>3, <2>2, <2>3, NamedClaims
<1>4. ASSUME NEW w \in Workers, Readback(w) PROVE LeasedOnce'
  BY <1>4 DEF Readback, rowVars
<1>5. ASSUME NEW w \in Workers, CheckMarker(w) PROVE LeasedOnce'
  BY <1>5 DEF CheckMarker, rowVars
<1>6. ASSUME NEW w \in Workers, Apply(w) PROVE LeasedOnce'
  BY <1>6 DEF Apply, rowVars
<1>7. ASSUME NEW w \in Workers, EnterFence(w) PROVE LeasedOnce'
  BY <1>7 DEF EnterFence, rowVars
<1>8. ASSUME NEW w \in Workers, MarkStarted(w) PROVE LeasedOnce'
  BY <1>8 DEF MarkStarted, rowVars
<1>9. ASSUME NEW w \in Workers, Execute(w) PROVE LeasedOnce'
  BY <1>9 DEF Execute, rowVars
<1>10. ASSUME NEW w \in Workers, Confirm(w) PROVE LeasedOnce'
  BY <1>10 DEF Confirm, rowVars
<1>11. ASSUME NEW w \in Workers, CompleteIncident(w) PROVE LeasedOnce'
  BY <1>11 DEF CompleteIncident, rowVars
<1>12. ASSUME NEW w \in Workers, Complete(w) PROVE LeasedOnce'
  BY <1>12 DEF Complete, rowVars
<1>13. ASSUME NEW w \in Workers, CallFails(w) PROVE LeasedOnce'
  BY <1>13 DEF CallFails, rowVars
<1>14. ASSUME NEW w \in Workers, Acknowledge(w) PROVE LeasedOnce'
  BY <1>14, CloseTouches DEF Acknowledge
<1>15. ASSUME NEW w \in Workers, FailureCallback(w) PROVE LeasedOnce'
  BY <1>15 DEF FailureCallback, rowVars
<1>16. ASSUME NEW w \in Workers, FinishFailed(w) PROVE LeasedOnce'
  BY <1>16, CloseTouches DEF FinishFailed, FailedState
<1>17. ASSUME NEW w \in Workers, FinishFenced(w) PROVE LeasedOnce'
  BY <1>17 DEF FinishFenced, rowVars
<1>18. ASSUME NEW w \in Workers, Renew(w) PROVE LeasedOnce'
  BY <1>18 DEF Renew, rowVars
<1>19. ASSUME NEW w \in Workers, BeatFails(w) PROVE LeasedOnce'
  BY <1>19 DEF BeatFails, rowVars
<1>20. ASSUME NEW w \in Workers, Crash(w) PROVE LeasedOnce'
  BY <1>20 DEF Crash, rowVars
<1>21. ASSUME NEW e \in Effects, Enqueue(e) PROVE LeasedOnce'
  BY <1>21 DEF Enqueue, rowVars
<1>22. ASSUME NEW e \in Effects, Meddle(e) PROVE LeasedOnce'
  BY <1>22 DEF Meddle, rowVars
<1>23. ASSUME NEW e \in Effects, ConfirmIncident(e) PROVE LeasedOnce'
  BY <1>23 DEF ConfirmIncident, rowVars
<1>24. ASSUME NEW e \in Effects, StartRepair(e) PROVE LeasedOnce'
  BY <1>24 DEF StartRepair, rowVars
<1>25. ASSUME NEW e \in Effects, Repair(e) PROVE LeasedOnce'
  BY <1>25 DEF Repair, rowVars
<1>26. ASSUME NEW e \in Effects, StartReconcile(e) PROVE LeasedOnce'
  BY <1>26 DEF StartReconcile, rowVars
<1>27. ASSUME NEW e \in Effects, NEW outcome \in Outcomes, Reconcile(e, outcome) PROVE LeasedOnce'
  BY <1>27 DEF Reconcile, rowVars
<1>28. CASE Tick
  BY <1>28 DEF Tick, rowVars
<1>29. CASE UNCHANGED vars
  BY <1>29 DEF vars, rowVars
<1> HIDE DEF LeasedOnce
<1> QED
  BY <1>1, <1>2, <1>3, <1>4, <1>5, <1>6, <1>7, <1>8, <1>9, <1>10, <1>11,
     <1>12, <1>13, <1>14, <1>15, <1>16, <1>17, <1>18, <1>19, <1>20, <1>21,
     <1>22, <1>23, <1>24, <1>25, <1>26, <1>27, <1>28, <1>29
     DEF Next, WorkerStep, Advance, EffectStep

(***************************************************************************)
(* Success is backed by evidence.                                          *)
(***************************************************************************)
\* What is on the record or about to be recorded has been there.
SeenEffects ==
  \A e \in Effects :
    /\ ack[e] = "evidence" => seen[e] /\ completed[e]
    /\ "evidence" \in inflight[e] => seen[e]
    /\ remote[e] = "present" => seen[e]

\* A worker past a successful readback has seen its effect.
SeenWorkers ==
  \A w \in Workers :
    /\ pc[w] = "check" /\ found[w] => seen[task[w]]
    /\ pc[w] \in {"complete", "ack"} => seen[task[w]]
    /\ pc[w] = "ack" => completed[task[w]]

SeenInv == SeenEffects /\ SeenWorkers

LEMMA SeenClaim ==
  ASSUME TypeInv, SeenInv, NEW w \in Workers, NEW e \in Effects, Claim(w, e)
  PROVE  SeenInv'
<1>1. UNCHANGED <<ack, completed, remote, seen, inflight>>
  BY DEF Claim, outcomeVars, remoteVars
<1>2. SeenEffects'
  BY <1>1 DEF SeenInv, SeenEffects
<1>3. SeenWorkers'
  BY <1>1, ClaimTouches DEF SeenInv, SeenWorkers
<1> QED BY <1>2, <1>3 DEF SeenInv

LEMMA SeenRaise ==
  ASSUME TypeInv, SeenInv, NEW w \in Workers, NEW kind, Raise(w, kind),
         UNCHANGED <<seen, completed>>
  PROVE  SeenWorkers'
  BY RaiseTouches DEF SeenInv, SeenWorkers

LEMMA SeenStep == TypeInv /\ SeenInv /\ [Next]_vars => SeenInv'
<1> SUFFICES ASSUME TypeInv, SeenInv, [Next]_vars PROVE SeenInv'
  OBVIOUS
<1>1. ASSUME NEW w \in Workers, DispatchNext(w) PROVE SeenInv'
  BY <1>1, SeenClaim, DispatchClaims
<1>2. ASSUME NEW w \in Workers, NEW e \in Effects, Expedite(w, e) PROVE SeenInv'
  <2>1. SeenEffects'
    BY <1>2
       DEF Expedite, SeenInv, SeenEffects, SeenWorkers, TypeInv, TypeOK,
           WorkerShape, Placed, rowVars, tableVars, outcomeVars, remoteVars,
           workerVars, boundVars
  <2>2. SeenWorkers'
    BY <1>2
       DEF Expedite, SeenInv, SeenEffects, SeenWorkers, TypeInv, TypeOK,
           WorkerShape, Placed, rowVars, tableVars, outcomeVars, remoteVars,
           workerVars, boundVars
  <2> QED BY <2>1, <2>2 DEF SeenInv
<1>3. ASSUME NEW w \in Workers, ClaimNamed(w) PROVE SeenInv'
  <2>1. CASE Claim(w, task[w])
    BY <1>3, <2>1, SeenClaim, NamedClaims
  <2>2. CASE Rest(w) /\ UNCHANGED <<outcomeVars, remoteVars, inflight>>
    BY <2>2, RestTouches
       DEF SeenInv, SeenEffects, SeenWorkers, outcomeVars, remoteVars
  <2> QED BY <1>3, <2>1, <2>2, NamedClaims
<1>4. ASSUME NEW w \in Workers, Readback(w) PROVE SeenInv'
  <2>1. SeenEffects'
    BY <1>4 DEF Readback, SeenInv, SeenEffects, SeenWorkers, outcomeVars, remoteVars
  <2>2. task[w] \in Effects
    BY <1>4 DEF Readback, TypeInv, WorkerShape, Placed
  <2>3. CASE Raise(w, "terminal")
    <3>1. UNCHANGED <<seen, completed>>
      BY <1>4 DEF Readback, outcomeVars, remoteVars
    <3> QED BY <2>1, <2>3, <3>1, SeenRaise DEF SeenInv
  <2>4. CASE /\ found' = [found EXCEPT ![w] = FirstLook(task[w])]
             /\ GoTo(w, IF task[w] \in PublisherEffects THEN "check"
                        ELSE IF FirstLook(task[w]) THEN "complete" ELSE "apply")
    <3>1. pc'[w] \in {"check", "complete"} => FirstLook(task[w]) \/ ~found'[w]
      BY <2>4, GoToTouches DEF TypeInv, TypeOK
    <3>2. pc'[w] = "complete" => FirstLook(task[w])
      BY <2>4, GoToTouches
    <3>3. pc'[w] # "ack" /\ (FirstLook(task[w]) => seen[task[w]])
      BY <2>2, <2>4, GoToTouches DEF FirstLook, SeenInv, SeenEffects
    <3>4. \A v \in Workers : v # w => pc'[v] = pc[v] /\ found'[v] = found[v]
      BY <2>4, GoToTouches DEF TypeInv, TypeOK
    <3>5. UNCHANGED <<task, seen, completed>>
      BY <1>4, <2>4, GoToTouches DEF Readback, outcomeVars, remoteVars
    <3>6. SeenWorkers' => SeenInv'
      BY <2>1 DEF SeenInv
    <3>7. ASSUME NEW v \in Workers, v # w
          PROVE  /\ pc'[v] = "check" /\ found'[v] => seen'[task'[v]]
                 /\ pc'[v] \in {"complete", "ack"} => seen'[task'[v]]
                 /\ pc'[v] = "ack" => completed'[task'[v]]
      BY <3>4, <3>5, <3>7 DEF SeenInv, SeenWorkers
    <3>8. /\ pc'[w] = "check" /\ found'[w] => seen'[task'[w]]
          /\ pc'[w] \in {"complete", "ack"} => seen'[task'[w]]
      BY <3>1, <3>2, <3>3, <3>5
    <3> QED BY <3>3, <3>6, <3>7, <3>8 DEF SeenWorkers
  <2> QED BY <1>4, <2>1, <2>3, <2>4 DEF Readback, SeenInv
<1>5. ASSUME NEW w \in Workers, CheckMarker(w) PROVE SeenInv'
  <2>1. SeenEffects'
    BY <1>5
       DEF CheckMarker, SeenInv, SeenEffects, SeenWorkers, outcomeVars, remoteVars
  <2>2. SeenWorkers'
    <3>1. UNCHANGED <<seen, completed>>
      BY <1>5 DEF CheckMarker, outcomeVars, remoteVars
    <3>2. CASE Raise(w, "terminal")
      BY <3>1, <3>2, SeenRaise
    <3>3. CASE GoTo(w, IF found[w] THEN "complete" ELSE "apply") /\ UNCHANGED found
      <4>1. pc[w] = "check"
        BY <1>5 DEF CheckMarker
      <4>2. /\ pc'[w] = (IF found[w] THEN "complete" ELSE "apply")
            /\ \A v \in Workers : v # w => pc'[v] = pc[v]
            /\ UNCHANGED <<task, found>>
        BY <3>3, GoToTouches
      <4> QED BY <3>1, <4>1, <4>2 DEF SeenInv, SeenWorkers
    <3> QED BY <1>5, <3>2, <3>3 DEF CheckMarker
  <2> QED BY <2>1, <2>2 DEF SeenInv
<1>6. ASSUME NEW w \in Workers, Apply(w) PROVE SeenInv'
  <2>1. /\ task[w] \in Effects
        /\ Write(task[w]) \/ UNCHANGED remoteVars
        /\ UNCHANGED <<outcomeVars, inflight>>
    BY <1>6 DEF Apply, TypeInv, WorkerShape, Placed
  <2>2. SeenEffects' /\ \A x \in Effects : seen[x] => seen'[x]
    BY <2>1, WriteTouches
       DEF SeenInv, SeenEffects, SeenWorkers, outcomeVars, remoteVars
  <2>3. /\ pc'[w] \in {"confirm", "failed"}
        /\ \A v \in Workers : v # w => pc'[v] = pc[v] /\ found'[v] = found[v]
        /\ UNCHANGED task
    BY <1>6, GoToTouches, RaiseTouches DEF Apply
  <2>4. \A v \in Workers : pc[v] # "idle" => task[v] \in Effects
    BY DEF TypeInv, WorkerShape, Placed
  <2> QED BY <2>1, <2>2, <2>3, <2>4 DEF SeenInv, SeenEffects, SeenWorkers, outcomeVars
<1>7. ASSUME NEW w \in Workers, EnterFence(w) PROVE SeenInv'
  <2>1. SeenEffects'
    BY <1>7
       DEF EnterFence, SeenInv, SeenEffects, SeenWorkers, outcomeVars, remoteVars
  <2>2. SeenWorkers'
    BY <1>7, GoToTouches, RaiseTouches
       DEF EnterFence, SeenInv, SeenEffects, SeenWorkers, outcomeVars, remoteVars
  <2> QED BY <2>1, <2>2 DEF SeenInv
<1>8. ASSUME NEW w \in Workers, MarkStarted(w) PROVE SeenInv'
  <2>1. SeenEffects'
    BY <1>8
       DEF MarkStarted, SeenInv, SeenEffects, SeenWorkers, outcomeVars, remoteVars
  <2>2. CASE Raise(w, "retryable")
    BY <1>8, <2>1, <2>2, SeenRaise DEF MarkStarted, SeenInv, outcomeVars, remoteVars
  <2>3. CASE GoTo(w, "execute") /\ UNCHANGED found
    BY <1>8, <2>1, <2>3, GoToTouches
       DEF MarkStarted, SeenInv, SeenWorkers, outcomeVars, remoteVars
  <2> QED BY <1>8, <2>2, <2>3 DEF MarkStarted
<1>9. ASSUME NEW w \in Workers, Execute(w) PROVE SeenInv'
  <2>1. /\ task[w] \in Effects
        /\ Write(task[w]) \/ UNCHANGED remoteVars
        /\ UNCHANGED <<outcomeVars, inflight>>
    BY <1>9 DEF Execute, TypeInv, WorkerShape, Placed
  <2>2. SeenEffects' /\ \A x \in Effects : seen[x] => seen'[x]
    BY <2>1, WriteTouches
       DEF SeenInv, SeenEffects, SeenWorkers, outcomeVars, remoteVars
  <2>3. /\ pc'[w] \in {"confirm", "failed"}
        /\ \A v \in Workers : v # w => pc'[v] = pc[v] /\ found'[v] = found[v]
        /\ UNCHANGED task
    BY <1>9, GoToTouches, RaiseTouches DEF Execute
  <2>4. \A v \in Workers : pc[v] # "idle" => task[v] \in Effects
    BY DEF TypeInv, WorkerShape, Placed
  <2> QED BY <2>1, <2>2, <2>3, <2>4 DEF SeenInv, SeenEffects, SeenWorkers, outcomeVars
<1>10. ASSUME NEW w \in Workers, Confirm(w) PROVE SeenInv'
  <2>1. SeenEffects' /\ UNCHANGED <<seen, completed>>
    BY <1>10 DEF Confirm, SeenInv, SeenEffects, SeenWorkers, outcomeVars, remoteVars
  <2>2. ASSUME NEW kind, Raise(w, kind) PROVE SeenInv'
    BY <2>1, <2>2, SeenRaise DEF SeenInv
  <2>3. CASE Proven(task[w]) /\ GoTo(w, "complete") /\ UNCHANGED found
    <3>1. task[w] \in Effects /\ seen[task[w]]
      BY <1>10, <2>3
         DEF Confirm, Proven, TypeInv, WorkerShape, Placed, SeenInv, SeenEffects
    <3> QED BY <2>1, <2>3, <3>1, GoToTouches DEF SeenInv, SeenWorkers
  <2> QED BY <1>10, <2>2, <2>3 DEF Confirm
<1>11. ASSUME NEW w \in Workers, CompleteIncident(w) PROVE SeenInv'
  BY <1>11
     DEF CompleteIncident, SeenInv, SeenEffects, SeenWorkers, rowVars, tableVars,
         outcomeVars, remoteVars, workerVars, boundVars
<1>12. ASSUME NEW w \in Workers, Complete(w) PROVE SeenInv'
  <2>1. /\ task[w] \in Effects /\ pc[w] = "complete"
        /\ completed' = [completed EXCEPT ![task[w]] = TRUE]
        /\ UNCHANGED <<ack, remoteVars, inflight, found>>
        /\ GoTo(w, "ack")
    BY <1>12 DEF Complete, TypeInv, WorkerShape, Placed
  <2>2. SeenEffects' /\ completed'[task[w]] /\ \A x \in Effects : completed[x] => completed'[x]
    BY <2>1 DEF SeenInv, SeenEffects, SeenWorkers, TypeInv, TypeOK, remoteVars
  <2>3. \A v \in Workers : pc[v] # "idle" => task[v] \in Effects
    BY DEF TypeInv, WorkerShape, Placed
  <2> QED BY <2>1, <2>2, <2>3, GoToTouches DEF SeenInv, SeenEffects, SeenWorkers, remoteVars
<1>13. ASSUME NEW w \in Workers, CallFails(w) PROVE SeenInv'
  <2>1. SeenEffects'
    BY <1>13
       DEF CallFails, SeenInv, SeenEffects, SeenWorkers, outcomeVars, remoteVars
  <2>2. SeenWorkers'
    BY <1>13, GoToTouches, RaiseTouches
       DEF CallFails, SeenInv, SeenEffects, SeenWorkers, outcomeVars, remoteVars
  <2> QED BY <2>1, <2>2 DEF SeenInv
<1>14. ASSUME NEW w \in Workers, Acknowledge(w) PROVE SeenInv'
  <2>1. task[w] \in Effects /\ seen[task[w]] /\ completed[task[w]]
    BY <1>14 DEF Acknowledge, TypeInv, WorkerShape, Placed, SeenInv, SeenWorkers
  <2>2. ack' = ack \/ ack' = [ack EXCEPT ![task[w]] = "evidence"]
    BY <1>14 DEF Acknowledge
  <2>3. UNCHANGED <<completed, remoteVars, inflight>>
    BY <1>14 DEF Acknowledge
  <2>4. SeenEffects'
    BY <2>1, <2>2, <2>3
       DEF SeenInv, SeenEffects, SeenWorkers, TypeInv, TypeOK, remoteVars
  <2>5. SeenWorkers'
    <3>1. UNCHANGED <<seen, completed>>
      BY <2>3 DEF remoteVars
    <3>2. CASE Rest(w)
      BY <3>1, <3>2, RestTouches DEF SeenInv, SeenWorkers
    <3>3. CASE Raise(w, "retryable")
      BY <3>1, <3>3, SeenRaise
    <3> QED BY <1>14, <3>2, <3>3 DEF Acknowledge
  <2> QED BY <2>4, <2>5 DEF SeenInv
<1>15. ASSUME NEW w \in Workers, FailureCallback(w) PROVE SeenInv'
  <2>1. SeenEffects'
    BY <1>15
       DEF FailureCallback, SeenInv, SeenEffects, SeenWorkers, TypeInv, TypeOK,
           WorkerShape, Placed, rowVars, tableVars, outcomeVars, remoteVars,
           workerVars, boundVars
  <2>2. SeenWorkers'
    BY <1>15
       DEF FailureCallback, SeenInv, SeenEffects, SeenWorkers, TypeInv, TypeOK,
           WorkerShape, Placed, rowVars, tableVars, outcomeVars, remoteVars,
           workerVars, boundVars
  <2> QED BY <2>1, <2>2 DEF SeenInv
<1>16. ASSUME NEW w \in Workers, FinishFailed(w) PROVE SeenInv'
  <2>1. SeenEffects'
    BY <1>16
       DEF FinishFailed, SeenInv, SeenEffects, SeenWorkers, outcomeVars,
           remoteVars
  <2>2. SeenWorkers'
    BY <1>16, RestTouches
       DEF FinishFailed, SeenInv, SeenEffects, SeenWorkers, outcomeVars,
           remoteVars
  <2> QED BY <2>1, <2>2 DEF SeenInv
<1>17. ASSUME NEW w \in Workers, FinishFenced(w) PROVE SeenInv'
  <2>1. SeenEffects'
    BY <1>17
       DEF FinishFenced, SeenInv, SeenEffects, SeenWorkers, outcomeVars,
           remoteVars
  <2>2. SeenWorkers'
    BY <1>17, RestTouches
       DEF FinishFenced, SeenInv, SeenEffects, SeenWorkers, outcomeVars,
           remoteVars
  <2> QED BY <2>1, <2>2 DEF SeenInv
<1>18. ASSUME NEW w \in Workers, Renew(w) PROVE SeenInv'
  BY <1>18
     DEF Renew, SeenInv, SeenEffects, SeenWorkers, rowVars, tableVars,
         outcomeVars, remoteVars, workerVars, boundVars
<1>19. ASSUME NEW w \in Workers, BeatFails(w) PROVE SeenInv'
  BY <1>19
     DEF BeatFails, SeenInv, SeenEffects, SeenWorkers, rowVars, tableVars,
         outcomeVars, remoteVars, workerVars, boundVars
<1>20. ASSUME NEW w \in Workers, Crash(w) PROVE SeenInv'
  <2>1. SeenEffects'
    BY <1>20 DEF Crash, SeenInv, SeenEffects, SeenWorkers, outcomeVars, remoteVars
  <2>2. SeenWorkers'
    BY <1>20, RestTouches
       DEF Crash, SeenInv, SeenEffects, SeenWorkers, outcomeVars, remoteVars
  <2> QED BY <2>1, <2>2 DEF SeenInv
<1>21. ASSUME NEW e \in Effects, Enqueue(e) PROVE SeenInv'
  BY <1>21
     DEF Enqueue, SeenInv, SeenEffects, SeenWorkers, rowVars, tableVars,
         outcomeVars, remoteVars, workerVars, boundVars
<1>22. ASSUME NEW e \in Effects, Meddle(e) PROVE SeenInv'
  <2>1. SeenEffects'
    <3>1. UNCHANGED <<ack, completed, inflight>>
      BY <1>22 DEF Meddle, outcomeVars
    <3>2. \A x \in Effects : x # e => remote'[x] = remote[x] /\ seen'[x] = seen[x]
      BY <1>22 DEF Meddle, TypeInv, TypeOK
    <3>3. (seen[e] => seen'[e]) /\ (remote'[e] = "present" => seen'[e])
      BY <1>22 DEF Meddle, TypeInv, TypeOK
    <3> QED BY <3>1, <3>2, <3>3 DEF SeenInv, SeenEffects
  <2>2. SeenWorkers'
    BY <1>22
       DEF Meddle, SeenInv, SeenEffects, SeenWorkers, TypeInv, TypeOK,
           WorkerShape, Placed, rowVars, tableVars, outcomeVars, remoteVars,
           workerVars, boundVars
  <2> QED BY <2>1, <2>2 DEF SeenInv
<1>23. ASSUME NEW e \in Effects, ConfirmIncident(e) PROVE SeenInv'
  BY <1>23
     DEF ConfirmIncident, SeenInv, SeenEffects, SeenWorkers, rowVars, tableVars,
         outcomeVars, remoteVars, workerVars, boundVars
<1>24. ASSUME NEW e \in Effects, StartRepair(e) PROVE SeenInv'
  BY <1>24
     DEF StartRepair, SeenInv, SeenEffects, SeenWorkers, rowVars, tableVars,
         outcomeVars, remoteVars, workerVars, boundVars
<1>25. ASSUME NEW e \in Effects, Repair(e) PROVE SeenInv'
  BY <1>25
     DEF Repair, SeenInv, SeenEffects, SeenWorkers, rowVars, tableVars,
         outcomeVars, remoteVars, workerVars, boundVars
<1>26. ASSUME NEW e \in Effects, StartReconcile(e) PROVE SeenInv'
  <2>1. SeenEffects'
    BY <1>26
       DEF StartReconcile, SeenInv, SeenEffects, SeenWorkers, TypeInv, TypeOK,
           WorkerShape, Placed, rowVars, tableVars, outcomeVars, remoteVars,
           workerVars, boundVars, Outcomes
  <2>2. SeenWorkers'
    BY <1>26
       DEF StartReconcile, SeenInv, SeenEffects, SeenWorkers, TypeInv, TypeOK,
           WorkerShape, Placed, rowVars, tableVars, outcomeVars, remoteVars,
           workerVars, boundVars
  <2> QED BY <2>1, <2>2 DEF SeenInv
<1>27. ASSUME NEW e \in Effects, NEW outcome \in Outcomes, Reconcile(e, outcome) PROVE SeenInv'
  <2>1. SeenEffects'
    BY <1>27
       DEF Reconcile, SeenInv, SeenEffects, SeenWorkers, TypeInv, TypeOK,
           WorkerShape, Placed, rowVars, tableVars, outcomeVars, remoteVars,
           workerVars, boundVars, Outcomes
  <2>2. SeenWorkers'
    <3>1. UNCHANGED <<pc, task, found, seen>>
      BY <1>27 DEF Reconcile, remoteVars, workerVars
    <3>2. \A x \in Effects : completed[x] => completed'[x]
      BY <1>27 DEF Reconcile, TypeInv, TypeOK
    <3>3. \A v \in Workers : pc[v] # "idle" => task[v] \in Effects
      BY DEF TypeInv, WorkerShape, Placed
    <3> QED BY <3>1, <3>2, <3>3 DEF SeenInv, SeenWorkers
  <2> QED BY <2>1, <2>2 DEF SeenInv
<1>28. CASE Tick
  BY <1>28
     DEF Tick, SeenInv, SeenEffects, SeenWorkers, rowVars, tableVars, outcomeVars,
         remoteVars, workerVars, boundVars
<1>29. CASE UNCHANGED vars
  BY <1>29
     DEF vars, SeenInv, SeenEffects, SeenWorkers, rowVars, tableVars, outcomeVars,
         remoteVars, workerVars, boundVars
<1> QED
  BY <1>1, <1>2, <1>3, <1>4, <1>5, <1>6, <1>7, <1>8, <1>9, <1>10, <1>11,
     <1>12, <1>13, <1>14, <1>15, <1>16, <1>17, <1>18, <1>19, <1>20, <1>21,
     <1>22, <1>23, <1>24, <1>25, <1>26, <1>27, <1>28, <1>29
     DEF Next, WorkerStep, Advance, EffectStep

\* No intent is acknowledged on the strength of the call's own return: what is
\* acknowledged with evidence has been seen downstream, after its local completion
\* (_dispatch_claim, acknowledge_terminal_readback).
THEOREM SuccessIsBacked == Spec => []SuccessWasSeen
<1>1. Init => SeenInv
  BY TopologyAssumption DEF Init, SeenInv, SeenEffects, SeenWorkers, Outcomes
<1>2. SeenInv => SuccessWasSeen
  BY DEF SeenInv, SeenEffects, SuccessWasSeen
<1> QED BY TypeInit, TypeStep, <1>1, SeenStep, <1>2, PTL DEF Spec

(***************************************************************************)
(* Success is final.                                                       *)
(***************************************************************************)
\* The step leaves every acknowledged intent as it is.
Stays ==
  \A e \in Effects :
    state[e] = "succeeded" => state'[e] = "succeeded" /\ ack'[e] = ack[e]

LEMMA StaysClaim ==
  ASSUME TypeInv, NEW w \in Workers, NEW e \in Effects, NEW graced,
         Claimable(e, graced), Claim(w, e)
  PROVE  Stays
  BY DEF Stays, Claimable, Claim, outcomeVars, TypeInv, TypeOK

LEMMA StaysStep == TypeInv /\ [Next]_vars => Stays
<1> SUFFICES ASSUME TypeInv, [Next]_vars PROVE Stays
  OBVIOUS
<1>1. ASSUME NEW w \in Workers, DispatchNext(w) PROVE Stays
  <2>1. PICK x \in Effects : Claimable(x, w \in Polling) /\ Claim(w, x)
    BY <1>1, DispatchClaims
  <2> QED BY <2>1, StaysClaim
<1>2. ASSUME NEW w \in Workers, NEW e \in Effects, Expedite(w, e) PROVE Stays
  BY <1>2 DEF Expedite, Stays, rowVars, outcomeVars
<1>3. ASSUME NEW w \in Workers, ClaimNamed(w) PROVE Stays
  <2>1. CASE Claimable(task[w], FALSE) /\ Claim(w, task[w])
    BY <1>3, <2>1, NamedClaims, StaysClaim
  <2>2. CASE UNCHANGED <<rowVars, outcomeVars>>
    BY <2>2 DEF Stays, rowVars, outcomeVars
  <2> QED BY <1>3, <2>1, <2>2, NamedClaims
<1>4. ASSUME NEW w \in Workers, Readback(w) PROVE Stays
  BY <1>4 DEF Readback, Stays, rowVars, outcomeVars
<1>5. ASSUME NEW w \in Workers, CheckMarker(w) PROVE Stays
  BY <1>5 DEF CheckMarker, Stays, rowVars, outcomeVars
<1>6. ASSUME NEW w \in Workers, Apply(w) PROVE Stays
  BY <1>6 DEF Apply, Stays, rowVars, outcomeVars
<1>7. ASSUME NEW w \in Workers, EnterFence(w) PROVE Stays
  BY <1>7 DEF EnterFence, Stays, rowVars, outcomeVars
<1>8. ASSUME NEW w \in Workers, MarkStarted(w) PROVE Stays
  BY <1>8 DEF MarkStarted, Stays, rowVars, outcomeVars
<1>9. ASSUME NEW w \in Workers, Execute(w) PROVE Stays
  BY <1>9 DEF Execute, Stays, rowVars, outcomeVars
<1>10. ASSUME NEW w \in Workers, Confirm(w) PROVE Stays
  BY <1>10 DEF Confirm, Stays, rowVars, outcomeVars
<1>11. ASSUME NEW w \in Workers, CompleteIncident(w) PROVE Stays
  BY <1>11 DEF CompleteIncident, Stays, rowVars, outcomeVars
<1>12. ASSUME NEW w \in Workers, Complete(w) PROVE Stays
  BY <1>12 DEF Complete, Stays, rowVars, outcomeVars
<1>13. ASSUME NEW w \in Workers, CallFails(w) PROVE Stays
  BY <1>13 DEF CallFails, Stays, rowVars, outcomeVars
<1>14. ASSUME NEW w \in Workers, Acknowledge(w) PROVE Stays
  <2>1. CASE /\ OwnsLease(w, task[w])
             /\ CloseAttempt(task[w], "succeeded")
             /\ ack' = [ack EXCEPT ![task[w]] = "evidence"]
    BY <2>1 DEF Stays, OwnsLease, CloseAttempt, TypeInv, TypeOK
  <2>2. CASE UNCHANGED <<state, ack>>
    BY <2>2 DEF Stays
  <2> QED BY <1>14, <2>1, <2>2 DEF Acknowledge
<1>15. ASSUME NEW w \in Workers, FailureCallback(w) PROVE Stays
  BY <1>15 DEF FailureCallback, Stays, rowVars, outcomeVars
<1>16. ASSUME NEW w \in Workers, FinishFailed(w) PROVE Stays
  BY <1>16
     DEF FinishFailed, Stays, OwnsLease, CloseAttempt, outcomeVars, TypeInv,
         TypeOK
<1>17. ASSUME NEW w \in Workers, FinishFenced(w) PROVE Stays
  BY <1>17 DEF FinishFenced, Stays, rowVars, outcomeVars
<1>18. ASSUME NEW w \in Workers, Renew(w) PROVE Stays
  BY <1>18 DEF Renew, Stays, rowVars, outcomeVars
<1>19. ASSUME NEW w \in Workers, BeatFails(w) PROVE Stays
  BY <1>19 DEF BeatFails, Stays, rowVars, outcomeVars
<1>20. ASSUME NEW w \in Workers, Crash(w) PROVE Stays
  BY <1>20 DEF Crash, Stays, rowVars, outcomeVars
<1>21. ASSUME NEW e \in Effects, Enqueue(e) PROVE Stays
  BY <1>21 DEF Enqueue, Stays, outcomeVars, TypeInv, TypeOK
<1>22. ASSUME NEW e \in Effects, Meddle(e) PROVE Stays
  BY <1>22 DEF Meddle, Stays, rowVars, outcomeVars
<1>23. ASSUME NEW e \in Effects, ConfirmIncident(e) PROVE Stays
  BY <1>23 DEF ConfirmIncident, Stays, rowVars, outcomeVars
<1>24. ASSUME NEW e \in Effects, StartRepair(e) PROVE Stays
  BY <1>24 DEF StartRepair, Stays, rowVars, outcomeVars
<1>25. ASSUME NEW e \in Effects, Repair(e) PROVE Stays
  BY <1>25 DEF Repair, Stays, outcomeVars, TypeInv, TypeOK
<1>26. ASSUME NEW e \in Effects, StartReconcile(e) PROVE Stays
  BY <1>26 DEF StartReconcile, Stays, rowVars, outcomeVars
<1>27. ASSUME NEW e \in Effects, NEW outcome \in Outcomes, Reconcile(e, outcome) PROVE Stays
  <2>1. CASE /\ state[e] = "terminal"
             /\ state' = [state EXCEPT ![e] = "succeeded"]
             /\ ack' = [ack EXCEPT ![e] = outcome]
    BY <2>1 DEF Stays, TypeInv, TypeOK
  <2>2. CASE UNCHANGED <<state, ack>>
    BY <2>2 DEF Stays
  <2> QED BY <1>27, <2>1, <2>2 DEF Reconcile
<1>28. CASE Tick
  BY <1>28 DEF Tick, Stays, rowVars, outcomeVars
<1>29. CASE UNCHANGED vars
  BY <1>29 DEF vars, Stays, rowVars, outcomeVars
<1> QED
  BY <1>1, <1>2, <1>3, <1>4, <1>5, <1>6, <1>7, <1>8, <1>9, <1>10, <1>11,
     <1>12, <1>13, <1>14, <1>15, <1>16, <1>17, <1>18, <1>19, <1>20, <1>21,
     <1>22, <1>23, <1>24, <1>25, <1>26, <1>27, <1>28, <1>29
     DEF Next, WorkerStep, Advance, EffectStep

\* An acknowledged intent never changes again, whatever stale workers, operator
\* repairs and reconciliations still do (_owned_lease, repair,
\* acknowledge_terminal_readback).
THEOREM SuccessStays == Spec => SuccessIsFinal
<1>1. TypeInv /\ [Next]_vars => [Stays]_vars
  BY StaysStep
<1> QED BY TypeInit, TypeStep, <1>1, PTL DEF Spec, SuccessIsFinal, Stays

(***************************************************************************)
(* Semantic once.                                                          *)
(***************************************************************************)
\* A claimed worker owns a live lease and its heartbeat has not failed.
Live(w) == OwnsLease(w, task[w]) /\ beat[w] # "lost"

\* A worker that will call the effect works on one that was never written.
Clean(w) ==
  pc[w] \in {"apply", "mark", "execute"} \/ (pc[w] = "check" /\ ~found[w])
    => writes[task[w]] = 0

Undisturbed ==
  /\ \A w \in Workers : pc[w] \in Claimed => Live(w) /\ Clean(w)
  /\ \A v \in Workers, w \in Workers :
       pc[v] \in Claimed /\ pc[w] \in Claimed /\ task[v] = task[w] => v = w
  /\ \A e \in Effects : writes[e] <= 1

WriteRemains == \A e \in Effects : writes[e] > 0 => remote[e] # "absent"

OnceInv == WriteRemains /\ (stalls = 0 => Undisturbed)

LEMMA OnceClaim ==
  ASSUME TypeInv, OnceInv, NEW w \in Workers, NEW e \in Effects, NEW graced,
         Claimable(e, graced), Claim(w, e)
  PROVE  OnceInv'
<1>1. /\ pc'[w] = "readback" /\ task'[w] = e /\ beat'[w] = "on"
      /\ \A v \in Workers : v # w => /\ pc'[v] = pc[v] /\ task'[v] = task[v]
                                     /\ beat'[v] = beat[v] /\ found'[v] = found[v]
  BY ClaimTouches
<1>2. /\ state'[e] = "leased" /\ owner'[e] = OwnerOf[w] /\ lease'[e] = LeaseTime
      /\ \A x \in Effects : x # e => /\ state'[x] = state[x] /\ owner'[x] = owner[x]
                                     /\ lease'[x] = lease[x]
  BY ClaimWrites
<1>3. UNCHANGED <<remote, writes, stalls>>
  BY DEF Claim, remoteVars, boundVars
<1>4. ~(state[e] = "leased" /\ lease[e] > 0)
  BY DEF Claimable
<1>5. ASSUME Undisturbed PROVE Undisturbed'
  <2>1. ASSUME NEW v \in Workers, v # w, pc[v] \in Claimed
        PROVE  task[v] # e /\ task[v] \in Effects
    BY <1>4, <1>5, <2>1
       DEF Undisturbed, Live, OwnsLease, TypeInv, WorkerShape, Placed, Claimed, Steps
  <2>2. Live(w)' /\ Clean(w)'
    BY <1>1, <1>2, SettingsAssumption DEF Live, OwnsLease, Clean
  <2>3. ASSUME NEW v \in Workers, v # w, pc[v] \in Claimed PROVE Live(v)' /\ Clean(v)'
    BY <1>1, <1>2, <1>3, <1>5, <2>1, <2>3 DEF Undisturbed, Live, OwnsLease, Clean
  <2>4. \A v \in Workers : pc'[v] \in Claimed => Live(v)' /\ Clean(v)'
    BY <1>1, <2>2, <2>3
  <2>5. \A v \in Workers, u \in Workers :
          pc'[v] \in Claimed /\ pc'[u] \in Claimed /\ task'[v] = task'[u] => v = u
    BY <1>1, <1>5, <2>1 DEF Undisturbed
  <2> QED BY <1>3, <1>5, <2>4, <2>5 DEF Undisturbed
<1> QED BY <1>3, <1>5 DEF OnceInv, WriteRemains

\* One worker moves on within its claim.
LEMMA OnceMove ==
  ASSUME TypeInv, OnceInv, NEW w \in Workers,
         UNCHANGED <<state, owner, lease, remote, writes, stalls>>,
         pc[w] \in Claimed, pc'[w] \in Claimed, task'[w] = task[w],
         beat'[w] = beat[w] \/ beat'[w] # "lost",
         Clean(w) => Clean(w)',
         \A v \in Workers : v # w => /\ pc'[v] = pc[v] /\ task'[v] = task[v]
                                     /\ beat'[v] = beat[v] /\ found'[v] = found[v]
  PROVE  OnceInv'
<1>1. ASSUME Undisturbed PROVE Undisturbed'
  <2>1. \A v \in Workers : pc'[v] \in Claimed => pc[v] \in Claimed /\ task'[v] = task[v]
    OBVIOUS
  <2>2. Live(w)' /\ Clean(w)'
    BY <1>1 DEF Undisturbed, Live, OwnsLease
  <2>3. ASSUME NEW v \in Workers, v # w, pc[v] \in Claimed PROVE Live(v)' /\ Clean(v)'
    BY <1>1, <2>3 DEF Undisturbed, Live, OwnsLease, Clean
  <2> QED BY <1>1, <2>1, <2>2, <2>3 DEF Undisturbed
<1> QED BY <1>1 DEF OnceInv, WriteRemains

LEMMA OnceRaise ==
  ASSUME TypeInv, OnceInv, NEW w \in Workers, NEW kind, Raise(w, kind),
         UNCHANGED <<state, owner, lease, remote, writes, stalls>>, pc[w] \in Claimed
  PROVE  OnceInv'
<1>1. /\ pc'[w] = "failed" /\ beat'[w] = "off"
      /\ \A v \in Workers : v # w => /\ pc'[v] = pc[v] /\ beat'[v] = beat[v]
                                     /\ found'[v] = found[v]
      /\ UNCHANGED task
  BY RaiseTouches
<1>2. Clean(w)'
  BY <1>1 DEF Clean
<1> QED BY <1>1, <1>2, OnceMove DEF Claimed, Steps

LEMMA OnceRest ==
  ASSUME TypeInv, OnceInv, NEW w \in Workers, Rest(w),
         UNCHANGED <<state, owner, lease, remote, writes, stalls>>
  PROVE  OnceInv'
<1>1. /\ pc'[w] = "idle"
      /\ \A v \in Workers : v # w => /\ pc'[v] = pc[v] /\ task'[v] = task[v]
                                     /\ beat'[v] = beat[v] /\ found'[v] = found[v]
  BY RestTouches
<1> QED
  BY <1>1 DEF OnceInv, WriteRemains, Undisturbed, Live, OwnsLease, Clean, Claimed

\* One worker settles its claim: nobody else was working on the effect.
LEMMA OnceClose ==
  ASSUME TypeInv, OnceInv, NEW w \in Workers, NEW s, pc[w] \in Claimed,
         task[w] \in Effects, CloseAttempt(task[w], s), Rest(w),
         UNCHANGED <<remote, writes, stalls>>
  PROVE  OnceInv'
<1>1. /\ pc'[w] = "idle"
      /\ \A v \in Workers : v # w => /\ pc'[v] = pc[v] /\ task'[v] = task[v]
                                     /\ beat'[v] = beat[v] /\ found'[v] = found[v]
  BY RestTouches
<1>2. \A x \in Effects : x # task[w] => /\ state'[x] = state[x] /\ owner'[x] = owner[x]
                                        /\ lease'[x] = lease[x]
  BY CloseTouches
<1>3. ASSUME Undisturbed PROVE Undisturbed'
  <2>1. ASSUME NEW v \in Workers, pc'[v] \in Claimed
        PROVE  v # w /\ task[v] # task[w] /\ task[v] \in Effects
    BY <1>1, <1>3, <2>1
       DEF Undisturbed, TypeInv, WorkerShape, Placed, Claimed, Steps
  <2>2. ASSUME NEW v \in Workers, pc'[v] \in Claimed PROVE Live(v)' /\ Clean(v)'
    BY <1>1, <1>2, <1>3, <2>1, <2>2 DEF Undisturbed, Live, OwnsLease, Clean
  <2> QED BY <1>1, <1>3, <2>1, <2>2 DEF Undisturbed
<1> QED BY <1>3 DEF OnceInv, WriteRemains

\* A row step that ends no lease keeps what the workers rely on.
LEMMA OnceRows ==
  ASSUME TypeInv, OnceInv,
         UNCHANGED <<owner, writes, stalls, pc, task, found, beat>>,
         \A e \in Effects : state[e] = "leased" => state'[e] = "leased",
         \A e \in Effects : lease[e] > 0 => lease'[e] > 0,
         \A e \in Effects : remote[e] # "absent" => remote'[e] # "absent"
  PROVE  OnceInv'
<1>1. \A w \in Workers : pc[w] \in Claimed => task[w] \in Effects
  BY DEF TypeInv, WorkerShape, Placed, Claimed
<1>2. \A w \in Workers : pc[w] \in Claimed /\ Live(w) => Live(w)'
  BY <1>1 DEF Live, OwnsLease
<1> QED BY <1>2 DEF OnceInv, WriteRemains, Undisturbed, Clean

\* The call itself: the effect had not been written, and nobody else is on it.
LEMMA OnceWrite ==
  ASSUME TypeInv, OnceInv, NEW w \in Workers,
         UNCHANGED <<state, owner, lease, stalls, task>>,
         pc[w] \in {"apply", "execute"}, task[w] \in Effects,
         Write(task[w]) \/ UNCHANGED remoteVars,
         pc'[w] \in {"confirm", "failed"}, beat'[w] # "lost" \/ beat'[w] = beat[w],
         \A v \in Workers : v # w => /\ pc'[v] = pc[v] /\ beat'[v] = beat[v]
                                     /\ found'[v] = found[v]
  PROVE  OnceInv'
<1>1. CASE UNCHANGED remoteVars
  <2>1. Clean(w)'
    BY DEF Clean
  <2> QED BY <1>1, <2>1, OnceMove DEF Claimed, Steps, remoteVars
<1>2. CASE Write(task[w])
  <2>1. /\ remote'[task[w]] = "present" /\ writes'[task[w]] = writes[task[w]] + 1
        /\ \A x \in Effects : x # task[w] => remote'[x] = remote[x] /\ writes'[x] = writes[x]
    BY <1>2, WriteTouches
  <2>2. WriteRemains'
    BY <2>1 DEF OnceInv, WriteRemains
  <2>3. ASSUME Undisturbed PROVE Undisturbed'
    <3>1. writes[task[w]] = 0 /\ pc[w] \in Claimed
      BY <2>3 DEF Undisturbed, Clean, Claimed, Steps
    <3>2. \A e \in Effects : writes'[e] <= 1
      BY <2>1, <2>3, <3>1 DEF Undisturbed
    <3>3. Live(w)' /\ Clean(w)'
      BY <2>3, <3>1 DEF Undisturbed, Live, OwnsLease, Clean
    <3>4. ASSUME NEW v \in Workers, v # w, pc[v] \in Claimed
          PROVE  /\ task[v] # task[w] /\ task[v] \in Effects
                 /\ Live(v)' /\ Clean(v)'
      <4>1. task[v] # task[w] /\ task[v] \in Effects
        BY <2>3, <3>1, <3>4 DEF Undisturbed, TypeInv, WorkerShape, Placed, Claimed
      <4> QED BY <2>1, <2>3, <3>4, <4>1 DEF Undisturbed, Live, OwnsLease, Clean
    <3> QED BY <2>3, <3>1, <3>2, <3>3, <3>4 DEF Undisturbed
  <2> QED BY <2>2, <2>3 DEF OnceInv
<1> QED BY <1>1, <1>2

LEMMA OnceStep == TypeInv /\ OnceInv /\ [Next]_vars => OnceInv'
<1> SUFFICES ASSUME TypeInv, OnceInv, [Next]_vars PROVE OnceInv'
  OBVIOUS
<1>1. ASSUME NEW w \in Workers, DispatchNext(w) PROVE OnceInv'
  <2>1. PICK x \in Effects : Claimable(x, w \in Polling) /\ Claim(w, x)
    BY <1>1, DispatchClaims
  <2> QED BY <2>1, OnceClaim
<1>2. ASSUME NEW w \in Workers, NEW e \in Effects, Expedite(w, e) PROVE OnceInv'
  <2>1. /\ UNCHANGED <<state, owner, lease, remote, writes, stalls>>
        /\ pc'[w] = "named"
        /\ \A v \in Workers : v # w => pc'[v] = pc[v] /\ task'[v] = task[v]
        /\ UNCHANGED <<found, beat>>
    BY <1>2 DEF Expedite, remoteVars, boundVars, TypeInv, TypeOK
  <2> QED BY <2>1 DEF OnceInv, WriteRemains, Undisturbed, Live, OwnsLease, Clean, Claimed, Steps
<1>3. ASSUME NEW w \in Workers, ClaimNamed(w) PROVE OnceInv'
  <2>1. CASE Claimable(task[w], FALSE) /\ Claim(w, task[w])
    BY <1>3, <2>1, NamedClaims, OnceClaim
  <2>2. CASE Rest(w) /\ UNCHANGED <<rowVars, remoteVars, boundVars>>
    BY <2>2, OnceRest DEF rowVars, remoteVars, boundVars
  <2> QED BY <1>3, <2>1, <2>2, NamedClaims
<1>4. ASSUME NEW w \in Workers, Readback(w) PROVE OnceInv'
  <2>1. /\ UNCHANGED <<state, owner, lease, remote, writes, stalls>>
        /\ pc[w] \in Claimed /\ task[w] \in Effects
    BY <1>4
       DEF Readback, rowVars, tableVars, outcomeVars, remoteVars, boundVars,
           Claimed, Steps, TypeInv, WorkerShape, Placed
  <2>2. ASSUME NEW kind, Raise(w, kind) PROVE OnceInv'
    BY <2>1, <2>2, OnceRaise
  <2>3. CASE /\ remote[task[w]] # "conflict"
             /\ found' = [found EXCEPT ![w] = FirstLook(task[w])]
             /\ GoTo(w, IF task[w] \in PublisherEffects THEN "check"
                        ELSE IF FirstLook(task[w]) THEN "complete" ELSE "apply")
    <3>1. /\ pc'[w] \in {"check", "complete", "apply"}
          /\ pc'[w] = "apply" => ~FirstLook(task[w])
          /\ task'[w] = task[w] /\ beat'[w] = beat[w]
          /\ \A v \in Workers : v # w => /\ pc'[v] = pc[v] /\ task'[v] = task[v]
                                         /\ beat'[v] = beat[v]
      BY <2>3, GoToTouches
    <3>2. /\ found'[w] = FirstLook(task[w])
          /\ \A v \in Workers : v # w => found'[v] = found[v]
      BY <2>3 DEF TypeInv, TypeOK
    <3>3. ~FirstLook(task[w]) => writes[task[w]] = 0
      BY <2>1, <2>3 DEF FirstLook, OnceInv, WriteRemains, TypeInv, TypeOK
    <3>4. Clean(w)'
      BY <2>1, <3>1, <3>2, <3>3 DEF Clean
    <3> QED BY <2>1, <3>1, <3>2, <3>4, OnceMove DEF Claimed, Steps
  <2> QED BY <1>4, <2>2, <2>3 DEF Readback
<1>5. ASSUME NEW w \in Workers, CheckMarker(w) PROVE OnceInv'
  <2>1. /\ UNCHANGED <<state, owner, lease, remote, writes, stalls>>
        /\ pc[w] \in Claimed /\ task[w] \in Effects
    BY <1>5
       DEF CheckMarker, rowVars, tableVars, outcomeVars, remoteVars, boundVars,
           Claimed, Steps, TypeInv, WorkerShape, Placed
  <2>2. ASSUME NEW kind, Raise(w, kind) PROVE OnceInv'
    BY <2>1, <2>2, OnceRaise
  <2>3. CASE GoTo(w, IF found[w] THEN "complete" ELSE "apply") /\ UNCHANGED found
    <3>1. /\ pc[w] = "check"
          /\ pc'[w] = IF found[w] THEN "complete" ELSE "apply"
          /\ task'[w] = task[w] /\ beat'[w] = beat[w]
          /\ \A v \in Workers : v # w => /\ pc'[v] = pc[v] /\ task'[v] = task[v]
                                         /\ beat'[v] = beat[v] /\ found'[v] = found[v]
      BY <1>5, <2>3, GoToTouches DEF CheckMarker
    <3>2. Clean(w) => Clean(w)'
      BY <2>1, <3>1 DEF Clean
    <3> QED BY <2>1, <3>1, <3>2, OnceMove DEF Claimed, Steps
  <2> QED BY <1>5, <2>2, <2>3 DEF CheckMarker
<1>6. ASSUME NEW w \in Workers, Apply(w) PROVE OnceInv'
  <2>1. /\ UNCHANGED <<state, owner, lease, stalls>>
        /\ pc[w] \in {"apply", "execute"} /\ task[w] \in Effects
        /\ Write(task[w]) \/ UNCHANGED remoteVars
    BY <1>6
       DEF Apply, rowVars, tableVars, outcomeVars, remoteVars, boundVars, TypeInv,
           WorkerShape, Placed
  <2>2. /\ pc'[w] \in {"confirm", "failed"} /\ (beat'[w] # "lost" \/ beat'[w] = beat[w])
        /\ \A v \in Workers : v # w => /\ pc'[v] = pc[v] /\ beat'[v] = beat[v]
                                       /\ found'[v] = found[v]
        /\ UNCHANGED task
    BY <1>6, GoToTouches, RaiseTouches DEF Apply
  <2> QED BY <2>1, <2>2, OnceWrite
<1>7. ASSUME NEW w \in Workers, EnterFence(w) PROVE OnceInv'
  <2>1. /\ UNCHANGED <<state, owner, lease, remote, writes, stalls>>
        /\ pc[w] \in Claimed /\ task[w] \in Effects
    BY <1>7
       DEF EnterFence, rowVars, tableVars, outcomeVars, remoteVars, boundVars,
           Claimed, Steps, TypeInv, WorkerShape, Placed
  <2>3. CASE GoTo(w, "mark")
    <3>1. /\ pc'[w] = "mark" /\ task'[w] = task[w] /\ beat'[w] = beat[w]
          /\ \A v \in Workers : v # w => /\ pc'[v] = pc[v] /\ task'[v] = task[v]
                                         /\ beat'[v] = beat[v]
          /\ UNCHANGED found
      BY <1>7, <2>3, GoToTouches DEF EnterFence
    <3>2. Clean(w) => Clean(w)'
      BY <1>7, <2>1, <3>1 DEF EnterFence, Clean
    <3> QED BY <2>1, <3>1, <3>2, OnceMove DEF Claimed, Steps
  <2> QED BY <1>7, <2>3 DEF EnterFence
<1>8. ASSUME NEW w \in Workers, MarkStarted(w) PROVE OnceInv'
  <2>1. /\ UNCHANGED <<state, owner, lease, remote, writes, stalls>>
        /\ pc[w] \in Claimed /\ task[w] \in Effects
    BY <1>8
       DEF MarkStarted, rowVars, tableVars, outcomeVars, remoteVars, boundVars,
           Claimed, Steps, TypeInv, WorkerShape, Placed
  <2>2. ASSUME NEW kind, Raise(w, kind) PROVE OnceInv'
    BY <2>1, <2>2, OnceRaise
  <2>3. CASE GoTo(w, "execute") /\ UNCHANGED found
    <3>1. /\ pc'[w] = "execute" /\ task'[w] = task[w] /\ beat'[w] = beat[w]
          /\ \A v \in Workers : v # w => /\ pc'[v] = pc[v] /\ task'[v] = task[v]
                                         /\ beat'[v] = beat[v]
          /\ UNCHANGED found
      BY <1>8, <2>3, GoToTouches
    <3>2. Clean(w) => Clean(w)'
      BY <1>8, <2>1, <3>1 DEF MarkStarted, Clean
    <3> QED BY <2>1, <3>1, <3>2, OnceMove DEF Claimed, Steps
  <2> QED BY <1>8, <2>3, <2>2 DEF MarkStarted
<1>9. ASSUME NEW w \in Workers, Execute(w) PROVE OnceInv'
  <2>1. /\ UNCHANGED <<state, owner, lease, stalls>>
        /\ pc[w] \in {"apply", "execute"} /\ task[w] \in Effects
        /\ Write(task[w]) \/ UNCHANGED remoteVars
    BY <1>9
       DEF Execute, rowVars, tableVars, outcomeVars, remoteVars, boundVars,
           TypeInv, WorkerShape, Placed
  <2>2. /\ pc'[w] \in {"confirm", "failed"} /\ (beat'[w] # "lost" \/ beat'[w] = beat[w])
        /\ \A v \in Workers : v # w => /\ pc'[v] = pc[v] /\ beat'[v] = beat[v]
                                       /\ found'[v] = found[v]
        /\ UNCHANGED task
    BY <1>9, GoToTouches, RaiseTouches DEF Execute
  <2> QED BY <2>1, <2>2, OnceWrite
<1>10. ASSUME NEW w \in Workers, Confirm(w) PROVE OnceInv'
  <2>1. /\ UNCHANGED <<state, owner, lease, remote, writes, stalls>>
        /\ pc[w] \in Claimed /\ task[w] \in Effects
    BY <1>10
       DEF Confirm, rowVars, tableVars, outcomeVars, remoteVars, boundVars,
           Claimed, Steps, TypeInv, WorkerShape, Placed
  <2>2. ASSUME NEW kind, Raise(w, kind) PROVE OnceInv'
    BY <2>1, <2>2, OnceRaise
  <2>3. CASE GoTo(w, "complete") /\ UNCHANGED found
    <3>1. /\ pc'[w] = "complete" /\ task'[w] = task[w] /\ beat'[w] = beat[w]
          /\ \A v \in Workers : v # w => /\ pc'[v] = pc[v] /\ task'[v] = task[v]
                                         /\ beat'[v] = beat[v]
          /\ UNCHANGED found
      BY <1>10, <2>3, GoToTouches
    <3>2. Clean(w) => Clean(w)'
      BY <1>10, <2>1, <3>1 DEF Confirm, Clean
    <3> QED BY <2>1, <3>1, <3>2, OnceMove DEF Claimed, Steps
  <2> QED BY <1>10, <2>3, <2>2 DEF Confirm
<1>11. ASSUME NEW w \in Workers, CompleteIncident(w) PROVE OnceInv'
  BY <1>11
     DEF CompleteIncident, rowVars, tableVars, outcomeVars, remoteVars, boundVars,
         workerVars, OnceInv, WriteRemains, Undisturbed, Live, OwnsLease, Clean
<1>12. ASSUME NEW w \in Workers, Complete(w) PROVE OnceInv'
  <2>1. /\ UNCHANGED <<state, owner, lease, remote, writes, stalls>>
        /\ pc[w] \in Claimed /\ task[w] \in Effects
    BY <1>12
       DEF Complete, rowVars, tableVars, outcomeVars, remoteVars, boundVars,
           Claimed, Steps, TypeInv, WorkerShape, Placed
  <2>3. CASE GoTo(w, "ack")
    <3>1. /\ pc'[w] = "ack" /\ task'[w] = task[w] /\ beat'[w] = beat[w]
          /\ \A v \in Workers : v # w => /\ pc'[v] = pc[v] /\ task'[v] = task[v]
                                         /\ beat'[v] = beat[v]
          /\ UNCHANGED found
      BY <1>12, <2>3, GoToTouches DEF Complete
    <3>2. Clean(w) => Clean(w)'
      BY <1>12, <2>1, <3>1 DEF Complete, Clean
    <3> QED BY <2>1, <3>1, <3>2, OnceMove DEF Claimed, Steps
  <2> QED BY <1>12, <2>3 DEF Complete
<1>13. ASSUME NEW w \in Workers, CallFails(w) PROVE OnceInv'
  <2>1. /\ UNCHANGED <<state, owner, lease, remote, writes, stalls>>
        /\ pc[w] \in Claimed /\ task[w] \in Effects
    BY <1>13
       DEF CallFails, rowVars, tableVars, outcomeVars, remoteVars, boundVars,
           Claimed, Steps, TypeInv, WorkerShape, Placed
  <2>2. ASSUME NEW kind, Raise(w, kind) PROVE OnceInv'
    BY <2>1, <2>2, OnceRaise
  <2> QED BY <1>13, <2>2 DEF CallFails
<1>14. ASSUME NEW w \in Workers, Acknowledge(w) PROVE OnceInv'
  <2>1. /\ UNCHANGED <<remote, writes, stalls>>
        /\ pc[w] \in Claimed /\ task[w] \in Effects
    BY <1>14
       DEF Acknowledge, remoteVars, boundVars, Claimed, Steps, TypeInv,
           WorkerShape, Placed
  <2>2. CASE Raise(w, "retryable") /\ UNCHANGED <<state, owner, lease, open, ack>>
    BY <2>1, <2>2, OnceRaise
  <2>3. CASE CloseAttempt(task[w], "succeeded") /\ Rest(w)
    BY <2>1, <2>3, OnceClose
  <2> QED BY <1>14, <2>2, <2>3 DEF Acknowledge
<1>15. ASSUME NEW w \in Workers, FailureCallback(w) PROVE OnceInv'
  <2>1. /\ UNCHANGED <<state, owner, lease, remote, writes, stalls>>
        /\ UNCHANGED <<task, beat, found>>
        /\ pc[w] = "failed" /\ pc'[w] = "record"
        /\ \A v \in Workers : v # w => pc'[v] = pc[v]
    BY <1>15
       DEF FailureCallback, rowVars, tableVars, outcomeVars, remoteVars,
           boundVars, TypeInv, TypeOK
  <2>2. Clean(w)'
    BY <2>1 DEF Clean
  <2> QED BY <2>1, <2>2, OnceMove DEF Claimed, Steps
<1>16. ASSUME NEW w \in Workers, FinishFailed(w) PROVE OnceInv'
  <2>1. /\ UNCHANGED <<remote, writes, stalls>>
        /\ pc[w] \in Claimed /\ task[w] \in Effects
        /\ CloseAttempt(task[w], FailedState(w)) /\ Rest(w)
    BY <1>16
       DEF FinishFailed, remoteVars, Claimed, Steps, TypeInv, WorkerShape, Placed
  <2> QED BY <2>1, OnceClose
<1>17. ASSUME NEW w \in Workers, FinishFenced(w) PROVE OnceInv'
  <2>1. UNCHANGED <<state, owner, lease, remote, writes, stalls>> /\ Rest(w)
    BY <1>17
       DEF FinishFenced, rowVars, tableVars, outcomeVars, remoteVars, boundVars
  <2> QED BY <2>1, OnceRest
<1>18. ASSUME NEW w \in Workers, Renew(w) PROVE OnceInv'
  <2>1. /\ UNCHANGED <<state, owner, remote, writes, stalls, pc, task, found, beat>>
        /\ \A e \in Effects : lease[e] > 0 => lease'[e] > 0
    BY <1>18, SettingsAssumption
       DEF Renew, remoteVars, workerVars, boundVars, TypeInv, TypeOK
  <2> QED BY <2>1, OnceRows
<1>19. ASSUME NEW w \in Workers, BeatFails(w) PROVE OnceInv'
  <2>1. pc[w] \in Claimed
    BY <1>19 DEF BeatFails, TypeInv, WorkerShape
  <2>2. UNCHANGED <<state, owner, lease, remote, writes, pc, task, found>>
    BY <1>19 DEF BeatFails, rowVars, remoteVars
  <2>3. CASE ~OwnsLease(w, task[w]) /\ UNCHANGED stalls
    BY <2>1, <2>2, <2>3 DEF OnceInv, WriteRemains, Undisturbed, Live
  <2>4. CASE stalls' = stalls + 1
    <3>1. stalls' # 0
      BY <2>4 DEF TypeInv, TypeOK
    <3> QED BY <2>2, <3>1 DEF OnceInv, WriteRemains
  <2> QED BY <1>19, <2>3, <2>4 DEF BeatFails
<1>20. ASSUME NEW w \in Workers, Crash(w) PROVE OnceInv'
  <2>1. UNCHANGED <<state, owner, lease, remote, writes, stalls>> /\ Rest(w)
    BY <1>20 DEF Crash, rowVars, tableVars, outcomeVars, remoteVars, boundVars
  <2> QED BY <2>1, OnceRest
<1>21. ASSUME NEW e \in Effects, Enqueue(e) PROVE OnceInv'
  <2>1. UNCHANGED <<owner, lease, writes, stalls, pc, task, found, beat>>
    BY <1>21
       DEF Enqueue, rowVars, tableVars, outcomeVars, remoteVars, workerVars,
           boundVars
  <2>2. \A x \in Effects : state[x] = "leased" => state'[x] = "leased"
    BY <1>21 DEF Enqueue, rowVars, TypeInv, TypeOK
  <2>3. \A x \in Effects : remote[x] # "absent" => remote'[x] # "absent"
    BY <1>21 DEF Enqueue, remoteVars, TypeInv, TypeOK
  <2> QED BY <2>1, <2>2, <2>3, OnceRows
<1>22. ASSUME NEW e \in Effects, Meddle(e) PROVE OnceInv'
  <2>1. UNCHANGED <<owner, lease, writes, stalls, pc, task, found, beat>>
    BY <1>22
       DEF Meddle, rowVars, tableVars, outcomeVars, remoteVars, workerVars,
           boundVars
  <2>2. \A x \in Effects : state[x] = "leased" => state'[x] = "leased"
    BY <1>22 DEF Meddle, rowVars, TypeInv, TypeOK
  <2>3. \A x \in Effects : remote[x] # "absent" => remote'[x] # "absent"
    BY <1>22 DEF Meddle, remoteVars, TypeInv, TypeOK
  <2> QED BY <2>1, <2>2, <2>3, OnceRows
<1>23. ASSUME NEW e \in Effects, ConfirmIncident(e) PROVE OnceInv'
  <2>1. UNCHANGED <<owner, lease, writes, stalls, pc, task, found, beat>>
    BY <1>23
       DEF ConfirmIncident, rowVars, tableVars, outcomeVars, remoteVars,
           workerVars, boundVars
  <2>2. \A x \in Effects : state[x] = "leased" => state'[x] = "leased"
    BY <1>23 DEF ConfirmIncident, rowVars, TypeInv, TypeOK
  <2>3. \A x \in Effects : remote[x] # "absent" => remote'[x] # "absent"
    BY <1>23 DEF ConfirmIncident, remoteVars, TypeInv, TypeOK
  <2> QED BY <2>1, <2>2, <2>3, OnceRows
<1>24. ASSUME NEW e \in Effects, StartRepair(e) PROVE OnceInv'
  <2>1. UNCHANGED <<owner, lease, writes, stalls, pc, task, found, beat>>
    BY <1>24
       DEF StartRepair, rowVars, tableVars, outcomeVars, remoteVars, workerVars,
           boundVars
  <2>2. \A x \in Effects : state[x] = "leased" => state'[x] = "leased"
    BY <1>24 DEF StartRepair, rowVars, TypeInv, TypeOK
  <2>3. \A x \in Effects : remote[x] # "absent" => remote'[x] # "absent"
    BY <1>24 DEF StartRepair, remoteVars, TypeInv, TypeOK
  <2> QED BY <2>1, <2>2, <2>3, OnceRows
<1>25. ASSUME NEW e \in Effects, Repair(e) PROVE OnceInv'
  <2>1. UNCHANGED <<owner, lease, writes, stalls, pc, task, found, beat>>
    BY <1>25
       DEF Repair, rowVars, tableVars, outcomeVars, remoteVars, workerVars,
           boundVars
  <2>2. \A x \in Effects : state[x] = "leased" => state'[x] = "leased"
    BY <1>25 DEF Repair, rowVars, TypeInv, TypeOK
  <2>3. \A x \in Effects : remote[x] # "absent" => remote'[x] # "absent"
    BY <1>25 DEF Repair, remoteVars, TypeInv, TypeOK
  <2> QED BY <2>1, <2>2, <2>3, OnceRows
<1>26. ASSUME NEW e \in Effects, StartReconcile(e) PROVE OnceInv'
  <2>1. UNCHANGED <<owner, lease, writes, stalls, pc, task, found, beat>>
    BY <1>26
       DEF StartReconcile, rowVars, tableVars, outcomeVars, remoteVars,
           workerVars, boundVars
  <2>2. \A x \in Effects : state[x] = "leased" => state'[x] = "leased"
    BY <1>26 DEF StartReconcile, rowVars, TypeInv, TypeOK
  <2>3. \A x \in Effects : remote[x] # "absent" => remote'[x] # "absent"
    BY <1>26 DEF StartReconcile, remoteVars, TypeInv, TypeOK
  <2> QED BY <2>1, <2>2, <2>3, OnceRows
<1>27. ASSUME NEW e \in Effects, NEW outcome \in Outcomes, Reconcile(e, outcome) PROVE OnceInv'
  <2>1. UNCHANGED <<owner, lease, writes, stalls, pc, task, found, beat>>
    BY <1>27
       DEF Reconcile, rowVars, tableVars, outcomeVars, remoteVars, workerVars,
           boundVars
  <2>2. \A x \in Effects : state[x] = "leased" => state'[x] = "leased"
    BY <1>27 DEF Reconcile, rowVars, TypeInv, TypeOK
  <2>3. \A x \in Effects : remote[x] # "absent" => remote'[x] # "absent"
    BY <1>27 DEF Reconcile, remoteVars, TypeInv, TypeOK
  <2> QED BY <2>1, <2>2, <2>3, OnceRows
<1>28. CASE Tick
  <2>1. UNCHANGED <<state, owner, remote, writes, pc, task, found, beat>>
    BY <1>28 DEF Tick, remoteVars, workerVars
  <2>2. CASE ~Overrun /\ UNCHANGED stalls
    <3>1. ASSUME NEW v \in Workers, pc[v] \in Claimed, Live(v) PROVE lease'[task[v]] > 0
      <4>1. task[v] \in Effects /\ lease[task[v]] \in Nat /\ lease[task[v]] > 0
        BY <3>1
           DEF TypeInv, TypeOK, WorkerShape, Placed, Live, OwnsLease, Claimed,
               Steps
      <4>2. lease[task[v]] # 1
        BY <2>2, <3>1 DEF Overrun, Live, Claimed, Steps
      <4>3. lease'[task[v]] = Less1(lease[task[v]])
        BY <1>28, <4>1 DEF Tick
      <4> QED BY <4>1, <4>2, <4>3 DEF Less1
    <3> QED
      BY <2>1, <2>2, <3>1
         DEF OnceInv, WriteRemains, Undisturbed, Live, OwnsLease, Clean
  <2>3. CASE stalls' = stalls + 1
    <3>1. stalls' # 0
      BY <2>3 DEF TypeInv, TypeOK
    <3> QED BY <2>1, <3>1 DEF OnceInv, WriteRemains
  <2> QED BY <1>28, <2>2, <2>3 DEF Tick
<1>29. CASE UNCHANGED vars
  BY <1>29
     DEF vars, rowVars, tableVars, outcomeVars, remoteVars, workerVars, boundVars,
         OnceInv, WriteRemains, Undisturbed, Live, OwnsLease, Clean
<1> QED
  BY <1>1, <1>2, <1>3, <1>4, <1>5, <1>6, <1>7, <1>8, <1>9, <1>10, <1>11,
     <1>12, <1>13, <1>14, <1>15, <1>16, <1>17, <1>18, <1>19, <1>20, <1>21,
     <1>22, <1>23, <1>24, <1>25, <1>26, <1>27, <1>28, <1>29
     DEF Next, WorkerStep, Advance, EffectStep

\* As long as no live worker loses its lease, no effect is written twice: crashes,
\* lost answers, retries and repairs are all covered by the readback before the call.
THEOREM WrittenOnce == Spec => []SemanticOnce
<1>1. Init => OnceInv
  BY DEF Init, OnceInv, WriteRemains, Undisturbed, Claimed, Steps
<1>2. OnceInv => SemanticOnce
  BY DEF OnceInv, Undisturbed, SemanticOnce
<1> QED BY TypeInit, TypeStep, <1>1, OnceStep, <1>2, PTL DEF Spec
=============================================================================
