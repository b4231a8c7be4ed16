-------------------------- MODULE OutboxRetryProofs --------------------------
(***************************************************************************)
(* Machine-checked theorems about the retry budget of Outbox: between two  *)
(* operator repairs an effect is scheduled again fewer than max_attempts   *)
(* times.  The dispatcher decides with the attempt number its claim was    *)
(* given (OutboxClaim.attempt_in_cycle), and _owned_lease does not compare *)
(* it with the row's: what makes it current is that nobody else dispatches *)
(* under the same owner id, or that no live worker loses its lease.        *)
(***************************************************************************)
EXTENDS OutboxProofs

\* Every thread dispatches under an owner id of its own.
SingleOwners == \A v \in Workers, w \in Workers : OwnerOf[v] = OwnerOf[w] => v = w

\* Nobody can mistake another thread's claim on the effect for its own.
Sure(e) == stalls = 0 \/ e \in PublisherEffects \/ SingleOwners

\* The row is leased to the worker's owner id.
Holds(w) == state[task[w]] = "leased" /\ owner[task[w]] = OwnerOf[w]

\* Every scheduled retry used up an attempt of the cycle, and the open one has none.
Counted(e) ==
  /\ retried[e] < MaxAttempts
  /\ state[e] # "succeeded" => base[e] + retried[e] <= attempts[e]
  /\ state[e] = "leased" => base[e] + retried[e] < attempts[e]

\* The attempt number in the worker's memory is the row's.
Current(w) ==
  pc[w] \in Claimed /\ Holds(w) => base[task[w]] + cycle[w] = attempts[task[w]]

BudgetInv ==
  /\ \A e \in Effects : Sure(e) => Counted(e)
  /\ \A w \in Workers : Sure(task[w]) => Current(w)

LEMMA BudgetInit == Init => BudgetInv
<1> SUFFICES ASSUME Init PROVE BudgetInv
  OBVIOUS
<1>1. ASSUME NEW e \in Effects PROVE Counted(e)
  BY SettingsAssumption DEF Init, Counted
<1>2. ASSUME NEW w \in Workers PROVE Current(w)
  BY DEF Init, Current, Claimed
<1> QED BY <1>1, <1>2 DEF BudgetInv

\* No claim appears, and those that remain keep what they work on.
Moves ==
  /\ stalls' = 0 => stalls = 0
  /\ \A v \in Workers :
       pc'[v] \in Claimed => /\ pc[v] \in Claimed
                             /\ task'[v] = task[v] /\ cycle'[v] = cycle[v]

LEMMA BudgetKept ==
  ASSUME TypeInv, BudgetInv, Moves, UNCHANGED <<state, owner, attempts, base, retried>>
  PROVE  BudgetInv'
<1>1. ASSUME NEW e \in Effects, Sure(e)' PROVE Counted(e)'
  BY <1>1 DEF BudgetInv, Moves, Sure, Counted
<1>2. ASSUME NEW v \in Workers, Sure(task[v])' PROVE Current(v)'
  <2> SUFFICES ASSUME pc'[v] \in Claimed, Holds(v)'
               PROVE  base'[task'[v]] + cycle'[v] = attempts'[task'[v]]
    BY DEF Current
  <2>1. /\ pc[v] \in Claimed /\ task'[v] = task[v] /\ cycle'[v] = cycle[v]
        /\ Sure(task[v])
    BY <1>2 DEF Moves, Sure
  <2> QED BY <2>1 DEF BudgetInv, Current, Holds
<1> QED BY <1>1, <1>2 DEF BudgetInv

\* One row leaves its state without becoming leased.
LEMMA BudgetRow ==
  ASSUME TypeInv, BudgetInv, Moves, NEW e \in Effects,
         state'[e] # "leased", UNCHANGED attempts,
         Sure(e) => Counted(e)',
         \A x \in Effects : x # e => /\ state'[x] = state[x] /\ owner'[x] = owner[x]
                                     /\ base'[x] = base[x] /\ retried'[x] = retried[x]
  PROVE  BudgetInv'
<1>1. ASSUME NEW x \in Effects, Sure(x)' PROVE Counted(x)'
  <2>1. Sure(x)
    BY <1>1 DEF Moves, Sure
  <2>2. CASE x # e
    BY <2>1, <2>2 DEF BudgetInv, Counted
  <2> QED BY <2>1, <2>2
<1>2. ASSUME NEW v \in Workers, Sure(task[v])' PROVE Current(v)'
  <2> SUFFICES ASSUME pc'[v] \in Claimed, Holds(v)'
               PROVE  base'[task'[v]] + cycle'[v] = attempts'[task'[v]]
    BY DEF Current
  <2>1. /\ pc[v] \in Claimed /\ task'[v] = task[v] /\ cycle'[v] = cycle[v]
        /\ Sure(task[v])
    BY <1>2 DEF Moves, Sure
  <2>2. task[v] \in Effects /\ task[v] # e
    BY <2>1 DEF Holds, TypeInv, WorkerShape, Placed, Claimed
  <2> QED BY <2>1, <2>2 DEF BudgetInv, Current, Holds
<1> QED BY <1>1, <1>2 DEF BudgetInv

\* A claim takes the row's number; nobody who can be mistaken for the claimer holds
\* an older claim on the effect.
LEMMA BudgetClaim ==
  ASSUME TypeInv, OnceInv, BudgetInv, NEW w \in Workers, NEW e \in Effects, NEW graced,
         Claimable(e, graced), Claim(w, e), e \in PublisherEffects => e \in Adapters[w]
  PROVE  BudgetInv'
<1>1. /\ pc'[w] = "readback" /\ task'[w] = e /\ cycle'[w] = attempts[e] + 1 - base[e]
      /\ \A v \in Workers : v # w => /\ pc'[v] = pc[v] /\ task'[v] = task[v]
                                     /\ cycle'[v] = cycle[v]
  BY ClaimTouches
<1>2. /\ state'[e] = "leased" /\ owner'[e] = OwnerOf[w] /\ attempts'[e] = attempts[e] + 1
      /\ \A x \in Effects : x # e => /\ state'[x] = state[x] /\ owner'[x] = owner[x]
                                     /\ attempts'[x] = attempts[x]
  BY ClaimWrites
<1>3. UNCHANGED <<base, retried, stalls>>
  BY DEF Claim, boundVars
<1>4. /\ attempts \in [Effects -> Nat] /\ base \in [Effects -> Nat]
      /\ retried \in [Effects -> Nat] /\ MaxAttempts \in Nat
      /\ base[e] <= attempts[e]
  BY SettingsAssumption DEF TypeInv, TypeOK, CycleShape
<1>5. state[e] # "succeeded" /\ ~(state[e] = "leased" /\ lease[e] > 0)
  BY DEF Claimable
<1>6. ASSUME NEW x \in Effects, Sure(x)' PROVE Counted(x)'
  <2>1. Counted(x)
    BY <1>3, <1>6 DEF BudgetInv, Sure
  <2>2. CASE x = e
    BY <1>2, <1>3, <1>4, <1>5, <2>1, <2>2 DEF Counted
  <2>3. CASE x # e
    BY <1>2, <1>3, <2>1, <2>3 DEF Counted
  <2> QED BY <2>2, <2>3
<1>7. Current(w)'
  BY <1>1, <1>2, <1>3, <1>4 DEF Current
<1>8. ASSUME NEW v \in Workers, v # w, Sure(task[v])' PROVE Current(v)'
  <2> SUFFICES ASSUME pc'[v] \in Claimed, Holds(v)'
               PROVE  base'[task'[v]] + cycle'[v] = attempts'[task'[v]]
    BY DEF Current
  <2>1. /\ pc[v] \in Claimed /\ task'[v] = task[v] /\ cycle'[v] = cycle[v]
        /\ Sure(task[v]) /\ task[v] \in Effects
    BY <1>1, <1>3, <1>8 DEF Sure, TypeInv, WorkerShape, Placed, Claimed
  <2>2. ASSUME task[v] = e PROVE FALSE
    <3>1. OwnerOf[v] = OwnerOf[w]
      BY <1>2, <2>1, <2>2 DEF Holds
    <3>2. CASE stalls = 0
      BY <1>5, <2>1, <2>2, <3>2 DEF OnceInv, Undisturbed, Live, OwnsLease
    <3>3. CASE e \in PublisherEffects
      BY <1>8, <3>1, <3>3, PublisherOwnerAssumption
    <3>4. CASE SingleOwners
      BY <1>8, <3>1, <3>4 DEF SingleOwners
    <3> QED BY <2>1, <2>2, <3>2, <3>3, <3>4 DEF Sure
  <2> QED BY <1>2, <1>3, <2>1, <2>2 DEF BudgetInv, Current, Holds
<1> QED BY <1>6, <1>7, <1>8 DEF BudgetInv

LEMMA BudgetRest ==
  ASSUME TypeInv, NEW w \in Workers, Rest(w), UNCHANGED stalls
  PROVE  Moves
<1>1. /\ pc'[w] = "idle"
      /\ \A v \in Workers : v # w => /\ pc'[v] = pc[v] /\ task'[v] = task[v]
                                     /\ cycle'[v] = cycle[v]
  BY RestTouches
<1> QED BY <1>1 DEF Moves, Claimed

LEMMA BudgetMove ==
  ASSUME TypeInv, NEW w \in Workers, UNCHANGED stalls, pc[w] \in Claimed,
         (\E step : GoTo(w, step)) \/ (\E kind : Raise(w, kind))
  PROVE  Moves
<1>1. \A v \in Workers : v # w => pc'[v] = pc[v]
  BY GoToTouches, RaiseTouches
<1>2. UNCHANGED <<task, cycle>>
  BY DEF GoTo, Raise
<1> QED BY <1>1, <1>2 DEF Moves

\* The worker's decision to retry stays within the budget.
LEMMA BudgetFinish ==
  ASSUME TypeInv, BudgetInv, NEW w \in Workers, FinishFailed(w)
  PROVE  BudgetInv'
<1>1. /\ task[w] \in Effects /\ pc[w] \in Claimed
      /\ state[task[w]] = "leased" /\ Holds(w)
  BY DEF FinishFailed, OwnsLease, Holds, TypeInv, WorkerShape, Placed, Claimed, Steps
<1>2. /\ state'[task[w]] = FailedState(w)
      /\ \A x \in Effects : x # task[w] => state'[x] = state[x] /\ owner'[x] = owner[x]
  BY <1>1, CloseTouches DEF FinishFailed
<1>3. UNCHANGED <<attempts, base, stalls>>
  BY DEF FinishFailed
<1>4. Moves
  BY <1>3, BudgetRest DEF FinishFailed
<1>5. /\ attempts \in [Effects -> Nat] /\ base \in [Effects -> Nat]
      /\ retried \in [Effects -> Nat] /\ cycle \in [Workers -> Nat] /\ MaxAttempts \in Nat
  BY SettingsAssumption DEF TypeInv, TypeOK
<1>6. retried' = IF WillRetry(w) THEN [retried EXCEPT ![task[w]] = @ + 1] ELSE retried
  BY DEF FinishFailed
<1>7. \A x \in Effects : x # task[w] => retried'[x] = retried[x]
  BY <1>5, <1>6
<1>8. ASSUME NEW e \in Effects, e = task[w], Sure(e) PROVE Counted(e)'
  <2>1. Counted(e) /\ base[task[w]] + cycle[w] = attempts[task[w]]
    BY <1>1, <1>8 DEF BudgetInv, Current
  <2>2. CASE WillRetry(w)
    <3>1. retried'[task[w]] = retried[task[w]] + 1
      BY <1>1, <1>5, <1>6, <2>2
    <3>2. cycle[w] < MaxAttempts
      BY <2>2 DEF WillRetry
    <3>3. base[task[w]] + retried[task[w]] < base[task[w]] + cycle[w]
      BY <1>1, <1>8, <2>1 DEF Counted
    <3>4. retried'[task[w]] < MaxAttempts
      BY <1>1, <1>5, <3>1, <3>2, <3>3
    <3>5. base[task[w]] + retried'[task[w]] <= attempts[task[w]]
      BY <1>1, <1>5, <2>1, <3>1, <3>3
    <3>6. state'[task[w]] = "retry_scheduled"
      BY <1>2, <2>2 DEF FailedState
    <3> QED BY <1>3, <1>8, <3>4, <3>5, <3>6 DEF Counted
  <2>3. CASE ~WillRetry(w)
    <3>1. retried' = retried /\ state'[task[w]] = "terminal"
      BY <1>2, <1>6, <2>3 DEF FailedState
    <3> QED BY <1>1, <1>3, <1>8, <2>1, <3>1 DEF Counted
  <2> QED BY <2>2, <2>3
<1>9. state'[task[w]] # "leased"
  BY <1>2 DEF FailedState
<1> QED BY <1>1, <1>2, <1>3, <1>4, <1>7, <1>8, <1>9, BudgetRow DEF FinishFailed

LEMMA BudgetStep == TypeInv /\ OnceInv /\ BudgetInv /\ [Next]_vars => BudgetInv'
<1> SUFFICES ASSUME TypeInv, OnceInv, BudgetInv, [Next]_vars PROVE BudgetInv'
  OBVIOUS
<1>1. ASSUME NEW w \in Workers, DispatchNext(w) PROVE BudgetInv'
  <2>1. PICK e \in Adapters[w] : e \in Effects /\ Claimable(e, w \in Polling) /\ Claim(w, e)
    BY <1>1, DispatchClaims
  <2> QED BY <2>1, BudgetClaim
<1>2. ASSUME NEW w \in Workers, NEW e \in Effects, Expedite(w, e) PROVE BudgetInv'
  <2>1. Moves
    BY <1>2 DEF Expedite, Moves, Claimed, boundVars, TypeInv, TypeOK
  <2> QED BY <1>2, <2>1, BudgetKept DEF Expedite, tableVars, boundVars
<1>3. ASSUME NEW w \in Workers, ClaimNamed(w) PROVE BudgetInv'
  <2>1. CASE Claimable(task[w], FALSE) /\ Claim(w, task[w])
    <3>1. /\ task[w] \in Effects
          /\ task[w] \in PublisherEffects => task[w] \in Adapters[w]
      BY <1>3, NamedClaims DEF TypeInv, WorkerShape, Placed
    <3> QED BY <2>1, <3>1, BudgetClaim
  <2>2. CASE Rest(w) /\ UNCHANGED <<rowVars, tableVars, boundVars>>
    <3>1. UNCHANGED <<state, owner, attempts, base, retried, stalls>>
      BY <2>2 DEF rowVars, tableVars, boundVars
    <3> QED BY <2>2, <3>1, BudgetRest, BudgetKept
  <2> QED BY <1>3, <2>1, <2>2, NamedClaims
<1>4. ASSUME NEW w \in Workers, Readback(w) PROVE BudgetInv'
  <2>1. UNCHANGED <<state, owner, attempts, base, retried, stalls>> /\ pc[w] \in Claimed
    BY <1>4 DEF Readback, rowVars, tableVars, boundVars, Claimed, Steps
  <2>2. (\E step : GoTo(w, step)) \/ (\E kind : Raise(w, kind))
    BY <1>4 DEF Readback
  <2> QED BY <2>1, <2>2, BudgetMove, BudgetKept
<1>5. ASSUME NEW w \in Workers, CheckMarker(w) PROVE BudgetInv'
  <2>1. UNCHANGED <<state, owner, attempts, base, retried, stalls>> /\ pc[w] \in Claimed
    BY <1>5 DEF CheckMarker, rowVars, tableVars, boundVars, Claimed, Steps
  <2>2. (\E step : GoTo(w, step)) \/ (\E kind : Raise(w, kind))
    BY <1>5 DEF CheckMarker
  <2> QED BY <2>1, <2>2, BudgetMove, BudgetKept
<1>6. ASSUME NEW w \in Workers, Apply(w) PROVE BudgetInv'
  <2>1. UNCHANGED <<state, owner, attempts, base, retried, stalls>> /\ pc[w] \in Claimed
    BY <1>6 DEF Apply, rowVars, tableVars, boundVars, Claimed, Steps
  <2>2. (\E step : GoTo(w, step)) \/ (\E kind : Raise(w, kind))
    BY <1>6 DEF Apply
  <2> QED BY <2>1, <2>2, BudgetMove, BudgetKept
<1>7. ASSUME NEW w \in Workers, EnterFence(w) PROVE BudgetInv'
  <2>1. UNCHANGED <<state, owner, attempts, base, retried, stalls>> /\ pc[w] \in Claimed
    BY <1>7 DEF EnterFence, rowVars, tableVars, boundVars, Claimed, Steps
  <2>2. (\E step : GoTo(w, step)) \/ (\E kind : Raise(w, kind))
    BY <1>7 DEF EnterFence
  <2> QED BY <2>1, <2>2, BudgetMove, BudgetKept
<1>8. ASSUME NEW w \in Workers, MarkStarted(w) PROVE BudgetInv'
  <2>1. UNCHANGED <<state, owner, attempts, base, retried, stalls>> /\ pc[w] \in Claimed
    BY <1>8 DEF MarkStarted, rowVars, tableVars, boundVars, Claimed, Steps
  <2>2. (\E step : GoTo(w, step)) \/ (\E kind : Raise(w, kind))
    BY <1>8 DEF MarkStarted
  <2> QED BY <2>1, <2>2, BudgetMove, BudgetKept
<1>9. ASSUME NEW w \in Workers, Execute(w) PROVE BudgetInv'
  <2>1. UNCHANGED <<state, owner, attempts, base, retried, stalls>> /\ pc[w] \in Claimed
    BY <1>9 DEF Execute, rowVars, tableVars, boundVars, Claimed, Steps
  <2>2. (\E step : GoTo(w, step)) \/ (\E kind : Raise(w, kind))
    BY <1>9 DEF Execute
  <2> QED BY <2>1, <2>2, BudgetMove, BudgetKept
<1>10. ASSUME NEW w \in Workers, Confirm(w) PROVE BudgetInv'
  <2>1. UNCHANGED <<state, owner, attempts, base, retried, stalls>> /\ pc[w] \in Claimed
    BY <1>10 DEF Confirm, rowVars, tableVars, boundVars, Claimed, Steps
  <2>2. (\E step : GoTo(w, step)) \/ (\E kind : Raise(w, kind))
    BY <1>10 DEF Confirm
  <2> QED BY <2>1, <2>2, BudgetMove, BudgetKept
<1>11. ASSUME NEW w \in Workers, CompleteIncident(w) PROVE BudgetInv'
  <2>1. UNCHANGED <<state, owner, attempts, base, retried>> /\ Moves
    BY <1>11
       DEF CompleteIncident, Moves, rowVars, tableVars, workerVars, boundVars, Claimed,
           Steps, TypeInv, TypeOK
  <2> QED BY <2>1, BudgetKept
<1>12. ASSUME NEW w \in Workers, Complete(w) PROVE BudgetInv'
  <2>1. UNCHANGED <<state, owner, attempts, base, retried, stalls>> /\ pc[w] \in Claimed
    BY <1>12 DEF Complete, rowVars, tableVars, boundVars, Claimed, Steps
  <2>2. (\E step : GoTo(w, step)) \/ (\E kind : Raise(w, kind))
    BY <1>12 DEF Complete
  <2> QED BY <2>1, <2>2, BudgetMove, BudgetKept
<1>13. ASSUME NEW w \in Workers, CallFails(w) PROVE BudgetInv'
  <2>1. UNCHANGED <<state, owner, attempts, base, retried, stalls>> /\ pc[w] \in Claimed
    BY <1>13 DEF CallFails, rowVars, tableVars, boundVars, Claimed, Steps
  <2>2. (\E step : GoTo(w, step)) \/ (\E kind : Raise(w, kind))
    BY <1>13 DEF CallFails
  <2> QED BY <2>1, <2>2, BudgetMove, BudgetKept
<1>14. ASSUME NEW w \in Workers, Acknowledge(w) PROVE BudgetInv'
  <2>1. /\ task[w] \in Effects /\ pc[w] \in Claimed
        /\ UNCHANGED <<attempts, base, retried, stalls>>
    BY <1>14
       DEF Acknowledge, boundVars, TypeInv, WorkerShape, Placed, Claimed, Steps
  <2>2. CASE OwnsLease(w, task[w]) /\ CloseAttempt(task[w], "succeeded") /\ Rest(w)
    <3>1. Moves
      BY <2>1, <2>2, BudgetRest
    <3>2. /\ state'[task[w]] = "succeeded"
          /\ \A x \in Effects : x # task[w] => state'[x] = state[x] /\ owner'[x] = owner[x]
      BY <2>1, <2>2, CloseTouches
    <3>3. ASSUME NEW e \in Effects, e = task[w], Sure(e) PROVE Counted(e)'
      BY <2>1, <3>2, <3>3 DEF BudgetInv, Counted
    <3> QED BY <2>1, <3>1, <3>2, <3>3, BudgetRow
  <2>3. CASE Raise(w, "retryable") /\ UNCHANGED <<state, owner>>
    BY <2>1, <2>3, BudgetMove, BudgetKept
  <2> QED BY <1>14, <2>2, <2>3 DEF Acknowledge
<1>15. ASSUME NEW w \in Workers, FailureCallback(w) PROVE BudgetInv'
  <2>1. UNCHANGED <<state, owner, attempts, base, retried>> /\ Moves
    BY <1>15
       DEF FailureCallback, Moves, rowVars, tableVars, workerVars, boundVars, Claimed,
           Steps, TypeInv, TypeOK
  <2> QED BY <2>1, BudgetKept
<1>16. ASSUME NEW w \in Workers, FinishFailed(w) PROVE BudgetInv'
  BY <1>16, BudgetFinish
<1>17. ASSUME NEW w \in Workers, FinishFenced(w) PROVE BudgetInv'
  <2>1. UNCHANGED <<state, owner, attempts, base, retried, stalls>> /\ Rest(w)
    BY <1>17 DEF FinishFenced, rowVars, tableVars, boundVars
  <2> QED BY <2>1, BudgetRest, BudgetKept
<1>18. ASSUME NEW w \in Workers, Renew(w) PROVE BudgetInv'
  <2>1. UNCHANGED <<state, owner, attempts, base, retried>> /\ Moves
    BY <1>18
       DEF Renew, Moves, rowVars, tableVars, workerVars, boundVars, Claimed,
           Steps, TypeInv, TypeOK
  <2> QED BY <2>1, BudgetKept
<1>19. ASSUME NEW w \in Workers, BeatFails(w) PROVE BudgetInv'
  <2>1. UNCHANGED <<state, owner, attempts, base, retried>>
    BY <1>19 DEF BeatFails, rowVars, tableVars
  <2>2. stalls' = 0 => stalls = 0
    BY <1>19 DEF BeatFails, TypeInv, TypeOK
  <2>3. Moves
    BY <1>19, <2>2 DEF BeatFails, Moves
  <2> QED BY <2>1, <2>3, BudgetKept
<1>20. ASSUME NEW w \in Workers, Crash(w) PROVE BudgetInv'
  <2>1. UNCHANGED <<state, owner, attempts, base, retried, stalls>> /\ Rest(w)
    BY <1>20 DEF Crash, rowVars, tableVars
  <2> QED BY <2>1, BudgetRest, BudgetKept
<1>21. ASSUME NEW e \in Effects, Enqueue(e) PROVE BudgetInv'
  <2>1. /\ state[e] = "absent" /\ state'[e] = "pending"
        /\ \A x \in Effects : x # e => state'[x] = state[x]
        /\ UNCHANGED <<owner, attempts, base, retried>> /\ Moves
    BY <1>21
       DEF Enqueue, Moves, tableVars, workerVars, boundVars, TypeInv, TypeOK
  <2>2. Sure(e) => Counted(e)'
    BY <2>1 DEF BudgetInv, Counted
  <2> QED BY <2>1, <2>2, BudgetRow
<1>22. ASSUME NEW e \in Effects, Meddle(e) PROVE BudgetInv'
  <2>1. UNCHANGED <<state, owner, attempts, base, retried>> /\ Moves
    BY <1>22
       DEF Meddle, Moves, rowVars, tableVars, workerVars, boundVars, Claimed,
           Steps, TypeInv, TypeOK
  <2> QED BY <2>1, BudgetKept
<1>23. ASSUME NEW e \in Effects, ConfirmIncident(e) PROVE BudgetInv'
  <2>1. UNCHANGED <<state, owner, attempts, base, retried>> /\ Moves
    BY <1>23
       DEF ConfirmIncident, Moves, rowVars, tableVars, workerVars, boundVars, Claimed,
           Steps, TypeInv, TypeOK
  <2> QED BY <2>1, BudgetKept
<1>24. ASSUME NEW e \in Effects, StartRepair(e) PROVE BudgetInv'
  <2>1. UNCHANGED <<state, owner, attempts, base, retried>> /\ Moves
    BY <1>24
       DEF StartRepair, Moves, rowVars, tableVars, workerVars, boundVars, Claimed,
           Steps, TypeInv, TypeOK
  <2> QED BY <2>1, BudgetKept
<1>25. ASSUME NEW e \in Effects, Repair(e) PROVE BudgetInv'
  <2>1. UNCHANGED <<owner, attempts>> /\ Moves
    BY <1>25 DEF Repair, Moves, workerVars
  <2>2. CASE /\ state' = [state EXCEPT ![e] = "pending"]
             /\ base' = [base EXCEPT ![e] = attempts[e]]
             /\ retried' = [retried EXCEPT ![e] = 0]
    <3>1. /\ state'[e] = "pending" /\ base'[e] = attempts[e] /\ retried'[e] = 0
          /\ \A x \in Effects : x # e => /\ state'[x] = state[x] /\ base'[x] = base[x]
                                         /\ retried'[x] = retried[x]
      BY <2>2 DEF TypeInv, TypeOK
    <3>2. attempts[e] \in Nat /\ MaxAttempts \in Nat \ {0}
      BY SettingsAssumption DEF TypeInv, TypeOK
    <3>3. Counted(e)'
      BY <2>1, <3>1, <3>2 DEF Counted
    <3> QED BY <2>1, <3>1, <3>3, BudgetRow
  <2>3. CASE UNCHANGED <<state, base, retried>>
    BY <2>1, <2>3, BudgetKept
  <2> QED BY <1>25, <2>2, <2>3 DEF Repair
<1>26. ASSUME NEW e \in Effects, StartReconcile(e) PROVE BudgetInv'
  <2>1. UNCHANGED <<state, owner, attempts, base, retried>> /\ Moves
    BY <1>26
       DEF StartReconcile, Moves, rowVars, tableVars, workerVars, boundVars, Claimed,
           Steps, TypeInv, TypeOK
  <2> QED BY <2>1, BudgetKept
<1>27. ASSUME NEW e \in Effects, NEW outcome \in Outcomes, Reconcile(e, outcome) PROVE BudgetInv'
  <2>1. UNCHANGED <<owner, attempts, retried>> /\ Moves
    BY <1>27 DEF Reconcile, Moves, workerVars, boundVars
  <2>2. CASE /\ state' = [state EXCEPT ![e] = "succeeded"]
             /\ base' = [base EXCEPT ![e] = attempts[e]]
    <3>1. /\ state'[e] = "succeeded"
          /\ \A x \in Effects : x # e => state'[x] = state[x] /\ base'[x] = base[x]
      BY <2>2 DEF TypeInv, TypeOK
    <3>2. Sure(e) => Counted(e)'
      BY <2>1, <3>1 DEF BudgetInv, Counted
    <3> QED BY <2>1, <3>1, <3>2, BudgetRow
  <2>3. CASE UNCHANGED <<state, base>>
    BY <2>1, <2>3, BudgetKept
  <2> QED BY <1>27, <2>2, <2>3 DEF Reconcile
<1>28. CASE Tick
  <2>1. UNCHANGED <<state, owner, attempts, base, retried>>
    BY <1>28 DEF Tick, tableVars
  <2>2. stalls' = 0 => stalls = 0
    BY <1>28 DEF Tick, TypeInv, TypeOK
  <2>3. Moves
    BY <1>28, <2>2 DEF Tick, Moves, workerVars
  <2> QED BY <2>1, <2>3, BudgetKept
<1>29. CASE UNCHANGED vars
  <2>1. UNCHANGED <<state, owner, attempts, base, retried>> /\ Moves
    BY <1>29 DEF vars, rowVars, tableVars, workerVars, boundVars, Moves
  <2> QED BY <2>1, BudgetKept
<1> QED
  BY <1>1, <1>2, <1>3, <1>4, <1>5, <1>6, <1>7, <1>8, <1>9, <1>10, <1>11,
     <1>12, <1>13, <1>14, <1>15, <1>16, <1>17, <1>18, <1>19, <1>20, <1>21,
     <1>22, <1>23, <1>24, <1>25, <1>26, <1>27, <1>28, <1>29
     DEF Next, WorkerStep, Advance, EffectStep

LEMMA BudgetAlways == Spec => [](OnceInv /\ BudgetInv)
<1>1. Init => OnceInv
  BY DEF Init, OnceInv, WriteRemains, Undisturbed, Claimed, Steps
<1> QED BY TypeInit, TypeStep, <1>1, OnceStep, BudgetInit, BudgetStep, PTL DEF Spec

\* Where every thread dispatches under an owner id of its own, retries between two
\* operator repairs stay below max_attempts, whatever stalls, crashes and reclaims do.
THEOREM BudgetHeld == ASSUME SingleOwners PROVE Spec => []RetryBudget
<1>1. BudgetInv => RetryBudget
  BY DEF BudgetInv, Sure, Counted, RetryBudget
<1> QED BY BudgetAlways, <1>1, PTL

\* Threads that share an owner id keep the budget as long as no live worker loses
\* its lease.
THEOREM BudgetHeldUndisturbed == Spec => [](stalls = 0 => RetryBudget)
<1>1. BudgetInv => (stalls = 0 => RetryBudget)
  BY DEF BudgetInv, Sure, Counted, RetryBudget
<1> QED BY BudgetAlways, <1>1, PTL

\* A publication keeps the budget in every wiring: its publishers never share an
\* owner id.
THEOREM PublicationBudget ==
  Spec => [](\A e \in PublisherEffects : retried[e] < MaxAttempts)
<1>1. BudgetInv => \A e \in PublisherEffects : retried[e] < MaxAttempts
  BY TopologyAssumption DEF BudgetInv, Sure, Counted
<1> QED BY BudgetAlways, <1>1, PTL
=============================================================================
