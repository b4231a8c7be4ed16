------------------------ MODULE OutboxPublicationProofs ------------------------
(***************************************************************************)
(* Machine-checked theorems about publications in Outbox: a publication is *)
(* called at most once, never after it was declared absent, and never      *)
(* succeeds, stops or is found late without its record.                    *)
(***************************************************************************)
EXTENDS OutboxProofs

\* The worker's claim is the one in the row, whether or not the lease has run out.
Holds(w) == state[task[w]] = "leased" /\ owner[task[w]] = OwnerOf[w]

\* What the tables say of one publication.
Call(e) ==
  /\ writes[e] <= 1
  /\ writes[e] > 0 => Started(e) /\ remote[e] # "absent"
  /\ incident[e] # "none" => Started(e)
  /\ state[e] = "succeeded" => Started(e)
  /\ inflight[e] \cap Outcomes # {} => Started(e)
  /\ ack[e] = "confirmed_absent" \/ "confirmed_absent" \in inflight[e]
       => incident[e] = "confirmed" /\ writes[e] = 0

\* Where a worker may be on the way to, in and after the remote call.
Path(w) ==
  task[w] \in PublisherEffects =>
    /\ pc[w] \in {"apply", "mark"} /\ Holds(w) => ~Started(task[w])
    /\ pc[w] = "execute" => /\ Started(task[w])
                            /\ writes[task[w]] = 0
                            /\ incident[task[w]] # "confirmed"
    /\ pc[w] \in {"confirm", "complete", "ack"} => Started(task[w])

Inside(w) == pc[w] \in {"mark", "execute"}

Exclusive ==
  \A v \in Workers, w \in Workers :
    Inside(v) /\ Inside(w) /\ task[v] = task[w] => v = w

PublicationInv ==
  /\ \A e \in PublisherEffects : Call(e)
  /\ \A w \in Workers : Path(w)
  /\ Exclusive

\* A worker that works on a publication shares its owner id with nobody.
LEMMA PublisherAlone ==
  ASSUME TypeInv, NEW w \in Workers, NEW v \in Workers,
         task[w] \in PublisherEffects, pc[w] # "idle",
         OwnerOf[v] = OwnerOf[w]
  PROVE  v = w
  BY PublisherOwnerAssumption DEF TypeInv, WorkerShape, Placed

\* A step that changes nothing but one worker's place keeps the invariant if the
\* new place suits the tables.
LEMMA PublicationPlace ==
  ASSUME TypeInv, PublicationInv, NEW w \in Workers,
         UNCHANGED <<state, owner, marker, ack, incident, remote, writes, inflight>>,
         \A v \in Workers : v # w => pc'[v] = pc[v] /\ task'[v] = task[v],
         Path(w)',
         Inside(w)' => \/ Inside(w) /\ task'[w] = task[w]
                       \/ ~Fenced(task'[w])
  PROVE  PublicationInv'
<1>1. \A e \in PublisherEffects : Call(e)'
  BY DEF PublicationInv, Call, Started
<1>2. ASSUME NEW v \in Workers, v # w PROVE Path(v)'
  BY <1>2 DEF PublicationInv, Path, Started, Holds
<1>3. Exclusive'
  BY DEF PublicationInv, Exclusive, Inside, Fenced
<1> QED BY <1>1, <1>2, <1>3 DEF PublicationInv

\* A failed or resting worker has left the call.
LEMMA PublicationLeave ==
  ASSUME TypeInv, PublicationInv, NEW w \in Workers,
         UNCHANGED <<state, owner, marker, ack, incident, remote, writes, inflight>>,
         Rest(w) \/ \E kind \in Errors : Raise(w, kind)
  PROVE  PublicationInv'
<1>1. /\ pc'[w] \in {"idle", "failed"}
      /\ \A v \in Workers : v # w => pc'[v] = pc[v] /\ task'[v] = task[v]
  BY RestTouches, RaiseTouches
<1>2. Path(w)' /\ ~Inside(w)'
  BY <1>1 DEF Path, Inside
<1> QED BY <1>1, <1>2, PublicationPlace

\* A step that leaves the workers where they are keeps the invariant if it adds
\* no lease, keeps the markers and the call, and confirms no incident inside the fence.
LEMMA PublicationTables ==
  ASSUME TypeInv, PublicationInv,
         UNCHANGED <<pc, task, owner, marker, writes>>,
         \A e \in Effects : state'[e] = "leased" => state[e] = "leased",
         \A e \in PublisherEffects : Call(e)',
         \A e \in PublisherEffects :
           incident'[e] = "confirmed" /\ Fenced(e) => incident[e] = "confirmed"
  PROVE  PublicationInv'
<1>1. ASSUME NEW v \in Workers PROVE Path(v)'
  BY TopologyAssumption DEF PublicationInv, Path, Started, Holds, Fenced
<1>2. Exclusive'
  BY DEF PublicationInv, Exclusive, Inside
<1> QED BY <1>1, <1>2 DEF PublicationInv

LEMMA PublicationClaim ==
  ASSUME TypeInv, PublicationInv, NEW w \in Workers, NEW e \in Effects, Claim(w, e)
  PROVE  PublicationInv'
<1>1. /\ pc'[w] = "readback" /\ task'[w] = e
      /\ \A v \in Workers : v # w => pc'[v] = pc[v] /\ task'[v] = task[v]
  BY ClaimTouches
<1>2. /\ state'[e] = "leased" /\ owner'[e] = OwnerOf[w]
      /\ \A x \in Effects : x # e => state'[x] = state[x] /\ owner'[x] = owner[x]
  BY ClaimWrites
<1>3. UNCHANGED <<marker, ack, incident, remote, writes, inflight>>
  BY DEF Claim, outcomeVars, remoteVars
<1>4. ASSUME NEW x \in PublisherEffects PROVE Call(x)'
  <2>1. state'[x] = "succeeded" => state[x] = "succeeded"
    BY <1>2, TopologyAssumption
  <2> QED BY <1>3, <2>1 DEF PublicationInv, Call, Started
<1>5. ASSUME NEW v \in Workers, v # w PROVE Path(v)'
  <2>1. pc'[v] = pc[v] /\ task'[v] = task[v]
    BY <1>1, <1>5
  <2>2. pc[v] \in {"apply", "mark"} /\ task[v] \in PublisherEffects /\ Holds(v)' => Holds(v)
    BY <1>2, <1>5, <2>1, PublisherAlone, TopologyAssumption DEF Holds
  <2> QED BY <1>3, <2>1, <2>2 DEF PublicationInv, Path, Started
<1>6. Path(w)'
  BY <1>1 DEF Path
<1>7. Exclusive'
  BY <1>1 DEF PublicationInv, Exclusive, Inside
<1> QED BY <1>4, <1>5, <1>6, <1>7 DEF PublicationInv

LEMMA PublicationStep ==
  ASSUME TypeInv, LeasedOnce, PublicationInv, [Next]_vars
  PROVE  PublicationInv'
<1>1. ASSUME NEW w \in Workers, DispatchNext(w) PROVE PublicationInv'
  BY <1>1, DispatchClaims, PublicationClaim
<1>2. ASSUME NEW w \in Workers, NEW e \in Effects, Expedite(w, e) PROVE PublicationInv'
  <2>1. UNCHANGED <<state, owner, marker, ack, incident, remote, writes, inflight>>
    BY <1>2 DEF Expedite, rowVars, tableVars, outcomeVars, remoteVars
  <2>2. /\ pc'[w] = "named"
        /\ \A v \in Workers : v # w => pc'[v] = pc[v] /\ task'[v] = task[v]
    BY <1>2 DEF Expedite, TypeInv, TypeOK
  <2>3. Path(w)' /\ ~Inside(w)'
    BY <2>2 DEF Path, Inside
  <2> QED BY <2>1, <2>2, <2>3, PublicationPlace
<1>3. ASSUME NEW w \in Workers, ClaimNamed(w) PROVE PublicationInv'
  <2>1. CASE Claim(w, task[w])
    BY <1>3, <2>1, NamedClaims, PublicationClaim
  <2>2. CASE Rest(w) /\ UNCHANGED <<rowVars, tableVars, outcomeVars, remoteVars, inflight>>
    BY <2>2, PublicationLeave DEF rowVars, tableVars, outcomeVars, remoteVars
  <2> QED BY <1>3, <2>1, <2>2, NamedClaims
<1>4. ASSUME NEW w \in Workers, Readback(w) PROVE PublicationInv'
  <2>1. UNCHANGED <<state, owner, marker, ack, incident, remote, writes, inflight>>
    BY <1>4 DEF Readback, rowVars, tableVars, outcomeVars, remoteVars
  <2>2. ASSUME NEW kind \in Errors, Raise(w, kind) PROVE PublicationInv'
    BY <2>1, <2>2, PublicationLeave
  <2>3. CASE GoTo(w, IF task[w] \in PublisherEffects THEN "check"
                     ELSE IF FirstLook(task[w]) THEN "complete" ELSE "apply")
    <3>1. /\ pc'[w] \in {"check", "complete", "apply"}
          /\ task[w] \in PublisherEffects => pc'[w] = "check"
          /\ \A v \in Workers : v # w => pc'[v] = pc[v]
          /\ UNCHANGED task
      BY <2>3, GoToTouches
    <3>2. Path(w)' /\ ~Inside(w)'
      BY <3>1 DEF Path, Inside
    <3> QED BY <2>1, <3>1, <3>2, PublicationPlace
  <2> QED BY <1>4, <2>2, <2>3 DEF Readback, Errors
<1>5. ASSUME NEW w \in Workers, CheckMarker(w) PROVE PublicationInv'
  <2>1. UNCHANGED <<state, owner, marker, ack, incident, remote, writes, inflight>>
    BY <1>5 DEF CheckMarker, rowVars, tableVars, outcomeVars, remoteVars
  <2>2. ASSUME NEW kind \in Errors, Raise(w, kind) PROVE PublicationInv'
    BY <2>1, <2>2, PublicationLeave
  <2>3. CASE MarkerAgrees(w, task[w]) /\ GoTo(w, IF found[w] THEN "complete" ELSE "apply")
    <3>1. /\ pc'[w] = IF found[w] THEN "complete" ELSE "apply"
          /\ \A v \in Workers : v # w => pc'[v] = pc[v]
          /\ UNCHANGED task
      BY <2>3, GoToTouches
    <3>2. found[w] = Started(task[w])
      BY <2>3 DEF MarkerAgrees
    <3>3. Path(w)' /\ ~Inside(w)'
      BY <2>1, <3>1, <3>2 DEF Path, Inside, Started
    <3> QED BY <2>1, <3>1, <3>3, PublicationPlace
  <2> QED BY <1>5, <2>2, <2>3 DEF CheckMarker, Errors
<1>6. ASSUME NEW w \in Workers, Apply(w) PROVE PublicationInv'
  <2>1. /\ task[w] \in Effects \ PublisherEffects
        /\ UNCHANGED <<state, owner, marker, ack, incident, inflight>>
        /\ Write(task[w]) \/ UNCHANGED remoteVars
    BY <1>6
       DEF Apply, TypeInv, WorkerShape, Placed, rowVars, tableVars, outcomeVars,
           remoteVars
  <2>2. \A e \in PublisherEffects : remote'[e] = remote[e] /\ writes'[e] = writes[e]
    BY <2>1, WriteTouches, TopologyAssumption DEF remoteVars
  <2>3. /\ pc'[w] \in {"confirm", "failed"}
        /\ \A v \in Workers : v # w => pc'[v] = pc[v]
        /\ UNCHANGED task
    BY <1>6, GoToTouches, RaiseTouches DEF Apply
  <2>4. ASSUME NEW e \in PublisherEffects PROVE Call(e)'
    BY <2>1, <2>2 DEF PublicationInv, Call, Started
  <2>5. ASSUME NEW v \in Workers PROVE Path(v)'
    BY <2>1, <2>2, <2>3 DEF PublicationInv, Path, Holds, Started
  <2>6. Exclusive'
    BY <2>3 DEF PublicationInv, Exclusive, Inside
  <2> QED BY <2>4, <2>5, <2>6 DEF PublicationInv
<1>7. ASSUME NEW w \in Workers, EnterFence(w) PROVE PublicationInv'
  <2>1. UNCHANGED <<state, owner, marker, ack, incident, remote, writes, inflight>>
    BY <1>7 DEF EnterFence, rowVars, tableVars, outcomeVars, remoteVars
  <2>2. /\ pc[w] = "apply" /\ pc'[w] = "mark" /\ ~Fenced(task[w])
        /\ \A v \in Workers : v # w => pc'[v] = pc[v]
        /\ UNCHANGED task
    BY <1>7, GoToTouches DEF EnterFence
  <2>3. Path(w)'
    BY <2>1, <2>2 DEF PublicationInv, Path, Holds, Started
  <2> QED BY <2>1, <2>2, <2>3, PublicationPlace
<1>8. ASSUME NEW w \in Workers, MarkStarted(w) PROVE PublicationInv'
  <2>1. /\ pc[w] = "mark" /\ task[w] \in PublisherEffects /\ task[w] \in Effects
        /\ UNCHANGED <<state, owner, ack, incident, remote, writes, inflight>>
    BY <1>8
       DEF MarkStarted, TypeInv, WorkerShape, Placed, rowVars, tableVars,
           outcomeVars, remoteVars
  <2>2. CASE Raise(w, "retryable") /\ UNCHANGED marker
    BY <2>1, <2>2, PublicationLeave DEF Errors
  <2>3. CASE /\ OwnsLease(w, task[w])
             /\ marker' = IF Started(task[w]) THEN marker
                          ELSE [marker EXCEPT ![task[w]] = attempts[task[w]]]
             /\ GoTo(w, "execute")
    <3>1. Holds(w) /\ ~Started(task[w])
      BY <2>1, <2>3 DEF PublicationInv, Path, Holds, OwnsLease
    <3>2. /\ writes[task[w]] = 0
          /\ incident[task[w]] = "none"
      BY <2>1, <3>1 DEF PublicationInv, Call, TypeInv, TypeOK
    <3>3. attempts[task[w]] # 0
      BY <2>1, <3>1 DEF LeasedOnce, Holds
    <3>4. /\ pc'[w] = "execute" /\ UNCHANGED task
          /\ \A v \in Workers : v # w => pc'[v] = pc[v]
      BY <2>3, GoToTouches
    <3>5. /\ Started(task[w])'
          /\ \A e \in Effects : e # task[w] => marker'[e] = marker[e]
          /\ \A e \in Effects : Started(e) => Started(e)'
      <4>1. marker' = [marker EXCEPT ![task[w]] = attempts[task[w]]]
        BY <2>3, <3>1
      <4>2. marker \in [Effects -> Nat]
        BY DEF TypeInv, TypeOK
      <4> QED BY <2>1, <3>1, <3>4, <3>3, <4>1, <4>2 DEF Started
    <3>6. ASSUME NEW e \in PublisherEffects PROVE Call(e)'
      BY <2>1, <3>4, <3>5, TopologyAssumption DEF PublicationInv, Call
    <3>7. ASSUME NEW v \in Workers, v # w PROVE Path(v)'
      <4>1. CASE task[v] = task[w]
        <5>1. ~Holds(v) \/ pc[v] \notin {"apply", "mark"}
          BY <2>1, <3>1, <3>7, <4>1, PublisherAlone DEF Holds
        <5> QED BY <2>1, <3>4, <3>5, <3>7, <4>1, <5>1 DEF PublicationInv, Path, Holds
      <4>2. CASE task[v] # task[w]
        BY <2>1, <3>4, <3>5, <3>7, <4>2, TopologyAssumption
           DEF PublicationInv, Path, Holds, Started
      <4> QED BY <4>1, <4>2
    <3>8. Path(w)'
      BY <2>1, <3>2, <3>4, <3>5 DEF Path
    <3>9. Exclusive'
      BY <2>1, <3>4 DEF PublicationInv, Exclusive, Inside
    <3> QED BY <3>6, <3>7, <3>8, <3>9 DEF PublicationInv
  <2> QED BY <1>8, <2>2, <2>3 DEF MarkStarted
<1>9. ASSUME NEW w \in Workers, Execute(w) PROVE PublicationInv'
  <2>1. /\ pc[w] = "execute" /\ task[w] \in PublisherEffects /\ task[w] \in Effects
        /\ UNCHANGED <<state, owner, marker, ack, incident, inflight>>
        /\ Write(task[w]) \/ UNCHANGED remoteVars
    BY <1>9
       DEF Execute, TypeInv, WorkerShape, Placed, rowVars, tableVars, outcomeVars,
           remoteVars
  <2>2. /\ Started(task[w]) /\ writes[task[w]] = 0
        /\ incident[task[w]] # "confirmed"
    BY <2>1 DEF PublicationInv, Path
  <2>3. /\ \A e \in Effects : e # task[w] => remote'[e] = remote[e] /\ writes'[e] = writes[e]
        /\ writes'[task[w]] = 0 \/ (writes'[task[w]] = 1 /\ remote'[task[w]] = "present")
    <3>1. CASE Write(task[w])
      <4>1. /\ remote'[task[w]] = "present" /\ writes'[task[w]] = writes[task[w]] + 1
            /\ \A e \in Effects : e # task[w] => remote'[e] = remote[e] /\ writes'[e] = writes[e]
        BY <2>1, <3>1, WriteTouches
      <4> QED BY <2>2, <4>1
    <3>2. CASE UNCHANGED remoteVars
      BY <2>2, <3>2 DEF remoteVars
    <3> QED BY <2>1, <3>1, <3>2
  <2>4. /\ pc'[w] \in {"confirm", "failed"}
        /\ \A v \in Workers : v # w => pc'[v] = pc[v]
        /\ UNCHANGED task
    BY <1>9, GoToTouches, RaiseTouches DEF Execute
  <2>5. ASSUME NEW e \in PublisherEffects PROVE Call(e)'
    <3>1. CASE e = task[w]
      BY <2>1, <2>2, <2>3, <3>1 DEF PublicationInv, Call, Started
    <3>2. CASE e # task[w]
      BY <2>1, <2>3, <3>2, TopologyAssumption DEF PublicationInv, Call, Started
    <3> QED BY <3>1, <3>2
  <2>6. ASSUME NEW v \in Workers, v # w PROVE Path(v)'
    <3>1. pc[v] = "execute" => task[v] # task[w]
      BY <2>1, <2>6 DEF PublicationInv, Exclusive, Inside
    <3> QED
      BY <2>1, <2>3, <2>4, <2>6, <3>1, TopologyAssumption
         DEF PublicationInv, Path, Holds, Started
  <2>7. Path(w)'
    BY <2>1, <2>2, <2>4 DEF Path, Started
  <2>8. Exclusive'
    BY <2>4 DEF PublicationInv, Exclusive, Inside
  <2> QED BY <2>5, <2>6, <2>7, <2>8 DEF PublicationInv
<1>10. ASSUME NEW w \in Workers, Confirm(w) PROVE PublicationInv'
  <2>1. UNCHANGED <<state, owner, marker, ack, incident, remote, writes, inflight>>
    BY <1>10 DEF Confirm, rowVars, tableVars, outcomeVars, remoteVars
  <2>2. ASSUME NEW kind \in Errors, Raise(w, kind) PROVE PublicationInv'
    BY <2>1, <2>2, PublicationLeave
  <2>3. CASE GoTo(w, "complete")
    <3>1. /\ pc[w] = "confirm" /\ pc'[w] = "complete"
          /\ \A v \in Workers : v # w => pc'[v] = pc[v]
          /\ UNCHANGED task
      BY <1>10, <2>3, GoToTouches DEF Confirm
    <3>2. Path(w)' /\ ~Inside(w)'
      BY <2>1, <3>1 DEF PublicationInv, Path, Inside, Started
    <3> QED BY <2>1, <3>1, <3>2, PublicationPlace
  <2> QED BY <1>10, <2>2, <2>3 DEF Confirm, Errors
<1>11. ASSUME NEW w \in Workers, CompleteIncident(w) PROVE PublicationInv'
  <2>1. UNCHANGED <<pc, task, owner, marker, writes>>
    BY <1>11
       DEF CompleteIncident, rowVars, tableVars, outcomeVars, remoteVars,
           workerVars
  <2>2. \A e \in Effects : state'[e] = "leased" => state[e] = "leased"
    BY <1>11 DEF CompleteIncident, rowVars, TypeInv, TypeOK
  <2>3. ASSUME NEW e \in PublisherEffects PROVE Call(e)'
    <3>1. UNCHANGED <<state, marker, ack, remote, writes, inflight>>
      BY <1>11 DEF CompleteIncident, rowVars, tableVars, outcomeVars, remoteVars
    <3>2. /\ incident[e] = "confirmed" => incident'[e] = "confirmed"
          /\ incident'[e] # "none" => incident[e] # "none" \/ Started(e)
      BY <1>11 DEF CompleteIncident, ReportsLateSuccess, TypeInv, TypeOK
    <3> QED BY <3>1, <3>2 DEF PublicationInv, Call, Started
  <2>4. \A e \in Effects : incident'[e] = "confirmed" => incident[e] = "confirmed"
    BY <1>11 DEF CompleteIncident, TypeInv, TypeOK
  <2> QED BY <2>1, <2>2, <2>3, <2>4, PublicationTables, TopologyAssumption
<1>12. ASSUME NEW w \in Workers, Complete(w) PROVE PublicationInv'
  <2>1. UNCHANGED <<state, owner, marker, ack, incident, remote, writes, inflight>>
    BY <1>12 DEF Complete, rowVars, tableVars, outcomeVars, remoteVars
  <2>2. /\ pc[w] = "complete" /\ pc'[w] = "ack"
        /\ \A v \in Workers : v # w => pc'[v] = pc[v]
        /\ UNCHANGED task
    BY <1>12, GoToTouches DEF Complete
  <2>3. Path(w)' /\ ~Inside(w)'
    BY <2>1, <2>2 DEF PublicationInv, Path, Inside, Started
  <2> QED BY <2>1, <2>2, <2>3, PublicationPlace
<1>13. ASSUME NEW w \in Workers, CallFails(w) PROVE PublicationInv'
  <2>1. UNCHANGED <<state, owner, marker, ack, incident, remote, writes, inflight>>
    BY <1>13 DEF CallFails, rowVars, tableVars, outcomeVars, remoteVars
  <2>2. ASSUME NEW kind \in Errors, Raise(w, kind) PROVE PublicationInv'
    BY <2>1, <2>2, PublicationLeave
  <2> QED BY <1>13, <2>2 DEF CallFails
<1>14. ASSUME NEW w \in Workers, Acknowledge(w) PROVE PublicationInv'
  <2>1. /\ task[w] \in Effects
        /\ UNCHANGED <<marker, incident, remote, writes, inflight>>
    BY <1>14
       DEF Acknowledge, TypeInv, WorkerShape, Placed, rowVars, tableVars,
           outcomeVars, remoteVars
  <2>2. CASE Raise(w, "retryable") /\ UNCHANGED <<state, owner, lease, open, ack>>
    BY <2>1, <2>2, PublicationLeave DEF Errors
  <2>3. CASE /\ CloseAttempt(task[w], "succeeded")
             /\ ack' = [ack EXCEPT ![task[w]] = "evidence"]
             /\ Rest(w)
    <3>1. /\ state'[task[w]] = "succeeded"
          /\ \A e \in Effects : e # task[w] => state'[e] = state[e] /\ owner'[e] = owner[e]
      BY <2>1, <2>3, CloseTouches
    <3>2. /\ \A e \in Effects : ack'[e] = "confirmed_absent" => ack[e] = "confirmed_absent"
          /\ task[w] \in PublisherEffects => Started(task[w])
      BY <1>14, <2>1, <2>3 DEF Acknowledge, PublicationInv, Path, TypeInv, TypeOK
    <3>3. ASSUME NEW e \in PublisherEffects PROVE Call(e)'
      BY <2>1, <3>1, <3>2, TopologyAssumption DEF PublicationInv, Call, Started
    <3>4. /\ pc'[w] = "idle"
          /\ \A v \in Workers : v # w => pc'[v] = pc[v] /\ task'[v] = task[v]
      BY <2>3, RestTouches
    <3>5. ASSUME NEW v \in Workers PROVE Path(v)'
      <4>1. pc'[v] # "idle" => task[v] \in Effects
        BY <3>4 DEF TypeInv, WorkerShape, Placed
      <4>2. pc'[v] # "idle" /\ Holds(v)' => Holds(v)
        BY <3>1, <3>4, <4>1 DEF Holds
      <4> QED BY <2>1, <3>4, <4>2 DEF PublicationInv, Path, Started
    <3>6. Exclusive'
      BY <3>4 DEF PublicationInv, Exclusive, Inside
    <3> QED BY <3>3, <3>5, <3>6 DEF PublicationInv
  <2> QED BY <1>14, <2>2, <2>3 DEF Acknowledge
<1>15. ASSUME NEW w \in Workers, FailureCallback(w) PROVE PublicationInv'
  <2>1. /\ UNCHANGED <<state, owner, marker, ack, remote, writes, inflight, task>>
        /\ pc[w] = "failed" /\ pc' = [pc EXCEPT ![w] = "record"]
    BY <1>15 DEF FailureCallback, rowVars, tableVars, outcomeVars, remoteVars
  <2>2. \A e \in Effects :
           /\ incident'[e] = "confirmed" <=> incident[e] = "confirmed"
           /\ incident'[e] # "none" => incident[e] # "none" \/ Started(e)
    BY <1>15 DEF FailureCallback, NeedsIncident, TypeInv, TypeOK
  <2>3. ASSUME NEW e \in PublisherEffects PROVE Call(e)'
    BY <2>1, <2>2, TopologyAssumption DEF PublicationInv, Call, Started
  <2>4. /\ pc'[w] = "record"
        /\ \A v \in Workers : v # w => pc'[v] = pc[v]
    BY <2>1 DEF TypeInv, TypeOK
  <2>5. ASSUME NEW v \in Workers PROVE Path(v)'
    BY <2>1, <2>2, <2>4, TopologyAssumption DEF PublicationInv, Path, Holds, Started
  <2>6. Exclusive'
    BY <2>1, <2>4 DEF PublicationInv, Exclusive, Inside
  <2> QED BY <2>3, <2>5, <2>6 DEF PublicationInv
<1>16. ASSUME NEW w \in Workers, FinishFailed(w) PROVE PublicationInv'
  <2>1. /\ task[w] \in Effects
        /\ UNCHANGED <<marker, incident, remote, writes, inflight>>
    BY <1>16
       DEF FinishFailed, TypeInv, WorkerShape, Placed, rowVars, tableVars,
           outcomeVars, remoteVars
  <2>2. /\ CloseAttempt(task[w], FailedState(w))
        /\ FailedState(w) \in {"retry_scheduled", "terminal"}
        /\ Rest(w) /\ UNCHANGED ack
    BY <1>16 DEF FinishFailed, FailedState, outcomeVars
  <2>3. PublicationInv'
    <3>1. /\ state'[task[w]] \in {"retry_scheduled", "terminal"}
          /\ \A e \in Effects : e # task[w] => state'[e] = state[e] /\ owner'[e] = owner[e]
      BY <2>1, <2>2, CloseTouches
    <3>3. ASSUME NEW e \in PublisherEffects PROVE Call(e)'
      BY <2>1, <2>2, <3>1, TopologyAssumption DEF PublicationInv, Call, Started
    <3>4. /\ pc'[w] = "idle"
          /\ \A v \in Workers : v # w => pc'[v] = pc[v] /\ task'[v] = task[v]
      BY <2>2, RestTouches
    <3>5. ASSUME NEW v \in Workers PROVE Path(v)'
      <4>1. pc'[v] # "idle" => task[v] \in Effects
        BY <3>4 DEF TypeInv, WorkerShape, Placed
      <4>2. pc'[v] # "idle" /\ Holds(v)' => Holds(v)
        BY <3>1, <3>4, <4>1 DEF Holds
      <4> QED BY <2>1, <3>4, <4>2 DEF PublicationInv, Path, Started
    <3>6. Exclusive'
      BY <3>4 DEF PublicationInv, Exclusive, Inside
    <3> QED BY <3>3, <3>5, <3>6 DEF PublicationInv
  <2> QED BY <2>3
<1>17. ASSUME NEW w \in Workers, FinishFenced(w) PROVE PublicationInv'
  <2>1. UNCHANGED <<state, owner, marker, ack, incident, remote, writes, inflight>>
    BY <1>17 DEF FinishFenced, rowVars, tableVars, outcomeVars, remoteVars
  <2> QED BY <1>17, <2>1, PublicationLeave DEF FinishFenced
<1>18. ASSUME NEW w \in Workers, Renew(w) PROVE PublicationInv'
  <2>1. UNCHANGED <<pc, task, owner, marker, writes>>
    BY <1>18 DEF Renew, rowVars, tableVars, outcomeVars, remoteVars, workerVars
  <2>2. \A e \in Effects : state'[e] = "leased" => state[e] = "leased"
    BY <1>18 DEF Renew, rowVars, TypeInv, TypeOK
  <2>3. ASSUME NEW x \in PublisherEffects PROVE Call(x)'
    BY <1>18, TopologyAssumption
       DEF Renew, PublicationInv, Call, Started, TypeInv, TypeOK, rowVars,
           tableVars, outcomeVars, remoteVars
  <2>4. \A e \in Effects : incident'[e] = "confirmed" /\ Fenced(e) => incident[e] = "confirmed"
    BY <1>18 DEF Renew, outcomeVars, TypeInv, TypeOK
  <2> QED BY <2>1, <2>2, <2>3, <2>4, PublicationTables, TopologyAssumption
<1>19. ASSUME NEW w \in Workers, BeatFails(w) PROVE PublicationInv'
  <2>1. UNCHANGED <<pc, task, owner, marker, writes>>
    BY <1>19 DEF BeatFails, rowVars, tableVars, outcomeVars, remoteVars, workerVars
  <2>2. \A e \in Effects : state'[e] = "leased" => state[e] = "leased"
    BY <1>19 DEF BeatFails, rowVars, TypeInv, TypeOK
  <2>3. ASSUME NEW x \in PublisherEffects PROVE Call(x)'
    BY <1>19, TopologyAssumption
       DEF BeatFails, PublicationInv, Call, Started, TypeInv, TypeOK, rowVars,
           tableVars, outcomeVars, remoteVars
  <2>4. \A y \in Effects : incident'[y] = "confirmed" /\ Fenced(y) => incident[y] = "confirmed"
    BY <1>19 DEF BeatFails, outcomeVars, TypeInv, TypeOK
  <2> QED BY <2>1, <2>2, <2>3, <2>4, PublicationTables, TopologyAssumption
<1>20. ASSUME NEW w \in Workers, Crash(w) PROVE PublicationInv'
  <2>1. UNCHANGED <<state, owner, marker, ack, incident, remote, writes, inflight>>
    BY <1>20 DEF Crash, rowVars, tableVars, outcomeVars, remoteVars
  <2> QED BY <1>20, <2>1, PublicationLeave DEF Crash
<1>21. ASSUME NEW e \in Effects, Enqueue(e) PROVE PublicationInv'
  <2>1. UNCHANGED <<pc, task, owner, marker, writes>>
    BY <1>21 DEF Enqueue, rowVars, tableVars, outcomeVars, remoteVars, workerVars
  <2>2. \A y \in Effects : state'[y] = "leased" => state[y] = "leased"
    BY <1>21 DEF Enqueue, rowVars, TypeInv, TypeOK
  <2>3. ASSUME NEW x \in PublisherEffects PROVE Call(x)'
    BY <1>21, TopologyAssumption
       DEF Enqueue, PublicationInv, Call, Started, TypeInv, TypeOK, rowVars,
           tableVars, outcomeVars, remoteVars
  <2>4. \A y \in Effects : incident'[y] = "confirmed" /\ Fenced(y) => incident[y] = "confirmed"
    BY <1>21 DEF Enqueue, outcomeVars, TypeInv, TypeOK
  <2> QED BY <2>1, <2>2, <2>3, <2>4, PublicationTables, TopologyAssumption
<1>22. ASSUME NEW e \in Effects, Meddle(e) PROVE PublicationInv'
  <2>1. UNCHANGED <<pc, task, owner, marker, writes>>
    BY <1>22 DEF Meddle, rowVars, tableVars, outcomeVars, remoteVars, workerVars
  <2>2. \A y \in Effects : state'[y] = "leased" => state[y] = "leased"
    BY <1>22 DEF Meddle, rowVars, TypeInv, TypeOK
  <2>3. ASSUME NEW x \in PublisherEffects PROVE Call(x)'
    BY <1>22, TopologyAssumption
       DEF Meddle, PublicationInv, Call, Started, TypeInv, TypeOK, rowVars,
           tableVars, outcomeVars, remoteVars
  <2>4. \A y \in Effects : incident'[y] = "confirmed" /\ Fenced(y) => incident[y] = "confirmed"
    BY <1>22 DEF Meddle, outcomeVars, TypeInv, TypeOK
  <2> QED BY <2>1, <2>2, <2>3, <2>4, PublicationTables, TopologyAssumption
<1>23. ASSUME NEW e \in Effects, ConfirmIncident(e) PROVE PublicationInv'
  <2>1. UNCHANGED <<pc, task, owner, marker, writes>>
    BY <1>23
       DEF ConfirmIncident, rowVars, tableVars, outcomeVars, remoteVars,
           workerVars
  <2>2. \A y \in Effects : state'[y] = "leased" => state[y] = "leased"
    BY <1>23 DEF ConfirmIncident, rowVars, TypeInv, TypeOK
  <2>3. ASSUME NEW x \in PublisherEffects PROVE Call(x)'
    BY <1>23, TopologyAssumption
       DEF ConfirmIncident, PublicationInv, Call, Started, TypeInv, TypeOK,
           rowVars, tableVars, outcomeVars, remoteVars
  <2>4. \A y \in Effects : incident'[y] = "confirmed" /\ Fenced(y) => incident[y] = "confirmed"
    BY <1>23 DEF ConfirmIncident, outcomeVars, TypeInv, TypeOK
  <2> QED BY <2>1, <2>2, <2>3, <2>4, PublicationTables, TopologyAssumption
<1>24. ASSUME NEW e \in Effects, StartRepair(e) PROVE PublicationInv'
  <2>1. UNCHANGED <<pc, task, owner, marker, writes>>
    BY <1>24
       DEF StartRepair, rowVars, tableVars, outcomeVars, remoteVars, workerVars
  <2>2. \A y \in Effects : state'[y] = "leased" => state[y] = "leased"
    BY <1>24 DEF StartRepair, rowVars, TypeInv, TypeOK
  <2>3. ASSUME NEW x \in PublisherEffects PROVE Call(x)'
    BY <1>24, TopologyAssumption
       DEF StartRepair, PublicationInv, Call, Started, TypeInv, TypeOK, rowVars,
           tableVars, outcomeVars, remoteVars, Outcomes
  <2>4. \A y \in Effects : incident'[y] = "confirmed" /\ Fenced(y) => incident[y] = "confirmed"
    BY <1>24 DEF StartRepair, outcomeVars, TypeInv, TypeOK
  <2> QED BY <2>1, <2>2, <2>3, <2>4, PublicationTables, TopologyAssumption
<1>25. ASSUME NEW e \in Effects, Repair(e) PROVE PublicationInv'
  <2>1. UNCHANGED <<pc, task, owner, marker, writes>>
    BY <1>25 DEF Repair, rowVars, tableVars, outcomeVars, remoteVars, workerVars
  <2>2. \A y \in Effects : state'[y] = "leased" => state[y] = "leased"
    BY <1>25 DEF Repair, rowVars, TypeInv, TypeOK
  <2>3. ASSUME NEW x \in PublisherEffects PROVE Call(x)'
    BY <1>25, TopologyAssumption
       DEF Repair, PublicationInv, Call, Started, TypeInv, TypeOK, rowVars,
           tableVars, outcomeVars, remoteVars, Outcomes
  <2>4. \A y \in Effects : incident'[y] = "confirmed" /\ Fenced(y) => incident[y] = "confirmed"
    BY <1>25 DEF Repair, outcomeVars, TypeInv, TypeOK
  <2> QED BY <2>1, <2>2, <2>3, <2>4, PublicationTables, TopologyAssumption
<1>26. ASSUME NEW e \in Effects, StartReconcile(e) PROVE PublicationInv'
  <2>1. UNCHANGED <<pc, task, owner, marker, writes>>
    BY <1>26
       DEF StartReconcile, rowVars, tableVars, outcomeVars, remoteVars, workerVars
  <2>2. \A y \in Effects : state'[y] = "leased" => state[y] = "leased"
    BY <1>26 DEF StartReconcile, rowVars, TypeInv, TypeOK
  <2>3. ASSUME NEW x \in PublisherEffects PROVE Call(x)'
    BY <1>26, TopologyAssumption
       DEF StartReconcile, PublicationInv, Call, Started, TypeInv, TypeOK,
           rowVars, tableVars, outcomeVars, remoteVars, Outcomes
  <2>4. \A y \in Effects : incident'[y] = "confirmed" /\ Fenced(y) => incident[y] = "confirmed"
    BY <1>26 DEF StartReconcile, outcomeVars, TypeInv, TypeOK
  <2> QED BY <2>1, <2>2, <2>3, <2>4, PublicationTables, TopologyAssumption
<1>27. ASSUME NEW e \in Effects, NEW outcome \in Outcomes, Reconcile(e, outcome) PROVE PublicationInv'
  <2>1. UNCHANGED <<pc, task, owner, marker, writes>>
    BY <1>27 DEF Reconcile, rowVars, tableVars, outcomeVars, remoteVars, workerVars
  <2>2. \A y \in Effects : state'[y] = "leased" => state[y] = "leased"
    BY <1>27 DEF Reconcile, rowVars, TypeInv, TypeOK
  <2>3. ASSUME NEW x \in PublisherEffects PROVE Call(x)'
    BY <1>27, TopologyAssumption
       DEF Reconcile, PublicationInv, Call, Started, TypeInv, TypeOK, rowVars,
           tableVars, outcomeVars, remoteVars, Outcomes
  <2>4. \A y \in Effects : incident'[y] = "confirmed" /\ Fenced(y) => incident[y] = "confirmed"
    BY <1>27 DEF Reconcile, outcomeVars, TypeInv, TypeOK
  <2> QED BY <2>1, <2>2, <2>3, <2>4, PublicationTables, TopologyAssumption
<1>28. CASE Tick
  <2>1. UNCHANGED <<pc, task, owner, marker, writes>>
    BY <1>28 DEF Tick, rowVars, tableVars, outcomeVars, remoteVars, workerVars
  <2>2. \A y \in Effects : state'[y] = "leased" => state[y] = "leased"
    BY <1>28 DEF Tick, rowVars, TypeInv, TypeOK
  <2>3. ASSUME NEW x \in PublisherEffects PROVE Call(x)'
    BY <1>28, TopologyAssumption
       DEF Tick, PublicationInv, Call, Started, TypeInv, TypeOK, rowVars,
           tableVars, outcomeVars, remoteVars
  <2>4. \A y \in Effects : incident'[y] = "confirmed" /\ Fenced(y) => incident[y] = "confirmed"
    BY <1>28 DEF Tick, outcomeVars, TypeInv, TypeOK
  <2> QED BY <2>1, <2>2, <2>3, <2>4, PublicationTables, TopologyAssumption
<1>29. CASE UNCHANGED vars
  BY <1>29
     DEF vars, rowVars, tableVars, outcomeVars, remoteVars, workerVars,
         PublicationInv, Call, Path, Exclusive, Inside, Holds, Started
<1> QED
  BY <1>1, <1>2, <1>3, <1>4, <1>5, <1>6, <1>7, <1>8, <1>9, <1>10, <1>11,
     <1>12, <1>13, <1>14, <1>15, <1>16, <1>17, <1>18, <1>19, <1>20, <1>21,
     <1>22, <1>23, <1>24, <1>25, <1>26, <1>27, <1>28, <1>29
     DEF Next, WorkerStep, Advance, EffectStep

LEMMA PublicationInvariant == Spec => []PublicationInv
<1>1. Init => PublicationInv
  BY TopologyAssumption
     DEF Init, PublicationInv, Call, Path, Exclusive, Inside, Started, Outcomes
<1> QED
  BY TypeInit, TypeStep, LeasedInit, LeasedStep, <1>1, PublicationStep, PTL DEF Spec

\* A publication is called at most once, whatever crashes, lost leases, repairs and
\* competing publisher commands do (outbox_external_calls, _publisher_execution_fence).
THEOREM CalledAtMostOnce == Spec => []PublishedAtMostOnce
<1>1. PublicationInv => PublishedAtMostOnce
  BY DEF PublicationInv, Call, PublishedAtMostOnce
<1> QED BY <1>1, PublicationInvariant, PTL

\* A publication acknowledged as confirmed absent was never made and never will be
\* (reconcile_publication).
THEOREM AbsentStaysAbsent == Spec => []AbortedNeverPublished
<1>1. PublicationInv => AbortedNeverPublished
  BY DEF PublicationInv, Call, AbortedNeverPublished
<1> QED BY <1>1, PublicationInvariant, PTL

\* A publication succeeds only through a call of our own (PublisherEffectAdapter).
THEOREM OwnCallOnly == Spec => []NoForeignPublication
<1>1. PublicationInv => NoForeignPublication
  BY DEF PublicationInv, Call, NoForeignPublication
<1> QED BY <1>1, PublicationInvariant, PTL

(***************************************************************************)
(* Outbox implements EffectPromise.                                        *)
(***************************************************************************)
\* Nobody works on an effect that was never enqueued.
Known == \A w \in Workers : pc[w] # "idle" => state[task[w]] # "absent"

\* Only publications are reconciled.
OnlyPublications ==
  \A e \in Effects \ PublisherEffects :
    inflight[e] \cap Outcomes = {} /\ ack[e] # "confirmed_absent"

LEMMA KnownStep == TypeInv /\ Known /\ [Next]_vars => Known'
<1> SUFFICES ASSUME TypeInv, Known, [Next]_vars PROVE Known'
  OBVIOUS
<1>a. /\ state \in [Effects -> States] /\ pc \in [Workers -> Steps]
      /\ \A w \in Workers : pc[w] # "idle" => task[w] \in Effects
  BY DEF TypeInv, TypeOK, WorkerShape, Placed
<1> USE <1>a DEF Known
<1>1. ASSUME NEW w \in Workers, DispatchNext(w) PROVE Known'
  <2>1. ASSUME NEW x \in Effects, Claim(w, x) PROVE Known'
    <3>1. \A v \in Workers : v # w => pc'[v] = pc[v] /\ task'[v] = task[v]
      BY <2>1, ClaimTouches
    <3>2. task'[w] = x
      BY <2>1, ClaimTouches
    <3>3. /\ state'[x] = "leased"
          /\ \A y \in Effects : y # x => state'[y] = state[y]
      BY <2>1, ClaimWrites
    <3> QED BY <3>1, <3>2, <3>3
  <2> QED BY <1>1, <2>1, DispatchClaims
<1>2. ASSUME NEW w \in Workers, NEW e \in Effects, Expedite(w, e) PROVE Known'
  <2>1. /\ UNCHANGED state /\ state[e] # "absent" /\ task'[w] = e
        /\ \A v \in Workers : v # w => pc'[v] = pc[v] /\ task'[v] = task[v]
    BY <1>2 DEF Expedite, TypeInv, TypeOK
  <2> QED BY <2>1
<1>3. ASSUME NEW w \in Workers, ClaimNamed(w) PROVE Known'
  <2>1. ASSUME NEW x \in Effects, Claim(w, x) PROVE Known'
    <3>1. \A v \in Workers : v # w => pc'[v] = pc[v] /\ task'[v] = task[v]
      BY <2>1, ClaimTouches
    <3>2. task'[w] = x
      BY <2>1, ClaimTouches
    <3>3. /\ state'[x] = "leased"
          /\ \A y \in Effects : y # x => state'[y] = state[y]
      BY <2>1, ClaimWrites
    <3> QED BY <3>1, <3>2, <3>3
  <2>2. CASE Rest(w) /\ UNCHANGED rowVars
    <3>1. /\ pc'[w] = "idle" /\ UNCHANGED state
          /\ \A v \in Workers : v # w => pc'[v] = pc[v] /\ task'[v] = task[v]
      BY <2>2, RestTouches DEF rowVars
    <3> QED BY <3>1
  <2> QED BY <1>3, <2>1, <2>2, NamedClaims
<1>4. ASSUME NEW w \in Workers, Readback(w) PROVE Known'
  <2>1. UNCHANGED state
    BY <1>4 DEF Readback, rowVars
  <2>2. \A v \in Workers : pc'[v] # "idle" => pc[v] # "idle" /\ task'[v] = task[v]
    <3>1. pc[w] # "idle"
      BY <1>4 DEF Readback
    <3>2. ASSUME NEW step, GoTo(w, step)
          PROVE  \A v \in Workers : pc'[v] # "idle" => pc[v] # "idle" /\ task'[v] = task[v]
      BY <3>1, <3>2, GoToTouches
    <3>3. CASE Raise(w, "terminal")
      BY <3>1, <3>3, RaiseTouches
    <3> QED BY <1>4, <3>2, <3>3 DEF Readback
  <2> QED BY <2>1, <2>2
<1>5. ASSUME NEW w \in Workers, CheckMarker(w) PROVE Known'
  <2>1. UNCHANGED state
    BY <1>5 DEF CheckMarker, rowVars
  <2>2. \A v \in Workers : pc'[v] # "idle" => pc[v] # "idle" /\ task'[v] = task[v]
    BY <1>5, GoToTouches, RaiseTouches DEF CheckMarker, workerVars
  <2> QED BY <2>1, <2>2
<1>6. ASSUME NEW w \in Workers, Apply(w) PROVE Known'
  <2>1. UNCHANGED state
    BY <1>6 DEF Apply, rowVars
  <2>2. \A v \in Workers : pc'[v] # "idle" => pc[v] # "idle" /\ task'[v] = task[v]
    BY <1>6, GoToTouches, RaiseTouches DEF Apply, workerVars
  <2> QED BY <2>1, <2>2
<1>7. ASSUME NEW w \in Workers, EnterFence(w) PROVE Known'
  <2>1. UNCHANGED state
    BY <1>7 DEF EnterFence, rowVars
  <2>2. \A v \in Workers : pc'[v] # "idle" => pc[v] # "idle" /\ task'[v] = task[v]
    BY <1>7, GoToTouches, RaiseTouches DEF EnterFence, workerVars
  <2> QED BY <2>1, <2>2
<1>8. ASSUME NEW w \in Workers, MarkStarted(w) PROVE Known'
  <2>1. UNCHANGED state
    BY <1>8 DEF MarkStarted, rowVars
  <2>2. \A v \in Workers : pc'[v] # "idle" => pc[v] # "idle" /\ task'[v] = task[v]
    BY <1>8, GoToTouches, RaiseTouches DEF MarkStarted, workerVars
  <2> QED BY <2>1, <2>2
<1>9. ASSUME NEW w \in Workers, Execute(w) PROVE Known'
  <2>1. UNCHANGED state
    BY <1>9 DEF Execute, rowVars
  <2>2. \A v \in Workers : pc'[v] # "idle" => pc[v] # "idle" /\ task'[v] = task[v]
    BY <1>9, GoToTouches, RaiseTouches DEF Execute, workerVars
  <2> QED BY <2>1, <2>2
<1>10. ASSUME NEW w \in Workers, Confirm(w) PROVE Known'
  <2>1. UNCHANGED state
    BY <1>10 DEF Confirm, rowVars
  <2>2. \A v \in Workers : pc'[v] # "idle" => pc[v] # "idle" /\ task'[v] = task[v]
    BY <1>10, GoToTouches, RaiseTouches DEF Confirm, workerVars
  <2> QED BY <2>1, <2>2
<1>11. ASSUME NEW w \in Workers, CompleteIncident(w) PROVE Known'
  <2>1. UNCHANGED state
    BY <1>11 DEF CompleteIncident, rowVars
  <2>2. \A v \in Workers : pc'[v] # "idle" => pc[v] # "idle" /\ task'[v] = task[v]
    BY <1>11 DEF CompleteIncident, workerVars
  <2> QED BY <2>1, <2>2
<1>12. ASSUME NEW w \in Workers, Complete(w) PROVE Known'
  <2>1. UNCHANGED state
    BY <1>12 DEF Complete, rowVars
  <2>2. \A v \in Workers : pc'[v] # "idle" => pc[v] # "idle" /\ task'[v] = task[v]
    BY <1>12, GoToTouches, RaiseTouches DEF Complete, workerVars
  <2> QED BY <2>1, <2>2
<1>13. ASSUME NEW w \in Workers, CallFails(w) PROVE Known'
  <2>1. UNCHANGED state
    BY <1>13 DEF CallFails, rowVars
  <2>2. \A v \in Workers : pc'[v] # "idle" => pc[v] # "idle" /\ task'[v] = task[v]
    BY <1>13, GoToTouches, RaiseTouches DEF CallFails, workerVars
  <2> QED BY <2>1, <2>2
<1>14. ASSUME NEW w \in Workers, Acknowledge(w) PROVE Known'
  <2>1. \A x \in Effects : state[x] # "absent" => state'[x] # "absent"
    BY <1>14, CloseTouches DEF Acknowledge, FailedState
  <2>2. \A v \in Workers : pc'[v] # "idle" => pc[v] # "idle" /\ task'[v] = task[v]
    BY <1>14, RestTouches, RaiseTouches DEF Acknowledge
  <2> QED BY <2>1, <2>2
<1>15. ASSUME NEW w \in Workers, FailureCallback(w) PROVE Known'
  <2>1. UNCHANGED state
    BY <1>15 DEF FailureCallback, TypeInv, TypeOK, rowVars
  <2>2. \A v \in Workers : pc'[v] # "idle" => pc[v] # "idle" /\ task'[v] = task[v]
    BY <1>15 DEF FailureCallback, TypeInv, TypeOK, workerVars
  <2> QED BY <2>1, <2>2
<1>16. ASSUME NEW w \in Workers, FinishFailed(w) PROVE Known'
  <2>1. \A x \in Effects : state[x] # "absent" => state'[x] # "absent"
    BY <1>16, CloseTouches DEF FinishFailed, FailedState
  <2>2. \A v \in Workers : pc'[v] # "idle" => pc[v] # "idle" /\ task'[v] = task[v]
    BY <1>16, RestTouches, RaiseTouches DEF FinishFailed
  <2> QED BY <2>1, <2>2
<1>17. ASSUME NEW w \in Workers, FinishFenced(w) PROVE Known'
  <2>1. UNCHANGED state
    BY <1>17 DEF FinishFenced, rowVars
  <2>2. \A v \in Workers : pc'[v] # "idle" => pc[v] # "idle" /\ task'[v] = task[v]
    BY <1>17, RestTouches DEF FinishFenced, workerVars
  <2> QED BY <2>1, <2>2
<1>18. ASSUME NEW w \in Workers, Renew(w) PROVE Known'
  <2>1. UNCHANGED state
    BY <1>18 DEF Renew, rowVars
  <2>2. \A v \in Workers : pc'[v] # "idle" => pc[v] # "idle" /\ task'[v] = task[v]
    BY <1>18 DEF Renew, workerVars
  <2> QED BY <2>1, <2>2
<1>19. ASSUME NEW w \in Workers, BeatFails(w) PROVE Known'
  <2>1. UNCHANGED state
    BY <1>19 DEF BeatFails, rowVars
  <2>2. \A v \in Workers : pc'[v] # "idle" => pc[v] # "idle" /\ task'[v] = task[v]
    BY <1>19 DEF BeatFails, workerVars
  <2> QED BY <2>1, <2>2
<1>20. ASSUME NEW w \in Workers, Crash(w) PROVE Known'
  <2>1. UNCHANGED state
    BY <1>20 DEF Crash, rowVars
  <2>2. \A v \in Workers : pc'[v] # "idle" => pc[v] # "idle" /\ task'[v] = task[v]
    BY <1>20, RestTouches DEF Crash, workerVars
  <2> QED BY <2>1, <2>2
<1>21. ASSUME NEW e \in Effects, Enqueue(e) PROVE Known'
  <2>1. \A x \in Effects : state[x] # "absent" => state'[x] # "absent"
    BY <1>21 DEF Enqueue, TypeInv, TypeOK
  <2>2. UNCHANGED <<pc, task>>
    BY <1>21 DEF Enqueue, workerVars
  <2> QED BY <2>1, <2>2
<1>22. ASSUME NEW e \in Effects, Meddle(e) PROVE Known'
  <2>1. UNCHANGED state
    BY <1>22 DEF Meddle, rowVars
  <2>2. \A v \in Workers : pc'[v] # "idle" => pc[v] # "idle" /\ task'[v] = task[v]
    BY <1>22 DEF Meddle, workerVars
  <2> QED BY <2>1, <2>2
<1>23. ASSUME NEW e \in Effects, ConfirmIncident(e) PROVE Known'
  <2>1. UNCHANGED state
    BY <1>23 DEF ConfirmIncident, rowVars
  <2>2. \A v \in Workers : pc'[v] # "idle" => pc[v] # "idle" /\ task'[v] = task[v]
    BY <1>23 DEF ConfirmIncident, workerVars
  <2> QED BY <2>1, <2>2
<1>24. ASSUME NEW e \in Effects, StartRepair(e) PROVE Known'
  <2>1. UNCHANGED state
    BY <1>24 DEF StartRepair, rowVars
  <2>2. \A v \in Workers : pc'[v] # "idle" => pc[v] # "idle" /\ task'[v] = task[v]
    BY <1>24 DEF StartRepair, workerVars
  <2> QED BY <2>1, <2>2
<1>25. ASSUME NEW e \in Effects, Repair(e) PROVE Known'
  <2>1. \A x \in Effects : state[x] # "absent" => state'[x] # "absent"
    BY <1>25 DEF Repair, TypeInv, TypeOK
  <2>2. UNCHANGED <<pc, task>>
    BY <1>25 DEF Repair, workerVars
  <2> QED BY <2>1, <2>2
<1>26. ASSUME NEW e \in Effects, StartReconcile(e) PROVE Known'
  <2>1. UNCHANGED state
    BY <1>26 DEF StartReconcile, rowVars
  <2>2. \A v \in Workers : pc'[v] # "idle" => pc[v] # "idle" /\ task'[v] = task[v]
    BY <1>26 DEF StartReconcile, workerVars
  <2> QED BY <2>1, <2>2
<1>27. ASSUME NEW e \in Effects, NEW outcome \in Outcomes, Reconcile(e, outcome) PROVE Known'
  <2>1. \A x \in Effects : state[x] # "absent" => state'[x] # "absent"
    BY <1>27 DEF Reconcile, TypeInv, TypeOK
  <2>2. UNCHANGED <<pc, task>>
    BY <1>27 DEF Reconcile, workerVars
  <2> QED BY <2>1, <2>2
<1>28. CASE Tick
  <2>1. UNCHANGED state
    BY <1>28 DEF Tick, rowVars
  <2>2. \A v \in Workers : pc'[v] # "idle" => pc[v] # "idle" /\ task'[v] = task[v]
    BY <1>28 DEF Tick, workerVars
  <2> QED BY <2>1, <2>2
<1>29. CASE UNCHANGED vars
  <2>1. UNCHANGED state
    BY <1>29 DEF vars, rowVars
  <2>2. \A v \in Workers : pc'[v] # "idle" => pc[v] # "idle" /\ task'[v] = task[v]
    BY <1>29 DEF vars, workerVars
  <2> QED BY <2>1, <2>2
<1> HIDE DEF Known
<1> QED
  BY <1>1, <1>2, <1>3, <1>4, <1>5, <1>6, <1>7, <1>8, <1>9, <1>10, <1>11,
     <1>12, <1>13, <1>14, <1>15, <1>16, <1>17, <1>18, <1>19, <1>20, <1>21,
     <1>22, <1>23, <1>24, <1>25, <1>26, <1>27, <1>28, <1>29
     DEF Next, WorkerStep, Advance, EffectStep

LEMMA OnlyPublicationsStep ==
  TypeInv /\ OnlyPublications /\ [Next]_vars => OnlyPublications'
<1> SUFFICES ASSUME TypeInv, OnlyPublications, [Next]_vars PROVE OnlyPublications'
  OBVIOUS
<1>a. /\ inflight \in [Effects -> SUBSET (Outcomes \cup {"repair"})]
      /\ ack \in [Effects -> Outcomes \cup {None}]
  BY DEF TypeInv, TypeOK
<1> USE <1>a DEF OnlyPublications
<1>1. ASSUME NEW w \in Workers, DispatchNext(w) PROVE OnlyPublications'
  BY <1>1, DispatchClaims DEF Claim, outcomeVars
<1>2. ASSUME NEW w \in Workers, NEW e \in Effects, Expedite(w, e) PROVE OnlyPublications'
  BY <1>2 DEF Expedite, outcomeVars
<1>3. ASSUME NEW w \in Workers, ClaimNamed(w) PROVE OnlyPublications'
  BY <1>3, NamedClaims DEF Claim, outcomeVars
<1>4. ASSUME NEW w \in Workers, Readback(w) PROVE OnlyPublications'
  BY <1>4 DEF Readback, outcomeVars
<1>5. ASSUME NEW w \in Workers, CheckMarker(w) PROVE OnlyPublications'
  BY <1>5 DEF CheckMarker, outcomeVars
<1>6. ASSUME NEW w \in Workers, Apply(w) PROVE OnlyPublications'
  BY <1>6 DEF Apply, outcomeVars
<1>7. ASSUME NEW w \in Workers, EnterFence(w) PROVE OnlyPublications'
  BY <1>7 DEF EnterFence, outcomeVars
<1>8. ASSUME NEW w \in Workers, MarkStarted(w) PROVE OnlyPublications'
  BY <1>8 DEF MarkStarted, outcomeVars
<1>9. ASSUME NEW w \in Workers, Execute(w) PROVE OnlyPublications'
  BY <1>9 DEF Execute, outcomeVars
<1>10. ASSUME NEW w \in Workers, Confirm(w) PROVE OnlyPublications'
  BY <1>10 DEF Confirm, outcomeVars
<1>11. ASSUME NEW w \in Workers, CompleteIncident(w) PROVE OnlyPublications'
  BY <1>11 DEF CompleteIncident, outcomeVars
<1>12. ASSUME NEW w \in Workers, Complete(w) PROVE OnlyPublications'
  BY <1>12 DEF Complete, outcomeVars
<1>13. ASSUME NEW w \in Workers, CallFails(w) PROVE OnlyPublications'
  BY <1>13 DEF CallFails, outcomeVars
<1>14. ASSUME NEW w \in Workers, Acknowledge(w) PROVE OnlyPublications'
  <2>1. ack' = ack \/ ack' = [ack EXCEPT ![task[w]] = "evidence"]
    BY <1>14 DEF Acknowledge
  <2>2. UNCHANGED inflight
    BY <1>14 DEF Acknowledge
  <2> QED BY <2>1, <2>2
<1>15. ASSUME NEW w \in Workers, FailureCallback(w) PROVE OnlyPublications'
  BY <1>15 DEF FailureCallback, outcomeVars
<1>16. ASSUME NEW w \in Workers, FinishFailed(w) PROVE OnlyPublications'
  BY <1>16 DEF FinishFailed, outcomeVars
<1>17. ASSUME NEW w \in Workers, FinishFenced(w) PROVE OnlyPublications'
  BY <1>17 DEF FinishFenced, outcomeVars
<1>18. ASSUME NEW w \in Workers, Renew(w) PROVE OnlyPublications'
  BY <1>18 DEF Renew, outcomeVars
<1>19. ASSUME NEW w \in Workers, BeatFails(w) PROVE OnlyPublications'
  BY <1>19 DEF BeatFails, outcomeVars
<1>20. ASSUME NEW w \in Workers, Crash(w) PROVE OnlyPublications'
  BY <1>20 DEF Crash, outcomeVars
<1>21. ASSUME NEW e \in Effects, Enqueue(e) PROVE OnlyPublications'
  BY <1>21 DEF Enqueue, outcomeVars
<1>22. ASSUME NEW e \in Effects, Meddle(e) PROVE OnlyPublications'
  BY <1>22 DEF Meddle, outcomeVars
<1>23. ASSUME NEW e \in Effects, ConfirmIncident(e) PROVE OnlyPublications'
  BY <1>23 DEF ConfirmIncident, outcomeVars
<1>24. ASSUME NEW e \in Effects, StartRepair(e) PROVE OnlyPublications'
  BY <1>24 DEF StartRepair, outcomeVars, Outcomes
<1>25. ASSUME NEW e \in Effects, Repair(e) PROVE OnlyPublications'
  BY <1>25 DEF Repair, outcomeVars, Outcomes
<1>26. ASSUME NEW e \in Effects, StartReconcile(e) PROVE OnlyPublications'
  BY <1>26 DEF StartReconcile, outcomeVars, Outcomes
<1>27. ASSUME NEW e \in Effects, NEW outcome \in Outcomes, Reconcile(e, outcome) PROVE OnlyPublications'
  <2>1. e \in PublisherEffects /\ (ack' = ack \/ ack' = [ack EXCEPT ![e] = outcome])
    BY <1>27 DEF Reconcile
  <2>2. inflight' = [inflight EXCEPT ![e] = @ \ {outcome}]
    BY <1>27 DEF Reconcile
  <2> QED BY <2>1, <2>2, TopologyAssumption
<1>28. CASE Tick
  BY <1>28 DEF Tick, outcomeVars
<1>29. CASE UNCHANGED vars
  BY <1>29 DEF vars, outcomeVars
<1> HIDE DEF OnlyPublications
<1> QED
  BY <1>1, <1>2, <1>3, <1>4, <1>5, <1>6, <1>7, <1>8, <1>9, <1>10, <1>11,
     <1>12, <1>13, <1>14, <1>15, <1>16, <1>17, <1>18, <1>19, <1>20, <1>21,
     <1>22, <1>23, <1>24, <1>25, <1>26, <1>27, <1>28, <1>29
     DEF Next, WorkerStep, Advance, EffectStep

\* A step of EffectPromise, or none.
Mapped == [Promise!Next]_(Promise!promiseVars)

LEMMA MapStutter ==
  ASSUME UNCHANGED <<state, ack, writes, seen>>
  PROVE  Mapped
<1>1. \A e \in Effects : Status(e)' = Status(e)
  BY DEF Status
<1> QED BY <1>1 DEF Mapped, Promise!promiseVars

\* One effect changes its status and nothing else happens.
LEMMA MapMove ==
  ASSUME NEW e \in Effects, NEW from, NEW to,
         Status(e) = from, Status(e)' = to,
         \A x \in Effects : x # e => Status(x)' = Status(x),
         UNCHANGED <<writes, seen>>
  PROVE  Promise!Move(e, from, to)
  BY DEF Promise!Move

LEMMA MapClaim ==
  ASSUME TypeInv, NEW w \in Workers, NEW e \in Effects, NEW graced,
         Claimable(e, graced), Claim(w, e)
  PROVE  Mapped
<1>1. /\ state[e] \in {"pending", "retry_scheduled", "leased"}
      /\ state'[e] = "leased"
      /\ \A x \in Effects : x # e => state'[x] = state[x]
      /\ UNCHANGED <<ack, writes, seen>>
  BY ClaimWrites DEF Claimable, Claim, outcomeVars, remoteVars
<1>2. \A x \in Effects : Status(x)' = Status(x)
  BY <1>1 DEF Status
<1> QED BY <1>1, <1>2 DEF Mapped, Promise!promiseVars

LEMMA MapPerform ==
  ASSUME TypeInv, NEW e \in Effects, Write(e), UNCHANGED <<state, ack>>,
         state[e] # "absent", ack[e] # "confirmed_absent",
         e \in PublisherEffects => writes[e] = 0
  PROVE  Mapped
<1>1. \A x \in Effects : Status(x)' = Status(x)
  BY DEF Status
<1>2. Status(e) \notin {"none", "aborted"}
  BY DEF Status, TypeInv, TypeOK, States
<1>3. /\ writes[e] \in Nat /\ writes'[e] = writes[e] + 1
      /\ \A x \in Effects : x # e => writes'[x] = writes[x]
      /\ seen' = [seen EXCEPT ![e] = TRUE]
  BY WriteTouches DEF Write, TypeInv, TypeOK
<1>4. /\ writes'[e] > 0
      /\ \A x \in Effects : x # e => writes'[x] = writes[x]
  BY <1>3
<1>5. [x \in Effects |-> writes'[x] > 0] = [[x \in Effects |-> writes[x] > 0] EXCEPT ![e] = TRUE]
  BY <1>4, Zenon
<1>6. e \in PublisherEffects => ~(writes[e] > 0)
  OBVIOUS
<1>7. [x \in Effects |-> Status(x)]' = [x \in Effects |-> Status(x)]
  BY <1>1
<1>8. e \in PublisherEffects => ~[x \in Effects |-> writes[x] > 0][e]
  BY <1>6, Zenon
<1>9. [x \in Effects |-> Status(x)][e] \notin {"none", "aborted"}
  BY <1>2
<1>10. Promise!Perform(e)
  BY <1>3, <1>5, <1>7, <1>8, <1>9, Zenon DEF Promise!Perform
<1> QED BY <1>10 DEF Mapped, Promise!Next

LEMMA MapFail ==
  ASSUME TypeInv, NEW e \in Effects, UNCHANGED <<ack, writes, seen>>,
         state[e] = "leased", state'[e] \in {"retry_scheduled", "terminal"},
         \A x \in Effects : x # e => state'[x] = state[x]
  PROVE  Mapped
<1>1. \A x \in Effects : x # e => Status(x)' = Status(x)
  BY DEF Status
<1>2. Status(e) = "open"
  BY DEF Status
<1>3. CASE state'[e] = "retry_scheduled"
  <2>1. Status(e)' = "open"
    BY <1>3 DEF Status
  <2>2. \A x \in Effects : Status(x)' = Status(x)
    BY <1>1, <1>2, <2>1
  <2> QED BY <2>2 DEF Mapped, Promise!promiseVars
<1>4. CASE state'[e] = "terminal"
  <2>1. Status(e)' = "failed"
    BY <1>4 DEF Status
  <2>2. Promise!Fail(e)
    BY <1>1, <1>2, <2>1, MapMove DEF Promise!Fail
  <2> QED BY <2>2 DEF Mapped, Promise!Next
<1> QED BY <1>3, <1>4

LEMMA NothingMade ==
  ASSUME \A e \in Effects : writes[e] = 0
  PROVE  [e \in Effects |-> writes[e] > 0] = [e \in Effects |-> FALSE]
<1>1. ASSUME NEW e \in Effects PROVE (writes[e] > 0) = FALSE
  <2>1. writes[e] = 0
    OBVIOUS
  <2> QED BY <2>1
<1> QED BY <1>1, Zenon

LEMMA MapStep ==
  ASSUME TypeInv, SeenInv, PublicationInv, Known, OnlyPublications, [Next]_vars
  PROVE  Mapped
<1>1. ASSUME NEW w \in Workers, DispatchNext(w) PROVE Mapped
  <2>1. PICK x \in Effects : Claimable(x, w \in Polling) /\ Claim(w, x)
    BY <1>1, DispatchClaims
  <2> QED BY <2>1, MapClaim
<1>2. ASSUME NEW w \in Workers, NEW e \in Effects, Expedite(w, e) PROVE Mapped
  <2>1. UNCHANGED <<state, ack, writes, seen>>
    BY <1>2 DEF Expedite, rowVars, tableVars, outcomeVars, remoteVars
  <2> QED BY <2>1, MapStutter
<1>3. ASSUME NEW w \in Workers, ClaimNamed(w) PROVE Mapped
  <2>1. CASE Claimable(task[w], FALSE) /\ Claim(w, task[w])
    BY <1>3, <2>1, NamedClaims, MapClaim
  <2>2. CASE UNCHANGED <<rowVars, tableVars, outcomeVars, remoteVars>>
    BY <2>2, MapStutter DEF rowVars, tableVars, outcomeVars, remoteVars
  <2> QED BY <1>3, <2>1, <2>2, NamedClaims
<1>4. ASSUME NEW w \in Workers, Readback(w) PROVE Mapped
  <2>1. UNCHANGED <<state, ack, writes, seen>>
    BY <1>4 DEF Readback, rowVars, tableVars, outcomeVars, remoteVars
  <2> QED BY <2>1, MapStutter
<1>5. ASSUME NEW w \in Workers, CheckMarker(w) PROVE Mapped
  <2>1. UNCHANGED <<state, ack, writes, seen>>
    BY <1>5 DEF CheckMarker, rowVars, tableVars, outcomeVars, remoteVars
  <2> QED BY <2>1, MapStutter
<1>6. ASSUME NEW w \in Workers, Apply(w) PROVE Mapped
  <2>1. /\ task[w] \in Effects /\ pc[w] \in {"apply", "execute"}
        /\ UNCHANGED <<state, ack>>
        /\ Write(task[w]) \/ UNCHANGED remoteVars
    BY <1>6 DEF Apply, TypeInv, WorkerShape, Placed, rowVars, outcomeVars
  <2>2. CASE UNCHANGED remoteVars
    BY <2>1, <2>2, MapStutter DEF remoteVars
  <2>3. CASE Write(task[w])
    <3>1. task[w] \in PublisherEffects <=> pc[w] = "execute"
      BY <1>6 DEF Apply, TypeInv, WorkerShape, Placed
    <3>2. /\ state[task[w]] # "absent"
          /\ ack[task[w]] # "confirmed_absent"
          /\ task[w] \in PublisherEffects => writes[task[w]] = 0
      BY <2>1, <3>1 DEF Known, OnlyPublications, PublicationInv, Path, Call
    <3> QED BY <2>1, <2>3, <3>2, MapPerform
  <2> QED BY <2>1, <2>2, <2>3
<1>7. ASSUME NEW w \in Workers, EnterFence(w) PROVE Mapped
  <2>1. UNCHANGED <<state, ack, writes, seen>>
    BY <1>7 DEF EnterFence, rowVars, tableVars, outcomeVars, remoteVars
  <2> QED BY <2>1, MapStutter
<1>8. ASSUME NEW w \in Workers, MarkStarted(w) PROVE Mapped
  <2>1. UNCHANGED <<state, ack, writes, seen>>
    BY <1>8 DEF MarkStarted, rowVars, tableVars, outcomeVars, remoteVars
  <2> QED BY <2>1, MapStutter
<1>9. ASSUME NEW w \in Workers, Execute(w) PROVE Mapped
  <2>1. /\ task[w] \in Effects /\ pc[w] \in {"apply", "execute"}
        /\ UNCHANGED <<state, ack>>
        /\ Write(task[w]) \/ UNCHANGED remoteVars
    BY <1>9 DEF Execute, TypeInv, WorkerShape, Placed, rowVars, outcomeVars
  <2>2. CASE UNCHANGED remoteVars
    BY <2>1, <2>2, MapStutter DEF remoteVars
  <2>3. CASE Write(task[w])
    <3>1. task[w] \in PublisherEffects <=> pc[w] = "execute"
      BY <1>9 DEF Execute, TypeInv, WorkerShape, Placed
    <3>2. /\ state[task[w]] # "absent"
          /\ ack[task[w]] # "confirmed_absent"
          /\ task[w] \in PublisherEffects => writes[task[w]] = 0
      BY <2>1, <3>1 DEF Known, OnlyPublications, PublicationInv, Path, Call
    <3> QED BY <2>1, <2>3, <3>2, MapPerform
  <2> QED BY <2>1, <2>2, <2>3
<1>10. ASSUME NEW w \in Workers, Confirm(w) PROVE Mapped
  <2>1. UNCHANGED <<state, ack, writes, seen>>
    BY <1>10 DEF Confirm, rowVars, tableVars, outcomeVars, remoteVars
  <2> QED BY <2>1, MapStutter
<1>11. ASSUME NEW w \in Workers, CompleteIncident(w) PROVE Mapped
  <2>1. UNCHANGED <<state, ack, writes, seen>>
    BY <1>11 DEF CompleteIncident, rowVars, tableVars, outcomeVars, remoteVars
  <2> QED BY <2>1, MapStutter
<1>12. ASSUME NEW w \in Workers, Complete(w) PROVE Mapped
  <2>1. UNCHANGED <<state, ack, writes, seen>>
    BY <1>12 DEF Complete, rowVars, tableVars, outcomeVars, remoteVars
  <2> QED BY <2>1, MapStutter
<1>13. ASSUME NEW w \in Workers, CallFails(w) PROVE Mapped
  <2>1. UNCHANGED <<state, ack, writes, seen>>
    BY <1>13 DEF CallFails, rowVars, tableVars, outcomeVars, remoteVars
  <2> QED BY <2>1, MapStutter
<1>14. ASSUME NEW w \in Workers, Acknowledge(w) PROVE Mapped
  <2>1. /\ task[w] \in Effects /\ UNCHANGED <<writes, seen>>
        /\ seen[task[w]]
    BY <1>14
       DEF Acknowledge, TypeInv, WorkerShape, Placed, SeenInv, SeenWorkers,
           remoteVars
  <2>2. CASE UNCHANGED <<state, ack>>
    BY <2>1, <2>2, MapStutter
  <2>3. CASE /\ OwnsLease(w, task[w])
             /\ CloseAttempt(task[w], "succeeded")
             /\ ack' = [ack EXCEPT ![task[w]] = "evidence"]
    <3>1. PICK e \in Effects : e = task[w]
      BY <2>1
    <3>2. /\ state[e] = "leased" /\ state'[e] = "succeeded" /\ ack'[e] = "evidence"
          /\ \A x \in Effects : x # e => state'[x] = state[x] /\ ack'[x] = ack[x]
      BY <2>3, <3>1 DEF OwnsLease, CloseAttempt, TypeInv, TypeOK
    <3>3. Status(e) = "open" /\ Status(e)' = "succeeded"
      BY <3>2 DEF Status
    <3>4. \A x \in Effects : x # e => Status(x)' = Status(x)
      BY <3>2 DEF Status
    <3>5. Promise!Succeed(e)
      BY <2>1, <3>1, <3>3, <3>4, MapMove DEF Promise!Succeed
    <3> QED BY <3>5 DEF Mapped, Promise!Next
  <2> QED BY <1>14, <2>2, <2>3 DEF Acknowledge
<1>15. ASSUME NEW w \in Workers, FailureCallback(w) PROVE Mapped
  <2>1. UNCHANGED <<state, ack, writes, seen>>
    BY <1>15 DEF FailureCallback, rowVars, tableVars, outcomeVars, remoteVars
  <2> QED BY <2>1, MapStutter
<1>16. ASSUME NEW w \in Workers, FinishFailed(w) PROVE Mapped
  <2>1. /\ task[w] \in Effects /\ UNCHANGED <<ack, writes, seen>>
        /\ state[task[w]] = "leased"
        /\ CloseAttempt(task[w], FailedState(w))
        /\ FailedState(w) \in {"retry_scheduled", "terminal"}
    BY <1>16 DEF FinishFailed, OwnsLease, FailedState, TypeInv, WorkerShape, Placed,
              outcomeVars, remoteVars
  <2>3. /\ state'[task[w]] \in {"retry_scheduled", "terminal"}
        /\ \A x \in Effects : x # task[w] => state'[x] = state[x]
    BY <2>1, CloseTouches
  <2> QED BY <2>1, <2>3, MapFail
<1>17. ASSUME NEW w \in Workers, FinishFenced(w) PROVE Mapped
  <2>1. UNCHANGED <<state, ack, writes, seen>>
    BY <1>17 DEF FinishFenced, rowVars, tableVars, outcomeVars, remoteVars
  <2> QED BY <2>1, MapStutter
<1>18. ASSUME NEW w \in Workers, Renew(w) PROVE Mapped
  <2>1. UNCHANGED <<state, ack, writes, seen>>
    BY <1>18 DEF Renew, rowVars, tableVars, outcomeVars, remoteVars
  <2> QED BY <2>1, MapStutter
<1>19. ASSUME NEW w \in Workers, BeatFails(w) PROVE Mapped
  <2>1. UNCHANGED <<state, ack, writes, seen>>
    BY <1>19 DEF BeatFails, rowVars, tableVars, outcomeVars, remoteVars
  <2> QED BY <2>1, MapStutter
<1>20. ASSUME NEW w \in Workers, Crash(w) PROVE Mapped
  <2>1. UNCHANGED <<state, ack, writes, seen>>
    BY <1>20 DEF Crash, rowVars, tableVars, outcomeVars, remoteVars
  <2> QED BY <2>1, MapStutter
<1>21. ASSUME NEW e \in Effects, Enqueue(e) PROVE Mapped
  <2>1. /\ state[e] = "absent" /\ state'[e] = "pending"
        /\ \A x \in Effects : x # e => state'[x] = state[x]
        /\ UNCHANGED <<ack, writes, seen>>
    BY <1>21 DEF Enqueue, outcomeVars, remoteVars, TypeInv, TypeOK
  <2>2. Status(e) = "none" /\ Status(e)' = "open"
    BY <2>1 DEF Status
  <2>3. \A x \in Effects : x # e => Status(x)' = Status(x)
    BY <2>1 DEF Status
  <2>4. Promise!Register(e)
    BY <2>1, <2>2, <2>3, MapMove DEF Promise!Register
  <2> QED BY <2>4 DEF Mapped, Promise!Next
<1>22. ASSUME NEW e \in Effects, Meddle(e) PROVE Mapped
  <2>1. /\ UNCHANGED <<state, ack, writes>>
        /\ seen' = seen \/ seen' = [seen EXCEPT ![e] = TRUE]
    <3>1. seen \in [Effects -> BOOLEAN] /\ UNCHANGED <<state, ack, writes>>
      BY <1>22 DEF Meddle, rowVars, outcomeVars, TypeInv, TypeOK
    <3>2. CASE remote'[e] = "present"
      BY <1>22, <3>1, <3>2 DEF Meddle
    <3>3. CASE remote'[e] # "present"
      <4>1. seen' = [seen EXCEPT ![e] = seen[e]]
        BY <1>22, <3>1, <3>3 DEF Meddle
      <4> QED BY <3>1, <4>1
    <3> QED BY <3>2, <3>3
  <2>2. CASE seen' = [seen EXCEPT ![e] = TRUE]
    <3>1. /\ \A x \in Effects : Status(x)' = Status(x)
          /\ \A x \in Effects : (writes'[x] > 0) = (writes[x] > 0)
      BY <2>1 DEF Status
    <3>2. Promise!Appear(e)
      BY <2>2, <3>1 DEF Promise!Appear
    <3> QED BY <3>2 DEF Mapped, Promise!Next
  <2>3. CASE seen' = seen
    BY <2>1, <2>3, MapStutter
  <2> QED BY <2>1, <2>2, <2>3
<1>23. ASSUME NEW e \in Effects, ConfirmIncident(e) PROVE Mapped
  <2>1. UNCHANGED <<state, ack, writes, seen>>
    BY <1>23 DEF ConfirmIncident, rowVars, tableVars, outcomeVars, remoteVars
  <2> QED BY <2>1, MapStutter
<1>24. ASSUME NEW e \in Effects, StartRepair(e) PROVE Mapped
  <2>1. UNCHANGED <<state, ack, writes, seen>>
    BY <1>24 DEF StartRepair, rowVars, tableVars, outcomeVars, remoteVars
  <2> QED BY <2>1, MapStutter
<1>25. ASSUME NEW e \in Effects, Repair(e) PROVE Mapped
  <2>1. UNCHANGED <<ack, writes, seen>>
    BY <1>25 DEF Repair, outcomeVars, remoteVars
  <2>2. CASE UNCHANGED state
    BY <2>1, <2>2, MapStutter
  <2>3. CASE state[e] = "terminal" /\ state' = [state EXCEPT ![e] = "pending"]
    <3>1. /\ state[e] = "terminal" /\ state'[e] = "pending"
          /\ \A x \in Effects : x # e => state'[x] = state[x]
      BY <2>3 DEF TypeInv, TypeOK
    <3>2. Status(e) = "failed" /\ Status(e)' = "open"
      BY <3>1 DEF Status
    <3>3. \A x \in Effects : x # e => Status(x)' = Status(x)
      BY <2>1, <3>1 DEF Status
    <3>4. Promise!Reopen(e)
      BY <2>1, <3>2, <3>3, MapMove DEF Promise!Reopen
    <3> QED BY <3>4 DEF Mapped, Promise!Next
  <2> QED BY <1>25, <2>2, <2>3 DEF Repair
<1>26. ASSUME NEW e \in Effects, StartReconcile(e) PROVE Mapped
  <2>1. UNCHANGED <<state, ack, writes, seen>>
    BY <1>26 DEF StartReconcile, rowVars, tableVars, outcomeVars, remoteVars
  <2> QED BY <2>1, MapStutter
<1>27. ASSUME NEW e \in Effects, NEW outcome \in Outcomes, Reconcile(e, outcome) PROVE Mapped
  <2>1. /\ UNCHANGED <<writes, seen>> /\ outcome \in inflight[e]
        /\ e \in PublisherEffects
        /\ outcome = "evidence" => seen[e]
        /\ outcome = "confirmed_absent" => writes[e] = 0
    BY <1>27 DEF Reconcile, remoteVars, OnlyPublications, SeenInv, SeenEffects,
              PublicationInv, Call
  <2>2. CASE UNCHANGED <<state, ack>>
    BY <2>1, <2>2, MapStutter
  <2>3. CASE /\ state[e] = "terminal"
             /\ state' = [state EXCEPT ![e] = "succeeded"]
             /\ ack' = [ack EXCEPT ![e] = outcome]
    <3>1. /\ state[e] = "terminal" /\ state'[e] = "succeeded" /\ ack'[e] = outcome
          /\ \A x \in Effects : x # e => state'[x] = state[x] /\ ack'[x] = ack[x]
      BY <2>3 DEF TypeInv, TypeOK
    <3>2. \A x \in Effects : x # e => Status(x)' = Status(x)
      BY <3>1 DEF Status
    <3>3. CASE outcome = "evidence"
      <4>1. Status(e) = "failed" /\ Status(e)' = "succeeded"
        BY <3>1, <3>3 DEF Status
      <4>2. Promise!Resolve(e)
        BY <2>1, <3>2, <3>3, <4>1, MapMove DEF Promise!Resolve
      <4> QED BY <4>2 DEF Mapped, Promise!Next
    <3>4. CASE outcome = "confirmed_absent"
      <4>1. Status(e) = "failed" /\ Status(e)' = "aborted"
        BY <3>1, <3>4 DEF Status
      <4>2. ~[x \in Effects |-> writes[x] > 0][e]
        <5>1. ~(writes[e] > 0)
          BY <2>1, <3>4
        <5> QED BY <5>1, Zenon
      <4>3. Promise!Move(e, "failed", "aborted")
        BY <2>1, <3>2, <4>1, MapMove
      <4>4. Promise!Abort(e)
        BY <2>1, <4>2, <4>3 DEF Promise!Abort
      <4> QED BY <4>4 DEF Mapped, Promise!Next
    <3> QED BY <3>3, <3>4 DEF Outcomes
  <2> QED BY <1>27, <2>2, <2>3 DEF Reconcile
<1>28. CASE Tick
  <2>1. UNCHANGED <<state, ack, writes, seen>>
    BY <1>28 DEF Tick, rowVars, tableVars, outcomeVars, remoteVars
  <2> QED BY <2>1, MapStutter
<1>29. CASE UNCHANGED vars
  <2>1. UNCHANGED <<state, ack, writes, seen>>
    BY <1>29 DEF vars, rowVars, tableVars, outcomeVars, remoteVars
  <2> QED BY <2>1, MapStutter
<1> QED
  BY <1>1, <1>2, <1>3, <1>4, <1>5, <1>6, <1>7, <1>8, <1>9, <1>10, <1>11,
     <1>12, <1>13, <1>14, <1>15, <1>16, <1>17, <1>18, <1>19, <1>20, <1>21,
     <1>22, <1>23, <1>24, <1>25, <1>26, <1>27, <1>28, <1>29
     DEF Next, WorkerStep, Advance, EffectStep

\* The Outbox with its leases, retries, crashes and operators implements the promise
\* of EffectPromise: an effect succeeds only when it is really there, a publication
\* is made at most once and never after it was declared absent.
THEOREM OutboxKeepsPromise == Spec => KeepsPromise
<1>1. Init => Known /\ OnlyPublications /\ SeenInv
  BY TopologyAssumption
     DEF Init, Known, OnlyPublications, SeenInv, SeenEffects, SeenWorkers, Outcomes
<1>2. Init => Promise!Init
  <2> SUFFICES ASSUME Init PROVE Promise!Init
    OBVIOUS
  <2>1. [e \in Effects |-> Status(e)] = [e \in Effects |-> "none"]
    BY DEF Init, Status
  <2>2. [e \in Effects |-> writes[e] > 0] = [e \in Effects |-> FALSE]
    <3>1. writes = [e \in Effects |-> 0]
      BY DEF Init
    <3>2. \A e \in Effects : writes[e] = 0
      BY <3>1
    <3> QED BY <3>2, NothingMade
  <2>3. seen = [e \in Effects |-> FALSE]
    BY DEF Init
  <2> QED BY <2>1, <2>2, <2>3, Zenon DEF Promise!Init
<1>3. TypeInv /\ SeenInv /\ PublicationInv /\ Known /\ OnlyPublications /\ [Next]_vars
        => [Promise!Next]_(Promise!promiseVars)
  BY MapStep DEF Mapped
<1> QED
  BY TypeInit, TypeStep, SeenStep, PublicationInvariant, KnownStep,
     OnlyPublicationsStep, <1>1, <1>2, <1>3, PTL DEF Spec, KeepsPromise, Promise!Spec

(***************************************************************************)
(* Nothing about a publication stays unrecorded.                           *)
(***************************************************************************)
\* What is recorded of a publication once it stops.
Reported(e) ==
  /\ state[e] = "terminal" /\ Started(e) => incident[e] # "none"
  /\ state[e] = "succeeded" /\ marker[e] < attempts[e] => incident[e] # "none"
  /\ inflight[e] \cap Outcomes # {} => incident[e] # "none"

\* What the worker that will settle a publication carries with it: it made the call
\* in this attempt or found it made, and whatever is uncertain is on record.
Recorded(w) ==
  task[w] \in PublisherEffects =>
    /\ pc[w] \in {"apply", "mark", "execute"} => ~found[w]
    /\ pc[w] \in {"execute", "confirm", "complete", "ack"} /\ ~found[w] /\ Holds(w)
         => marker[task[w]] = attempts[task[w]]
    /\ pc[w] = "ack" /\ found[w] => incident[task[w]] # "none"
    /\ pc[w] = "record" /\ Holds(w) /\ Started(task[w]) => incident[task[w]] # "none"

RecordInv ==
  /\ \A e \in PublisherEffects : Reported(e)
  /\ \A w \in Workers : Recorded(w)

LEMMA RecordPlace ==
  ASSUME TypeInv, RecordInv, NEW w \in Workers,
         UNCHANGED <<state, owner, marker, attempts, incident, inflight>>,
         \A v \in Workers : v # w => /\ pc'[v] = pc[v] /\ task'[v] = task[v]
                                     /\ found'[v] = found[v],
         Recorded(w)'
  PROVE  RecordInv'
<1>1. \A e \in PublisherEffects : Reported(e)'
  BY DEF RecordInv, Reported, Started
<1>2. ASSUME NEW v \in Workers, v # w PROVE Recorded(v)'
  BY <1>2 DEF RecordInv, Recorded, Started, Holds
<1> QED BY <1>1, <1>2 DEF RecordInv

LEMMA RecordLeave ==
  ASSUME TypeInv, RecordInv, NEW w \in Workers,
         UNCHANGED <<state, owner, marker, attempts, incident, inflight>>,
         Rest(w) \/ \E kind \in Errors : Raise(w, kind)
  PROVE  RecordInv'
<1>1. /\ pc'[w] \in {"idle", "failed"}
      /\ \A v \in Workers : v # w => /\ pc'[v] = pc[v] /\ task'[v] = task[v]
                                     /\ found'[v] = found[v]
  BY RestTouches, RaiseTouches
<1>2. Recorded(w)'
  BY <1>1 DEF Recorded
<1> QED BY <1>1, <1>2, RecordPlace

LEMMA RecordTables ==
  ASSUME TypeInv, RecordInv,
         UNCHANGED <<owner, marker, attempts, incident, pc, task, found>>,
         \A e \in Effects : state'[e] = "leased" => state[e] = "leased",
         \A e \in PublisherEffects : Reported(e)'
  PROVE  RecordInv'
<1>1. ASSUME NEW v \in Workers PROVE Recorded(v)'
  BY TopologyAssumption DEF RecordInv, Recorded, Started, Holds
<1> QED BY <1>1 DEF RecordInv

LEMMA RecordClaim ==
  ASSUME TypeInv, RecordInv, NEW w \in Workers, NEW e \in Effects, Claim(w, e)
  PROVE  RecordInv'
<1>1. /\ pc'[w] = "readback" /\ task'[w] = e
      /\ \A v \in Workers : v # w => /\ pc'[v] = pc[v] /\ task'[v] = task[v]
                                     /\ found'[v] = found[v]
  BY ClaimTouches
<1>2. /\ state'[e] = "leased" /\ owner'[e] = OwnerOf[w]
      /\ \A x \in Effects : x # e => /\ state'[x] = state[x] /\ owner'[x] = owner[x]
                                     /\ attempts'[x] = attempts[x]
  BY ClaimWrites
<1>3. UNCHANGED <<marker, incident, inflight>>
  BY DEF Claim, outcomeVars
<1>4. ASSUME NEW x \in PublisherEffects PROVE Reported(x)'
  <2>1. CASE x = e
    BY <1>2, <1>3, <2>1 DEF RecordInv, Reported
  <2>2. CASE x # e
    BY <1>2, <1>3, <2>2, TopologyAssumption DEF RecordInv, Reported, Started
  <2> QED BY <2>1, <2>2
<1>5. ASSUME NEW v \in Workers, v # w PROVE Recorded(v)'
  <2>1. pc'[v] = pc[v] /\ task'[v] = task[v] /\ found'[v] = found[v]
    BY <1>1, <1>5
  <2>2. pc[v] # "idle" /\ task[v] \in PublisherEffects /\ Holds(v)'
          => Holds(v) /\ attempts'[task[v]] = attempts[task[v]]
    BY <1>2, <1>5, <2>1, PublisherAlone, TopologyAssumption DEF Holds
  <2> QED BY <1>3, <2>1, <2>2 DEF RecordInv, Recorded, Started
<1>6. Recorded(w)'
  BY <1>1 DEF Recorded
<1> QED BY <1>4, <1>5, <1>6 DEF RecordInv

LEMMA RecordStep ==
  ASSUME TypeInv, PublicationInv, RecordInv, [Next]_vars
  PROVE  RecordInv'
<1>1. ASSUME NEW w \in Workers, DispatchNext(w) PROVE RecordInv'
  BY <1>1, DispatchClaims, RecordClaim
<1>2. ASSUME NEW w \in Workers, NEW e \in Effects, Expedite(w, e) PROVE RecordInv'
  <2>1. UNCHANGED <<state, owner, marker, attempts, incident, inflight>>
    BY <1>2 DEF Expedite, rowVars, tableVars, outcomeVars, remoteVars
  <2>2. /\ pc'[w] = "named"
        /\ \A v \in Workers : v # w => /\ pc'[v] = pc[v] /\ task'[v] = task[v]
                                       /\ found'[v] = found[v]
    BY <1>2 DEF Expedite, TypeInv, TypeOK
  <2>3. Recorded(w)'
    BY <2>2 DEF Recorded
  <2> QED BY <2>1, <2>2, <2>3, RecordPlace
<1>3. ASSUME NEW w \in Workers, ClaimNamed(w) PROVE RecordInv'
  <2>1. CASE Claim(w, task[w])
    BY <1>3, <2>1, NamedClaims, RecordClaim
  <2>2. CASE Rest(w) /\ UNCHANGED <<rowVars, tableVars, outcomeVars, remoteVars, inflight>>
    <3>1. UNCHANGED <<state, owner, marker, attempts, incident, inflight>>
      BY <2>2 DEF rowVars, tableVars, outcomeVars, remoteVars
    <3> QED BY <2>2, <3>1, RecordLeave
  <2> QED BY <1>3, <2>1, <2>2, NamedClaims
<1>4. ASSUME NEW w \in Workers, Readback(w) PROVE RecordInv'
  <2>1. UNCHANGED <<state, owner, marker, attempts, incident, inflight>>
    BY <1>4 DEF Readback, rowVars, tableVars, outcomeVars, remoteVars
  <2>2. ASSUME NEW kind \in Errors, Raise(w, kind) PROVE RecordInv'
    BY <2>1, <2>2, RecordLeave
  <2>3. CASE /\ found' = [found EXCEPT ![w] = FirstLook(task[w])]
             /\ GoTo(w, IF task[w] \in PublisherEffects THEN "check"
                        ELSE IF FirstLook(task[w]) THEN "complete" ELSE "apply")
    <3>1. /\ task[w] \in PublisherEffects => pc'[w] = "check"
          /\ \A v \in Workers : v # w => pc'[v] = pc[v]
          /\ UNCHANGED task
      BY <2>3, GoToTouches
    <3>2. \A v \in Workers : v # w => found'[v] = found[v]
      BY <2>3 DEF TypeInv, TypeOK
    <3>3. Recorded(w)'
      BY <3>1 DEF Recorded
    <3> QED BY <2>1, <3>1, <3>2, <3>3, RecordPlace
  <2> QED BY <1>4, <2>2, <2>3 DEF Readback, Errors
<1>5. ASSUME NEW w \in Workers, CheckMarker(w) PROVE RecordInv'
  <2>1. UNCHANGED <<state, owner, marker, attempts, incident, inflight>>
    BY <1>5 DEF CheckMarker, rowVars, tableVars, outcomeVars, remoteVars
  <2>2. ASSUME NEW kind \in Errors, Raise(w, kind) PROVE RecordInv'
    BY <2>1, <2>2, RecordLeave
  <2>3. CASE /\ MarkerAgrees(w, task[w]) /\ UNCHANGED found
             /\ GoTo(w, IF found[w] THEN "complete" ELSE "apply")
    <3>1. /\ pc'[w] = IF found[w] THEN "complete" ELSE "apply"
          /\ \A v \in Workers : v # w => pc'[v] = pc[v]
          /\ UNCHANGED <<task, found>>
      BY <2>3, GoToTouches
    <3>2. Recorded(w)'
      BY <3>1 DEF Recorded
    <3> QED BY <2>1, <3>1, <3>2, RecordPlace
  <2> QED BY <1>5, <2>2, <2>3 DEF CheckMarker, Errors
<1>6. ASSUME NEW w \in Workers, Apply(w) PROVE RecordInv'
  <2>1. UNCHANGED <<state, owner, marker, attempts, incident, inflight>>
    BY <1>6 DEF Apply, rowVars, tableVars, outcomeVars, remoteVars
  <2>2. ASSUME NEW kind \in Errors, Raise(w, kind) PROVE RecordInv'
    BY <2>1, <2>2, RecordLeave
  <2>3. CASE GoTo(w, "confirm") /\ UNCHANGED found
    <3>1. /\ task[w] \notin PublisherEffects
          /\ \A v \in Workers : v # w => pc'[v] = pc[v]
          /\ UNCHANGED <<task, found>>
      BY <1>6, <2>3, GoToTouches DEF Apply
    <3>2. Recorded(w)'
      BY <3>1 DEF Recorded
    <3> QED BY <2>1, <3>1, <3>2, RecordPlace
  <2> QED BY <1>6, <2>2, <2>3 DEF Apply, Errors
<1>7. ASSUME NEW w \in Workers, EnterFence(w) PROVE RecordInv'
  <2>1. UNCHANGED <<state, owner, marker, attempts, incident, inflight>>
    BY <1>7 DEF EnterFence, rowVars, tableVars, outcomeVars, remoteVars
  <2>3. CASE GoTo(w, "mark") /\ UNCHANGED found
    <3>1. /\ pc[w] = "apply" /\ pc'[w] = "mark"
          /\ \A v \in Workers : v # w => pc'[v] = pc[v]
          /\ UNCHANGED <<task, found>>
      BY <1>7, <2>3, GoToTouches DEF EnterFence
    <3>2. Recorded(w)'
      BY <2>1, <3>1 DEF RecordInv, Recorded, Holds
    <3> QED BY <2>1, <3>1, <3>2, RecordPlace
  <2> QED BY <1>7, <2>3 DEF EnterFence
<1>8. ASSUME NEW w \in Workers, MarkStarted(w) PROVE RecordInv'
  <2>1. /\ pc[w] = "mark" /\ task[w] \in PublisherEffects /\ task[w] \in Effects
        /\ UNCHANGED <<state, owner, attempts, incident, inflight>>
    BY <1>8 DEF MarkStarted, TypeInv, WorkerShape, Placed, rowVars, outcomeVars
  <2>2. CASE Raise(w, "retryable") /\ UNCHANGED marker
    BY <2>1, <2>2, RecordLeave DEF Errors
  <2>3. CASE /\ OwnsLease(w, task[w])
             /\ marker' = IF Started(task[w]) THEN marker
                          ELSE [marker EXCEPT ![task[w]] = attempts[task[w]]]
             /\ GoTo(w, "execute") /\ UNCHANGED found
    <3>1. Holds(w) /\ ~Started(task[w])
      BY <2>1, <2>3 DEF PublicationInv, Path, Holds, OwnsLease
    <3>2. /\ marker'[task[w]] = attempts[task[w]]
          /\ \A e \in Effects : e # task[w] => marker'[e] = marker[e]
      <4>1. marker' = [marker EXCEPT ![task[w]] = attempts[task[w]]]
        BY <2>3, <3>1
      <4>2. marker \in [Effects -> Nat]
        BY DEF TypeInv, TypeOK
      <4> QED BY <2>1, <4>1, <4>2
    <3>3. /\ pc'[w] = "execute" /\ UNCHANGED <<task, found>>
          /\ \A v \in Workers : v # w => pc'[v] = pc[v]
      BY <2>3, GoToTouches
    <3>4. ASSUME NEW e \in PublisherEffects PROVE Reported(e)'
      <4>1. CASE e = task[w]
        BY <2>1, <3>1, <4>1 DEF RecordInv, Reported, Holds
      <4>2. CASE e # task[w]
        BY <2>1, <3>2, <4>2, TopologyAssumption DEF RecordInv, Reported, Started
      <4> QED BY <4>1, <4>2
    <3>5. ASSUME NEW v \in Workers, v # w PROVE Recorded(v)'
      <4>1. CASE task[v] = task[w]
        <5>1. ~Holds(v)
          BY <2>1, <3>1, <3>5, <4>1, PublisherAlone DEF Holds
        <5> QED
          BY <2>1, <3>3, <3>5, <4>1, <5>1 DEF RecordInv, Recorded, Holds
      <4>2. CASE task[v] # task[w]
        BY <2>1, <3>2, <3>3, <3>5, <4>2, TopologyAssumption
           DEF RecordInv, Recorded, Holds, Started
      <4> QED BY <4>1, <4>2
    <3>6. Recorded(w)'
      BY <2>1, <3>2, <3>3 DEF RecordInv, Recorded
    <3> QED BY <3>4, <3>5, <3>6 DEF RecordInv
  <2> QED BY <1>8, <2>2, <2>3 DEF MarkStarted
<1>9. ASSUME NEW w \in Workers, Execute(w) PROVE RecordInv'
  <2>1. UNCHANGED <<state, owner, marker, attempts, incident, inflight>>
    BY <1>9 DEF Execute, rowVars, tableVars, outcomeVars, remoteVars
  <2>2. ASSUME NEW kind \in Errors, Raise(w, kind) PROVE RecordInv'
    BY <2>1, <2>2, RecordLeave
  <2>3. CASE GoTo(w, "confirm") /\ UNCHANGED found
    <3>1. /\ pc[w] = "execute" /\ pc'[w] = "confirm"
          /\ \A v \in Workers : v # w => pc'[v] = pc[v]
          /\ UNCHANGED <<task, found>>
      BY <1>9, <2>3, GoToTouches DEF Execute
    <3>2. Recorded(w)'
      BY <2>1, <3>1 DEF RecordInv, Recorded, Holds
    <3> QED BY <2>1, <3>1, <3>2, RecordPlace
  <2> QED BY <1>9, <2>2, <2>3 DEF Execute, Errors
<1>10. ASSUME NEW w \in Workers, Confirm(w) PROVE RecordInv'
  <2>1. UNCHANGED <<state, owner, marker, attempts, incident, inflight>>
    BY <1>10 DEF Confirm, rowVars, tableVars, outcomeVars, remoteVars
  <2>2. ASSUME NEW kind \in Errors, Raise(w, kind) PROVE RecordInv'
    BY <2>1, <2>2, RecordLeave
  <2>3. CASE GoTo(w, "complete") /\ UNCHANGED found
    <3>1. /\ pc[w] = "confirm" /\ pc'[w] = "complete"
          /\ \A v \in Workers : v # w => pc'[v] = pc[v]
          /\ UNCHANGED <<task, found>>
      BY <1>10, <2>3, GoToTouches DEF Confirm
    <3>2. Recorded(w)'
      BY <2>1, <3>1 DEF RecordInv, Recorded, Holds
    <3> QED BY <2>1, <3>1, <3>2, RecordPlace
  <2> QED BY <1>10, <2>2, <2>3 DEF Confirm, Errors
<1>11. ASSUME NEW w \in Workers, CompleteIncident(w) PROVE RecordInv'
  <2>1. /\ UNCHANGED <<state, owner, marker, attempts, inflight>>
        /\ UNCHANGED <<task, found>>
    BY <1>11
       DEF CompleteIncident, rowVars, tableVars, outcomeVars, remoteVars,
           workerVars
  <2>2. \A x \in Effects : incident[x] # "none" => incident'[x] # "none"
    BY <1>11 DEF CompleteIncident, TypeInv, TypeOK
  <2>3. ASSUME NEW x \in PublisherEffects PROVE Reported(x)'
    BY <2>1, <2>2, TopologyAssumption DEF RecordInv, Reported, Started
  <2>4. UNCHANGED pc
    BY <1>11 DEF CompleteIncident, workerVars
  <2>5. ASSUME NEW v \in Workers PROVE Recorded(v)'
    BY <2>1, <2>2, <2>4, TopologyAssumption DEF RecordInv, Recorded, Holds, Started
  <2> QED BY <2>3, <2>5 DEF RecordInv
<1>12. ASSUME NEW w \in Workers, Complete(w) PROVE RecordInv'
  <2>1. UNCHANGED <<state, owner, marker, attempts, incident, inflight>>
    BY <1>12 DEF Complete, rowVars, tableVars, outcomeVars, remoteVars
  <2>2. pc[w] = "complete" /\ task[w] \in PublisherEffects /\ found[w]
          => incident[task[w]] # "none"
    BY <1>12 DEF Complete, ReportsLateSuccess, PublicationInv, Path
  <2>3. CASE GoTo(w, "ack") /\ UNCHANGED found
    <3>1. /\ pc[w] = "complete" /\ pc'[w] = "ack"
          /\ \A v \in Workers : v # w => pc'[v] = pc[v]
          /\ UNCHANGED <<task, found>>
      BY <1>12, <2>3, GoToTouches DEF Complete
    <3>2. Recorded(w)'
      BY <2>1, <3>1, <2>2 DEF RecordInv, Recorded, Holds
    <3> QED BY <2>1, <3>1, <3>2, RecordPlace
  <2> QED BY <1>12, <2>3 DEF Complete
<1>13. ASSUME NEW w \in Workers, CallFails(w) PROVE RecordInv'
  <2>1. UNCHANGED <<state, owner, marker, attempts, incident, inflight>>
    BY <1>13 DEF CallFails, rowVars, tableVars, outcomeVars, remoteVars
  <2>2. ASSUME NEW kind \in Errors, Raise(w, kind) PROVE RecordInv'
    BY <2>1, <2>2, RecordLeave
  <2> QED BY <1>13, <2>2 DEF CallFails
<1>14. ASSUME NEW w \in Workers, Acknowledge(w) PROVE RecordInv'
  <2>0. /\ UNCHANGED <<marker, attempts, incident, inflight>>
        /\ task[w] \in Effects /\ pc[w] = "ack"
    BY <1>14 DEF Acknowledge, TypeInv, WorkerShape, Placed
  <2>1. CASE Raise(w, "retryable") /\ UNCHANGED <<state, owner, lease, open, ack>>
    BY <2>0, <2>1, RecordLeave DEF Errors
  <2>2. CASE OwnsLease(w, task[w]) /\ CloseAttempt(task[w], "succeeded") /\ Rest(w)
    <3>1. /\ state'[task[w]] = "succeeded"
          /\ \A x \in Effects : x # task[w] => state'[x] = state[x] /\ owner'[x] = owner[x]
      BY <2>0, <2>2, CloseTouches
    <3>2. ASSUME NEW x \in PublisherEffects PROVE Reported(x)'
      <4>1. CASE x = task[w]
        <5>1. incident[x] # "none" \/ marker[x] = attempts[x]
          BY <2>0, <2>2, <4>1 DEF RecordInv, Recorded, Holds, OwnsLease
        <5>2. marker[x] \in Nat /\ attempts[x] \in Nat
          BY TopologyAssumption DEF TypeInv, TypeOK
        <5> QED BY <2>0, <3>1, <4>1, <5>1, <5>2 DEF RecordInv, Reported, Started
      <4>2. CASE x # task[w]
        BY <2>0, <3>1, <4>2, TopologyAssumption DEF RecordInv, Reported, Started
      <4> QED BY <4>1, <4>2
    <3>3. ASSUME NEW v \in Workers PROVE Recorded(v)'
      <4>1. pc'[v] # "idle" => /\ pc'[v] = pc[v] /\ task'[v] = task[v]
                               /\ found'[v] = found[v] /\ task[v] \in Effects
        BY <2>2, RestTouches DEF TypeInv, WorkerShape, Placed
      <4>2. pc'[v] # "idle" /\ Holds(v)' => Holds(v)
        BY <3>1, <4>1 DEF Holds
      <4> QED BY <2>0, <4>1, <4>2 DEF RecordInv, Recorded, Started
    <3> QED BY <3>2, <3>3 DEF RecordInv
  <2> QED BY <1>14, <2>1, <2>2 DEF Acknowledge
<1>15. ASSUME NEW w \in Workers, FailureCallback(w) PROVE RecordInv'
  <2>1. /\ UNCHANGED <<state, owner, marker, attempts, inflight>>
        /\ UNCHANGED <<task, found>>
    BY <1>15
       DEF FailureCallback, rowVars, tableVars, outcomeVars, remoteVars,
           workerVars
  <2>2. \A x \in Effects : incident[x] # "none" => incident'[x] # "none"
    BY <1>15 DEF FailureCallback, NeedsIncident, TypeInv, TypeOK
  <2>3. ASSUME NEW x \in PublisherEffects PROVE Reported(x)'
    BY <2>1, <2>2, TopologyAssumption DEF RecordInv, Reported, Started
  <2>4. /\ pc'[w] = "record"
        /\ \A v \in Workers : v # w => pc'[v] = pc[v]
        /\ task[w] \in PublisherEffects /\ Started(task[w]) => incident'[task[w]] # "none"
    BY <1>15, TopologyAssumption DEF FailureCallback, NeedsIncident, TypeInv, TypeOK
  <2>5. ASSUME NEW v \in Workers PROVE Recorded(v)'
    BY <2>1, <2>2, <2>4, TopologyAssumption DEF RecordInv, Recorded, Holds, Started
  <2> QED BY <2>3, <2>5 DEF RecordInv
<1>16. ASSUME NEW w \in Workers, FinishFailed(w) PROVE RecordInv'
  <2>1. /\ task[w] \in Effects /\ pc[w] = "record" /\ OwnsLease(w, task[w])
        /\ UNCHANGED <<marker, attempts, incident, inflight>>
    BY <1>16 DEF FinishFailed, TypeInv, WorkerShape, Placed, outcomeVars
  <2>2. /\ CloseAttempt(task[w], FailedState(w)) /\ Rest(w)
        /\ FailedState(w) \in {"retry_scheduled", "terminal"}
    BY <1>16 DEF FinishFailed, FailedState
  <2>3. /\ state'[task[w]] \in {"retry_scheduled", "terminal"}
        /\ \A x \in Effects : x # task[w] => state'[x] = state[x] /\ owner'[x] = owner[x]
    BY <2>1, <2>2, CloseTouches
  <2>4. ASSUME NEW x \in PublisherEffects PROVE Reported(x)'
    <3>1. CASE x = task[w]
      BY <2>1, <2>2, <2>3, <3>1
         DEF RecordInv, Reported, Recorded, Holds, Started, OwnsLease
    <3>2. CASE x # task[w]
      BY <2>1, <2>3, <3>2, TopologyAssumption DEF RecordInv, Reported, Started
    <3> QED BY <3>1, <3>2
  <2>5. ASSUME NEW v \in Workers PROVE Recorded(v)'
    <3>1. pc'[v] # "idle" => /\ pc'[v] = pc[v] /\ task'[v] = task[v]
                             /\ found'[v] = found[v] /\ task[v] \in Effects
      BY <2>2, RestTouches DEF TypeInv, WorkerShape, Placed
    <3>2. pc'[v] # "idle" /\ Holds(v)' => Holds(v)
      BY <2>3, <3>1 DEF Holds
    <3> QED BY <2>1, <3>1, <3>2 DEF RecordInv, Recorded, Started
  <2> QED BY <2>4, <2>5 DEF RecordInv
<1>17. ASSUME NEW w \in Workers, FinishFenced(w) PROVE RecordInv'
  <2>1. UNCHANGED <<state, owner, marker, attempts, incident, inflight>>
    BY <1>17 DEF FinishFenced, rowVars, tableVars, outcomeVars, remoteVars
  <2> QED BY <1>17, <2>1, RecordLeave DEF FinishFenced
<1>18. ASSUME NEW w \in Workers, Renew(w) PROVE RecordInv'
  <2>1. UNCHANGED <<owner, marker, attempts, incident, pc, task, found>>
    BY <1>18 DEF Renew, rowVars, tableVars, outcomeVars, remoteVars, workerVars
  <2>2. \A x \in Effects : state'[x] = "leased" => state[x] = "leased"
    BY <1>18 DEF Renew, rowVars, TypeInv, TypeOK
  <2>3. ASSUME NEW x \in PublisherEffects PROVE Reported(x)'
    BY <1>18, TopologyAssumption
       DEF Renew, RecordInv, Reported, Started, PublicationInv, Call,
         TypeInv, TypeOK, rowVars, tableVars, outcomeVars, remoteVars, Outcomes
  <2> QED BY <2>1, <2>2, <2>3, RecordTables
<1>19. ASSUME NEW w \in Workers, BeatFails(w) PROVE RecordInv'
  <2>1. UNCHANGED <<owner, marker, attempts, incident, pc, task, found>>
    BY <1>19 DEF BeatFails, rowVars, tableVars, outcomeVars, remoteVars, workerVars
  <2>2. \A x \in Effects : state'[x] = "leased" => state[x] = "leased"
    BY <1>19 DEF BeatFails, rowVars, TypeInv, TypeOK
  <2>3. ASSUME NEW x \in PublisherEffects PROVE Reported(x)'
    BY <1>19, TopologyAssumption
       DEF BeatFails, RecordInv, Reported, Started, PublicationInv, Call,
         TypeInv, TypeOK, rowVars, tableVars, outcomeVars, remoteVars, Outcomes
  <2> QED BY <2>1, <2>2, <2>3, RecordTables
<1>20. ASSUME NEW w \in Workers, Crash(w) PROVE RecordInv'
  <2>1. UNCHANGED <<state, owner, marker, attempts, incident, inflight>>
    BY <1>20 DEF Crash, rowVars, tableVars, outcomeVars, remoteVars
  <2> QED BY <1>20, <2>1, RecordLeave DEF Crash
<1>21. ASSUME NEW e \in Effects, Enqueue(e) PROVE RecordInv'
  <2>1. UNCHANGED <<owner, marker, attempts, incident, pc, task, found>>
    BY <1>21 DEF Enqueue, rowVars, tableVars, outcomeVars, remoteVars, workerVars
  <2>2. \A x \in Effects : state'[x] = "leased" => state[x] = "leased"
    BY <1>21 DEF Enqueue, rowVars, TypeInv, TypeOK
  <2>3. ASSUME NEW x \in PublisherEffects PROVE Reported(x)'
    BY <1>21, TopologyAssumption
       DEF Enqueue, RecordInv, Reported, Started, PublicationInv, Call,
         TypeInv, TypeOK, rowVars, tableVars, outcomeVars, remoteVars, Outcomes
  <2> QED BY <2>1, <2>2, <2>3, RecordTables
<1>22. ASSUME NEW e \in Effects, Meddle(e) PROVE RecordInv'
  <2>1. UNCHANGED <<owner, marker, attempts, incident, pc, task, found>>
    BY <1>22 DEF Meddle, rowVars, tableVars, outcomeVars, remoteVars, workerVars
  <2>2. \A x \in Effects : state'[x] = "leased" => state[x] = "leased"
    BY <1>22 DEF Meddle, rowVars, TypeInv, TypeOK
  <2>3. ASSUME NEW x \in PublisherEffects PROVE Reported(x)'
    BY <1>22, TopologyAssumption
       DEF Meddle, RecordInv, Reported, Started, PublicationInv, Call,
         TypeInv, TypeOK, rowVars, tableVars, outcomeVars, remoteVars, Outcomes
  <2> QED BY <2>1, <2>2, <2>3, RecordTables
<1>23. ASSUME NEW e \in Effects, ConfirmIncident(e) PROVE RecordInv'
  <2>1. /\ UNCHANGED <<state, owner, marker, attempts, inflight>>
        /\ UNCHANGED <<task, found>>
    BY <1>23
       DEF ConfirmIncident, rowVars, tableVars, outcomeVars, remoteVars,
           workerVars
  <2>2. \A x \in Effects : incident[x] # "none" => incident'[x] # "none"
    BY <1>23 DEF ConfirmIncident, TypeInv, TypeOK
  <2>3. ASSUME NEW x \in PublisherEffects PROVE Reported(x)'
    BY <2>1, <2>2, TopologyAssumption DEF RecordInv, Reported, Started
  <2>4. UNCHANGED pc
    BY <1>23 DEF ConfirmIncident, workerVars
  <2>5. ASSUME NEW v \in Workers PROVE Recorded(v)'
    BY <2>1, <2>2, <2>4, TopologyAssumption DEF RecordInv, Recorded, Holds, Started
  <2> QED BY <2>3, <2>5 DEF RecordInv
<1>24. ASSUME NEW e \in Effects, StartRepair(e) PROVE RecordInv'
  <2>1. UNCHANGED <<owner, marker, attempts, incident, pc, task, found>>
    BY <1>24
       DEF StartRepair, rowVars, tableVars, outcomeVars, remoteVars, workerVars
  <2>2. \A x \in Effects : state'[x] = "leased" => state[x] = "leased"
    BY <1>24 DEF StartRepair, rowVars, TypeInv, TypeOK
  <2>3. ASSUME NEW x \in PublisherEffects PROVE Reported(x)'
    BY <1>24, TopologyAssumption
       DEF StartRepair, RecordInv, Reported, Started, PublicationInv, Call,
         TypeInv, TypeOK, rowVars, tableVars, outcomeVars, remoteVars, Outcomes
  <2> QED BY <2>1, <2>2, <2>3, RecordTables
<1>25. ASSUME NEW e \in Effects, Repair(e) PROVE RecordInv'
  <2>1. UNCHANGED <<owner, marker, attempts, incident, pc, task, found>>
    BY <1>25 DEF Repair, rowVars, tableVars, outcomeVars, remoteVars, workerVars
  <2>2. \A x \in Effects : state'[x] = "leased" => state[x] = "leased"
    BY <1>25 DEF Repair, rowVars, TypeInv, TypeOK
  <2>3. ASSUME NEW x \in PublisherEffects PROVE Reported(x)'
    BY <1>25, TopologyAssumption
       DEF Repair, RecordInv, Reported, Started, PublicationInv, Call,
         TypeInv, TypeOK, rowVars, tableVars, outcomeVars, remoteVars, Outcomes
  <2> QED BY <2>1, <2>2, <2>3, RecordTables
<1>26. ASSUME NEW e \in Effects, StartReconcile(e) PROVE RecordInv'
  <2>1. UNCHANGED <<owner, marker, attempts, incident, pc, task, found>>
    BY <1>26
       DEF StartReconcile, rowVars, tableVars, outcomeVars, remoteVars, workerVars
  <2>2. \A x \in Effects : state'[x] = "leased" => state[x] = "leased"
    BY <1>26 DEF StartReconcile, rowVars, TypeInv, TypeOK
  <2>3. ASSUME NEW x \in PublisherEffects PROVE Reported(x)'
    BY <1>26, TopologyAssumption
       DEF StartReconcile, RecordInv, Reported, Started, PublicationInv, Call,
         TypeInv, TypeOK, rowVars, tableVars, outcomeVars, remoteVars, Outcomes
  <2> QED BY <2>1, <2>2, <2>3, RecordTables
<1>27. ASSUME NEW e \in Effects, NEW outcome \in Outcomes, Reconcile(e, outcome) PROVE RecordInv'
  <2>1. UNCHANGED <<owner, marker, attempts, incident, pc, task, found>>
    BY <1>27 DEF Reconcile, rowVars, tableVars, outcomeVars, remoteVars, workerVars
  <2>2. \A x \in Effects : state'[x] = "leased" => state[x] = "leased"
    BY <1>27 DEF Reconcile, rowVars, TypeInv, TypeOK
  <2>3. ASSUME NEW x \in PublisherEffects PROVE Reported(x)'
    BY <1>27, TopologyAssumption
       DEF Reconcile, RecordInv, Reported, Started, PublicationInv, Call,
         TypeInv, TypeOK, rowVars, tableVars, outcomeVars, remoteVars, Outcomes
  <2> QED BY <2>1, <2>2, <2>3, RecordTables
<1>28. CASE Tick
  <2>1. UNCHANGED <<owner, marker, attempts, incident, pc, task, found>>
    BY <1>28 DEF Tick, rowVars, tableVars, outcomeVars, remoteVars, workerVars
  <2>2. \A x \in Effects : state'[x] = "leased" => state[x] = "leased"
    BY <1>28 DEF Tick, rowVars, TypeInv, TypeOK
  <2>3. ASSUME NEW x \in PublisherEffects PROVE Reported(x)'
    BY <1>28, TopologyAssumption
       DEF Tick, RecordInv, Reported, Started, PublicationInv, Call,
         TypeInv, TypeOK, rowVars, tableVars, outcomeVars, remoteVars, Outcomes
  <2> QED BY <2>1, <2>2, <2>3, RecordTables
<1>29. CASE UNCHANGED vars
  <2>1. UNCHANGED <<owner, marker, attempts, incident, pc, task, found>>
    BY <1>29 DEF vars, rowVars, tableVars, outcomeVars, remoteVars, workerVars
  <2>2. \A x \in Effects : state'[x] = "leased" => state[x] = "leased"
    BY <1>29 DEF vars, rowVars, TypeInv, TypeOK
  <2>3. ASSUME NEW x \in PublisherEffects PROVE Reported(x)'
    BY <1>29, TopologyAssumption
       DEF vars, RecordInv, Reported, Started, PublicationInv, Call,
         TypeInv, TypeOK, rowVars, tableVars, outcomeVars, remoteVars, Outcomes
  <2> QED BY <2>1, <2>2, <2>3, RecordTables
<1> QED
  BY <1>1, <1>2, <1>3, <1>4, <1>5, <1>6, <1>7, <1>8, <1>9, <1>10, <1>11,
     <1>12, <1>13, <1>14, <1>15, <1>16, <1>17, <1>18, <1>19, <1>20, <1>21,
     <1>22, <1>23, <1>24, <1>25, <1>26, <1>27, <1>28, <1>29
     DEF Next, WorkerStep, Advance, EffectStep

LEMMA RecordInvariant == Spec => []RecordInv
<1>1. Init => RecordInv
  BY TopologyAssumption DEF Init, RecordInv, Reported, Recorded, Started, Outcomes
<1> QED BY TypeInit, TypeStep, PublicationInvariant, <1>1, RecordStep, PTL DEF Spec

\* A publication that stops after its call may have begun is on record as an incident,
\* whoever settles it and whatever became of the worker that made the call
\* (_external_effect_failed).
THEOREM UncertainIsReported == Spec => []UncertainCallIsReported
<1>1. RecordInv => UncertainCallIsReported
  BY DEF RecordInv, Reported, UncertainCallIsReported
<1> QED BY <1>1, RecordInvariant, PTL

\* A publication that succeeds in a later attempt than its call leaves an incident
\* behind (_complete_external_effect).
THEOREM LateIsReported == Spec => []LateSuccessIsReported
<1>1. RecordInv => LateSuccessIsReported
  BY DEF RecordInv, Reported, LateSuccessIsReported
<1> QED BY <1>1, RecordInvariant, PTL
=============================================================================
