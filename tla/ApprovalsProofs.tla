--------------------------- MODULE ApprovalsProofs ---------------------------
(***************************************************************************)
(* Machine-checked theorems about Approvals, for any number of requests,   *)
(* mutations and concurrent reconciles.                                    *)
(***************************************************************************)
EXTENDS Approvals, FiniteSetTheorems, TLAPS

(***************************************************************************)
(* Type correctness.                                                       *)
(***************************************************************************)
AnyEvent == [type : Statuses \cup {"requested"}, by : Mutations \cup {NoOne}, late : BOOLEAN]
Histories == [Requests -> SUBSET AnyEvent]
Rows == [Requests -> [status : Statuses, by : Mutations \cup {NoOne}]]

Readings == [step : {"idle", "started", "fetched", "projected"}, via : {"refresh", "bind"},
             history : Histories \cup {<< >>}, row : Rows \cup {<< >>},
             stage : Stages \cup {"none"}]

\* What a reconcile holds at each of its steps.
ReadShape ==
  /\ read \in [Readers -> Readings]
  /\ \A k \in Readers :
       /\ read[k].step \in {"fetched", "projected"} => read[k].history \in Histories
       /\ read[k].step = "projected" => read[k].row \in Rows

\* An operation that holds the lease is that of a new mutation.
OpShape ==
  op # Idle => /\ op.by \in Mutations /\ op.request \in Requests
               /\ mutation[op.by] = NoMutation

\* The effects of a mutation are queued with or after its reservation.
Reserved ==
  \A m \in Mutations :
    (\E kind \in {"stage", "consumption", "close"} : intent[<<kind, m>>] # "none")
      => mutation[m].request \in Requests

\* The Issue holds a decision only once it was made, ...
DecisionMade ==
  \A r \in Requests :
    intent[<<"decision", r>>] # "none" => decision[r] \in Decisions

\* ... and only what an effect has written.
Written(e, r) ==
  \/ e = Plain("requested")
  \/ e = Plain("revoked") /\ intent[<<"revocation", r>>] # "none"
  \/ e = Plain(decision[r]) /\ intent[<<"decision", r>>] # "none"
  \/ e.type = "consumed" /\ e.by \in UsersOf(r)

EventInv == \A r \in Requests : \A e \in history[r] : Written(e, r)

\* A reconcile applies only what it accepted, and events do not go away.
ReadInv ==
  \A k \in Readers :
    /\ read[k].step \in {"fetched", "projected"} =>
         \A r \in Requests : read[k].history[r] \subseteq history[r]
    /\ read[k].step = "projected" =>
         \A r \in Requests : read[k].history[r] # {}
           => Accepts(read[k].history[r], read[k].row[r])

Shapes == history \in Histories /\ ReadShape /\ OpShape /\ Reserved /\ DecisionMade

TypeInv == TypeOK /\ Shapes /\ EventInv /\ ReadInv

USE DEF Plain, Event

\* Every effect has a kind and belongs to a request or to a mutation.
LEMMA EffectShape ==
  /\ \A r \in Requests : \A k \in {"request", "decision", "revocation"} : <<k, r>> \in Effects
  /\ \A m \in Mutations : \A k \in {"stage", "consumption", "close"} : <<k, m>> \in Effects
  /\ \A e \in Effects :
       /\ e = <<e[1], e[2]>>
       /\ \/ e[1] \in {"request", "decision", "revocation"} /\ e[2] \in Requests
          \/ e[1] \in {"stage", "consumption", "close"} /\ e[2] \in Mutations
  BY DEF Effects

\* The invariant holds at first.
LEMMA TypeInit == Init => TypeInv
<1> SUFFICES ASSUME Init PROVE TypeInv
  OBVIOUS
<1>1. TypeOK
  BY ApprovalsAssumption DEF Init, TypeOK, Statuses, Decisions, Stages, NoMutation, Idle
<1>2. history \in Histories /\ ReadShape /\ ReadInv
  BY DEF Init, Histories, ReadShape, Readings, ReadInv, NotReading, Stages
<1>3. OpShape /\ Reserved /\ DecisionMade
  BY EffectShape DEF Init, OpShape, Reserved, DecisionMade
<1>4. EventInv
  BY DEF Init, EventInv
<1> QED BY <1>1, <1>2, <1>3, <1>4 DEF TypeInv, Shapes

\* What a history that a reconcile accepts makes of a request.
LEMMA StatusType ==
  ASSUME TypeInv, NEW r \in Requests, NEW H, H \subseteq history[r],
         NEW row \in [status : Statuses, by : Mutations \cup {NoOne}]
  PROVE  /\ StatusOf(H) \in {"pending", "approved", "rejected", "revoked", "consumed"}
         /\ StatusOf(H) = "consumed" <=> "consumed" \in Types(H)
         /\ StatusOf(H) = "revoked" <=> "revoked" \in Types(H) /\ "consumed" \notin Types(H)
         /\ StatusOf(H) = "approved" => "approved" \in Types(H)
         /\ StatusOf(H) = "rejected" => "rejected" \in Types(H)
         /\ StatusOf(H) = "pending" => Types(H) \subseteq {"requested"}
         /\ Projection(H, row) \in [status : Statuses, by : Mutations \cup {NoOne}]
         /\ Projection(H, row).status # "none"
<1> DEFINE T == Types(H)
           late == {t \in T : t # "requested"}
<1>1. \A e \in H : Written(e, r)
  BY DEF TypeInv, EventInv
<1>2. T \subseteq {"requested", "revoked", "consumed", "approved", "rejected"}
  BY <1>1 DEF Types, Written, TypeInv, Shapes, DecisionMade, Decisions
<1>3. ~("approved" \in T /\ "rejected" \in T)
  BY <1>1 DEF Types, Written
<1>4. ASSUME "consumed" \notin T, "revoked" \notin T
      PROVE  late = {} \/ late = {"approved"} \/ late = {"rejected"}
  BY <1>2, <1>3, <1>4
<1>5. StatusOf(H) = CASE "consumed" \in late -> "consumed"
        [] "consumed" \notin late /\ "revoked" \in late -> "revoked"
        [] late \in {{"approved"}, {"rejected"}} -> CHOOSE t \in late : TRUE
        [] late = {} -> "pending"
  BY DEF StatusOf
<1>6. CASE "consumed" \in T
  <2>1. StatusOf(H) = "consumed"
    BY <1>5, <1>6
  <2>2. PICK e \in Consumptions(H) : TRUE
    BY <1>6 DEF Types, Consumptions
  <2>3. (CHOOSE c \in Consumptions(H) : TRUE) \in Consumptions(H)
    BY <2>2
  <2>4. (CHOOSE c \in Consumptions(H) : TRUE).by \in Mutations \cup {NoOne}
    BY <2>3 DEF Consumptions, TypeInv, Shapes, Histories, AnyEvent
  <2>5. Projection(H, row) \in [status : Statuses, by : Mutations \cup {NoOne}]
    BY <2>1, <2>4 DEF Projection, EffectiveStatus, Statuses
  <2> QED
    BY <1>6, <2>1, <2>5 DEF Projection, EffectiveStatus, LocalTerminal
<1>7. CASE "consumed" \notin T
  <2>1. Consumptions(H) = {}
    BY <1>7 DEF Types, Consumptions
  <2>2. CASE "revoked" \in T
    <3>1. StatusOf(H) = "revoked"
      BY <1>5, <1>7, <2>2
    <3> QED
      BY <1>7, <2>1, <2>2, <3>1
         DEF Projection, EffectiveStatus, LocalTerminal, Statuses
  <2>3. CASE "revoked" \notin T
    <3>1. CASE late = {}
      <4>1. StatusOf(H) = "pending"
        BY <1>5, <3>1
      <4> QED
        BY <1>7, <2>1, <2>3, <3>1, <4>1
           DEF Projection, EffectiveStatus, LocalTerminal, Statuses
    <3>2. ASSUME NEW d \in Decisions, late = {d} PROVE StatusOf(H) = d /\ d \in T
      <4>1. (CHOOSE t \in late : TRUE) = d
        BY <3>2
      <4> QED
        BY <1>5, <3>2, <4>1 DEF Decisions
    <3> QED
      BY <1>4, <1>7, <2>1, <2>3, <3>1, <3>2
         DEF Projection, EffectiveStatus, LocalTerminal, Statuses, Decisions
  <2> QED BY <2>2, <2>3
<1> QED BY <1>6, <1>7
\* Events and reconciles are untouched by a step that forgets no effect and no
\* mutation and makes no second decision.
Grows ==
  /\ \A e \in Effects : intent[e] # "none" => intent'[e] # "none"
  /\ \A r \in Requests : intent[<<"decision", r>>] # "none" => decision'[r] = decision[r]
  /\ \A m \in Mutations : mutation[m].request \in Requests
                          => mutation'[m].request = mutation[m].request

\* What the Issue holds stays backed while effects and users only grow.
LEMMA EventStays ==
  ASSUME EventInv, Grows, history' = history
  PROVE  EventInv'
<1> SUFFICES ASSUME NEW r \in Requests, NEW e \in history[r] PROVE Written(e, r)'
  BY DEF EventInv
<1>1. Written(e, r)
  BY DEF EventInv
<1>2. UsersOf(r) \subseteq UsersOf(r)'
  BY DEF Grows, UsersOf
<1> QED
  BY <1>1, <1>2, EffectShape DEF Grows, Written

\* Reconciles under way are not disturbed by a growing Issue.
LEMMA ReadStays ==
  ASSUME ReadInv, read' = read, \A r \in Requests : history[r] \subseteq history'[r]
  PROVE  ReadInv'
<1> SUFFICES ASSUME NEW k \in Readers PROVE
      /\ read[k].step \in {"fetched", "projected"} =>
           \A r \in Requests : read[k].history[r] \subseteq history'[r]
      /\ read[k].step = "projected" =>
           \A r \in Requests : read[k].history[r] # {}
             => Accepts(read[k].history[r], read[k].row[r])
  BY DEF ReadInv
<1> QED
  BY DEF ReadInv

\* A step of an effect: it was claimed, and its row is all that changes of intents.
LEMMA EffectMoves ==
  ASSUME TypeOK, NEW e \in Effects, NEW S \in {"queued", "succeeded", "terminal"},
         intent' = [intent EXCEPT ![e] = S],
         busy' = busy \ {e} \/ (S = "queued" /\ busy' \in {busy, busy \cup {e}})
  PROVE  /\ intent' \in [Effects -> {"none", "queued", "succeeded", "terminal"}]
         /\ busy' \subseteq {x \in Effects : intent'[x] = "queued"}
         /\ \A x \in Effects : intent[x] # "none" => intent'[x] # "none"
  BY DEF TypeOK

\* An attempt that has completed is over; its intent may be left as it was.
LEMMA CompletedEnds ==
  ASSUME TypeOK, NEW e \in Effects, e \in busy, Completed(e)
  PROVE  /\ busy' = busy \ {e}
         /\ \E S \in {"queued", "succeeded"} : intent' = [intent EXCEPT ![e] = S]
<1>1. intent = [intent EXCEPT ![e] = "queued"]
  BY DEF TypeOK
<1> QED BY <1>1 DEF Completed

\* An attempt that ends leaves the other effects alone.
LEMMA AttemptEnds ==
  ASSUME TypeOK, NEW e \in Effects, Completed(e) \/ Conflict(e)
  PROVE  \A x \in Effects : x # e => intent'[x] = intent[x]
  BY DEF Completed, Conflict, TypeOK

\* An attempt in a conflict is over, its effect terminal.
LEMMA ConflictEnds ==
  ASSUME TypeOK, NEW e \in Effects, Conflict(e)
  PROVE  /\ busy' = busy \ {e}
         /\ intent' = [intent EXCEPT ![e] = "terminal"]
  BY DEF Conflict

MutationRows == [Mutations -> [state : {"none", "reserved", "confirmed"},
                               request : Requests \cup {NoOne},
                               expected : Stages \cup {"none"},
                               late : BOOLEAN, revoked : BOOLEAN]]

\* A confirmed mutation keeps its request.
LEMMA ConfirmType ==
  ASSUME mutation \in MutationRows, NEW m \in Mutations,
         mutation' = [mutation EXCEPT ![m].state = "confirmed"]
  PROVE  /\ mutation' \in MutationRows
         /\ \A n \in Mutations : mutation'[n].request = mutation[n].request
         /\ \A n \in Mutations : n # m => mutation'[n] = mutation[n]
<1>1. mutation[m] \in [state : {"none", "reserved", "confirmed"},
                      request : Requests \cup {NoOne},
                      expected : Stages \cup {"none"},
                      late : BOOLEAN, revoked : BOOLEAN]
  BY DEF MutationRows
<1>2. mutation' = [mutation EXCEPT ![m] = [mutation[m] EXCEPT !.state = "confirmed"]]
  OBVIOUS
<1>3. /\ [mutation[m] EXCEPT !.state = "confirmed"] \in
           [state : {"none", "reserved", "confirmed"}, request : Requests \cup {NoOne},
            expected : Stages \cup {"none"}, late : BOOLEAN, revoked : BOOLEAN]
      /\ [mutation[m] EXCEPT !.state = "confirmed"].request = mutation[m].request
  BY <1>1
<1> QED BY <1>2, <1>3 DEF MutationRows

\* A completion that changes at most the ledger.
LEMMA SettleType ==
  ASSUME TypeInv, NEW e \in Effects, e \in busy, Completed(e) \/ Conflict(e),
         ledger' \in [Requests -> [status : Statuses, by : Mutations \cup {NoOne}]],
         UNCHANGED <<mutation, action, decision, overdue, history, stage, op, reach, read,
                     rolled, reads>>
  PROVE  TypeInv'
<1>1. PICK S \in {"queued", "succeeded", "terminal"} :
        busy' = busy \ {e} /\ intent' = [intent EXCEPT ![e] = S]
  BY ConflictEnds, CompletedEnds DEF TypeInv
<1>2. /\ intent' \in [Effects -> {"none", "queued", "succeeded", "terminal"}]
      /\ busy' \subseteq {x \in Effects : intent'[x] = "queued"}
      /\ \A x \in Effects : intent'[x] # "none" <=> intent[x] # "none"
  BY <1>1, EffectMoves DEF TypeInv, TypeOK
<1>3. TypeOK' /\ Grows
  BY <1>1, <1>2 DEF TypeInv, TypeOK, Grows
<1>4. Shapes'
  BY <1>2, EffectShape DEF TypeInv, Shapes, ReadShape, OpShape, Reserved, DecisionMade
<1> QED BY <1>3, <1>4, EventStays, ReadStays DEF TypeInv

\* One reconcile moves on.
LEMMA ReadChanges ==
  ASSUME TypeInv, NEW k \in Readers, NEW x \in Readings, read' = [read EXCEPT ![k] = x],
         history' = history,
         x.step \in {"fetched", "projected"} =>
           /\ x.history \in Histories
           /\ \A r \in Requests : x.history[r] \subseteq history[r],
         x.step = "projected" =>
           /\ x.row \in Rows
           /\ \A r \in Requests : x.history[r] # {} => Accepts(x.history[r], x.row[r])
  PROVE  ReadShape' /\ ReadInv'
<1>1. \A j \in Readers : read'[j] = IF j = k THEN x ELSE read[j]
  BY DEF TypeInv, Shapes, ReadShape
<1>2. ReadShape'
  BY <1>1 DEF TypeInv, Shapes, ReadShape
<1> SUFFICES ASSUME NEW j \in Readers PROVE
      /\ read'[j].step \in {"fetched", "projected"} =>
           \A r \in Requests : read'[j].history[r] \subseteq history'[r]
      /\ read'[j].step = "projected" =>
           \A r \in Requests : read'[j].history[r] # {}
             => Accepts(read'[j].history[r], read'[j].row[r])
  BY <1>2 DEF ReadInv
<1>3. CASE j = k
  BY <1>1, <1>3
<1>4. CASE j # k
  BY <1>1, <1>4 DEF TypeInv, ReadInv
<1> QED BY <1>3, <1>4

\* Every step keeps the types, and what the Issue and the reconciles hold.
LEMMA TypeStep == TypeInv /\ [Next]_vars => TypeInv'
<1> SUFFICES ASSUME TypeInv, [Next]_vars PROVE TypeInv'
  OBVIOUS
<1> USE ApprovalsAssumption
<1>1. ASSUME NEW r \in Requests, RequestApproval(r) PROVE TypeInv'
  <2>1. TypeOK' /\ Grows
    BY <1>1, EffectShape, EffectMoves
       DEF RequestApproval, Queue, boundVars, TypeInv, TypeOK, Grows
  <2>2. Shapes'
    BY <1>1, EffectShape
       DEF RequestApproval, Queue, boundVars, TypeInv, TypeOK, Shapes, ReadShape, OpShape,
           Reserved, DecisionMade
  <2> QED
    BY <1>1, <2>1, <2>2, EventStays, ReadStays DEF RequestApproval, Queue, boundVars, TypeInv
<1>2. ASSUME NEW r \in Requests, NEW d \in Decisions, DecideApproval(r, d) PROVE TypeInv'
  <2>1. decision' \in [Requests -> Decisions \cup {"none"}] /\ DecisionMade'
    BY <1>2, EffectShape DEF DecideApproval, Queue, TypeInv, TypeOK, Shapes, DecisionMade
  <2>2. TypeOK'
    BY <1>2, <2>1, EffectShape, EffectMoves
       DEF DecideApproval, Queue, TypeInv, TypeOK, boundVars
  <2>4. Grows
    BY <1>2, EffectShape DEF DecideApproval, Queue, TypeInv, TypeOK, Grows
  <2>3. Shapes'
    BY <1>2, <2>1, EffectShape
       DEF DecideApproval, Queue, TypeInv, TypeOK, Shapes, ReadShape, OpShape,
           Reserved, boundVars
  <2> QED
    BY <1>2, <2>2, <2>3, <2>4, EventStays, ReadStays DEF DecideApproval, TypeInv, boundVars
<1>3. ASSUME NEW r \in Requests, RevokeApproval(r) PROVE TypeInv'
  <2>1. TypeOK' /\ Grows
    BY <1>3, EffectShape, EffectMoves
       DEF RevokeApproval, Queue, boundVars, TypeInv, TypeOK, Grows
  <2>2. Shapes'
    BY <1>3, EffectShape
       DEF RevokeApproval, Queue, boundVars, TypeInv, TypeOK, Shapes, ReadShape, OpShape,
           Reserved, DecisionMade
  <2> QED
    BY <1>3, <2>1, <2>2, EventStays, ReadStays DEF RevokeApproval, Queue, boundVars, TypeInv
<1>4. ASSUME NEW m \in Mutations, NEW r \in Requests, Validate(m, r) PROVE TypeInv'
  <2>1. TypeOK' /\ Grows
    BY <1>4, EffectShape, EffectMoves
       DEF Validate, boundVars, TypeInv, TypeOK, Grows
  <2>2. Shapes'
    BY <1>4, EffectShape
       DEF Validate, boundVars, TypeInv, TypeOK, Shapes, ReadShape, OpShape,
           Reserved, DecisionMade
  <2> QED
    BY <1>4, <2>1, <2>2, EventStays, ReadStays DEF Validate, boundVars, TypeInv
<1>5. ASSUME Reserve PROVE TypeInv'
  <2> DEFINE m == op.by
             r == op.request
             kind == IF action[r] = "transition_map" THEN "stage" ELSE "consumption"
  <2>1. /\ m \in Mutations /\ r \in Requests /\ mutation[m] = NoMutation
        /\ kind \in {"stage", "consumption"} /\ <<kind, m>> \in Effects
    BY <1>5, EffectShape DEF Reserve, TypeInv, Shapes, OpShape
  <2>2. /\ intent' = [intent EXCEPT ![<<kind, m>>] = "queued"]
        /\ mutation'[m].request = r
        /\ \A n \in Mutations : n # m => mutation'[n] = mutation[n]
    BY <1>5, <2>1 DEF Reserve, Queue, TypeInv, TypeOK
  <2>3. ledger' \in [Requests -> [status : Statuses, by : Mutations \cup {NoOne}]]
    BY <1>5, <2>1 DEF Reserve, TypeInv, TypeOK, Statuses
  <2>4. mutation' \in [Mutations -> [state : {"none", "reserved", "confirmed"},
                                    request : Requests \cup {NoOne},
                                    expected : Stages \cup {"none"},
                                    late : BOOLEAN, revoked : BOOLEAN]]
    BY <1>5, <2>1 DEF Reserve, TypeInv, TypeOK
  <2>5. op' \in [by : Mutations \cup {NoOne}, request : Requests \cup {NoOne}]
    BY <1>5 DEF Reserve, Idle
  <2> HIDE DEF m, r, kind
  <2>6. /\ intent' \in [Effects -> {"none", "queued", "succeeded", "terminal"}]
        /\ busy' \subseteq {x \in Effects : intent'[x] = "queued"}
        /\ \A x \in Effects : intent[x] # "none" => intent'[x] # "none"
    BY <1>5, <2>1, <2>2, EffectMoves DEF Reserve, TypeInv
  <2>7. TypeOK'
    BY <1>5, <2>3, <2>4, <2>5, <2>6 DEF Reserve, TypeInv, TypeOK, boundVars
  <2>8. Grows
    BY <1>5, <2>1, <2>2, <2>6 DEF Reserve, Grows, NoMutation
  <2>9. ReadShape' /\ OpShape' /\ DecisionMade'
    BY <1>5, <2>1, <2>2, EffectShape
       DEF Reserve, TypeInv, TypeOK, Shapes, ReadShape, OpShape, DecisionMade
  <2>10. Reserved'
    <3>1. \A n \in Mutations : \A k \in {"stage", "consumption", "close"} :
            intent'[<<k, n>>] # "none" => intent[<<k, n>>] # "none" \/ n = m
      BY <2>1, <2>2, EffectShape DEF TypeInv, TypeOK
    <3>2. \A n \in Mutations : n # m => mutation'[n] = mutation[n]
      BY <2>2
    <3> QED BY <2>1, <2>2, <3>1, <3>2 DEF TypeInv, Shapes, Reserved
  <2>11. Shapes'
    BY <1>5, <2>9, <2>10 DEF Reserve, TypeInv, Shapes
  <2> QED
    BY <1>5, <2>7, <2>8, <2>11, EventStays, ReadStays DEF Reserve, TypeInv
<1>6. ASSUME Abandon PROVE TypeInv'
  <2>1. TypeOK' /\ Grows
    BY <1>6, EffectShape, EffectMoves
       DEF Abandon, Trouble, Idle, boundVars, TypeInv, TypeOK, Grows
  <2>2. Shapes'
    BY <1>6, EffectShape
       DEF Abandon, Trouble, Idle, boundVars, TypeInv, TypeOK, Shapes, ReadShape, OpShape,
           Reserved, DecisionMade
  <2> QED
    BY <1>6, <2>1, <2>2, EventStays, ReadStays DEF Abandon, Trouble, Idle, boundVars, TypeInv
<1>7. ASSUME NEW r \in Requests, Expire(r) PROVE TypeInv'
  <2>1. ledger' \in [Requests -> [status : Statuses, by : Mutations \cup {NoOne}]]
    BY <1>7 DEF Expire, TypeInv, TypeOK, Statuses
  <2>2. TypeOK' /\ Grows
    BY <1>7, <2>1 DEF Expire, TypeInv, TypeOK, Grows, boundVars
  <2>3. Shapes'
    BY <1>7
       DEF Expire, TypeInv, Shapes, ReadShape, OpShape, Reserved, DecisionMade, boundVars
  <2> QED
    BY <1>7, <2>2, <2>3, EventStays, ReadStays DEF Expire, TypeInv, boundVars
<1>8. ASSUME NEW r \in Requests, PassExpiry(r) PROVE TypeInv'
  <2>1. TypeOK' /\ Grows
    BY <1>8, EffectShape, EffectMoves
       DEF PassExpiry, boundVars, TypeInv, TypeOK, Grows
  <2>2. Shapes'
    BY <1>8, EffectShape
       DEF PassExpiry, boundVars, TypeInv, TypeOK, Shapes, ReadShape, OpShape,
           Reserved, DecisionMade
  <2> QED
    BY <1>8, <2>1, <2>2, EventStays, ReadStays DEF PassExpiry, boundVars, TypeInv
<1>9. ASSUME Park PROVE TypeInv'
  <2>1. TypeOK' /\ Grows
    BY <1>9, EffectShape, EffectMoves
       DEF Park, Trouble, Stages, boundVars, TypeInv, TypeOK, Grows
  <2>2. Shapes'
    BY <1>9, EffectShape
       DEF Park, Trouble, Stages, boundVars, TypeInv, TypeOK, Shapes, ReadShape, OpShape,
           Reserved, DecisionMade
  <2> QED
    BY <1>9, <2>1, <2>2, EventStays, ReadStays DEF Park, Trouble, Stages, boundVars, TypeInv
<1>10. ASSUME NEW e \in Effects, Dispatch(e) PROVE TypeInv'
  <2>1. TypeOK' /\ Grows
    BY <1>10, EffectShape, EffectMoves
       DEF Dispatch, boundVars, TypeInv, TypeOK, Grows
  <2>2. Shapes'
    BY <1>10, EffectShape
       DEF Dispatch, boundVars, TypeInv, TypeOK, Shapes, ReadShape, OpShape,
           Reserved, DecisionMade
  <2> QED
    BY <1>10, <2>1, <2>2, EventStays, ReadStays DEF Dispatch, boundVars, TypeInv
<1>11. ASSUME NEW e \in Effects, Write(e) PROVE TypeInv'
  <2>1. intent[e] = "queued"
    BY <1>11 DEF Write, TypeInv, TypeOK
  <2>2. ASSUME NEW r \in Requests, NEW event \in AnyEvent, Written(event, r),
               WriteEvent(r, event)
        PROVE  TypeInv'
    <3>1. /\ history' \in Histories /\ stage' = stage
          /\ \A x \in Requests : history[x] \subseteq history'[x]
      BY <2>2 DEF WriteEvent, TypeInv, Shapes, Histories
    <3>2. TypeOK'
      BY <1>11, <3>1 DEF Write, TypeInv, TypeOK, Histories, AnyEvent, boundVars
    <3>3. EventInv'
      <4>1. UNCHANGED <<intent, decision, mutation>>
        BY <1>11 DEF Write
      <4>2. ASSUME NEW x \in Requests, NEW y, Written(y, x) PROVE Written(y, x)'
        <5>1. UsersOf(x)' = UsersOf(x)
          BY <4>1 DEF UsersOf
        <5> QED BY <4>1, <4>2, <5>1 DEF Written
      <4>3. \A x \in Requests : \A y \in history'[x] : y \in history[x] \/ (x = r /\ y = event)
        <5>1. history \in [Requests -> SUBSET AnyEvent]
          BY DEF TypeInv, Shapes, Histories
        <5>2. history' = [history EXCEPT ![r] = history[r] \cup {event}]
          BY <2>2 DEF WriteEvent
        <5>3. \A x \in Requests :
                history'[x] = IF x = r THEN history[r] \cup {event} ELSE history[x]
          BY <5>1, <5>2
        <5> QED BY <5>3
      <4>4. \A x \in Requests : \A y \in history'[x] : Written(y, x)
        BY <2>2, <4>3 DEF TypeInv, EventInv
      <4> QED BY <4>2, <4>4 DEF EventInv
    <3>4. Shapes' /\ ReadInv'
      BY <1>11, <3>1, ReadStays
         DEF Write, TypeInv, Shapes, ReadShape, OpShape, Reserved, DecisionMade
    <3> QED BY <3>2, <3>3, <3>4 DEF TypeInv
  <2>3. ASSUME stage' \in Stages, UNCHANGED history PROVE TypeInv'
    <3>1. TypeOK' /\ Grows
      BY <1>11, <2>3 DEF Write, TypeInv, TypeOK, Grows, boundVars
    <3>2. Shapes'
      BY <1>11, <2>3
         DEF Write, TypeInv, Shapes, ReadShape, OpShape, Reserved, DecisionMade
    <3> QED
      BY <1>11, <2>3, <3>1, <3>2, EventStays, ReadStays DEF Write, TypeInv
  <2>4. CASE e[1] = "request"
    <3>1. e[2] \in Requests /\ WriteEvent(e[2], Plain("requested"))
      BY <1>11, <2>4, EffectShape DEF Write
    <3> QED BY <2>2, <3>1 DEF AnyEvent, Written
  <2>5. CASE e[1] = "decision"
    <3>1. e[2] \in Requests /\ WriteEvent(e[2], Plain(decision[e[2]])) /\ e = <<"decision", e[2]>>
      BY <1>11, <2>5, EffectShape DEF Write
    <3>2. decision[e[2]] \in Decisions
      BY <2>1, <3>1 DEF TypeInv, Shapes, DecisionMade
    <3> QED BY <2>1, <2>2, <3>1, <3>2 DEF AnyEvent, Written, Statuses
  <2>6. CASE e[1] = "revocation"
    <3>1. e[2] \in Requests /\ WriteEvent(e[2], Plain("revoked")) /\ e = <<"revocation", e[2]>>
      BY <1>11, <2>6, EffectShape DEF Write
    <3> QED BY <2>1, <2>2, <3>1 DEF AnyEvent, Written, Statuses
  <2>7. CASE e[1] = "consumption"
    <3>1. /\ e[2] \in Mutations /\ e = <<"consumption", e[2]>>
          /\ WriteEvent(mutation[e[2]].request, ConsumptionEvent(e[2]))
      BY <1>11, <2>7, EffectShape DEF Write
    <3>2. mutation[e[2]].request \in Requests
      BY <2>1, <3>1 DEF TypeInv, Shapes, Reserved
    <3>3. ConsumptionEvent(e[2]) \in AnyEvent
      BY <3>1 DEF ConsumptionEvent, AnyEvent, Statuses, TypeInv, TypeOK
    <3>4. Written(ConsumptionEvent(e[2]), mutation[e[2]].request)
      BY <3>1 DEF ConsumptionEvent, Written, UsersOf
    <3> QED BY <2>2, <3>1, <3>2, <3>3, <3>4
  <2>8. CASE e[1] \in {"stage", "close"}
    BY <1>11, <2>3, <2>8 DEF Write, Stages
  <2> QED
    BY <2>4, <2>5, <2>6, <2>7, <2>8, EffectShape
<1>12. ASSUME NEW e \in Effects, Fail(e) PROVE TypeInv'
  <2>1. TypeOK' /\ Grows
    BY <1>12, EffectShape, EffectMoves
       DEF Fail, Trouble, boundVars, TypeInv, TypeOK, Grows
  <2>2. Shapes'
    BY <1>12, EffectShape
       DEF Fail, Trouble, boundVars, TypeInv, TypeOK, Shapes, ReadShape, OpShape,
           Reserved, DecisionMade
  <2> QED
    BY <1>12, <2>1, <2>2, EventStays, ReadStays DEF Fail, Trouble, boundVars, TypeInv
<1>13. ASSUME NEW e \in Effects, Refuse(e) PROVE TypeInv'
  <2>1. TypeOK' /\ Grows
    BY <1>13, EffectShape, EffectMoves
       DEF Refuse, Conflict, boundVars, TypeInv, TypeOK, Grows
  <2>2. Shapes'
    BY <1>13, EffectShape
       DEF Refuse, Conflict, boundVars, TypeInv, TypeOK, Shapes, ReadShape, OpShape,
           Reserved, DecisionMade
  <2> QED
    BY <1>13, <2>1, <2>2, EventStays, ReadStays DEF Refuse, Conflict, boundVars, TypeInv
<1>14. ASSUME NEW e \in Effects, Repair(e) PROVE TypeInv'
  <2>1. TypeOK' /\ Grows
    BY <1>14, EffectShape, EffectMoves
       DEF Repair, Queue, boundVars, TypeInv, TypeOK, Grows
  <2>2. Shapes'
    BY <1>14, EffectShape
       DEF Repair, Queue, boundVars, TypeInv, TypeOK, Shapes, ReadShape, OpShape,
           Reserved, DecisionMade
  <2> QED
    BY <1>14, <2>1, <2>2, EventStays, ReadStays DEF Repair, Queue, boundVars, TypeInv
<1>15. ASSUME NEW r \in Requests, CompleteRequest(r) PROVE TypeInv'
  <2> DEFINE e == <<"request", r>>
  <2>1. e \in Effects /\ e \in busy
    BY <1>15, EffectShape DEF CompleteRequest
  <2>2. ledger' \in [Requests -> [status : Statuses, by : Mutations \cup {NoOne}]]
    BY <1>15, <2>1 DEF CompleteRequest, TypeInv, TypeOK, Shapes, DecisionMade, Statuses
  <2>3. Completed(e) \/ Conflict(e)
    BY <1>15 DEF CompleteRequest
  <2>4. /\ UNCHANGED <<mutation, action, decision, overdue, history, stage, op, reach, read, rolled, reads>>
    BY <1>15 DEF CompleteRequest, Unsettled
  <2> HIDE DEF e
  <2> QED BY <2>1, <2>2, <2>3, <2>4, SettleType
<1>16. ASSUME NEW r \in Requests, CompleteDecision(r) PROVE TypeInv'
  <2> DEFINE e == <<"decision", r>>
  <2>1. e \in Effects /\ e \in busy
    BY <1>16, EffectShape DEF CompleteDecision
  <2>2. ledger' \in [Requests -> [status : Statuses, by : Mutations \cup {NoOne}]]
    BY <1>16, <2>1 DEF CompleteDecision, TypeInv, TypeOK, Shapes, DecisionMade, Statuses
  <2>3. Completed(e) \/ Conflict(e)
    BY <1>16 DEF CompleteDecision
  <2>4. /\ UNCHANGED <<mutation, action, decision, overdue, history, stage, op, reach, read, rolled, reads>>
    BY <1>16 DEF CompleteDecision, Unsettled
  <2> HIDE DEF e
  <2> QED BY <2>1, <2>2, <2>3, <2>4, SettleType
<1>17. ASSUME NEW r \in Requests, CompleteRevocation(r) PROVE TypeInv'
  <2> DEFINE e == <<"revocation", r>>
  <2>1. e \in Effects /\ e \in busy
    BY <1>17, EffectShape DEF CompleteRevocation
  <2>2. ledger' \in [Requests -> [status : Statuses, by : Mutations \cup {NoOne}]]
    BY <1>17, <2>1 DEF CompleteRevocation, TypeInv, TypeOK, Shapes, DecisionMade, Statuses
  <2>3. Completed(e) \/ Conflict(e)
    BY <1>17 DEF CompleteRevocation
  <2>4. /\ UNCHANGED <<mutation, action, decision, overdue, history, stage, op, reach, read, rolled, reads>>
    BY <1>17 DEF CompleteRevocation, Unsettled
  <2> HIDE DEF e
  <2> QED BY <2>1, <2>2, <2>3, <2>4, SettleType
<1>18. ASSUME NEW m \in Mutations, CompleteConsumption(m) PROVE TypeInv'
  <2> DEFINE e == <<"consumption", m>>
             close == <<"close", m>>
  <2>1. /\ e \in Effects /\ e \in busy /\ close \in Effects /\ e # close
        /\ UNCHANGED <<ledger, mutation, action, decision, overdue, history, stage, op, reach,
                      read, rolled, reads>>
    BY <1>18, EffectShape DEF CompleteConsumption, Unsettled
  <2>2. CASE Conflict(e)
    BY <2>1, <2>2, SettleType DEF TypeInv, TypeOK
  <2>3. ASSUME NEW S \in {"queued", "succeeded"}, busy' = busy \ {e},
               intent' = [intent EXCEPT ![e] = S, ![close] = IF @ = "none" THEN "queued" ELSE @]
        PROVE  TypeInv'
    <3>0. mutation[m].request \in Requests
      BY <2>1 DEF TypeInv, TypeOK, Shapes, Reserved
    <3>1. /\ intent' \in [Effects -> {"none", "queued", "succeeded", "terminal"}]
          /\ busy' \subseteq {x \in Effects : intent'[x] = "queued"}
          /\ \A x \in Effects : intent[x] # "none" => intent'[x] # "none"
          /\ \A x \in Effects \ {close} : intent'[x] # "none" => intent[x] # "none"
      BY <2>1, <2>3 DEF TypeInv, TypeOK
    <3>2. TypeOK' /\ Grows
      BY <2>1, <2>3, <3>1 DEF TypeInv, TypeOK, Grows
    <3>3. Reserved'
      <4>1. \A n \in Mutations : \A kind \in {"stage", "consumption", "close"} :
              intent'[<<kind, n>>] # "none" => intent[<<kind, n>>] # "none" \/ n = m
        BY <3>1, EffectShape
      <4> QED BY <2>1, <3>0, <4>1 DEF TypeInv, Shapes, Reserved
    <3>4. DecisionMade'
      <4>1. \A r \in Requests :
              intent'[<<"decision", r>>] # "none" => intent[<<"decision", r>>] # "none"
        BY <3>1, EffectShape
      <4> QED BY <2>1, <4>1 DEF TypeInv, Shapes, DecisionMade
    <3>5. Shapes'
      BY <2>1, <3>3, <3>4 DEF TypeInv, Shapes, ReadShape, OpShape
    <3> QED
      BY <2>1, <3>2, <3>5, EventStays, ReadStays DEF TypeInv
  <2>4. Conflict(e) \/ \E S \in {"queued", "succeeded"} :
          /\ busy' = busy \ {e}
          /\ intent' = [intent EXCEPT ![e] = S, ![close] = IF @ = "none" THEN "queued" ELSE @]
    BY <1>18 DEF CompleteConsumption
  <2> HIDE DEF e, close
  <2> QED BY <2>2, <2>3, <2>4
<1>19. ASSUME NEW e \in Effects, CompleteMutation(e) PROVE TypeInv'
  <2>0. PICK m \in Mutations : m = e[2]
    BY <1>19, EffectShape DEF CompleteMutation
  <2>1. /\ e \in busy /\ Completed(e)
        /\ mutation' = [mutation EXCEPT ![m].state = "confirmed"]
        /\ UNCHANGED <<ledger, action, decision, overdue, history, stage, op, reach, read,
                      rolled, reads>>
    BY <1>19, <2>0 DEF CompleteMutation, Unsettled
  <2>2. intent[e] # "none" /\ e[1] \in {"stage", "close"} /\ e = <<e[1], m>>
    BY <1>19, <2>0, <2>1, EffectShape DEF CompleteMutation, TypeInv, TypeOK
  <2>3. mutation[m] # NoMutation
    <3>1. mutation[m].request \in Requests
      BY <2>1, <2>2 DEF TypeInv, Shapes, Reserved
    <3> QED BY <3>1 DEF NoMutation
  <2>4. /\ mutation' \in MutationRows
        /\ \A n \in Mutations : mutation'[n].request = mutation[n].request
        /\ \A n \in Mutations : n # m => mutation'[n] = mutation[n]
    <3>1. mutation \in MutationRows
      BY DEF TypeInv, TypeOK, MutationRows
    <3> QED BY <2>1, <3>1, ConfirmType
  <2>5. PICK S \in {"queued", "succeeded"} :
          busy' = busy \ {e} /\ intent' = [intent EXCEPT ![e] = S]
    BY <2>1, CompletedEnds DEF TypeInv
  <2>6. /\ intent' \in [Effects -> {"none", "queued", "succeeded", "terminal"}]
        /\ busy' \subseteq {x \in Effects : intent'[x] = "queued"}
        /\ \A x \in Effects : intent'[x] # "none" <=> intent[x] # "none"
    BY <2>2, <2>5, EffectMoves DEF TypeInv, TypeOK
  <2>7. TypeOK' /\ Grows
    BY <2>1, <2>4, <2>6 DEF TypeInv, TypeOK, Grows, MutationRows
  <2>8. OpShape'
    BY <2>1, <2>3, <2>4 DEF TypeInv, Shapes, OpShape
  <2>9. Reserved' /\ DecisionMade'
    <3>1. Reserved'
      <4> SUFFICES ASSUME NEW n \in Mutations, NEW kind \in {"stage", "consumption", "close"},
                          intent'[<<kind, n>>] # "none"
                   PROVE  mutation'[n].request \in Requests
        BY DEF Reserved
      <4>1. intent[<<kind, n>>] # "none"
        BY <2>6, EffectShape
      <4> QED BY <2>4, <4>1 DEF TypeInv, Shapes, Reserved
    <3>2. DecisionMade'
      BY <2>1, <2>6, EffectShape DEF TypeInv, Shapes, DecisionMade
    <3> QED BY <3>1, <3>2
  <2> QED
    BY <2>1, <2>7, <2>8, <2>9, EventStays, ReadStays DEF TypeInv, Shapes, ReadShape
<1>20. ASSUME NEW k \in Readers, NEW via \in {"refresh", "bind"}, StartRead(k, via) PROVE TypeInv'
  <2>1. ReadShape' /\ ReadInv'
    BY <1>20, ReadChanges DEF StartRead, Unread, NotReading, Readings, Stages, TypeInv
  <2>4. TypeOK'
    BY <1>20, <2>1 DEF StartRead, TypeInv, TypeOK, ReadShape, Unread, boundVars
  <2>5. EventInv'
    BY <1>20, EventStays, EffectShape DEF StartRead, TypeInv, Grows, Unread
  <2>6. Shapes'
    BY <1>20, <2>1 DEF StartRead, TypeInv, Shapes, OpShape, Reserved, DecisionMade, Unread
  <2> QED BY <2>1, <2>4, <2>5, <2>6 DEF TypeInv
<1>21. ASSUME NEW k \in Readers, Fetch(k) PROVE TypeInv'
  <2> DEFINE x == [[[read[k] EXCEPT !.step = "fetched"] EXCEPT !.history = history] EXCEPT !.stage = stage]
  <2>1. read[k] \in Readings /\ history \in Histories /\ stage \in Stages
    BY DEF TypeInv, TypeOK, Shapes, ReadShape
  <2>2. x \in Readings /\ x.step = "fetched" /\ x.history = history
    BY <2>1 DEF Readings
  <2>3. read' = [read EXCEPT ![k] = x] /\ history' = history
    BY <1>21 DEF Fetch, Unread, TypeInv, Shapes, ReadShape
  <2> HIDE DEF x
  <2>4. ReadShape' /\ ReadInv'
    BY <2>1, <2>2, <2>3, ReadChanges
  <2>5. TypeOK'
    BY <1>21, <2>4 DEF Fetch, TypeInv, TypeOK, ReadShape, Unread, boundVars
  <2>6. EventInv'
    BY <1>21, EventStays, EffectShape DEF Fetch, TypeInv, Grows, Unread
  <2>7. Shapes'
    BY <1>21, <2>4 DEF Fetch, TypeInv, Shapes, OpShape, Reserved, DecisionMade, Unread
  <2> QED BY <2>4, <2>5, <2>6, <2>7 DEF TypeInv
<1>22. ASSUME NEW k \in Readers, Project(k) PROVE TypeInv'
  <2>1. ReadShape' /\ ReadInv'
    <3>1. CASE Stop(k, Failed(k))
      BY <1>22, <3>1, ReadChanges DEF Project, Stop, Unread, NotReading, Readings, Stages, TypeInv
    <3>2. CASE /\ Rebuildable(read[k].history, ledger, read[k].stage)
               /\ read' = [read EXCEPT ![k].step = "projected", ![k].row = ledger]
      <4>1. read[k] \in Readings /\ k \in DOMAIN read
        BY DEF TypeInv, Shapes, ReadShape
      <4>2. PICK x \in Readings : /\ x.step = "projected" /\ x.row = ledger
                                  /\ x.history = read[k].history
                                  /\ read' = [read EXCEPT ![k] = x]
        <5> DEFINE x == [[read[k] EXCEPT !.step = "projected"] EXCEPT !.row = ledger]
        <5>1. ledger \in Rows
          BY DEF TypeInv, TypeOK, Rows
        <5>2. x \in Readings /\ x.step = "projected" /\ x.row = ledger /\ x.history = read[k].history
          BY <4>1, <5>1 DEF Readings
        <5>3. read' = [read EXCEPT ![k] = x]
          BY <3>2, <4>1
        <5> QED BY <5>2, <5>3
      <4>3. /\ read[k].history \in Histories
            /\ \A r \in Requests : read[k].history[r] \subseteq history[r]
        BY <1>22 DEF Project, TypeInv, Shapes, ReadShape, ReadInv
      <4>4. \A r \in Requests : read[k].history[r] # {} => Accepts(read[k].history[r], ledger[r])
        BY <3>2 DEF Rebuildable
      <4>5. ledger \in Rows
        BY DEF TypeInv, TypeOK, Rows
      <4> QED BY <1>22, <4>2, <4>3, <4>4, <4>5, ReadChanges DEF Project, Unread, TypeInv
    <3> QED BY <1>22, <3>1, <3>2 DEF Project
  <2>4. TypeOK'
    BY <1>22, <2>1 DEF Project, TypeInv, TypeOK, ReadShape, Stop, Failed, Unread, boundVars
  <2>5. EventInv'
    BY <1>22, EventStays, EffectShape DEF Project, TypeInv, Grows, Unread
  <2>6. Shapes'
    BY <1>22, <2>1 DEF Project, TypeInv, Shapes, OpShape, Reserved, DecisionMade, Unread
  <2> QED BY <2>1, <2>4, <2>5, <2>6 DEF TypeInv
<1>23. ASSUME NEW k \in Readers, Apply(k) PROVE TypeInv'
  <2>0. PICK reached : Stop(k, reached)
    BY <1>23 DEF Apply
  <2>1. ReadShape' /\ ReadInv'
    BY <1>23, <2>0, ReadChanges DEF Apply, Stop, Unread, NotReading, Readings, Stages, TypeInv
  <2>2. /\ ledger' \in [Requests -> [status : Statuses, by : Mutations \cup {NoOne}]]
        /\ rolled' \subseteq Requests
        /\ reach' \in {"healthy", "reconciling", "stale"}
    <3>1. \A r \in Requests : read[k].history[r] # {}
            => Projection(read[k].history[r], read[k].row[r])
                 \in [status : Statuses, by : Mutations \cup {NoOne}]
      <4> SUFFICES ASSUME NEW r \in Requests, read[k].history[r] # {}
                   PROVE  Projection(read[k].history[r], read[k].row[r])
                            \in [status : Statuses, by : Mutations \cup {NoOne}]
        OBVIOUS
      <4>1. /\ read[k].history[r] \subseteq history[r]
            /\ Accepts(read[k].history[r], read[k].row[r])
        BY <1>23 DEF Apply, TypeInv, ReadInv
      <4>2. read[k].row[r] \in [status : Statuses, by : Mutations \cup {NoOne}]
        BY <1>23 DEF Apply, TypeInv, Shapes, ReadShape, Rows
      <4> QED BY <4>1, <4>2, StatusType
    <3> QED
      BY <1>23, <3>1 DEF Apply, Stop, Failed, TypeInv, TypeOK
  <2>4. TypeOK'
    BY <1>23, <2>1, <2>2 DEF Apply, TypeInv, TypeOK, ReadShape, Unread, boundVars
  <2>5. EventInv'
    BY <1>23, EventStays, EffectShape DEF Apply, TypeInv, Grows, Unread
  <2>6. Shapes'
    BY <1>23, <2>1 DEF Apply, TypeInv, Shapes, OpShape, Reserved, DecisionMade, Unread
  <2> QED BY <2>1, <2>4, <2>5, <2>6 DEF TypeInv
<1>24. ASSUME NEW k \in Readers, ReadFails(k) PROVE TypeInv'
  <2>1. ReadShape' /\ ReadInv'
    BY <1>24, ReadChanges DEF ReadFails, Stop, Unread, NotReading, Readings, Stages, TypeInv
  <2>4. TypeOK'
    BY <1>24, <2>1 DEF ReadFails, TypeInv, TypeOK, ReadShape, Stop, Unread, boundVars
  <2>5. EventInv'
    BY <1>24, EventStays, EffectShape DEF ReadFails, TypeInv, Grows, Unread
  <2>6. Shapes'
    BY <1>24, <2>1 DEF ReadFails, TypeInv, Shapes, OpShape, Reserved, DecisionMade, Unread
  <2> QED BY <2>1, <2>4, <2>5, <2>6 DEF TypeInv
<1>25. ASSUME Outage PROVE TypeInv'
  <2>1. TypeOK' /\ Grows
    BY <1>25, EffectShape, EffectMoves
       DEF Outage, Trouble, Unread, boundVars, TypeInv, TypeOK, Grows
  <2>2. Shapes'
    BY <1>25, EffectShape
       DEF Outage, Trouble, Unread, boundVars, TypeInv, TypeOK, Shapes, ReadShape, OpShape,
           Reserved, DecisionMade
  <2> QED
    BY <1>25, <2>1, <2>2, EventStays, ReadStays DEF Outage, Trouble, Unread, boundVars, TypeInv
<1>26. ASSUME UNCHANGED vars PROVE TypeInv'
  <2>1. TypeOK' /\ Grows
    BY <1>26, EffectShape, EffectMoves
       DEF vars, boundVars, TypeInv, TypeOK, Grows
  <2>2. Shapes'
    BY <1>26, EffectShape
       DEF vars, boundVars, TypeInv, TypeOK, Shapes, ReadShape, OpShape,
           Reserved, DecisionMade
  <2> QED
    BY <1>26, <2>1, <2>2, EventStays, ReadStays DEF vars, boundVars, TypeInv
<1> QED
  BY <1>1, <1>2, <1>3, <1>4, <1>5, <1>6, <1>7, <1>8, <1>9, <1>10, <1>11, <1>12, <1>13,
     <1>14, <1>15, <1>16, <1>17, <1>18, <1>19, <1>20, <1>21, <1>22, <1>23, <1>24, <1>25, <1>26
     DEF Next, Operation, Attempt, Completion, Reading

\* The variables keep their types.
THEOREM TypeCorrect == Spec => []TypeOK
<1>1. TypeInv => TypeOK
  BY DEF TypeInv
<1> QED BY TypeInit, TypeStep, <1>1, PTL DEF Spec

(***************************************************************************)
(* Grants and the ledger.                                                  *)
(***************************************************************************)
Final == {"rejected", "revoked", "expired", "consumed"}

\* What the ledger says has happened in the Issue.
BackedRow(r) ==
  /\ ledger[r].status # "none" => history[r] # {}
  /\ ledger[r].status \in {"approved", "expired", "consumed"} => Plain("approved") \in history[r]
  /\ ledger[r].status = "rejected" => Plain("rejected") \in history[r]
  /\ ledger[r].status = "revoked" => Plain("revoked") \in history[r]
  /\ UsersOf(r) # {} => Plain("approved") \in history[r]

\* What a finished effect has left in the ledger and in the Issue.
FinishedEffects(r) ==
  /\ history[r] # {} => intent[<<"request", r>>] # "none"
  /\ intent[<<"request", r>>] = "succeeded" => ledger[r].status # "none"
  /\ intent[<<"decision", r>>] = "succeeded" => Plain(decision[r]) \in history[r]
  /\ \A k \in {"decision", "revocation"} :
       intent[<<k, r>>] # "none" => ledger[r].status # "none"

OneUser(r) == \A m \in UsersOf(r), n \in UsersOf(r) : m = n

\* What no overtaken reconcile has disturbed.
Undisturbed(r) ==
  /\ \A m \in UsersOf(r) : ledger[r] = [status |-> "consumed", by |-> m]
  /\ intent[<<"revocation", r>>] = "succeeded" => ledger[r].status = "revoked"
  /\ intent[<<"decision", r>>] = "succeeded" => ledger[r].status # "pending"
  /\ action[r] = "transition_map" /\ op.request = r
       => intent[<<"revocation", r>>] \in {"none", "succeeded"}
  /\ action[r] = "transition_map" /\ intent[<<"revocation", r>>] # "none" => UsersOf(r) = {}

Safe(r) ==
  /\ BackedRow(r) /\ FinishedEffects(r) /\ OneUser(r)
  /\ r \notin rolled => Undisturbed(r)

SafeInv == \A r \in Requests : Safe(r)

\* No request has begun.
LEMMA SafeInit == Init => SafeInv
<1> SUFFICES ASSUME Init, NEW r \in Requests PROVE Safe(r)
  BY DEF SafeInv
<1>1. UsersOf(r) = {}
  BY ApprovalsAssumption DEF Init, UsersOf, NoMutation
<1>2. /\ history[r] = {} /\ ledger[r].status = "none" /\ op.request # r
      /\ \A k \in {"request", "decision", "revocation"} : intent[<<k, r>>] = "none"
  BY ApprovalsAssumption, EffectShape DEF Init, Idle
<1> QED
  BY <1>1, <1>2 DEF Safe, BackedRow, FinishedEffects, OneUser, Undisturbed

\* A history that a reconcile accepts backs the row it makes of it.
LEMMA ProjectionBacked ==
  ASSUME TypeInv, NEW r \in Requests, NEW H, H \subseteq history[r],
         NEW row \in [status : Statuses, by : Mutations \cup {NoOne}], Accepts(H, row)
  PROVE  LET status == Projection(H, row).status
         IN  /\ status \in {"approved", "expired", "consumed"} => Plain("approved") \in H
             /\ status = "rejected" => Plain("rejected") \in H
             /\ status = "revoked" => Plain("revoked") \in H
<1>1. \A e \in H : Written(e, r)
  BY DEF TypeInv, EventInv
<1>2. ASSUME NEW t \in {"approved", "rejected", "revoked"}, t \in Types(H)
      PROVE  Plain(t) \in H
  <2>1. PICK e \in H : e.type = t
    BY <1>2 DEF Types
  <2>2. e = Plain(t)
    BY <1>1, <2>1 DEF Written
  <2> QED BY <2>1, <2>2
<1>3. "consumed" \in Types(H) => "approved" \in Types(H)
  BY DEF Accepts, Types, Consumptions
<1>4. row.status \in LocalTerminal => "approved" \in Types(H)
  BY <1>3, StatusType DEF Accepts
<1>5. Projection(H, row).status = IF row.status \in LocalTerminal THEN row.status ELSE StatusOf(H)
  BY DEF Projection, EffectiveStatus
<1>6. CASE row.status \in LocalTerminal
  BY <1>2, <1>4, <1>5, <1>6 DEF LocalTerminal
<1>7. CASE row.status \notin LocalTerminal
  BY <1>2, <1>3, <1>5, <1>7, StatusType DEF LocalTerminal
<1> QED BY <1>6, <1>7

\* A reconcile that was not overtaken leaves a final row alone, and undecided only
\* what has no decision.
LEMMA ProjectionKeeps ==
  ASSUME TypeInv, NEW r \in Requests \ rolled, Safe(r),
         history[r] # {}, Accepts(history[r], ledger[r])
  PROVE  /\ ledger[r].status \in Final => Projection(history[r], ledger[r]) = ledger[r]
         /\ intent[<<"decision", r>>] = "succeeded"
              => Projection(history[r], ledger[r]).status # "pending"
<1> DEFINE H == history[r]
           row == ledger[r]
           P == Projection(H, row)
<1>1. row \in [status : Statuses, by : Mutations \cup {NoOne}] /\ H \subseteq history[r]
  BY DEF TypeInv, TypeOK
<1>2. \A e \in H : Written(e, r)
  BY DEF TypeInv, EventInv
<1>3. ASSUME NEW e \in Consumptions(H) PROVE row = [status |-> "consumed", by |-> e.by]
  <2>1. e \in H /\ e.type = "consumed"
    BY DEF Consumptions
  <2>2. intent[<<"decision", r>>] # "none" => decision[r] \in Decisions
    BY DEF TypeInv, Shapes, DecisionMade
  <2>3. e.by \in UsersOf(r)
    BY <1>2, <2>1, <2>2 DEF Written, Decisions
  <2> QED BY <2>3 DEF Safe, Undisturbed
<1>4. P.status = IF row.status \in LocalTerminal THEN row.status ELSE StatusOf(H)
  BY DEF Projection, EffectiveStatus
<1>5. ASSUME row.status # "consumed" PROVE Consumptions(H) = {} /\ "consumed" \notin Types(H)
  <2>1. ASSUME NEW e \in Consumptions(H) PROVE FALSE
    <3>1. row = [status |-> "consumed", by |-> e.by]
      BY <1>3
    <3> QED BY <1>5, <3>1
  <2> QED BY <2>1 DEF Consumptions, Types
<1>6. P.by = row.by
  <2>1. CASE Consumptions(H) = {}
    BY <2>1 DEF Projection
  <2>2. CASE Consumptions(H) # {}
    <3> DEFINE c == CHOOSE e \in Consumptions(H) : TRUE
    <3>1. c \in Consumptions(H)
      BY <2>2
    <3>2. P.by = c.by
      BY <2>2 DEF Projection
    <3> HIDE DEF c
    <3>3. row = [status |-> "consumed", by |-> c.by]
      BY <1>3, <3>1
    <3> QED BY <3>2, <3>3
  <2> QED BY <2>1, <2>2
<1>7. ASSUME row.status \in Final PROVE P.status = row.status
  <2>1. CASE row.status \in {"expired", "consumed"}
    BY <1>4, <2>1 DEF LocalTerminal
  <2>2. CASE row.status = "revoked"
    <3>1. Plain("revoked") \in H
      BY <2>2 DEF Safe, BackedRow
    <3>2. "revoked" \in Types(H)
      BY <3>1 DEF Types
    <3> QED BY <1>1, <1>4, <1>5, <2>2, <3>2, StatusType DEF LocalTerminal
  <2>3. CASE row.status = "rejected"
    <3>1. Plain("rejected") \in H
      BY <2>3 DEF Safe, BackedRow
    <3>2. "rejected" \in Types(H) /\ "approved" \notin Types(H)
      BY <1>2, <3>1 DEF Types, Written
    <3>3. "revoked" \notin Types(H)
      BY <3>2 DEF Accepts
    <3> QED BY <1>1, <1>4, <1>5, <2>3, <3>2, <3>3, StatusType DEF LocalTerminal
  <2> QED BY <1>7, <2>1, <2>2, <2>3 DEF Final
<1>8. P = [status |-> P.status, by |-> P.by] /\ row = [status |-> row.status, by |-> row.by]
  BY <1>1 DEF Projection
<1>9. ASSUME intent[<<"decision", r>>] = "succeeded" PROVE P.status # "pending"
  <2>1. Plain(decision[r]) \in H /\ decision[r] \in Decisions
    BY <1>9 DEF Safe, FinishedEffects, TypeInv, Shapes, DecisionMade
  <2>2. decision[r] \in Types(H)
    BY <2>1 DEF Types
  <2>3. StatusOf(H) # "pending"
    BY <1>1, <2>1, <2>2, StatusType DEF Decisions
  <2> QED BY <1>4, <2>3 DEF LocalTerminal
<1> QED BY <1>6, <1>7, <1>8, <1>9

\* A step that leaves a request's row, events, effects and users alone.
LEMMA SafeElsewhere ==
  ASSUME NEW r \in Requests, Safe(r),
         UNCHANGED <<action[r], decision[r], history[r], ledger[r], UsersOf(r)>>,
         \A k \in {"request", "decision", "revocation"} : intent'[<<k, r>>] = intent[<<k, r>>],
         rolled \subseteq rolled', op'.request = r => op' = op
  PROVE  Safe(r)'
<1>1. BackedRow(r)' /\ FinishedEffects(r)' /\ OneUser(r)'
  BY DEF Safe, BackedRow, FinishedEffects, OneUser
<1>2. r \notin rolled' => Undisturbed(r)'
  BY DEF Safe, Undisturbed
<1> QED BY <1>1, <1>2 DEF Safe

\* An attempt that has not succeeded leaves everything but its intent alone.
LEMMA SafeUnsettled ==
  ASSUME TypeOK, NEW r \in Requests, Safe(r), NEW e \in Effects,
         intent[e] \in {"queued", "terminal"}, NEW S \in {"queued", "terminal"},
         intent' = [intent EXCEPT ![e] = S],
         UNCHANGED <<action, decision, history, ledger, mutation, op, rolled>>
  PROVE  Safe(r)'
<1>1. \A k \in {"request", "decision", "revocation"} :
        /\ intent'[<<k, r>>] = "none" <=> intent[<<k, r>>] = "none"
        /\ intent'[<<k, r>>] = "succeeded" <=> intent[<<k, r>>] = "succeeded"
        /\ intent'[<<k, r>>] \in {"none", "queued", "succeeded", "terminal"}
  BY EffectShape DEF TypeOK
<1>2. UsersOf(r)' = UsersOf(r)
  BY DEF UsersOf
<1>3. BackedRow(r)' /\ FinishedEffects(r)' /\ OneUser(r)'
  BY <1>1, <1>2 DEF Safe, BackedRow, FinishedEffects, OneUser
<1>4. r \notin rolled' => Undisturbed(r)'
  BY <1>1, <1>2 DEF Safe, Undisturbed
<1> QED BY <1>3, <1>4 DEF Safe

\* Every step keeps what a row, its effects and its users say of one another.
LEMMA SafeStep == TypeInv /\ SafeInv /\ [Next]_vars => SafeInv'
<1> SUFFICES ASSUME TypeInv, SafeInv, [Next]_vars, NEW r \in Requests PROVE Safe(r)'
  BY DEF SafeInv
<1> USE ApprovalsAssumption
<1>0. Safe(r)
  BY DEF SafeInv
<1>1. ASSUME NEW q \in Requests, RequestApproval(q) PROVE Safe(r)'
  BY <1>0, <1>1, EffectShape
     DEF RequestApproval, Queue,
         Safe, BackedRow, FinishedEffects, OneUser, Undisturbed, UsersOf, TypeInv, TypeOK, Shapes, Histories
<1>2. ASSUME NEW q \in Requests, NEW d \in Decisions, DecideApproval(q, d) PROVE Safe(r)'
  <2>1. CASE q # r
    <3>1. /\ \A k \in {"request", "decision", "revocation"} : intent'[<<k, r>>] = intent[<<k, r>>]
          /\ decision'[r] = decision[r]
      BY <1>2, <2>1, EffectShape DEF DecideApproval, Queue, TypeInv, TypeOK
    <3> QED BY <1>0, <1>2, <3>1, SafeElsewhere DEF DecideApproval, UsersOf
  <2>2. CASE q = r
    <3>1. /\ \A k \in {"request", "revocation"} : intent'[<<k, r>>] = intent[<<k, r>>]
          /\ intent'[<<"decision", r>>] = "queued" /\ ledger[r].status = "pending"
      BY <1>2, <2>2, EffectShape DEF DecideApproval, Queue, TypeInv, TypeOK
    <3> QED
      BY <1>0, <1>2, <3>1
         DEF DecideApproval, Safe, BackedRow, FinishedEffects, OneUser, Undisturbed, UsersOf
  <2> QED BY <2>1, <2>2
<1>3. ASSUME NEW q \in Requests, RevokeApproval(q) PROVE Safe(r)'
  BY <1>0, <1>3, EffectShape
     DEF RevokeApproval, Queue, LeaseFree, Idle, Current,
         Safe, BackedRow, FinishedEffects, OneUser, Undisturbed, UsersOf, TypeInv, TypeOK, Shapes, Histories
<1>4. ASSUME NEW m \in Mutations, NEW q \in Requests, Validate(m, q) PROVE Safe(r)'
  <2>1. UNCHANGED <<action, decision, history, ledger, mutation, intent, rolled>> /\ op'.request = q
    BY <1>4 DEF Validate
  <2>2. action[q] = "transition_map" => intent[<<"revocation", q>>] \in {"none", "succeeded"}
    BY <1>4, EffectShape DEF Validate, RevocationUnfinished, TypeInv, TypeOK
  <2>3. BackedRow(r)' /\ FinishedEffects(r)' /\ OneUser(r)'
    BY <1>0, <2>1 DEF Safe, BackedRow, FinishedEffects, OneUser, UsersOf
  <2>4. r \notin rolled' => Undisturbed(r)'
    BY <1>0, <2>1, <2>2 DEF Safe, Undisturbed, UsersOf
  <2> QED BY <2>3, <2>4 DEF Safe
<1>5. ASSUME Reserve PROVE Safe(r)'
  <2> DEFINE m == op.by
             q == op.request
             kind == IF action[q] = "transition_map" THEN "stage" ELSE "consumption"
  <2>1. /\ m \in Mutations /\ q \in Requests /\ mutation[m].request = NoOne
        /\ kind \in {"stage", "consumption"} /\ <<kind, m>> \in Effects
        /\ ledger[q].status = "approved" /\ UsersOf(q) = {}
    <3>1. op # Idle /\ ledger[q].status = "approved" /\ Unused(q)
      BY <1>5 DEF Reserve
    <3>2. OpShape
      BY DEF TypeInv, Shapes
    <3>3. m \in Mutations /\ q \in Requests /\ mutation[m] = NoMutation
      BY <3>1, <3>2 DEF OpShape
    <3>4. kind \in {"stage", "consumption"}
      OBVIOUS
    <3>5. <<kind, m>> \in Effects
      <4> HIDE DEF m, kind
      <4> QED BY <3>3, <3>4, EffectShape
    <3>6. mutation[m].request = NoOne /\ UsersOf(q) = {}
      BY <3>1, <3>3 DEF Unused, NoMutation
    <3> QED BY <3>1, <3>3, <3>4, <3>5, <3>6
  <2>2. /\ intent' = [intent EXCEPT ![<<kind, m>>] = "queued"]
        /\ mutation'[m].request = q
        /\ \A n \in Mutations : n # m => mutation'[n] = mutation[n]
        /\ ledger' = [ledger EXCEPT ![q] = [status |-> "consumed", by |-> m]]
        /\ UNCHANGED <<action, decision, history, rolled>>
        /\ op' = Idle /\ op.request = q
    BY <1>5, <2>1 DEF Reserve, Queue, TypeInv, TypeOK
  <2> HIDE DEF m, q, kind
  <2>3. \A k \in {"request", "decision", "revocation"} : intent'[<<k, r>>] = intent[<<k, r>>]
    BY <2>1, <2>2, EffectShape DEF TypeInv, TypeOK
  <2>4. CASE q # r
    <3>1. UsersOf(r)' = UsersOf(r)
      BY <2>1, <2>2, <2>4 DEF UsersOf
    <3>2. ledger'[r] = ledger[r]
      BY <2>2, <2>4 DEF TypeInv, TypeOK
    <3>3. op'.request # r
      BY <2>2 DEF Idle
    <3> QED BY <1>0, <2>2, <2>3, <3>1, <3>2, <3>3, SafeElsewhere
  <2>5. CASE q = r
    <3>1. UsersOf(r)' = {m}
      BY <2>1, <2>2, <2>5 DEF UsersOf
    <3>2. ledger'[r] = [status |-> "consumed", by |-> m] /\ op'.request # r
      BY <2>2, <2>5 DEF TypeInv, TypeOK, Idle
    <3>3. BackedRow(r)' /\ FinishedEffects(r)' /\ OneUser(r)'
      BY <1>0, <2>1, <2>2, <2>3, <2>5, <3>1, <3>2
         DEF Safe, BackedRow, FinishedEffects, OneUser
    <3>4. r \notin rolled => intent[<<"revocation", r>>] # "succeeded"
      BY <1>0, <2>1, <2>5 DEF Safe, Undisturbed
    <3>5. r \notin rolled /\ action[r] = "transition_map" => intent[<<"revocation", r>>] = "none"
      BY <1>0, <2>2, <2>5, <3>4 DEF Safe, Undisturbed
    <3>6. r \notin rolled' => Undisturbed(r)'
      BY <2>2, <2>3, <3>1, <3>2, <3>4, <3>5 DEF Undisturbed
    <3> QED BY <3>3, <3>6 DEF Safe
  <2> QED BY <2>4, <2>5
<1>6. ASSUME Abandon PROVE Safe(r)'
  BY <1>0, <1>6, EffectShape
     DEF Abandon, Idle,
         Safe, BackedRow, FinishedEffects, OneUser, Undisturbed, UsersOf, TypeInv, TypeOK, Shapes, Histories
<1>7. ASSUME NEW q \in Requests, Expire(q) PROVE Safe(r)'
  BY <1>0, <1>7, EffectShape
     DEF Expire, Expirable,
         Safe, BackedRow, FinishedEffects, OneUser, Undisturbed, UsersOf, TypeInv, TypeOK, Shapes, Histories
<1>8. ASSUME NEW q \in Requests, PassExpiry(q) PROVE Safe(r)'
  BY <1>0, <1>8, EffectShape
     DEF PassExpiry,
         Safe, BackedRow, FinishedEffects, OneUser, Undisturbed, UsersOf, TypeInv, TypeOK, Shapes, Histories
<1>9. ASSUME Park PROVE Safe(r)'
  BY <1>0, <1>9, EffectShape
     DEF Park,
         Safe, BackedRow, FinishedEffects, OneUser, Undisturbed, UsersOf, TypeInv, TypeOK, Shapes, Histories
<1>10. ASSUME NEW e \in Effects, Dispatch(e) PROVE Safe(r)'
  BY <1>0, <1>10, EffectShape
     DEF Dispatch,
         Safe, BackedRow, FinishedEffects, OneUser, Undisturbed, UsersOf, TypeInv, TypeOK, Shapes, Histories
<1>11. ASSUME NEW e \in Effects, Write(e) PROVE Safe(r)'
  <2>1. UNCHANGED <<mutation, action, decision, ledger, intent, op, rolled>>
    BY <1>11 DEF Write
  <2>2. ASSUME NEW q \in Requests, NEW event, WriteEvent(q, event),
               intent[<<"request", q>>] # "none"
        PROVE  Safe(r)'
    <3>1. /\ history[r] \subseteq history'[r]
          /\ history'[r] # {} => intent[<<"request", r>>] # "none"
      BY <1>0, <2>2 DEF WriteEvent, TypeInv, Shapes, Histories, Safe, FinishedEffects
    <3> QED
      BY <1>0, <2>1, <3>1
         DEF Safe, BackedRow, FinishedEffects, OneUser, Undisturbed, UsersOf
  <2>3. ASSUME UNCHANGED history PROVE Safe(r)'
    BY <1>0, <2>1, <2>3, SafeElsewhere DEF UsersOf
  <2>4. intent[e] = "queued"
    BY <1>11 DEF Write, TypeInv, TypeOK
  <2>5. ASSUME NEW q \in Requests, ledger[q].status # "none" \/ UsersOf(q) # {}
        PROVE  intent[<<"request", q>>] # "none"
    BY <2>5 DEF SafeInv, Safe, BackedRow, FinishedEffects
  <2>6. CASE e[1] = "request"
    BY <1>11, <2>2, <2>4, <2>6, EffectShape DEF Write
  <2>7. CASE e[1] \in {"decision", "revocation"}
    <3>1. PICK q \in Requests : q = e[2] /\ e = <<e[1], q>>
      BY <2>7, EffectShape
    <3>2. ledger[q].status # "none"
      BY <2>4, <2>7, <3>1 DEF SafeInv, Safe, FinishedEffects
    <3>3. \E event : WriteEvent(q, event)
      BY <1>11, <2>7, <3>1 DEF Write
    <3> QED BY <2>2, <2>5, <3>2, <3>3
  <2>8. CASE e[1] = "consumption"
    <3>1. PICK m \in Mutations : m = e[2] /\ e = <<e[1], m>>
      BY <2>8, EffectShape
    <3>2. mutation[m].request \in Requests
      BY <2>4, <2>8, <3>1 DEF TypeInv, Shapes, Reserved
    <3>3. m \in UsersOf(mutation[m].request)
      BY DEF UsersOf
    <3>4. WriteEvent(mutation[m].request, ConsumptionEvent(m))
      BY <1>11, <2>8, <3>1 DEF Write
    <3> QED BY <2>2, <2>5, <3>2, <3>3, <3>4
  <2>9. CASE e[1] \in {"stage", "close"}
    BY <1>11, <2>3, <2>9 DEF Write
  <2> QED BY <2>6, <2>7, <2>8, <2>9, EffectShape
<1>12. ASSUME NEW e \in Effects, Fail(e) PROVE Safe(r)'
  BY <1>0, <1>12, SafeUnsettled DEF Fail, TypeInv, TypeOK
<1>13. ASSUME NEW e \in Effects, Refuse(e) PROVE Safe(r)'
  BY <1>0, <1>13, SafeUnsettled DEF Refuse, Conflict, TypeInv, TypeOK
<1>14. ASSUME NEW e \in Effects, Repair(e) PROVE Safe(r)'
  BY <1>0, <1>14, SafeUnsettled DEF Repair, Queue, TypeInv, TypeOK
<1>15. ASSUME NEW q \in Requests, CompleteRequest(q) PROVE Safe(r)'
  <2> DEFINE e == <<"request", q>>
  <2>1. /\ e \in Effects /\ e \in busy /\ intent[e] = "queued" /\ Confirmed(e)
        /\ UNCHANGED <<mutation, action, decision, history, op, rolled>>
        /\ UsersOf(r)' = UsersOf(r)
    BY <1>15, EffectShape DEF CompleteRequest, Unsettled, UsersOf, TypeInv, TypeOK
  <2>2. CASE q # r
    <3>0. \A x \in Effects : x # e => intent'[x] = intent[x]
      <4>1. Completed(e) \/ Conflict(e)
        BY <1>15 DEF CompleteRequest
      <4> HIDE DEF e
      <4> QED BY <2>1, <4>1, AttemptEnds DEF TypeInv
    <3>1. \A k \in {"request", "decision", "revocation"} : intent'[<<k, r>>] = intent[<<k, r>>]
      BY <2>2, <3>0, EffectShape
    <3>2. ledger'[r] = ledger[r]
      BY <1>15, <2>2 DEF CompleteRequest, TypeInv, TypeOK
    <3> QED BY <1>0, <2>1, <3>1, <3>2, SafeElsewhere
  <2>3. CASE q = r
    <3>1. /\ \A k \in {"decision", "revocation"} : intent'[<<k, r>>] = intent[<<k, r>>]
          /\ intent'[<<"request", r>>] \in {"queued", "succeeded"}
      BY <1>15, <2>1, <2>3, EffectShape DEF CompleteRequest, Completed, TypeInv, TypeOK
    <3>2. Plain("requested") \in history[r]
      BY <2>1, <2>3 DEF Confirmed
    <3>3. IF ledger[r].status = "none" THEN ledger'[r] = [status |-> "pending", by |-> NoOne]
          ELSE ledger'[r] = ledger[r]
      BY <1>15, <2>3 DEF CompleteRequest, RequestIsNew, TypeInv, TypeOK
    <3>4. BackedRow(r)' /\ FinishedEffects(r)' /\ OneUser(r)'
      BY <1>0, <2>1, <3>1, <3>2, <3>3 DEF Safe, BackedRow, FinishedEffects, OneUser
    <3>5. r \notin rolled' => Undisturbed(r)'
      BY <1>0, <2>1, <3>1, <3>3 DEF Safe, FinishedEffects, Undisturbed
    <3> QED BY <3>4, <3>5 DEF Safe
  <2> QED BY <2>2, <2>3
<1>16. ASSUME NEW q \in Requests, CompleteDecision(q) PROVE Safe(r)'
  <2> DEFINE e == <<"decision", q>>
  <2>1. /\ e \in Effects /\ e \in busy /\ intent[e] = "queued" /\ Confirmed(e)
        /\ UNCHANGED <<mutation, action, decision, history, op, rolled>>
        /\ UsersOf(r)' = UsersOf(r)
    BY <1>16, EffectShape DEF CompleteDecision, Unsettled, UsersOf, TypeInv, TypeOK
  <2>2. CASE q # r
    <3>0. \A x \in Effects : x # e => intent'[x] = intent[x]
      <4>1. Completed(e) \/ Conflict(e)
        BY <1>16 DEF CompleteDecision
      <4> HIDE DEF e
      <4> QED BY <2>1, <4>1, AttemptEnds DEF TypeInv
    <3>1. \A k \in {"request", "decision", "revocation"} : intent'[<<k, r>>] = intent[<<k, r>>]
      BY <2>2, <3>0, EffectShape
    <3>2. ledger'[r] = ledger[r]
      BY <1>16, <2>2 DEF CompleteDecision, TypeInv, TypeOK
    <3> QED BY <1>0, <2>1, <3>1, <3>2, SafeElsewhere
  <2>3. CASE q = r
    <3>1. /\ \A k \in {"request", "revocation"} : intent'[<<k, r>>] = intent[<<k, r>>]
          /\ intent'[<<"decision", r>>] \in {"queued", "succeeded", "terminal"}
      BY <1>16, <2>1, <2>3, EffectShape DEF CompleteDecision, Completed, Conflict, TypeInv, TypeOK
    <3>2. Plain(decision[r]) \in history[r] /\ decision[r] \in Decisions
      BY <2>1, <2>3 DEF Confirmed, TypeInv, Shapes, DecisionMade
    <3>3. \/ /\ ledger[r].status = "pending" /\ ledger'[r].status = decision[r]
          \/ /\ ledger[r].status # "pending" /\ ledger'[r] = ledger[r]
      BY <1>16, <2>3 DEF CompleteDecision, DecisionApplies, TypeInv, TypeOK
    <3>4. BackedRow(r)'
      BY <1>0, <2>1, <3>2, <3>3 DEF Safe, BackedRow, Decisions
    <3>5. FinishedEffects(r)' /\ OneUser(r)'
      BY <1>0, <2>1, <2>3, <3>1, <3>2, <3>3 DEF Safe, FinishedEffects, OneUser, Decisions
    <3>6. r \notin rolled' => Undisturbed(r)'
      BY <1>0, <2>1, <3>1, <3>2, <3>3 DEF Safe, Undisturbed, Decisions
    <3> QED BY <3>4, <3>5, <3>6 DEF Safe
  <2> QED BY <2>2, <2>3
<1>17. ASSUME NEW q \in Requests, CompleteRevocation(q) PROVE Safe(r)'
  <2> DEFINE e == <<"revocation", q>>
  <2>1. /\ e \in Effects /\ e \in busy /\ intent[e] = "queued" /\ Confirmed(e)
        /\ UNCHANGED <<mutation, action, decision, history, op, rolled>>
        /\ UsersOf(r)' = UsersOf(r)
    BY <1>17, EffectShape DEF CompleteRevocation, Unsettled, UsersOf, TypeInv, TypeOK
  <2>2. CASE q # r
    <3>0. \A x \in Effects : x # e => intent'[x] = intent[x]
      <4>1. Completed(e) \/ Conflict(e)
        BY <1>17 DEF CompleteRevocation
      <4> HIDE DEF e
      <4> QED BY <2>1, <4>1, AttemptEnds DEF TypeInv
    <3>1. \A k \in {"request", "decision", "revocation"} : intent'[<<k, r>>] = intent[<<k, r>>]
      BY <2>2, <3>0, EffectShape
    <3>2. ledger'[r] = ledger[r]
      BY <1>17, <2>2 DEF CompleteRevocation, TypeInv, TypeOK
    <3> QED BY <1>0, <2>1, <3>1, <3>2, SafeElsewhere
  <2>3. CASE q = r
    <3>1. /\ \A k \in {"request", "decision"} : intent'[<<k, r>>] = intent[<<k, r>>]
          /\ intent'[<<"revocation", r>>] \in {"queued", "succeeded", "terminal"}
          /\ intent'[<<"revocation", r>>] = "succeeded" => ledger'[r].status = "revoked"
      BY <1>17, <2>1, <2>3, EffectShape DEF CompleteRevocation, Completed, Conflict, TypeInv, TypeOK
    <3>2. Plain("revoked") \in history[r]
      BY <2>1, <2>3 DEF Confirmed
    <3>3. \/ /\ ledger[r].status = "approved" /\ ledger'[r].status = "revoked"
          \/ /\ ledger[r].status # "approved" /\ ledger'[r] = ledger[r]
      BY <1>17, <2>3 DEF CompleteRevocation, TypeInv, TypeOK
    <3>4. BackedRow(r)'
      BY <1>0, <2>1, <3>2, <3>3 DEF Safe, BackedRow
    <3>5. FinishedEffects(r)' /\ OneUser(r)'
      BY <1>0, <2>1, <2>3, <3>1, <3>2, <3>3 DEF Safe, FinishedEffects, OneUser
    <3>6. r \notin rolled' => Undisturbed(r)'
      BY <1>0, <2>1, <2>3, <3>1, <3>3 DEF Safe, Undisturbed
    <3> QED BY <3>4, <3>5, <3>6 DEF Safe
  <2> QED BY <2>2, <2>3
<1>18. ASSUME NEW m \in Mutations, CompleteConsumption(m) PROVE Safe(r)'
  BY <1>0, <1>18, EffectShape
     DEF CompleteConsumption, Unsettled, Conflict,
         Safe, BackedRow, FinishedEffects, OneUser, Undisturbed, UsersOf, TypeInv, TypeOK, Shapes, Histories
<1>19. ASSUME NEW e \in Effects, CompleteMutation(e) PROVE Safe(r)'
  <2>1. UNCHANGED <<action, decision, history, ledger, op, rolled>>
    BY <1>19 DEF CompleteMutation, Unsettled
  <2>2. \A k \in {"request", "decision", "revocation"} : intent'[<<k, r>>] = intent[<<k, r>>]
    <3>1. Completed(e) /\ e[1] \in {"stage", "close"}
      BY <1>19 DEF CompleteMutation
    <3>2. \A x \in Effects : x # e => intent'[x] = intent[x]
      BY <3>1, AttemptEnds DEF TypeInv
    <3>3. \A k \in {"request", "decision", "revocation"} : <<k, r>> \in Effects /\ <<k, r>> # e
      BY <3>1, EffectShape
    <3> QED BY <3>2, <3>3
  <2>3. UsersOf(r)' = UsersOf(r)
    <3>1. mutation \in MutationRows
      BY DEF TypeInv, TypeOK, MutationRows
    <3>2. PICK m \in Mutations : mutation' = [mutation EXCEPT ![m].state = "confirmed"]
      BY <1>19, EffectShape DEF CompleteMutation
    <3> QED BY <3>1, <3>2, ConfirmType DEF UsersOf
  <2> QED BY <1>0, <2>1, <2>2, <2>3, SafeElsewhere
<1>20. ASSUME NEW k \in Readers, NEW via \in {"refresh", "bind"}, StartRead(k, via) PROVE Safe(r)'
  BY <1>0, <1>20, EffectShape
     DEF StartRead, Unread,
         Safe, BackedRow, FinishedEffects, OneUser, Undisturbed, UsersOf, TypeInv, TypeOK, Shapes, Histories
<1>21. ASSUME NEW k \in Readers, Fetch(k) PROVE Safe(r)'
  BY <1>0, <1>21, EffectShape
     DEF Fetch, Unread,
         Safe, BackedRow, FinishedEffects, OneUser, Undisturbed, UsersOf, TypeInv, TypeOK, Shapes, Histories
<1>22. ASSUME NEW k \in Readers, Project(k) PROVE Safe(r)'
  BY <1>0, <1>22, EffectShape
     DEF Project, Unread,
         Safe, BackedRow, FinishedEffects, OneUser, Undisturbed, UsersOf, TypeInv, TypeOK, Shapes, Histories
<1>23. ASSUME NEW k \in Readers, Apply(k) PROVE Safe(r)'
  <2> DEFINE H == read[k].history[r]
             row == read[k].row[r]
  <2>1. /\ UNCHANGED <<action, decision, history, mutation, intent, op>>
        /\ rolled \subseteq rolled' /\ UsersOf(r)' = UsersOf(r)
    BY <1>23 DEF Apply, Unread, UsersOf
  <2>2. CASE ledger'[r] = ledger[r]
    BY <1>0, <2>1, <2>2, SafeElsewhere
  <2>3. CASE ledger'[r] # ledger[r]
    <3>1. /\ H # {} /\ ledger'[r] = Projection(H, row)
          /\ r \notin rolled' => ~Overtaken(k, r)
      BY <1>23, <2>3 DEF Apply, TypeInv, TypeOK
    <3>2. H \subseteq history[r] /\ Accepts(H, row)
      BY <1>23, <3>1 DEF Apply, TypeInv, ReadInv
    <3>3. row \in [status : Statuses, by : Mutations \cup {NoOne}]
      BY <1>23 DEF Apply, TypeInv, Shapes, ReadShape, Rows
    <3>4. BackedRow(r)'
      <4>1. Projection(H, row).status # "none"
        BY <3>2, <3>3, StatusType
      <4> HIDE DEF H, row
      <4> QED
        BY <1>0, <2>1, <3>1, <3>2, <3>3, <4>1, ProjectionBacked DEF Safe, BackedRow
    <3>5. FinishedEffects(r)' /\ OneUser(r)'
      <4>1. Projection(H, row).status # "none"
        BY <3>2, <3>3, StatusType
      <4> HIDE DEF H, row
      <4> QED BY <1>0, <2>1, <3>1, <4>1 DEF Safe, FinishedEffects, OneUser
    <3>6. ASSUME r \notin rolled' PROVE Undisturbed(r)'
      <4>1. r \notin rolled /\ H = history[r] /\ row = ledger[r]
        BY <2>1, <2>3, <3>1, <3>6 DEF Overtaken
      <4>2. /\ ledger[r].status \notin Final
            /\ intent[<<"decision", r>>] = "succeeded" => ledger'[r].status # "pending"
        BY <1>0, <2>3, <3>1, <3>2, <4>1, ProjectionKeeps
      <4> QED
        BY <1>0, <2>1, <4>1, <4>2 DEF Safe, Undisturbed, Final
    <3> QED BY <3>4, <3>5, <3>6 DEF Safe
  <2> QED BY <2>2, <2>3
<1>24. ASSUME NEW k \in Readers, ReadFails(k) PROVE Safe(r)'
  BY <1>0, <1>24, EffectShape
     DEF ReadFails, Unread,
         Safe, BackedRow, FinishedEffects, OneUser, Undisturbed, UsersOf, TypeInv, TypeOK, Shapes, Histories
<1>25. ASSUME Outage PROVE Safe(r)'
  BY <1>0, <1>25, EffectShape
     DEF Outage, Unread,
         Safe, BackedRow, FinishedEffects, OneUser, Undisturbed, UsersOf, TypeInv, TypeOK, Shapes, Histories
<1>26. ASSUME UNCHANGED vars PROVE Safe(r)'
  BY <1>0, <1>26, EffectShape
     DEF vars, boundVars,
         Safe, BackedRow, FinishedEffects, OneUser, Undisturbed, UsersOf, TypeInv, TypeOK, Shapes, Histories
<1> QED
  BY <1>1, <1>2, <1>3, <1>4, <1>5, <1>6, <1>7, <1>8, <1>9, <1>10, <1>11, <1>12, <1>13,
     <1>14, <1>15, <1>16, <1>17, <1>18, <1>19, <1>20, <1>21, <1>22, <1>23, <1>24, <1>25, <1>26
     DEF Next, Operation, Attempt, Completion, Reading

\* A final row outlives every step, of an overtaken reconcile perhaps excepted.
LEMMA FinalStep ==
  ASSUME TypeInv, SafeInv, [Next]_vars, NEW r \in Requests \ rolled',
         ledger[r].status \in Final
  PROVE  ledger'[r] = ledger[r]
<1>1. CASE UNCHANGED ledger
  BY <1>1
<1>2. ASSUME Reserve PROVE ledger'[r] = ledger[r]
  BY <1>2 DEF Reserve, Final, TypeInv, TypeOK
<1>3. ASSUME NEW q \in Requests, Expire(q) PROVE ledger'[r] = ledger[r]
  BY <1>3 DEF Expire, Expirable, Final, TypeInv, TypeOK
<1>4. ASSUME NEW q \in Requests, CompleteRequest(q) PROVE ledger'[r] = ledger[r]
  BY <1>4 DEF CompleteRequest, RequestIsNew, Final, TypeInv, TypeOK
<1>5. ASSUME NEW q \in Requests, CompleteDecision(q) PROVE ledger'[r] = ledger[r]
  BY <1>5 DEF CompleteDecision, DecisionApplies, Final, TypeInv, TypeOK
<1>6. ASSUME NEW q \in Requests, CompleteRevocation(q) PROVE ledger'[r] = ledger[r]
  BY <1>6 DEF CompleteRevocation, Final, TypeInv, TypeOK
<1>7. ASSUME NEW k \in Readers, Apply(k) PROVE ledger'[r] = ledger[r]
  <2> SUFFICES ASSUME ledger'[r] # ledger[r] PROVE FALSE
    OBVIOUS
  <2>1. /\ read[k].history[r] # {}
        /\ ledger'[r] = Projection(read[k].history[r], read[k].row[r])
        /\ ~Overtaken(k, r) /\ rolled \subseteq rolled'
    BY <1>7 DEF Apply, TypeInv, TypeOK
  <2>2. Accepts(read[k].history[r], read[k].row[r])
    BY <1>7, <2>1 DEF Apply, TypeInv, ReadInv
  <2>3. read[k].history[r] = history[r] /\ read[k].row[r] = ledger[r]
    BY <2>1 DEF Overtaken
  <2> QED BY <2>1, <2>2, <2>3, ProjectionKeeps DEF SafeInv
<1> QED
  BY <1>1, <1>2, <1>3, <1>4, <1>5, <1>6, <1>7
     DEF Next, Operation, Attempt, Completion, Reading, RequestApproval, DecideApproval,
         RevokeApproval, Validate, Abandon, PassExpiry, Park, Dispatch, Write, Fail, Refuse,
         Repair, CompleteConsumption, CompleteMutation, StartRead, Fetch, Project, ReadFails,
         Outage, vars, Unsettled, Unread

\* A protected mutation is reserved only under an approval the Issue shows, for any
\* number of requests, mutations and reconciles (_transition_map, cancel_map).
THEOREM GrantBacked == Spec => []GrantIsReal
<1>1. SafeInv => GrantIsReal
  BY DEF SafeInv, Safe, BackedRow, GrantIsReal
<1> QED BY TypeInit, TypeStep, SafeInit, SafeStep, <1>1, PTL DEF Spec

\* A grant is used by one mutation (reserve_protected_mutation).
THEOREM GrantUsedOnce == Spec => []UsedOnce
<1>1. SafeInv => UsedOnce
  <2> SUFFICES ASSUME SafeInv, NEW r \in Requests PROVE Cardinality(UsersOf(r)) <= 1
    BY DEF UsedOnce
  <2>1. OneUser(r)
    BY DEF SafeInv, Safe
  <2>2. CASE UsersOf(r) = {}
    BY <2>2, FS_EmptySet
  <2>3. CASE UsersOf(r) # {}
    <3>1. PICK m \in UsersOf(r) : TRUE
      BY <2>3
    <3>2. \A n \in UsersOf(r) : n = m
      BY <2>1, <3>1 DEF OneUser
    <3>3. UsersOf(r) = {m}
      <4> HIDE DEF UsersOf
      <4> QED BY <3>1, <3>2
    <3>4. Cardinality({m}) = 1
      BY FS_Singleton
    <3> QED BY <3>3, <3>4
  <2> QED BY <2>2, <2>3
<1> QED BY TypeInit, TypeStep, SafeInit, SafeStep, <1>1, PTL DEF Spec

\* A transition never uses a grant whose revocation was accepted before
\* (_approval_revocation_unfinished).
THEOREM RevocationHolds == Spec => []RevocationStops
<1>1. SafeInv => RevocationStops
  BY DEF SafeInv, Safe, Undisturbed, RevocationStops
<1> QED BY TypeInit, TypeStep, SafeInit, SafeStep, <1>1, PTL DEF Spec

\* A final status never changes again, unless an overtaken reconcile overwrites it
\* (the status guards of storage.py, _approval_reconcile_projections).
THEOREM FinalStatusStays == Spec => FinalStays
<1>1. TypeInv /\ SafeInv /\ [Next]_vars
        => [\A r \in Requests \ rolled' :
              ledger[r].status \in {"rejected", "revoked", "expired", "consumed"}
                => ledger'[r] = ledger[r]]_vars
  BY FinalStep DEF Final
<1> QED BY TypeInit, TypeStep, SafeInit, SafeStep, <1>1, PTL DEF Spec, FinalStays

\* When every effect of a request has succeeded, the ledger says what the Issue says
\* or has closed the approval locally (_complete_approval_effect, reconciles).
THEOREM LedgerFollows == Spec => []LedgerAgrees
<1>1. ASSUME TypeInv, SafeInv, NEW r \in Requests \ rolled, Settled(r)
      PROVE  IF ledger[r].status \in LocalTerminal
             THEN StatusOf(history[r]) \in {"approved", "consumed"}
             ELSE IF history[r] = {} THEN ledger[r].status = "none"
             ELSE ledger[r].status = StatusOf(history[r])
  <2> DEFINE H == history[r]
             T == Types(H)
  <2>1. Undisturbed(r) /\ BackedRow(r) /\ FinishedEffects(r)
    BY <1>1 DEF SafeInv, Safe
  <2>2. \A k \in {"request", "decision", "revocation"} :
          intent[<<k, r>>] \in {"none", "succeeded"}
    BY <1>1, EffectShape DEF Settled
  <2>3. \A e \in H : Written(e, r)
    BY <1>1 DEF TypeInv, EventInv
  <2>4. intent[<<"decision", r>>] # "none" => decision[r] \in Decisions
    BY <1>1 DEF TypeInv, Shapes, DecisionMade
  <2>5. ASSUME "revoked" \in T PROVE ledger[r].status = "revoked"
    <3>1. intent[<<"revocation", r>>] # "none"
      BY <2>3, <2>4, <2>5 DEF Types, Written, Decisions
    <3> QED BY <2>1, <2>2, <3>1 DEF Undisturbed
  <2>6. ASSUME "consumed" \in T PROVE ledger[r].status = "consumed"
    <3>1. PICK e \in H : e.type = "consumed"
      BY <2>6 DEF Types
    <3>2. Written(e, r)
      BY <2>3
    <3>3. e.by \in UsersOf(r)
      <4>1. e # Plain("requested") /\ e # Plain("revoked")
        BY <3>1
      <4>2. intent[<<"decision", r>>] # "none" => e # Plain(decision[r])
        BY <2>4, <3>1 DEF Decisions
      <4> QED BY <3>2, <4>1, <4>2 DEF Written
    <3>4. \A m \in UsersOf(r) : ledger[r] = [status |-> "consumed", by |-> m]
      BY <2>1 DEF Undisturbed
    <3>5. ledger[r] = [status |-> "consumed", by |-> e.by]
      BY <3>3, <3>4
    <3> QED BY <3>5
  <2>7. ASSUME NEW d \in Decisions, d \in T
        PROVE  /\ decision[r] = d /\ ledger[r].status \notin {"none", "pending"}
    <3>1. decision[r] = d /\ intent[<<"decision", r>>] # "none"
      BY <2>3, <2>7 DEF Types, Written, Decisions
    <3> QED BY <2>1, <2>2, <3>1 DEF Undisturbed, FinishedEffects
  <2>8. ledger[r].status \in Statuses
    BY <1>1 DEF TypeInv, TypeOK
  <2>9. \A t \in Statuses : Plain(t) \in H => t \in T
    BY DEF Types
  <2>10. /\ ledger[r].status \in {"approved", "expired", "consumed"} => "approved" \in T
         /\ ledger[r].status = "rejected" => "rejected" \in T
         /\ ledger[r].status = "revoked" => "revoked" \in T
         /\ ledger[r].status # "none" => H # {}
    BY <2>1, <2>9 DEF BackedRow, Statuses, Decisions
  <2>11. H # {} => ledger[r].status # "none"
    BY <2>1, <2>2 DEF FinishedEffects
  <2>12. ~("approved" \in T /\ "rejected" \in T)
    BY <2>7 DEF Decisions
  <2>13. \A d \in Decisions : d \in T => ledger[r].status \notin {"none", "pending"}
    BY <2>7
  <2>14. /\ ledger[r] \in [status : Statuses, by : Mutations \cup {NoOne}]
         /\ H \subseteq history[r]
    BY <1>1 DEF TypeInv, TypeOK
  <2>15. /\ StatusOf(H) \in {"pending", "approved", "rejected", "revoked", "consumed"}
         /\ StatusOf(H) = "consumed" <=> "consumed" \in T
         /\ StatusOf(H) = "revoked" <=> "revoked" \in T /\ "consumed" \notin T
         /\ StatusOf(H) = "approved" => "approved" \in T
         /\ StatusOf(H) = "rejected" => "rejected" \in T
         /\ StatusOf(H) = "pending" => T \subseteq {"requested"}
    BY <1>1, <2>14, StatusType
  <2> HIDE DEF T, H
  <2>16. CASE ledger[r].status \in LocalTerminal
    <3>1. "approved" \in T /\ "revoked" \notin T
      BY <2>5, <2>10, <2>16 DEF LocalTerminal
    <3>2. StatusOf(H) \in {"approved", "consumed"}
      BY <2>12, <2>15, <3>1
    <3> QED BY <2>16, <3>2 DEF H
  <2>17. CASE ledger[r].status \notin LocalTerminal
    <3>1. CASE H = {}
      BY <2>10, <2>17, <3>1 DEF H
    <3>2. CASE H # {}
      <4>1. ledger[r].status \in {"pending", "approved", "rejected", "revoked"}
        BY <2>8, <2>11, <2>17, <3>2 DEF Statuses, Decisions, LocalTerminal
      <4>2. "consumed" \notin T /\ ("revoked" \in T <=> ledger[r].status = "revoked")
        BY <2>5, <2>6, <2>10, <4>1
      <4>3. ledger[r].status = StatusOf(H)
        BY <2>10, <2>12, <2>13, <2>15, <4>1, <4>2 DEF Decisions
      <4> QED BY <2>17, <3>2, <4>3 DEF H
    <3> QED BY <3>1, <3>2
  <2> QED BY <2>16, <2>17
<1>2. TypeInv /\ SafeInv => LedgerAgrees
  BY <1>1 DEF LedgerAgrees
<1> QED BY TypeInit, TypeStep, SafeInit, SafeStep, <1>2, PTL DEF Spec

(***************************************************************************)
(* The refinement of ApprovalPromise.                                      *)
(***************************************************************************)
Entitled(m, a) == \E r \in Requests : mutation[m].request = r /\ action[r] = a

\* What the effects that were queued rest on: a request opens its history, a revocation
\* follows the approval, and the effects of a mutation are those of its grant; a close
\* follows the event of its consumption.
OnIssue(r) ==
  /\ history[r] # {} => Plain("requested") \in history[r]
  /\ intent[<<"revocation", r>>] # "none" => Plain("approved") \in history[r]

OfGrant(m) ==
  /\ intent[<<"stage", m>>] # "none" => Entitled(m, "transition_map")
  /\ intent[<<"consumption", m>>] # "none" => Entitled(m, "cancel_map")
  /\ intent[<<"close", m>>] # "none" =>
       Entitled(m, "cancel_map") /\ "consumed" \in Types(history[mutation[m].request])

ShownInv == (\A r \in Requests : OnIssue(r)) /\ (\A m \in Mutations : OfGrant(m))

\* No effect is queued at first.
LEMMA ShownInit == Init => ShownInv
  BY EffectShape DEF Init, ShownInv, OnIssue, OfGrant

\* Only four operations and completions queue an effect that was not there.
LEMMA Enters ==
  ASSUME TypeInv, [Next]_vars, NEW e \in Effects, intent[e] = "none", intent'[e] # "none"
  PROVE  \/ e[1] = "request" /\ RequestApproval(e[2])
         \/ e[1] = "decision" /\ \E d \in Decisions : DecideApproval(e[2], d)
         \/ e[1] = "revocation" /\ RevokeApproval(e[2])
         \/ e[1] \in {"stage", "consumption"} /\ e[2] = op.by /\ Reserve
         \/ e[1] = "close" /\ CompleteConsumption(e[2])
<1> DEFINE Goal == \/ e[1] = "request" /\ RequestApproval(e[2])
                   \/ e[1] = "decision" /\ \E d \in Decisions : DecideApproval(e[2], d)
                   \/ e[1] = "revocation" /\ RevokeApproval(e[2])
                   \/ e[1] \in {"stage", "consumption"} /\ e[2] = op.by /\ Reserve
                   \/ e[1] = "close" /\ CompleteConsumption(e[2])
<1>0. intent \in [Effects -> {"none", "queued", "succeeded", "terminal"}]
  BY DEF TypeInv, TypeOK
<1>1. ASSUME NEW x \in Effects, NEW S, intent' = [intent EXCEPT ![x] = S] PROVE e = x
  BY <1>0, <1>1
<1>2. ASSUME NEW r \in Requests, RequestApproval(r) PROVE Goal
  <2>1. e = <<"request", r>>
    BY <1>1, <1>2, EffectShape DEF RequestApproval, Queue
  <2> QED BY <1>2, <2>1
<1>3. ASSUME NEW r \in Requests, NEW d \in Decisions, DecideApproval(r, d) PROVE Goal
  <2>1. e = <<"decision", r>>
    BY <1>1, <1>3, EffectShape DEF DecideApproval, Queue
  <2> QED BY <1>3, <2>1
<1>4. ASSUME NEW r \in Requests, RevokeApproval(r) PROVE Goal
  <2>1. e = <<"revocation", r>>
    BY <1>1, <1>4, EffectShape DEF RevokeApproval, Queue
  <2> QED BY <1>4, <2>1
<1>5. ASSUME Reserve PROVE Goal
  <2>1. op.by \in Mutations
    BY <1>5 DEF Reserve, TypeInv, Shapes, OpShape
  <2>2. \E kind \in {"stage", "consumption"} :
          intent' = [intent EXCEPT ![<<kind, op.by>>] = "queued"]
    BY <1>5 DEF Reserve, Queue
  <2>3. \E kind \in {"stage", "consumption"} : e = <<kind, op.by>>
    BY <1>1, <2>1, <2>2, EffectShape
  <2> QED BY <1>5, <2>3
<1>6. ASSUME NEW m \in Mutations, CompleteConsumption(m) PROVE Goal
  <2>1. <<"consumption", m>> \in busy /\ intent[<<"consumption", m>>] # "none"
    BY <1>6, EffectShape DEF CompleteConsumption, TypeInv, TypeOK
  <2>2. e # <<"consumption", m>>
    BY <2>1
  <2>3. e = <<"close", m>>
    <3>1. CASE Conflict(<<"consumption", m>>)
      BY <1>1, <2>2, <3>1, EffectShape DEF Conflict
    <3>2. CASE \E S \in {"queued", "succeeded"} :
                 intent' = [intent EXCEPT ![<<"consumption", m>>] = S,
                              ![<<"close", m>>] = IF @ = "none" THEN "queued" ELSE @]
      BY <1>0, <2>2, <3>2
    <3> QED BY <1>6, <3>1, <3>2 DEF CompleteConsumption
  <2> QED BY <1>6, <2>3
<1>7. ASSUME NEW x \in Effects, intent[x] # "none", NEW S, intent' = [intent EXCEPT ![x] = S]
      PROVE  FALSE
  BY <1>1, <1>7
<1>8. ASSUME NEW x \in Effects, Attempt(x) PROVE Goal
  <2>1. CASE UNCHANGED intent
    BY <2>1
  <2>2. intent[x] # "none" /\ (UNCHANGED intent \/ \E S : intent' = [intent EXCEPT ![x] = S])
    <3>1. x \in busy => intent[x] = "queued"
      BY DEF TypeInv, TypeOK
    <3> QED
      BY <1>8, <3>1 DEF Attempt, Dispatch, Write, Fail, Refuse, Conflict, Repair, Queue,
                        CompleteMutation, Completed
  <2> QED BY <1>7, <2>1, <2>2
<1>9. ASSUME NEW r \in Requests,
             CompleteRequest(r) \/ CompleteDecision(r) \/ CompleteRevocation(r)
      PROVE  Goal
  <2>1. PICK k \in {"request", "decision", "revocation"} :
          <<k, r>> \in busy /\ (Completed(<<k, r>>) \/ Conflict(<<k, r>>))
    BY <1>9 DEF CompleteRequest, CompleteDecision, CompleteRevocation
  <2>2. <<k, r>> \in Effects /\ intent[<<k, r>>] = "queued"
    BY <2>1, EffectShape DEF TypeInv, TypeOK
  <2>3. UNCHANGED intent \/ \E S : intent' = [intent EXCEPT ![<<k, r>>] = S]
    BY <2>1 DEF Completed, Conflict
  <2> QED BY <1>7, <2>2, <2>3
<1>10. CASE UNCHANGED intent
  BY <1>10
<1> HIDE DEF Goal
<1>11. Goal
  BY <1>2, <1>3, <1>4, <1>5, <1>6, <1>8, <1>9, <1>10
     DEF Next, Operation, Completion, Reading, Validate, Expire, PassExpiry, Abandon, Park,
         StartRead, Fetch, Project, Apply, ReadFails, Outage, Unread, vars
<1> QED BY <1>11 DEF Goal

\* What a request proposes never changes; events stay; only an effect's write adds one
\* and only a reservation or the completion of a mutation changes a mutation.
LEMMA Kept ==
  ASSUME TypeInv, [Next]_vars
  PROVE  /\ UNCHANGED action
         /\ UNCHANGED <<history, stage>> \/ Park \/ \E e \in Effects : Write(e)
         /\ UNCHANGED mutation \/ Reserve \/ \E e \in Effects : CompleteMutation(e)
         /\ UNCHANGED rolled \/ \E k \in Readers : Apply(k)
<1>1. CASE Reserve \/ Park \/ (\E e \in Effects : Write(e) \/ CompleteMutation(e))
             \/ (\E k \in Readers : Apply(k)) \/ UNCHANGED vars
  BY <1>1 DEF Reserve, Park, Write, CompleteMutation, Apply, Unsettled, Unread, vars
<1>2. CASE (\E r \in Requests : Operation(r)) \/ Abandon
             \/ (\E e \in Effects : Dispatch(e) \/ Fail(e) \/ Refuse(e) \/ Repair(e))
             \/ Completion \/ Outage
             \/ \E k \in Readers : (\E via \in {"refresh", "bind"} : StartRead(k, via))
                                   \/ Fetch(k) \/ Project(k) \/ ReadFails(k)
  BY <1>2 DEF Operation, RequestApproval, RevokeApproval, Expire, PassExpiry, DecideApproval,
              Validate, Abandon, Dispatch, Fail, Refuse, Repair, Completion, CompleteRequest,
              CompleteDecision, CompleteRevocation, CompleteConsumption, StartRead, Fetch,
              Project, ReadFails, Outage, Unsettled, Unread
<1> QED BY <1>1, <1>2 DEF Next, Attempt, Reading

\* Events and grants are never taken back.
LEMMA Stays ==
  ASSUME TypeInv, [Next]_vars
  PROVE  /\ \A r \in Requests : history[r] \subseteq history'[r]
         /\ \A m \in Mutations : mutation[m].request \in Requests =>
              /\ mutation'[m].request = mutation[m].request
              /\ mutation'[m].expected = mutation[m].expected
<1>1. \A r \in Requests : history[r] \subseteq history'[r]
  <2>1. ASSUME NEW e \in Effects, Write(e)
        PROVE  \A r \in Requests : history[r] \subseteq history'[r]
    BY <2>1 DEF Write, WriteEvent, TypeInv, Shapes, Histories
  <2> QED BY <2>1, Kept DEF Park
<1>2. ASSUME NEW m \in Mutations, mutation[m].request \in Requests
      PROVE  /\ mutation'[m].request = mutation[m].request
             /\ mutation'[m].expected = mutation[m].expected
  <2>1. CASE Reserve
    <3>1. mutation[op.by] = NoMutation /\ op.by \in Mutations
      BY <2>1 DEF Reserve, TypeInv, Shapes, OpShape
    <3>2. m # op.by
      BY <1>2, <3>1, ApprovalsAssumption DEF NoMutation
    <3> QED BY <2>1, <3>2 DEF Reserve, TypeInv, TypeOK
  <2>2. ASSUME NEW e \in Effects, CompleteMutation(e)
        PROVE  /\ mutation'[m].request = mutation[m].request
               /\ mutation'[m].expected = mutation[m].expected
    BY <2>2 DEF CompleteMutation, TypeInv, TypeOK
  <2> QED BY <2>1, <2>2, Kept
<1> QED BY <1>1, <1>2

\* What the effects rest on is never taken back.
LEMMA ShownStep ==
  ASSUME TypeInv, SafeInv, ShownInv, [Next]_vars
  PROVE  ShownInv'
<1> USE ApprovalsAssumption
<1>1. /\ UNCHANGED action
      /\ \A r \in Requests : history[r] \subseteq history'[r]
      /\ \A m \in Mutations : mutation[m].request \in Requests
                              => mutation'[m].request = mutation[m].request
  BY Kept, Stays
<1>2. ASSUME NEW r \in Requests PROVE OnIssue(r)'
  <2>0. OnIssue(r) /\ BackedRow(r) /\ FinishedEffects(r)
    BY DEF ShownInv, SafeInv, Safe
  <2>1. history'[r] # {} => Plain("requested") \in history'[r]
    <3>1. CASE history[r] # {}
      BY <1>1, <2>0, <3>1 DEF OnIssue
    <3>2. CASE history[r] = {}
      <4> SUFFICES ASSUME history'[r] # {} PROVE Plain("requested") \in history'[r]
        OBVIOUS
      <4>1. PICK e \in Effects : Write(e)
        BY <3>2, Kept DEF Park
      <4>2. intent[e] # "none"
        BY <4>1 DEF Write, TypeInv, TypeOK
      <4>3. /\ e[1] \in {"decision", "revocation"} => e[2] # r
            /\ e[1] = "consumption" => mutation[e[2]].request # r
        <5>1. \A k \in {"decision", "revocation"} : intent[<<k, r>>] = "none"
          BY <2>0, <3>2 DEF FinishedEffects, BackedRow
        <5>2. UsersOf(r) = {}
          BY <2>0, <3>2 DEF BackedRow
        <5> QED BY <4>2, <5>1, <5>2, EffectShape DEF UsersOf
      <4>4. /\ e[1] = "request"
            /\ history' = [history EXCEPT ![e[2]] = @ \cup {Plain("requested")}]
        BY <3>2, <4>1, <4>3 DEF Write, WriteEvent, TypeInv, Shapes, Histories
      <4> QED BY <3>2, <4>4 DEF TypeInv, Shapes, Histories
    <3> QED BY <3>1, <3>2
  <2>2. ASSUME intent'[<<"revocation", r>>] # "none" PROVE Plain("approved") \in history'[r]
    <3>1. CASE intent[<<"revocation", r>>] # "none"
      BY <1>1, <2>0, <3>1 DEF OnIssue
    <3>2. CASE intent[<<"revocation", r>>] = "none"
      <4>1. RevokeApproval(r)
        BY <2>2, <3>2, Enters, EffectShape
      <4>2. ledger[r].status = "approved"
        BY <4>1 DEF RevokeApproval, Current
      <4> QED BY <1>1, <2>0, <4>2 DEF BackedRow
    <3> QED BY <3>1, <3>2
  <2> QED BY <2>1, <2>2 DEF OnIssue
<1>3. ASSUME NEW m \in Mutations PROVE OfGrant(m)'
  <2>0. OfGrant(m)
    BY DEF ShownInv
  <2>1. ASSUME NEW a, Entitled(m, a) PROVE Entitled(m, a)'
    BY <1>1, <2>1 DEF Entitled
  <2>2. Reserve /\ m = op.by =>
          /\ intent'[<<"stage", m>>] # "none" /\ intent[<<"stage", m>>] = "none"
               => Entitled(m, "transition_map")'
          /\ intent[<<"consumption", m>>] = "none" /\ intent'[<<"consumption", m>>] # "none"
               => Entitled(m, "cancel_map")'
    <3> SUFFICES ASSUME Reserve, m = op.by
                 PROVE  /\ intent'[<<"stage", m>>] # "none" /\ intent[<<"stage", m>>] = "none"
                             => Entitled(m, "transition_map")'
                        /\ intent[<<"consumption", m>>] = "none"
                           /\ intent'[<<"consumption", m>>] # "none"
                             => Entitled(m, "cancel_map")'
      OBVIOUS
    <3>1. /\ op.request \in Requests /\ mutation'[m].request = op.request
          /\ action[op.request] \in Actions
      BY DEF Reserve, TypeInv, TypeOK, Shapes, OpShape
    <3>2. /\ action[op.request] = "transition_map" =>
               intent'[<<"consumption", m>>] = intent[<<"consumption", m>>]
          /\ action[op.request] # "transition_map" =>
               intent'[<<"stage", m>>] = intent[<<"stage", m>>]
      BY EffectShape DEF Reserve, Queue, TypeInv, TypeOK
    <3> QED BY <1>1, <3>1, <3>2 DEF Entitled, Actions
  <2>3. intent'[<<"stage", m>>] # "none" => Entitled(m, "transition_map")'
    BY <2>0, <2>1, <2>2, Enters, EffectShape DEF OfGrant
  <2>4. intent'[<<"consumption", m>>] # "none" => Entitled(m, "cancel_map")'
    BY <2>0, <2>1, <2>2, Enters, EffectShape DEF OfGrant
  <2>5. ASSUME intent'[<<"close", m>>] # "none"
        PROVE  Entitled(m, "cancel_map")' /\ "consumed" \in Types(history[mutation[m].request])'
    <3>1. Entitled(m, "cancel_map") /\ "consumed" \in Types(history[mutation[m].request])
      <4>1. CASE intent[<<"close", m>>] # "none"
        BY <2>0, <4>1 DEF OfGrant
      <4>2. CASE intent[<<"close", m>>] = "none"
        <5>1. CompleteConsumption(m)
          BY <2>5, <4>2, Enters, EffectShape
        <5>2. intent[<<"consumption", m>>] # "none"
          BY <5>1, EffectShape DEF CompleteConsumption, TypeInv, TypeOK
        <5>3. ConsumptionEvent(m) \in history[mutation[m].request]
          BY <5>1 DEF CompleteConsumption, Confirmed
        <5>4. ConsumptionEvent(m).type = "consumed"
          BY DEF ConsumptionEvent
        <5>5. "consumed" \in Types(history[mutation[m].request])
          BY <5>3, <5>4 DEF Types
        <5> QED BY <2>0, <5>2, <5>5 DEF OfGrant
      <4> QED BY <4>1, <4>2
    <3>2. mutation'[m].request = mutation[m].request /\ mutation[m].request \in Requests
      BY <1>1, <3>1 DEF Entitled
    <3> QED BY <1>1, <2>1, <3>1, <3>2 DEF Types
  <2> QED BY <2>3, <2>4, <2>5 DEF OfGrant
<1> QED BY <1>2, <1>3 DEF ShownInv

\* What somebody outside sees.
shown == <<action, Told, Grants, stage, Done, rolled>>

\* Both specifications mean the same by their names.
SameNames ==
  /\ Promise!Actions = Actions /\ Promise!Decisions = Decisions /\ Promise!Stages = Stages

LEMMA Same == SameNames
  BY DEF SameNames, Promise!Actions, Promise!Decisions, Promise!Stages, Actions, Decisions,
         Stages

\* A Map whose history tells nothing keeps the promise.
LEMMA PromiseInit == Init => Promise!Init
<1> SUFFICES ASSUME Init PROVE Promise!Init
  OBVIOUS
<1>1. Told = [r \in Requests |-> {}]
  BY DEF Init, Told, Types
<1>2. Grants = [m \in Mutations |-> Promise!Nothing] /\ Done = {}
  BY DEF Init, Grants, Done, NoMutation, Promise!Nothing
<1> QED BY <1>1, <1>2, Same DEF Init, Promise!Init, SameNames

\* An event shows what an effect was queued for.
LEMMA PromiseEvent ==
  ASSUME TypeInv, SafeInv, ShownInv, NEW r \in Requests, NEW event,
         NEW type, event.type = type,
         history' = [history EXCEPT ![r] = @ \cup {event}],
         UNCHANGED <<action, decision, ledger, mutation, stage, rolled>>
  PROVE  /\ Promise!Tell(r, type)
         /\ \A x \in Requests : Told[x] = Types(history[x])
<1>1. UNCHANGED <<Grants, Done>>
  BY DEF Grants, Done
<1>2. Told' = [Told EXCEPT ![r] = @ \cup {type}]
  <2>1. \A x \in Requests : Types(history[x])' =
          IF x = r THEN Types(history[x]) \cup {type} ELSE Types(history[x])
    BY DEF Types, TypeInv, Shapes, Histories
  <2> HIDE DEF Types
  <2> QED BY <2>1 DEF Told
<1> QED BY <1>1, <1>2 DEF Promise!Tell, Told

\* Who took a grant is on record.
LEMMA TakenBy ==
  ASSUME NEW r \in Requests
  PROVE  Promise!Taken(r) <=> UsersOf(r) # {}
  BY DEF Promise!Taken, Grants, UsersOf

\* ... and what it is for.
LEMMA EntitledTo ==
  ASSUME NEW m \in Mutations, NEW a
  PROVE  Promise!Entitled(m, a) <=> Entitled(m, a)
  BY DEF Promise!Entitled, Entitled, Grants

\* An event shows its type.
LEMMA TypeShown ==
  ASSUME NEW H, NEW e \in H
  PROVE  e.type \in Types(H)
  BY DEF Types

\* What is written to the Issue is what the promise allows.
LEMMA PromiseWrite ==
  ASSUME TypeInv, SafeInv, ShownInv, NEW e \in Effects, Write(e)
  PROVE  [Promise!Next]_shown
<1>0. /\ e \in busy /\ intent[e] # "none" /\ ~Confirmed(e) /\ ~Refused(e)
      /\ UNCHANGED <<action, decision, ledger, mutation, rolled>>
  BY DEF Write, TypeInv, TypeOK
<1> USE Same DEF SameNames
<1>1. ASSUME NEW r \in Requests, e = <<"request", r>> PROVE Promise!Next
  <2>1. history' = [history EXCEPT ![r] = @ \cup {Plain("requested")}] /\ UNCHANGED stage
    BY <1>1 DEF Write, WriteEvent
  <2>2. history[r] = {}
    <3>1. Plain("requested") \notin history[r]
      BY <1>0, <1>1 DEF Confirmed
    <3> QED BY <3>1 DEF ShownInv, OnIssue
  <2>3. Plain("requested").type = "requested"
    OBVIOUS
  <2>4. Promise!Tell(r, "requested") /\ Told[r] = Types(history[r])
    <3> HIDE DEF Plain
    <3> QED BY <1>0, <2>1, <2>3, PromiseEvent
  <2>5. Told[r] = {}
    BY <2>2, <2>4 DEF Types
  <2> QED BY <2>4, <2>5 DEF Promise!Request, Promise!Next
<1>2. ASSUME NEW r \in Requests, e = <<"decision", r>> PROVE Promise!Next
  <2>1. history' = [history EXCEPT ![r] = @ \cup {Plain(decision[r])}] /\ UNCHANGED stage
    BY <1>2 DEF Write, WriteEvent
  <2>2. decision[r] \in Decisions /\ Plain("requested") \in history[r]
    BY <1>0, <1>2, EffectShape
       DEF TypeInv, Shapes, DecisionMade, ShownInv, OnIssue, SafeInv, Safe, FinishedEffects,
           BackedRow
  <2>3. Types(history[r]) \cap Decisions = {}
    <3> SUFFICES ASSUME NEW x \in history[r], x.type \in Decisions PROVE FALSE
      BY DEF Types
    <3>1. Written(x, r)
      BY DEF TypeInv, EventInv
    <3>2. ~Confirmed(e) /\ e[1] = "decision" /\ e[2] = r
      BY <1>0, <1>2
    <3>3. Plain(decision[r]) \notin history[r]
      BY <3>2 DEF Confirmed
    <3>4. x = Plain("requested") \/ x = Plain("revoked") \/ x.type = "consumed"
      BY <3>1, <3>3 DEF Written
    <3> QED BY <3>4 DEF Decisions
  <2>4. Promise!Tell(r, decision[r]) /\ Told[r] = Types(history[r])
    <3>1. Plain(decision[r]).type = decision[r]
      OBVIOUS
    <3> HIDE DEF Plain
    <3> QED BY <1>0, <2>1, <3>1, PromiseEvent
  <2>5. "requested" \in Types(history[r])
    BY <2>2, TypeShown
  <2>6. Promise!Decide(r, decision[r])
    BY <2>3, <2>4, <2>5 DEF Promise!Decide
  <2> QED BY <2>2, <2>6 DEF Promise!Next
<1>3. ASSUME NEW r \in Requests, e = <<"revocation", r>> PROVE Promise!Next
  <2>1. history' = [history EXCEPT ![r] = @ \cup {Plain("revoked")}] /\ UNCHANGED stage
    BY <1>3 DEF Write, WriteEvent
  <2>2. Plain("approved") \in history[r]
    BY <1>0, <1>3 DEF ShownInv, OnIssue
  <2>3. action[r] = "transition_map" /\ r \notin rolled => ~Promise!Taken(r)
    BY <1>0, <1>3, TakenBy DEF SafeInv, Safe, Undisturbed
  <2>4. Promise!Tell(r, "revoked") /\ Told[r] = Types(history[r])
    <3>1. Plain("revoked").type = "revoked"
      OBVIOUS
    <3> HIDE DEF Plain
    <3> QED BY <1>0, <2>1, <3>1, PromiseEvent
  <2>5. "approved" \in Types(history[r])
    BY <2>2, TypeShown
  <2> QED BY <2>3, <2>4, <2>5 DEF Promise!Revoke, Promise!Next
<1>4. ASSUME NEW m \in Mutations, e = <<"consumption", m>> PROVE Promise!Next
  <2>1. PICK r \in Requests : mutation[m].request = r /\ action[r] = "cancel_map"
    BY <1>0, <1>4 DEF ShownInv, OfGrant, Entitled
  <2>2. history' = [history EXCEPT ![r] = @ \cup {ConsumptionEvent(m)}] /\ UNCHANGED stage
    BY <1>4, <2>1 DEF Write, WriteEvent
  <2>3. ConsumptionEvent(m).type = "consumed"
    BY DEF ConsumptionEvent
  <2>4. Promise!Tell(r, "consumed")
    BY <1>0, <2>2, <2>3, PromiseEvent
  <2>5. Promise!Entitled(m, "cancel_map") /\ Grants[m].request = r
    BY <2>1, EntitledTo DEF Entitled, Grants
  <2> QED BY <2>4, <2>5 DEF Promise!Consume, Promise!Next
<1>5. ASSUME NEW m \in Mutations, e = <<"stage", m>> PROVE Promise!Next
  <2>1. /\ stage = "awaiting-approval" /\ stage' = "authorized" /\ UNCHANGED history
        /\ Entitled(m, "transition_map")
    BY <1>0, <1>5 DEF Write, Refused, ShownInv, OfGrant
  <2>2. UNCHANGED <<Told, Grants, Done>>
    BY <1>0, <2>1 DEF Told, Grants, Done
  <2> QED BY <1>0, <2>1, <2>2, EntitledTo DEF Promise!Move, Promise!Authorize, Promise!Next
<1>6. ASSUME NEW m \in Mutations, e = <<"close", m>> PROVE Promise!Next
  <2>1. /\ stage = mutation[m].expected /\ stage' = "cancelled" /\ UNCHANGED history
        /\ Entitled(m, "cancel_map") /\ "consumed" \in Types(history[mutation[m].request])
    BY <1>0, <1>6 DEF Write, Refused, ShownInv, OfGrant
  <2>2. UNCHANGED <<Told, Grants, Done>>
    BY <1>0, <2>1 DEF Told, Grants, Done
  <2>3. /\ Grants[m].from = mutation[m].expected
        /\ "consumed" \in Told[Grants[m].request]
    BY <2>1 DEF Grants, Told, Entitled
  <2> QED BY <1>0, <2>1, <2>2, <2>3, EntitledTo DEF Promise!Move, Promise!Close, Promise!Next
<1> QED BY <1>1, <1>2, <1>3, <1>4, <1>5, <1>6, EffectShape

\* A grant is taken when the Issue shows it.
LEMMA PromiseTake ==
  ASSUME TypeInv, SafeInv, ShownInv, Reserve
  PROVE  Promise!Next
<1> USE Same DEF SameNames
<1> DEFINE m == op.by
           r == op.request
<1>1. /\ m \in Mutations /\ r \in Requests /\ mutation[m] = NoMutation
      /\ ledger[r].status = "approved" /\ UsersOf(r) = {}
      /\ stage \in Stages \ {"cancelled"}
      /\ UNCHANGED <<action, history, stage, rolled>>
  BY DEF Reserve, Unused, TypeInv, TypeOK, Shapes, OpShape, Stages
<1>2. "approved" \in Told[r]
  <2>1. Plain("approved") \in history[r]
    BY <1>1 DEF SafeInv, Safe, BackedRow
  <2> QED BY <1>1, <2>1, TypeShown DEF Told
<1>3. action[r] = "transition_map" /\ r \notin rolled => "revoked" \notin Told[r]
  <2> SUFFICES ASSUME action[r] = "transition_map", r \notin rolled,
                      "revoked" \in Types(history[r])
               PROVE  FALSE
    BY <1>1 DEF Told
  <2>1. Undisturbed(r)
    BY <1>1 DEF SafeInv, Safe
  <2>2. intent[<<"revocation", r>>] = "none"
    BY <1>1, <2>1 DEF Undisturbed
  <2>3. PICK x \in history[r] : x.type = "revoked"
    BY DEF Types
  <2>4. Written(x, r)
    BY <1>1 DEF TypeInv, EventInv
  <2>5. intent[<<"decision", r>>] # "none" => decision[r] \in Decisions
    BY <1>1 DEF TypeInv, Shapes, DecisionMade
  <2> QED BY <2>2, <2>3, <2>4, <2>5 DEF Written, Decisions
<1>4. Grants[m] = Promise!Nothing /\ ~Promise!Taken(r)
  BY <1>1, TakenBy DEF Grants, NoMutation, Promise!Nothing
<1>5. Grants' = [Grants EXCEPT ![m] = [request |-> r, from |-> stage]]
  <2>1. \A n \in Mutations :
          /\ mutation'[n].request = IF n = m THEN r ELSE mutation[n].request
          /\ mutation'[n].expected = IF n = m THEN stage ELSE mutation[n].expected
    BY DEF Reserve, TypeInv, TypeOK
  <2> QED BY <2>1 DEF Grants
<1>6. UNCHANGED <<Told, Done>>
  <2>1. \A n \in Mutations :
          mutation'[n].state = "confirmed" <=> mutation[n].state = "confirmed"
    BY <1>1 DEF Reserve, NoMutation, TypeInv, TypeOK
  <2> QED BY <1>1, <2>1 DEF Told, Done
<1>7. Promise!Take(m, r, stage)
  BY <1>1, <1>2, <1>3, <1>4, <1>5, <1>6 DEF Promise!Take
<1> QED BY <1>1, <1>7 DEF Promise!Next

\* A mutation is confirmed after the Map was moved.
LEMMA PromiseConfirm ==
  ASSUME TypeInv, SafeInv, ShownInv, NEW e \in Effects, CompleteMutation(e)
  PROVE  Promise!Next
<1>1. PICK m \in Mutations : m = e[2] /\ e = <<e[1], m>>
  BY EffectShape DEF CompleteMutation
<1>2. /\ mutation' = [mutation EXCEPT ![m].state = "confirmed"]
      /\ UNCHANGED <<action, history, stage, rolled>>
  BY <1>1 DEF CompleteMutation, Unsettled
<1>3. UNCHANGED <<Told, Grants>> /\ Done' = Done \cup {m}
  <2>1. \A n \in Mutations :
          /\ mutation'[n].request = mutation[n].request
          /\ mutation'[n].expected = mutation[n].expected
          /\ mutation'[n].state = IF n = m THEN "confirmed" ELSE mutation[n].state
    BY <1>2 DEF TypeInv, TypeOK
  <2> QED BY <1>2, <2>1 DEF Told, Grants, Done
<1>4. \/ e[1] = "stage" /\ stage = "authorized" /\ Entitled(m, "transition_map")
      \/ e[1] = "close" /\ stage = "cancelled" /\ Entitled(m, "cancel_map")
  <2>1. intent[e] # "none" /\ e[1] \in {"stage", "close"} /\ Confirmed(e)
    BY DEF CompleteMutation, TypeInv, TypeOK
  <2>2. e[1] = "stage" => stage = "authorized"
    BY <2>1 DEF Confirmed
  <2>3. e[1] = "close" => stage = "cancelled"
    BY <2>1 DEF Confirmed
  <2>4. OfGrant(m)
    BY DEF ShownInv
  <2>5. CASE e[1] = "stage"
    <3>1. intent[<<"stage", m>>] # "none"
      BY <1>1, <2>1, <2>5
    <3> QED BY <2>2, <2>4, <2>5, <3>1 DEF OfGrant
  <2>6. CASE e[1] = "close"
    <3>1. intent[<<"close", m>>] # "none"
      BY <1>1, <2>1, <2>6
    <3> QED BY <2>3, <2>4, <2>6, <3>1 DEF OfGrant
  <2> QED BY <2>1, <2>5, <2>6
<1>5. Promise!Confirm(m)
  BY <1>2, <1>3, <1>4, EntitledTo DEF Promise!Confirm
<1> QED BY <1>5 DEF Promise!Next

\* Every step is a step of the promise or is not seen outside.
LEMMA PromiseStep ==
  ASSUME TypeInv, SafeInv, ShownInv, [Next]_vars
  PROVE  [Promise!Next]_shown
<1>1. CASE \E e \in Effects : Write(e)
  BY <1>1, PromiseWrite
<1>2. CASE Reserve
  BY <1>2, PromiseTake
<1>3. CASE \E e \in Effects : CompleteMutation(e)
  BY <1>3, PromiseConfirm
<1>4. CASE Park
  <2>1. UNCHANGED <<Told, Grants, Done, action, rolled>>
    BY <1>4 DEF Park, Told, Grants, Done
  <2>2. Promise!Park
    BY <1>4, <2>1 DEF Park, Promise!Park, Promise!Move
  <2> QED BY <2>2 DEF Promise!Next
<1>5. ASSUME NEW k \in Readers, Apply(k) PROVE [Promise!Next]_shown
  <2>1. UNCHANGED <<Told, Grants, Done, action, stage>>
    BY <1>5 DEF Apply, Unread, Told, Grants, Done
  <2>2. PICK R \in SUBSET Requests :
          rolled' = rolled \cup R /\ \A r \in R : read[k].history[r] # {}
    <3> DEFINE over == {r \in {q \in Requests : read[k].history[q] # {}} : Overtaken(k, r)}
    <3>1. over \in SUBSET Requests /\ \A r \in over : read[k].history[r] # {}
      OBVIOUS
    <3>2. rolled' = rolled \cup over \/ rolled' = rolled \cup {}
      BY <1>5 DEF Apply
    <3> HIDE DEF over
    <3> QED BY <3>1, <3>2
  <2>3. \A r \in R : Told[r] # {}
    <3> SUFFICES ASSUME NEW r \in R PROVE Types(history[r]) # {}
      BY DEF Told
    <3>1. read[k].history[r] \subseteq history[r]
      BY <1>5, <2>2 DEF Apply, TypeInv, ReadInv
    <3>2. PICK x \in history[r] : TRUE
      BY <2>2, <3>1
    <3> QED BY <3>2, TypeShown
  <2>4. Promise!Dispute(R)
    BY <2>1, <2>2, <2>3 DEF Promise!Dispute
  <2> QED BY <2>4 DEF Promise!Next
<1>6. CASE UNCHANGED <<action, history, stage, mutation, rolled>>
  BY <1>6 DEF shown, Told, Grants, Done
<1> QED BY <1>1, <1>2, <1>3, <1>4, <1>5, <1>6, Kept

\* Approvals implement what ApprovalPromise says: whatever is lost, retried, repaired or
\* reconciled, the Issue tells one decision of a request it shows, one mutation takes a
\* grant shown there, a revoked grant moves no Map on, and a Map is closed only from the
\* stage seen, with the consumption on the Issue (_transition_map, cancel_map, the
\* completions of their effects and effects.py).
THEOREM ApprovalsKeepPromise == Spec => KeepsApprovalPromise
<1>1. Init => Promise!Init
  BY PromiseInit
<1>2. TypeInv /\ SafeInv /\ ShownInv /\ [Next]_vars => ShownInv'
  BY ShownStep
<1>3. TypeInv /\ SafeInv /\ ShownInv /\ [Next]_vars
        => [Promise!Next]_(Promise!promiseVars)
  BY PromiseStep DEF shown, Promise!promiseVars
<1> QED
  BY TypeInit, TypeStep, SafeInit, SafeStep, ShownInit, <1>1, <1>2, <1>3, PTL
     DEF Spec, KeepsApprovalPromise, Promise!Spec
=============================================================================
