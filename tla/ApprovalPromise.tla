-------------------------- MODULE ApprovalPromise ---------------------------
(***************************************************************************)
(* What protected mutations promise to those who watch a Map's Issue: it   *)
(* shows one decision per request, only of a request it shows; a grant it  *)
(* shows is taken by one mutation; a grant shown as revoked moves no Map   *)
(* on, and one that did is not revoked; the Map is authorized only with    *)
(* such a grant, and closed only from the stage that was seen when the     *)
(* grant was taken, after the Issue has told that it is consumed.  No      *)
(* ledger, leases, effects, expiries or reachability, and of reconciles    *)
(* only the ones that bring an outdated row back.                          *)
(***************************************************************************)
CONSTANTS Requests, Mutations, NoOne

VARIABLES
  action,   \* what each request proposes
  told,     \* the types of the events of each request on the Issue
  grant,    \* the request whose grant a mutation took, and the stage seen before
  stage,    \* the Map's stage on the Issue
  done,     \* mutations the system has confirmed
  disputed  \* requests of which a reconcile brought an outdated row back

promiseVars == <<action, told, grant, stage, done, disputed>>

Actions == {"transition_map", "cancel_map"}
Decisions == {"approved", "rejected"}
Stages == {"awaiting-approval", "authorized", "parked", "cancelled"}
Nothing == [request |-> NoOne, from |-> "none"]

Init ==
  /\ action \in [Requests -> Actions]
  /\ told = [r \in Requests |-> {}]
  /\ grant = [m \in Mutations |-> Nothing]
  /\ stage = "awaiting-approval"
  /\ done = {} /\ disputed = {}

Tell(r, type) ==
  /\ told' = [told EXCEPT ![r] = @ \cup {type}]
  /\ UNCHANGED <<action, grant, stage, done, disputed>>

Taken(r) == \E m \in Mutations : grant[m].request = r

Request(r) == told[r] = {} /\ Tell(r, "requested")

Decide(r, decision) ==
  /\ "requested" \in told[r] /\ told[r] \cap Decisions = {}
  /\ Tell(r, decision)

\* A transition that took the grant cannot be called back any more.
Revoke(r) ==
  /\ "approved" \in told[r]
  /\ action[r] = "transition_map" /\ r \notin disputed => ~Taken(r)
  /\ Tell(r, "revoked")

\* Only an open Map is mutated.  The stage may change once it was seen.
Take(m, r, seen) ==
  /\ "approved" \in told[r] /\ ~Taken(r)
  /\ action[r] = "transition_map" /\ r \notin disputed => "revoked" \notin told[r]
  /\ grant[m] = Nothing /\ seen # "cancelled"
  /\ grant' = [grant EXCEPT ![m] = [request |-> r, from |-> seen]]
  /\ UNCHANGED <<action, told, stage, done, disputed>>

\* The grant of mutation m is for such an action.
Entitled(m, a) == \E r \in Requests : grant[m].request = r /\ action[r] = a

Consume(m, r) ==
  /\ Entitled(m, "cancel_map") /\ grant[m].request = r
  /\ Tell(r, "consumed")

Move(to) ==
  /\ stage' = to
  /\ UNCHANGED <<action, told, grant, done, disputed>>

Authorize(m) ==
  /\ Entitled(m, "transition_map")
  /\ stage = "awaiting-approval"
  /\ Move("authorized")

Close(m) ==
  /\ Entitled(m, "cancel_map")
  /\ "consumed" \in told[grant[m].request]
  /\ stage = grant[m].from
  /\ Move("cancelled")

\* An unprotected transition, or somebody on GitHub, parks the Map.
Park == stage \in {"awaiting-approval", "authorized"} /\ Move("parked")

\* A mutation is done when the Map was moved, even if it moved on in the meantime.
Confirm(m) ==
  /\ \/ Entitled(m, "transition_map") /\ stage # "awaiting-approval"
     \/ Entitled(m, "cancel_map") /\ stage = "cancelled"
  /\ done' = done \cup {m}
  /\ UNCHANGED <<action, told, grant, stage, disputed>>

Dispute(R) ==
  /\ \A r \in R : told[r] # {}
  /\ disputed' = disputed \cup R
  /\ UNCHANGED <<action, told, grant, stage, done>>

Next ==
  \/ \E r \in Requests :
       \/ Request(r) \/ Revoke(r)
       \/ \E decision \in Decisions : Decide(r, decision)
       \/ \E m \in Mutations : \/ Consume(m, r)
                                \/ \E seen \in Stages : Take(m, r, seen)
  \/ \E m \in Mutations : Authorize(m) \/ Close(m) \/ Confirm(m)
  \/ Park
  \/ \E R \in SUBSET Requests : Dispute(R)

Spec == Init /\ [][Next]_promiseVars
=============================================================================
