--------------------------- MODULE EffectPromise ---------------------------
(***************************************************************************)
(* What the Outbox promises its callers and operators about one external   *)
(* effect, with no leases, workers, retries or crashes: an effect succeeds *)
(* only when it is really there, a publication is made at most once, and   *)
(* a publication declared absent is never made.  Outbox implements it.     *)
(***************************************************************************)
CONSTANTS Effects, PublisherEffects

VARIABLES
  status,   \* "none", "open", "succeeded", "failed" or "aborted"
  made,     \* the system itself has performed the effect
  present   \* the effect has been there at some time, whoever performed it

promiseVars == <<status, made, present>>

Init ==
  /\ status = [e \in Effects |-> "none"]
  /\ made = [e \in Effects |-> FALSE]
  /\ present = [e \in Effects |-> FALSE]

Move(e, from, to) ==
  /\ status[e] = from
  /\ status' = [status EXCEPT ![e] = to]
  /\ UNCHANGED <<made, present>>

Register(e) == Move(e, "none", "open")

Perform(e) ==
  /\ status[e] \notin {"none", "aborted"}
  /\ e \in PublisherEffects => ~made[e]
  /\ made' = [made EXCEPT ![e] = TRUE]
  /\ present' = [present EXCEPT ![e] = TRUE]
  /\ UNCHANGED status

\* Somebody else brings the same state about.
Appear(e) ==
  /\ present' = [present EXCEPT ![e] = TRUE]
  /\ UNCHANGED <<status, made>>

Succeed(e) == present[e] /\ Move(e, "open", "succeeded")

Fail(e) == Move(e, "open", "failed")

\* The operator requeues a failed effect, or resolves it by evidence.
Reopen(e) == Move(e, "failed", "open")

Resolve(e) == e \in PublisherEffects /\ present[e] /\ Move(e, "failed", "succeeded")

Abort(e) == e \in PublisherEffects /\ ~made[e] /\ Move(e, "failed", "aborted")

Next ==
  \E e \in Effects :
    \/ Register(e) \/ Perform(e) \/ Appear(e) \/ Succeed(e) \/ Fail(e)
    \/ Reopen(e) \/ Resolve(e) \/ Abort(e)

Spec == Init /\ [][Next]_promiseVars
=============================================================================
