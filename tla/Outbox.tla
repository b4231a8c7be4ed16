------------------------------- MODULE Outbox -------------------------------
(***************************************************************************)
(* The durable Outbox of plugin/map_governance/outbox.py: the SQLite       *)
(* repository of external-effect intents (OutboxRepository), the           *)
(* dispatcher that claims, reads back, applies, completes and acknowledges *)
(* them (OutboxDispatcher), the lease heartbeat and the polling runtime,   *)
(* with the publisher adapter of effects.py and the hooks application.py   *)
(* passes in (execution fence, remote-call marker, failure and completion  *)
(* callbacks, operator repair and evidence reconciliation).                *)
(*                                                                         *)
(* One action is one SQLite transaction or one external call.  Workers are *)
(* threads of any number of processes; they interleave freely, lose their  *)
(* leases, fail and crash.                                                 *)
(*                                                                         *)
(* Abstractions.                                                           *)
(*   - Timestamps become the number of ticks left: lease[e] until          *)
(*     lease_expires_at, due[e] until next_attempt_at (retry_scheduled) or *)
(*     until created_at passes the polling grace (pending).                *)
(*   - A transaction reads the clock in the step that commits it.          *)
(*   - outbox_attempts keeps only which attempts are still 'claimed'.      *)
(*   - A payload is its identity: re-enqueuing equal content is a no-op,   *)
(*     and enqueuing other content raises, so neither is an action.        *)
(***************************************************************************)
EXTENDS Naturals, Sequences

CONSTANTS
  Effects,           \* effect ids
  PublisherEffects,  \* those of type publisher.execute
  Workers,           \* dispatching threads
  Owners,            \* owner ids written into leases
  OwnerOf,           \* the owner id each worker dispatches under
  Adapters,          \* the effects each worker's composition has an adapter for
  Polling,           \* workers that run OutboxRuntime
  None,              \* SQL NULL
  LeaseTime, Grace, BaseRetry, MaxRetry, MaxAttempts,  \* OutboxSettings
  MaxCrashes, MaxStalls, MaxMeddles, MaxRepairs        \* bounds of the model

\* What an acknowledged intent may carry.
Outcomes == {"evidence", "confirmed_absent"}

\* OutboxSettings.__post_init__ requires positive settings.
ASSUME SettingsAssumption ==
  /\ LeaseTime \in Nat \ {0} /\ Grace \in Nat
  /\ BaseRetry \in Nat \ {0} /\ MaxRetry \in Nat \ {0} /\ BaseRetry <= MaxRetry
  /\ MaxAttempts \in Nat \ {0}
  /\ MaxCrashes \in Nat /\ MaxStalls \in Nat /\ MaxMeddles \in Nat /\ MaxRepairs \in Nat

ASSUME TopologyAssumption ==
  /\ PublisherEffects \subseteq Effects
  /\ OwnerOf \in [Workers -> Owners]
  /\ Adapters \in [Workers -> SUBSET Effects]
  /\ Polling \subseteq Workers
  /\ None \notin Effects \cup Owners \cup Outcomes

\* A composition with a publisher is one operator command: one thread under an
\* owner id with a fresh uuid.  Threads without a publisher may share theirs.
ASSUME PublisherOwnerAssumption ==
  \A w \in Workers, v \in Workers :
    /\ Adapters[w] \cap PublisherEffects # {}
    /\ OwnerOf[v] = OwnerOf[w]
    => v = w

VARIABLES
  \* table outbox_intents
  state, owner, lease, due, attempts, queue,
  \* tables outbox_attempts, outbox_repairs, outbox_external_calls
  open, base, marker,
  \* the acknowledged outcome, the local completion, the incident record
  ack, completed, incident,
  \* the downstream system, and how often it was written to and seen
  remote, writes, seen,
  \* worker threads: position in _dispatch_claim, claim, confirmation, error, heartbeat
  pc, task, cycle, found, err, beat,
  \* operator commands between their check and their transaction
  inflight,
  \* model bounds and history
  crashes, stalls, meddles, repairs, retried

rowVars == <<state, owner, lease, due, attempts, queue>>
tableVars == <<open, base, marker>>
outcomeVars == <<ack, completed, incident>>
remoteVars == <<remote, writes, seen>>
workerVars == <<pc, task, cycle, found, err, beat>>
boundVars == <<crashes, stalls, meddles, repairs, retried>>
vars == <<rowVars, tableVars, outcomeVars, remoteVars, workerVars, inflight, boundVars>>

States == {"absent", "pending", "leased", "retry_scheduled", "succeeded", "terminal"}
Steps == {"idle", "named", "readback", "check", "apply", "mark", "execute",
          "confirm", "complete", "ack", "failed", "record"}
Errors == {"retryable", "terminal"}

Started(e) == marker[e] # 0

\* Mutant: the claim in memory is trusted instead of the row.
OwnsLease_ByClaim(w, e) == task[w] = e

\* The row check of _owned_lease: leased, by this owner id, unexpired.
OwnsLease(w, e) ==
  /\ state[e] = "leased"
  /\ owner[e] = OwnerOf[w]
  /\ lease[e] > 0

\* Mutant: the fence does not exclude anybody.
Fenced_Open(e) == FALSE

\* The publication_lease file lock: a worker is inside the fence of e.
Fenced(e) == \E w \in Workers : task[w] = e /\ pc[w] \in {"mark", "execute"}

\* min(base_retry_seconds * 2 ** (attempt_in_cycle - 1), max_retry_seconds)
Backoff(n) ==
  LET delay == BaseRetry * 2 ^ (n - 1)
  IN  IF delay \in 0..MaxRetry THEN delay ELSE MaxRetry

-----------------------------------------------------------------------------
Init ==
  /\ state = [e \in Effects |-> "absent"]
  /\ owner = [e \in Effects |-> None]
  /\ lease = [e \in Effects |-> 0]
  /\ due = [e \in Effects |-> 0]
  /\ attempts = [e \in Effects |-> 0]
  /\ queue = << >>
  /\ open = [e \in Effects |-> {}]
  /\ base = [e \in Effects |-> 0]
  /\ marker = [e \in Effects |-> 0]
  /\ ack = [e \in Effects |-> None]
  /\ completed = [e \in Effects |-> FALSE]
  /\ incident = [e \in Effects |-> "none"]
  /\ remote = [e \in Effects |-> "absent"]
  /\ writes = [e \in Effects |-> 0]
  /\ seen = [e \in Effects |-> FALSE]
  /\ pc = [w \in Workers |-> "idle"]
  /\ task = [w \in Workers |-> None]
  /\ cycle = [w \in Workers |-> 0]
  /\ found = [w \in Workers |-> FALSE]
  /\ err = [w \in Workers |-> "retryable"]
  /\ beat = [w \in Workers |-> "off"]
  /\ inflight = [e \in Effects |-> {}]
  /\ crashes = 0 /\ stalls = 0 /\ meddles = 0 /\ repairs = 0
  /\ retried = [e \in Effects |-> 0]

\* OutboxRepository.enqueue and enqueue_in_transaction: a new pending intent.
Enqueue(e) ==
  /\ state[e] = "absent"
  /\ state' = [state EXCEPT ![e] = "pending"]
  /\ due' = [due EXCEPT ![e] = Grace]
  /\ queue' = Append(queue, e)
  /\ UNCHANGED <<owner, lease, attempts, tableVars, outcomeVars, remoteVars,
                 workerVars, inflight, boundVars>>

-----------------------------------------------------------------------------
(* Claiming. *)

\* Mutant: expired leases are never reclaimed.
Claimable_NoReclaim(e, graced) ==
  \/ state[e] = "pending" /\ (graced => due[e] = 0)
  \/ state[e] = "retry_scheduled" /\ due[e] = 0

\* The WHERE clause of _claim; graced is the pending_before filter.
Claimable(e, graced) ==
  \/ state[e] = "pending" /\ (graced => due[e] = 0)
  \/ state[e] = "retry_scheduled" /\ due[e] = 0
  \/ state[e] = "leased" /\ lease[e] = 0

\* ORDER BY created_at LIMIT 1.
Earliest(e, S) ==
  \E i \in 1..Len(queue) : queue[i] = e /\ \A j \in 1..(i - 1) : queue[j] \notin S

\* Mutant: a reclaim leaves the expired attempt 'claimed'.
LeaseExpired_Ignored(e) == {}

\* The attempt a reclaim closes as lease_expired.
LeaseExpired(e) == IF state[e] = "leased" THEN {attempts[e]} ELSE {}

\* The claiming transaction; the dispatcher then starts the heartbeat.
Claim(w, e) ==
  /\ state' = [state EXCEPT ![e] = "leased"]
  /\ owner' = [owner EXCEPT ![e] = OwnerOf[w]]
  /\ lease' = [lease EXCEPT ![e] = LeaseTime]
  /\ due' = [due EXCEPT ![e] = 0]
  /\ attempts' = [attempts EXCEPT ![e] = @ + 1]
  /\ open' = [open EXCEPT ![e] = (@ \ LeaseExpired(e)) \cup {attempts[e] + 1}]
  /\ pc' = [pc EXCEPT ![w] = "readback"]
  /\ task' = [task EXCEPT ![w] = e]
  /\ cycle' = [cycle EXCEPT ![w] = attempts[e] + 1 - base[e]]
  /\ found' = [found EXCEPT ![w] = FALSE]
  /\ beat' = [beat EXCEPT ![w] = "on"]
  /\ UNCHANGED <<queue, base, marker, outcomeVars, remoteVars, err, inflight, boundVars>>

\* dispatch_next: the earliest due intent this composition has an adapter for.
DispatchNext(w) ==
  LET ready == {e \in Adapters[w] : Claimable(e, w \in Polling)}
  IN  /\ pc[w] = "idle"
      /\ \E e \in ready : Earliest(e, ready) /\ Claim(w, e)

\* dispatch_effect, first transaction: expedite_retry makes a retry due now.  A
\* publication is dispatched by publish_map only, which refuses without a publisher.
Expedite(w, e) ==
  /\ pc[w] = "idle"
  /\ w \notin Polling
  /\ state[e] \notin {"absent", "succeeded"}
  /\ e \in PublisherEffects => e \in Adapters[w]
  /\ due' = IF state[e] = "retry_scheduled" THEN [due EXCEPT ![e] = 0] ELSE due
  /\ pc' = [pc EXCEPT ![w] = "named"]
  /\ task' = [task EXCEPT ![w] = e]
  /\ UNCHANGED <<state, owner, lease, attempts, queue, tableVars, outcomeVars,
                 remoteVars, cycle, found, err, beat, inflight, boundVars>>

\* The worker is done with its claim, or has none; its locals are gone.
Rest(w) ==
  /\ pc' = [pc EXCEPT ![w] = "idle"]
  /\ task' = [task EXCEPT ![w] = None]
  /\ cycle' = [cycle EXCEPT ![w] = 0]
  /\ found' = [found EXCEPT ![w] = FALSE]
  /\ err' = [err EXCEPT ![w] = "retryable"]
  /\ beat' = [beat EXCEPT ![w] = "off"]

\* dispatch_effect, second transaction: claim the named intent if it is due.
ClaimNamed(w) ==
  /\ pc[w] = "named"
  /\ \/ /\ Claimable(task[w], FALSE)
        /\ Claim(w, task[w])
     \/ /\ ~Claimable(task[w], FALSE)
        /\ Rest(w)
        /\ UNCHANGED <<rowVars, tableVars, outcomeVars, remoteVars, inflight, boundVars>>

-----------------------------------------------------------------------------
(* _dispatch_claim, between the claim and the acknowledgment. *)

GoTo(w, step) ==
  /\ pc' = [pc EXCEPT ![w] = step]
  /\ UNCHANGED <<task, cycle, err, beat>>

\* An exception: the except clause stops the heartbeat and records the failure.
Raise(w, kind) ==
  /\ pc' = [pc EXCEPT ![w] = "failed"]
  /\ err' = [err EXCEPT ![w] = kind]
  /\ beat' = [beat EXCEPT ![w] = "off"]
  /\ found' = [found EXCEPT ![w] = FALSE]
  /\ UNCHANGED <<task, cycle>>

\* The interlock, a readback, an apply that did nothing, a preflight or a
\* completion raises.
CallFails(w) ==
  /\ pc[w] \in {"readback", "apply", "mark", "confirm", "complete"}
  /\ \E kind \in Errors : Raise(w, kind)
  /\ UNCHANGED <<rowVars, tableVars, outcomeVars, remoteVars, inflight, boundVars>>

\* Mutant: the call is not preceded by a readback.
FirstLook_Skipped(e) == FALSE

\* What the first readback finds, before every external call.
FirstLook(e) == remote[e] = "present"

\* The interlock, the adapter lookup and the first readback.
Readback(w) ==
  LET e == task[w]
  IN  /\ pc[w] = "readback"
      /\ \/ /\ e \in Adapters[w] /\ remote[e] # "conflict"
            /\ found' = [found EXCEPT ![w] = FirstLook(e)]
            /\ GoTo(w, IF e \in PublisherEffects THEN "check"
                       ELSE IF FirstLook(e) THEN "complete" ELSE "apply")
         \/ /\ e \notin Adapters[w] \/ remote[e] = "conflict"
            /\ Raise(w, "terminal")
      /\ UNCHANGED <<rowVars, tableVars, outcomeVars, remoteVars, inflight, boundVars>>

\* Mutant: a call that may have begun is repeated.
MarkerAgrees_Replays(w, e) == found[w] => Started(e)

\* Mutant: state somebody else published satisfies the grant.
MarkerAgrees_Adopts(w, e) == Started(e) => found[w]

MarkerAgrees(w, e) == found[w] = Started(e)

\* publisher.execute only: the remote state and the remote-call marker must agree.
CheckMarker(w) ==
  LET e == task[w]
  IN  /\ pc[w] = "check"
      /\ \/ /\ MarkerAgrees(w, e)
            /\ GoTo(w, IF found[w] THEN "complete" ELSE "apply")
            /\ UNCHANGED found
         \/ /\ ~MarkerAgrees(w, e)
            /\ Raise(w, "terminal")
      /\ UNCHANGED <<rowVars, tableVars, outcomeVars, remoteVars, inflight, boundVars>>

\* The remote mutation happens; a repeated one duplicates the record.
Write(e) ==
  /\ remote[e] # "conflict"
  /\ remote' = [remote EXCEPT ![e] = "present"]
  /\ writes' = [writes EXCEPT ![e] = @ + 1]
  /\ seen' = [seen EXCEPT ![e] = TRUE]

\* apply of a tracker, session or coordinator effect: it takes place, and the
\* answer arrives or is lost; or it returns without having done anything.
Apply(w) ==
  LET e == task[w]
  IN  /\ pc[w] = "apply"
      /\ e \notin PublisherEffects
      /\ \/ /\ Write(e)
            /\ \/ GoTo(w, "confirm") /\ UNCHANGED found
               \/ Raise(w, "retryable")
         \/ /\ GoTo(w, "confirm")
            /\ UNCHANGED <<remoteVars, found>>
      /\ UNCHANGED <<rowVars, tableVars, outcomeVars, inflight, boundVars>>

\* PublisherEffectAdapter.apply: enter the cross-process fence and pass preflight.
EnterFence(w) ==
  LET e == task[w]
  IN  /\ pc[w] = "apply"
      /\ e \in PublisherEffects
      /\ ~Fenced(e)
      /\ GoTo(w, "mark")
      /\ UNCHANGED <<rowVars, tableVars, outcomeVars, remoteVars, found, inflight, boundVars>>

\* mark_external_call_started: INSERT OR IGNORE under the owned lease.
MarkStarted(w) ==
  LET e == task[w]
  IN  /\ pc[w] = "mark"
      /\ \/ /\ OwnsLease(w, e)
            /\ marker' = IF Started(e) THEN marker
                         ELSE [marker EXCEPT ![e] = attempts[e]]
            /\ GoTo(w, "execute")
            /\ UNCHANGED found
         \/ /\ ~OwnsLease(w, e)
            /\ Raise(w, "retryable")
            /\ UNCHANGED marker
      /\ UNCHANGED <<rowVars, open, base, outcomeVars, remoteVars, inflight, boundVars>>

\* boundary.execute: any exception leaves an unknown outcome and is terminal.
Execute(w) ==
  LET e == task[w]
  IN  /\ pc[w] = "execute"
      /\ \/ /\ Write(e)
            /\ \/ GoTo(w, "confirm") /\ UNCHANGED found
               \/ Raise(w, "terminal")
         \/ /\ \/ GoTo(w, "confirm") /\ UNCHANGED found
               \/ Raise(w, "terminal")
            /\ UNCHANGED remoteVars
      /\ UNCHANGED <<rowVars, tableVars, outcomeVars, inflight, boundVars>>

\* Mutant: the call's own return counts as confirmation.
Proven_ByReturn(e) == TRUE

Proven(e) == remote[e] = "present"

\* The second readback must prove the effect.
Confirm(w) ==
  LET e == task[w]
  IN  /\ pc[w] = "confirm"
      /\ \/ /\ Proven(e)
            /\ GoTo(w, "complete")
            /\ UNCHANGED found
         \/ /\ ~Proven(e)
            /\ Raise(w, IF e \in PublisherEffects \/ remote[e] = "conflict"
                        THEN "terminal" ELSE "retryable")
      /\ UNCHANGED <<rowVars, tableVars, outcomeVars, remoteVars, inflight, boundVars>>

\* Mutant: a publication found after a restart is completed like any other.
ReportsLateSuccess_Never(w) == FALSE

\* _complete_external_effect of a publication found by the first readback: the
\* restart is recorded as an incident before its success.
ReportsLateSuccess(w) ==
  /\ task[w] \in PublisherEffects
  /\ found[w]
  /\ Started(task[w])
  /\ incident[task[w]] = "none"

CompleteIncident(w) ==
  /\ pc[w] = "complete"
  /\ ReportsLateSuccess(w)
  /\ incident' = [incident EXCEPT ![task[w]] = "enqueued"]
  /\ UNCHANGED <<rowVars, tableVars, ack, completed, remoteVars, workerVars,
                 inflight, boundVars>>

\* _complete_external_effect: a known incident is tracker-confirmed first, then
\* the projection is saved and the successor record enqueued.
Complete(w) ==
  /\ pc[w] = "complete"
  /\ ~ReportsLateSuccess(w)
  /\ incident[task[w]] # "enqueued"
  /\ completed' = [completed EXCEPT ![task[w]] = TRUE]
  /\ GoTo(w, "ack")
  /\ UNCHANGED <<rowVars, tableVars, ack, incident, remoteVars, found, inflight, boundVars>>

\* The row leaves the lease and its open attempt is closed.
CloseAttempt(e, newState) ==
  /\ state' = [state EXCEPT ![e] = newState]
  /\ owner' = [owner EXCEPT ![e] = None]
  /\ lease' = [lease EXCEPT ![e] = 0]
  /\ open' = [open EXCEPT ![e] = @ \ {attempts[e]}]

\* heartbeat.stop, raise_if_failed, then acknowledge under the owned lease.
Acknowledge(w) ==
  LET e == task[w]
  IN  /\ pc[w] = "ack"
      /\ \/ /\ beat[w] = "on" /\ OwnsLease(w, e)
            /\ CloseAttempt(e, "succeeded")
            /\ ack' = [ack EXCEPT ![e] = "evidence"]
            /\ Rest(w)
         \/ /\ beat[w] # "on" \/ ~OwnsLease(w, e)
            /\ Raise(w, "retryable")
            /\ UNCHANGED <<state, owner, lease, open, ack>>
      /\ UNCHANGED <<due, attempts, queue, base, marker, completed, incident,
                     remoteVars, inflight, boundVars>>

-----------------------------------------------------------------------------
(* _record_failure *)

\* Mutant: rejections are taken for calls that never began.
NeedsIncident_NotOnRejection(w) ==
  /\ task[w] \in PublisherEffects
  /\ Started(task[w])
  /\ incident[task[w]] = "none"
  /\ err[w] = "retryable"

NeedsIncident(w) ==
  /\ task[w] \in PublisherEffects
  /\ Started(task[w])
  /\ incident[task[w]] = "none"

\* _external_effect_failed: a started remote call becomes an incident record.
FailureCallback(w) ==
  /\ pc[w] = "failed"
  /\ incident' = IF NeedsIncident(w) THEN [incident EXCEPT ![task[w]] = "enqueued"]
                 ELSE incident
  /\ pc' = [pc EXCEPT ![w] = "record"]
  /\ UNCHANGED <<rowVars, tableVars, ack, completed, remoteVars, task, cycle,
                 found, err, beat, inflight, boundVars>>

\* Mutant: off by one at the last attempt.
WillRetry_OneMore(w) == err[w] = "retryable" /\ cycle[w] <= MaxAttempts

WillRetry(w) == err[w] = "retryable" /\ cycle[w] < MaxAttempts

\* Mutant: the row takes a state no claim and no operator command knows.
FailedState_Unknown(w) == IF WillRetry(w) THEN "retry" ELSE "terminal"

FailedState(w) == IF WillRetry(w) THEN "retry_scheduled" ELSE "terminal"

\* schedule_retry or mark_terminal, under the owned lease ...
FinishFailed(w) ==
  LET e == task[w]
  IN  /\ pc[w] = "record"
      /\ OwnsLease(w, e)
      /\ CloseAttempt(e, FailedState(w))
      /\ due' = IF WillRetry(w) THEN [due EXCEPT ![e] = Backoff(cycle[w])] ELSE due
      /\ retried' = IF WillRetry(w) THEN [retried EXCEPT ![e] = @ + 1] ELSE retried
      /\ Rest(w)
      /\ UNCHANGED <<attempts, queue, base, marker, outcomeVars, remoteVars, inflight,
                     crashes, stalls, meddles, repairs>>

\* ... or OutboxLeaseError escapes and the row is left alone.
FinishFenced(w) ==
  /\ pc[w] = "record"
  /\ ~OwnsLease(w, task[w])
  /\ Rest(w)
  /\ UNCHANGED <<rowVars, tableVars, outcomeVars, remoteVars, inflight, boundVars>>

-----------------------------------------------------------------------------
(* Heartbeat, clock and crashes. *)

\* _LeaseHeartbeat: renew extends the owner's live lease.
Renew(w) ==
  LET e == task[w]
  IN  /\ beat[w] = "on"
      /\ OwnsLease(w, e)
      /\ lease[e] < LeaseTime
      /\ lease' = [lease EXCEPT ![e] = LeaseTime]
      /\ UNCHANGED <<state, owner, due, attempts, queue, tableVars, outcomeVars,
                     remoteVars, workerVars, inflight, boundVars>>

\* renew raises: the lease is gone, or (bounded) the database call failed.
BeatFails(w) ==
  /\ beat[w] = "on"
  /\ \/ ~OwnsLease(w, task[w]) /\ UNCHANGED stalls
     \/ OwnsLease(w, task[w]) /\ stalls < MaxStalls /\ stalls' = stalls + 1
  /\ beat' = [beat EXCEPT ![w] = "lost"]
  /\ UNCHANGED <<rowVars, tableVars, outcomeVars, remoteVars, pc, task, cycle, found,
                 err, inflight, crashes, meddles, repairs, retried>>

\* A live worker's lease runs out only if its heartbeat has died or its process
\* stalls: the second case, which MaxStalls bounds.
Overrun ==
  \E w \in Workers :
    /\ pc[w] \notin {"idle", "named"}
    /\ beat[w] # "lost"
    /\ OwnsLease(w, task[w])
    /\ lease[task[w]] = 1

Less1(n) == IF n = 0 THEN 0 ELSE n - 1

Tick ==
  /\ \E e \in Effects : lease[e] > 0 \/ due[e] > 0
  /\ \/ ~Overrun /\ UNCHANGED stalls
     \/ Overrun /\ stalls < MaxStalls /\ stalls' = stalls + 1
  /\ lease' = [e \in Effects |-> Less1(lease[e])]
  /\ due' = [e \in Effects |-> Less1(due[e])]
  /\ UNCHANGED <<state, owner, attempts, queue, tableVars, outcomeVars, remoteVars,
                 workerVars, inflight, crashes, meddles, repairs, retried>>

\* A process dies at any point and restarts: what it held in memory is gone, the
\* operating system drops its fence, its lease runs out.
Crash(w) ==
  /\ pc[w] # "idle"
  /\ crashes < MaxCrashes
  /\ crashes' = crashes + 1
  /\ Rest(w)
  /\ UNCHANGED <<rowVars, tableVars, outcomeVars, remoteVars, inflight, stalls,
                 meddles, repairs, retried>>

-----------------------------------------------------------------------------
(* The world around the dispatcher. *)

\* Somebody else creates the same remote state, or takes its place.
Meddle(e) ==
  /\ meddles < MaxMeddles
  /\ meddles' = meddles + 1
  /\ \/ remote[e] = "absent" /\ remote' = [remote EXCEPT ![e] = "present"]
     \/ remote[e] # "conflict" /\ remote' = [remote EXCEPT ![e] = "conflict"]
  /\ seen' = [seen EXCEPT ![e] = @ \/ remote'[e] = "present"]
  /\ UNCHANGED <<rowVars, tableVars, outcomeVars, writes, workerVars, inflight,
                 crashes, stalls, repairs, retried>>

\* Mutant: the incident is written while a publisher is inside the fence.
ConfirmIncident_Unfenced(e) ==
  /\ incident[e] = "enqueued"
  /\ incident' = [incident EXCEPT ![e] = "confirmed"]
  /\ UNCHANGED <<rowVars, tableVars, ack, completed, remoteVars, workerVars,
                 inflight, boundVars>>

\* The incident record reaches the tracker; its write takes the same fence.
ConfirmIncident(e) ==
  /\ incident[e] = "enqueued"
  /\ ~Fenced(e)
  /\ incident' = [incident EXCEPT ![e] = "confirmed"]
  /\ UNCHANGED <<rowVars, tableVars, ack, completed, remoteVars, workerVars,
                 inflight, boundVars>>

\* repair_outbox refuses a started publication, before its transaction ...
StartRepair(e) ==
  /\ state[e] # "absent"
  /\ "repair" \notin inflight[e]
  /\ repairs < MaxRepairs
  /\ repairs' = repairs + 1
  /\ ~(e \in PublisherEffects /\ Started(e))
  /\ inflight' = [inflight EXCEPT ![e] = @ \cup {"repair"}]
  /\ UNCHANGED <<rowVars, tableVars, outcomeVars, remoteVars, workerVars,
                 crashes, stalls, meddles, retried>>

\* ... which requeues only a terminal intent and starts a new retry cycle.
Repair(e) ==
  /\ "repair" \in inflight[e]
  /\ inflight' = [inflight EXCEPT ![e] = @ \ {"repair"}]
  /\ \/ /\ state[e] = "terminal"
        /\ state' = [state EXCEPT ![e] = "pending"]
        /\ due' = [due EXCEPT ![e] = 0]
        /\ base' = [base EXCEPT ![e] = attempts[e]]
        /\ retried' = [retried EXCEPT ![e] = 0]
     \/ /\ state[e] # "terminal"
        /\ UNCHANGED <<state, due, base, retried>>
  /\ UNCHANGED <<owner, lease, attempts, queue, open, marker, outcomeVars, remoteVars,
                 workerVars, crashes, stalls, meddles, repairs>>

\* reconcile_publication reads the provider once the incident is on the tracker ...
StartReconcile(e) ==
  /\ e \in PublisherEffects
  /\ state[e] = "terminal"
  /\ Started(e)
  /\ incident[e] = "confirmed"
  /\ remote[e] # "conflict"
  /\ inflight' = [inflight EXCEPT ![e] = @ \cup
       {IF remote[e] = "present" THEN "evidence" ELSE "confirmed_absent"}]
  /\ UNCHANGED <<rowVars, tableVars, outcomeVars, remoteVars, workerVars, boundVars>>

\* ... and acknowledge_terminal_readback records the outcome with its successor.
Reconcile(e, outcome) ==
  /\ outcome \in inflight[e]
  /\ inflight' = [inflight EXCEPT ![e] = @ \ {outcome}]
  /\ \/ /\ state[e] = "terminal"
        /\ state' = [state EXCEPT ![e] = "succeeded"]
        /\ base' = [base EXCEPT ![e] = attempts[e]]
        /\ ack' = [ack EXCEPT ![e] = outcome]
        /\ completed' = [completed EXCEPT ![e] = TRUE]
     \/ /\ state[e] # "terminal"
        /\ UNCHANGED <<state, base, ack, completed>>
  /\ UNCHANGED <<owner, lease, due, attempts, queue, open, marker, incident,
                 remoteVars, workerVars, boundVars>>

-----------------------------------------------------------------------------
\* A step of the thread that holds a claim.
Advance(w) ==
  \/ ClaimNamed(w) \/ Readback(w) \/ CheckMarker(w) \/ Apply(w) \/ EnterFence(w)
  \/ MarkStarted(w) \/ Execute(w) \/ Confirm(w) \/ CompleteIncident(w) \/ Complete(w)
  \/ CallFails(w) \/ Acknowledge(w) \/ FailureCallback(w) \/ FinishFailed(w)
  \/ FinishFenced(w)

WorkerStep(w) ==
  \/ DispatchNext(w) \/ (\E e \in Effects : Expedite(w, e))
  \/ Advance(w) \/ Renew(w) \/ BeatFails(w) \/ Crash(w)

EffectStep(e) ==
  \/ Enqueue(e) \/ Meddle(e) \/ ConfirmIncident(e)
  \/ StartRepair(e) \/ Repair(e) \/ StartReconcile(e)
  \/ \E outcome \in Outcomes : Reconcile(e, outcome)

Next ==
  \/ \E w \in Workers : WorkerStep(w)
  \/ \E e \in Effects : EffectStep(e)
  \/ Tick

Spec == Init /\ [][Next]_vars

\* Calls return, heartbeats beat, time passes and polling workers poll.
Fairness ==
  /\ \A w \in Workers : WF_vars(Advance(w)) /\ WF_vars(Renew(w))
  /\ \A w \in Polling : WF_vars(DispatchNext(w))
  /\ WF_vars(Tick)

FairSpec == Spec /\ Fairness

-----------------------------------------------------------------------------
(* What the Outbox promises. *)

\* Every variable keeps its type.
TypeOK ==
  /\ state \in [Effects -> States]
  /\ owner \in [Effects -> Owners \cup {None}]
  /\ lease \in [Effects -> Nat]
  /\ due \in [Effects -> Nat]
  /\ attempts \in [Effects -> Nat]
  /\ queue \in Seq(Effects)
  /\ open \in [Effects -> SUBSET Nat]
  /\ base \in [Effects -> Nat]
  /\ marker \in [Effects -> Nat]
  /\ ack \in [Effects -> Outcomes \cup {None}]
  /\ completed \in [Effects -> BOOLEAN]
  /\ incident \in [Effects -> {"none", "enqueued", "confirmed"}]
  /\ remote \in [Effects -> {"absent", "present", "conflict"}]
  /\ writes \in [Effects -> Nat]
  /\ seen \in [Effects -> BOOLEAN]
  /\ pc \in [Workers -> Steps]
  /\ task \in [Workers -> Effects \cup {None}]
  /\ cycle \in [Workers -> Nat]
  /\ found \in [Workers -> BOOLEAN]
  /\ err \in [Workers -> Errors]
  /\ beat \in [Workers -> {"off", "on", "lost"}]
  /\ inflight \in [Effects -> SUBSET (Outcomes \cup {"repair"})]
  /\ crashes \in Nat /\ stalls \in Nat /\ meddles \in Nat /\ repairs \in Nat
  /\ retried \in [Effects -> Nat]

\* The attempt ledger agrees with the row through every reclaim, renewal, failure
\* and repair: the latest attempt is 'claimed' exactly while the row is leased,
\* and no older attempt ever stays open (_claim, _finish_failed_attempt).
OneOpenAttempt ==
  \A e \in Effects : open[e] = IF state[e] = "leased" THEN {attempts[e]} ELSE {}

\* The dispatcher never reports success on the strength of its own call: an intent
\* acknowledged with evidence was seen downstream, and its local completion ran
\* before the acknowledgment (_dispatch_claim's readbacks and completion).
SuccessWasSeen ==
  \A e \in Effects :
    ack[e] = "evidence" => seen[e] /\ completed[e]

\* A privileged publication is called at most once, whatever crashes, lost leases,
\* repairs and competing publisher processes do (outbox_external_calls).
PublishedAtMostOnce ==
  \A e \in PublisherEffects : writes[e] <= 1

\* A publication resolved as confirmed absent was never made and is not made
\* afterwards, even by a worker that lost its lease in the middle of the call:
\* the incident write had to wait for the fence (reconcile_publication).
AbortedNeverPublished ==
  \A e \in PublisherEffects :
    ack[e] = "confirmed_absent" => writes[e] = 0

\* Remote state that somebody else created before our call does not satisfy a
\* publication grant: success needs the marker of a call of ours.
NoForeignPublication ==
  \A e \in PublisherEffects : state[e] = "succeeded" => Started(e)

\* A publication that stops after its remote call may have begun is never silent:
\* by then its repair-required incident is durable (_external_effect_failed).
UncertainCallIsReported ==
  \A e \in PublisherEffects :
    state[e] = "terminal" /\ Started(e) => incident[e] # "none"

\* A publication that succeeds in a later attempt than the one that made the call
\* leaves an incident behind (_complete_external_effect).
LateSuccessIsReported ==
  \A e \in PublisherEffects :
    state[e] = "succeeded" /\ marker[e] < attempts[e] => incident[e] # "none"

\* Semantic once: while no lease is lost under a live worker, crashes, lost
\* answers, retries and operator repairs never write the same record twice.
SemanticOnce ==
  stalls = 0 => \A e \in Effects : writes[e] <= 1

\* Retries between two operator repairs stay below max_attempts.
RetryBudget ==
  \A e \in Effects : retried[e] < MaxAttempts

\* An acknowledged intent never changes again: no stale worker, operator repair or
\* reconciliation reopens it (_owned_lease, the state guards of repair).
SuccessIsFinal ==
  [][\A e \in Effects :
       state[e] = "succeeded" => state'[e] = "succeeded" /\ ack'[e] = ack[e]]_vars

\* The comment on the heartbeat's failure: a fenced owner must stop applying.  A
\* worker whose heartbeat has failed and that no longer owns its lease writes
\* nothing downstream.
FencedOwnerStopsApplying ==
  [][\A w \in Workers :
       beat[w] = "lost" /\ ~OwnsLease(w, task[w]) /\ pc[w] = "apply" /\ pc'[w] = "confirm"
       => writes' = writes]_vars

\* The promise to callers and operators, with everything inside hidden.
Status(e) ==
  CASE state[e] = "absent" -> "none"
    [] state[e] \in {"pending", "leased", "retry_scheduled"} -> "open"
    [] state[e] = "terminal" -> "failed"
    [] state[e] = "succeeded" ->
         IF ack[e] = "confirmed_absent" THEN "aborted" ELSE "succeeded"

Promise == INSTANCE EffectPromise WITH
  status <- [e \in Effects |-> Status(e)],
  made <- [e \in Effects |-> writes[e] > 0],
  present <- seen

\* The Outbox implements EffectPromise: it succeeds only with what is really there,
\* makes a publication at most once and never after declaring it absent.
KeepsPromise == Promise!Spec

\* Every registered effect is eventually acknowledged or visibly terminal.
EveryEffectSettles ==
  \A e \in Effects :
    state[e] = "pending" ~> state[e] \in {"succeeded", "terminal"}
=============================================================================
