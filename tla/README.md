# Map governance: specification and proofs

TLA+ models of the parts of `plugin/map_governance` and `plugin/dashboard` whose
correctness depends on interleavings, failures and restarts, checked with TLC on
small instances, and theorems proved with TLAPS for every instance: every safety property
a passing run checks is also a theorem. `PROJECT.json` lists components, runs, mutants, the
source lines behind every definition, findings, hazards and theorems.

Paths below are relative to the repository's `plugin/` unless they say otherwise.

## 1. The system

A Hermes plugin governs "Maps": a Map is a GitHub Issue that is the source of
truth, a local SQLite database holds projections of it and a durable Outbox of
external effects, and several processes (gateway, dashboard, CLI, publisher
commands) work on the same database.

| Component | State | Operations | Hard behaviour | What makes it correct |
|---|---|---|---|---|
| Outbox (`outbox.py`) | `outbox_intents`, `outbox_attempts`, `outbox_repairs`, `outbox_external_calls` | enqueue, claim, renew, read back, apply, complete, acknowledge, retry, terminal, repair, settle from evidence | competing threads and processes, leases that expire under a live worker, crash between any two steps, lost answers | an effect succeeds only when seen; a publication is called at most once; a final outcome never moves; everything settles |
| Effect adapters (`effects.py`) | none of their own | readback, apply, completion per effect type | the call happened and nobody knows | readback before and after every write |
| Publication (`publication.py`, `application.py`) | grant, incident, acceptance records | `publish_map`, `reconcile_publication` | publisher dies in the call; evidence is read while an old claim lives | never twice, never silently, never "absent" and made |
| Board journal (`events.py`, `storage.py`) | `board_events`, meta, heads, identities | append in the writer's transaction, prune, read | pruning by count and age against slow readers | a reader misses nothing or is told to reload |
| Live board (`dashboard/plugin_api.py`, `dist/index.js`) | page, cursor, socket, requests | snapshot, stream, reduce, reconnect, reload | snapshot races the stream, drops, expired cursors | the page ends up showing what was committed |
| Approvals (`application.py`, `storage.py`, `approvals.py`) | `approval_ledger`, `protected_mutations`, Issue history | request, decide, revoke, expire, reserve, complete, reconcile | effects, expiry and reconciles move the same row without a common lock | a grant is real and used once; the ledger follows the Issue |
| Stages and Maps (`stages.py`) | card projection, Issue labels | transition, cancel, bind | read-then-write of labels; compare-and-save of the card | a stage is changed only from the expected one |
| Structured decisions | decision projection | record, supersede | another payload under the same id | one payload per decision id |
| PM turns, reports, questions (`application.py`, `coordinator.py`) | `pm_assignments`, `pm_resume_receipts`, `pm_decision_acknowledgments` | begin, resume, report, answer, acknowledge, end | a prompt with unknown delivery; completions repeated after the turn ended | a session is prompted once per turn; one report per turn; every question reaches the CEO, every answer resumes the PM |
| Commissioning (`application.py`, `coordinator.py`) | `pm_runtime_bindings`, Herdr workspace and agent | commission a Map's PM, again at any time | crash between a Herdr command and its record; ready report confirmed, finish lost | one workspace; no delivery before the ready report |
| Delivery lanes (`application.py`, `coordinator.py`) | registry records on the ticket, worktrees, integration branch | dispatch, collect | crash between cherry-pick and record; two calls on earlier reads; foreign commits | lanes are delivered in order, once, and validated before they are reported |
| CEO sessions (`sessions.py`) | session projections | ensure, open, reconcile | two processes mint a session | one session per Map |
| Restart recovery | identities, repair plans | `recover_*`, repair | rediscovery against the record | nothing foreign is adopted |
| Project reconcile and reachability | `project_reachability` | refresh, mark stale | a reconcile overtaken by local writes | fail closed while the tracker is not readable |
| Setup (`prerequisites_setup.py`) | config file, receipts | plan, apply, restore | partial apply, foreign write in between | apply or restore |
| Tracker adapter (`tracker.py`) | GitHub | GraphQL and REST calls | external | modelled from its use |
| Doctor, runtime composition, CLI/tools/REST, views | none | read-only or thin | none of their own | not modelled |

How they interact: an operation of the application checks its preconditions
under a file lease, reads the tracker, and in one SQLite transaction reserves
local state and enqueues an effect. The Outbox dispatches the effect (in the same
request, or from the polling runtime, possibly in another process), calls the
adapter, and calls back into the application to complete the local state; that
completion may enqueue a successor effect. Every state writer appends a board
event in the same transaction; the dashboard follows those events. A reconcile
rebuilds the projections from the Issue.

## 2. Modules

| Module | What it is |
|---|---|
| `EffectPromise` | what the Outbox promises about one effect, with no leases, workers or retries |
| `Outbox` | the Outbox with its dispatcher, heartbeat, polling runtime and publisher adapter |
| `MCOutbox` | threads, owner ids and adapters for TLC |
| `OutboxProofs` | the general invariants of `Outbox`, proved |
| `OutboxPublicationProofs` | what holds of publications, and the refinement of `EffectPromise`, proved |
| `OutboxRetryProofs` | the retry budget of `Outbox`, and when it holds, proved |
| `BoardJournal` | the journal and its writers |
| `BoardStream` | one page following the journal; extends `BoardJournal` with the snapshot, the WebSocket and the page |
| `MCBoardStream` | one session, two contents |
| `BoardProofs` | the safety properties of `BoardJournal` and `BoardStream`, proved |
| `ApprovalPromise` | what protected mutations promise to who watches the Map's Issue: no ledger, leases, effects, expiries or reachability |
| `Approvals` | approvals of one Map, their effects, the mutations that use them, reconciles |
| `MCApprovals` | symmetry of the mutations |
| `ApprovalsProofs` | the safety properties of `Approvals` and the refinement of `ApprovalPromise`, proved |
| `TurnPromise` | what the PM's turns promise to who watches the agent, the Issue and the CEO: no effects, receipts, leases, calls or retries |
| `PmTurns` | the PM's turns, reports, questions and answers, with the effects they queue |
| `Commissioning` | commissioning of the Map's PM; extends `PmTurns`, whose first turn it runs |
| `MCCommissioning` | symmetry of reports and of turns |
| `CommissioningProofs` | the safety properties of `PmTurns` and `Commissioning`, proved |
| `CommissioningPromiseProofs` | the refinement of `TurnPromise`, proved |
| `DeliveryPromise` | what ordered delivery promises: no calls, records, branch or workers |
| `DeliveryLanes` | dispatch and collection of one Map's lanes |
| `MCDeliveryLanes` | its instances |
| `DeliveryLanesProofs` | the safety properties of `DeliveryLanes` and the refinement of `DeliveryPromise`, proved |

### Outbox

One action is one SQLite transaction or one external call; workers interleave
between any two. A worker is a thread; `OwnerOf` gives the owner id it writes
into leases, `Adapters` the effects its composition can execute, `Polling` the
threads that run `OutboxRuntime`. `owner_id` is `map-governance:{pid}:{uuid4}`,
the runtime thread appends `:runtime`, and the request threads of one process
share one id. A publisher composition is one single-threaded command with its own
id (`PublisherOwnerAssumption`). `pc[w]` is the position in `_dispatch_claim`:

    idle -> named -> readback -> check -> apply -> mark -> execute -> confirm -> complete -> ack
                                                      any failure -> failed -> record

`check`, `mark` and `execute` are publisher steps (`effects.py`): remote state and
the durable remote-call marker must agree, the cross-process fence is entered, the
marker is written under the owned lease, and only then is the call made. `failed`
is `_record_failure`'s callback (the incident), `record` its row update under the
lease check. `_owned_lease` is `OwnsLease`: leased, by this owner id, unexpired.
Operator commands check first and commit later: `StartRepair`/`Repair` and
`StartReconcile`/`Reconcile` are separate steps.

Timestamps become ticks left (`lease`, `due`). A live worker's lease runs out only
when its heartbeat fails or its process stalls, and `MaxStalls` bounds both.
A failure callback that raises leaves the row leased, which is what a crash does.
Not modelled: a remote call that lands after its process died, GitHub's read-after-write
lag, and timestamps taken before `BEGIN IMMEDIATE`. `release` is used by tests only.

### BoardJournal and BoardStream

A writer changes its projection and appends its events in one transaction.
Resources whose events carry their whole content (`session.updated` and its like)
are `Save`; decisions, whose events carry one or all of them, are `SaveDecision`,
`ReplaceDecisions` and `Reconcile`. `Insert` does what `append_board_event` does
per event: next cursor, prune by count and by age. `Age` lets any row pass the
retention time, in any order, since writers read the clock before their
transaction. Rows expired by age but not yet deleted are hidden by `LogicalFloor`.

The snapshot reads the cursor and then the board. The page (`index.js`) has two
ways to load: behind the stream (first load, expired cursor), which sets the cursor
and opens the socket, and by hand (Refresh, Retry), which does neither. `ReceiveEvents`
is the reducer over one frame; an unready page applies nothing but moves its cursor.
Left out: the detail panel, reconnect delays, and events the page applies from the
answers to its own requests.

### Approvals

An effect is what `Outbox` establishes of it: attempted while the tracker is
writable, written if not there yet, completed, its acknowledgment possibly lost
after the completion (then it completes again), retried or terminal, repaired by an
operator. Operations that only queue an event are one step; `transition_map` and
`cancel_map` are two, `Validate` and `Reserve`, because both read the tracker in between
and the reservation's transaction looks at the status only. `Reserve` carries the
`UNIQUE(request_id)` of `protected_mutations`. A reconcile is four steps (announce,
fetch from the Issue, project against the rows of that moment, apply), without the
approval lease: it can be overtaken. A request overwritten by an overtaken reconcile
is recorded in `rolled`; what the properties say of such a request is stated below.
Left out: packet validation, denial audit, the resume of the PM that a grant triggers
(it is in `PmTurns`), the card projection, `publish_map`'s reservation (the same as `cancel_map`'s, its execution
is in `Outbox`), `commission_map`'s use of a consumed approval. `revoke_approval` has
no adapter; it is part of the application's interface and of its tests.

`ApprovalPromise` sees the types of the events on the Issue (`Told`), who took which grant at
which stage seen (`Grants`), the stage and what the system calls done (`Done`). It says in which
order these may change: a decision once, of a request shown; a grant taken once, after it is
shown; a transition neither after its revocation is shown nor revoked once it has the grant; the Map closed
from the stage seen, with its consumption on the Issue. An overtaken reconcile is its step
`Dispute`, which frees the request of the two clauses about revocations only. Since a stage can change between
a read and what follows from it, the promise lets a grant carry any stage seen, and a mutation be done
when the Map has been moved on since; that the comparison and the move of a close are one step is
the abstraction named in §6.

### PmTurns and Commissioning

`PmTurns` holds the turns of one Map's PM; `Commissioning` creates the agent they are
prompted to and composes both in its `Next`. An operation that holds `pm_turn_lease` over
several reads and writes is two steps with the caller recorded in between (`coordinator`,
`call`); `acknowledge_pm_decision`, which takes no lease, is three (`reply`). Turns are the ones
the coordinator asks for, the commissioning turn `Ready`, and one per answered question and
outcome. The effects are those of the Outbox, reduced to what `Outbox` establishes: an effect
is pending, dead or succeeded, `at` says how far its one attempt is, an attempt may
fail at any point after its effect, and a dead effect may be repaired. The resume's attempt is

    rest -> prompt -> prompted -> seen -> done          (receipt: dispatching -> prompted)
      readback: rejected or retry, marker not visible -> retry -> prompt again

and a report's is `rest -> seen -> (stage effect) -> route -> done`: the turn ends, the
question is routed, and the completion waits for the CEO's turn (`wake`).
Herdr is modelled from its use: an agent session takes a prompt in when it is sent, later
(`late`) or never, and whether it did is visible only in its transcript (`MarkerVisible`).
`commission_map` is a chain of steps (`commission.step`) under its own lease, each one Herdr command,
record or read; any of them may be the last before a failure, a crash or another call.

A report says what it does to the stage (`RequestedStage`). In delivery a blocking question and a
blocking blocker both move the Map to decision, and an acceptance report to acceptance. Only the
question is routed to the CEO and can be answered: a blocker, which a lane operation may also send
itself, ends the turn, wakes nobody and has no answer, so that it takes an operator's `transition_map` to
lead on from it, or the repeated acknowledgment of an earlier question. The order is an effect of its own: `OrderStage` reads the
stage and queues an occurrence of one of `Orders` (among `Transitions`, the part of `ALLOWED_TRANSITIONS`
between delivery, decision and acceptance), `WriteOrder` writes it if the stage is still the
expected one. A blocker that does not block, and a failure report, are checkpoints here.

Abstractions: the correlation of a question is its report. A replayed report only dispatches
its effect again. `FollowAnswer` reads the stage, queues the transition to delivery and
writes it in one step, where the code queues an effect that may stay pending or fail; in a stage that
is neither decision nor delivery the code raises, and the model's call ends without a change. A
workspace that Herdr creates after the command timed out and the next call has looked is
not modelled. An operator may also park a Map or edit its labels by hand; neither is modelled. The local decision projection
is compared in `Approvals`, not here: `ApplyAnswer` only knows whether a grant has ended. The
agent is busy or idle as it likes. The resume after changes
requested at acceptance is left out: only an order
leads back to delivery. Authorization and prerequisites precede the first step.
`TurnPromise` sees of all this the prompts each session took in, the reports and answers on the
Issue with the turn and kind of their record (`Told`, `Answered`), the CEO's turns that succeeded
(`Woken`), the grants that ended (`Withdrawn`), the transitions an operator ordered (`Ordered`) and
the stage, which moves only by what one of those reports, answers or orders calls for.
`PmInit` starts from a Map nobody has commissioned, or from one whose commissioning met
no trouble; the second reaches the turns of delivery within the bounds.

### DeliveryLanes

A lane is a ticket with a worker, named by its integration order. `dispatch[l]` is the
`dispatch_pm_delivery_lane` under way for a lane, `collect` the `collect_pm_delivery_lane` under
way for the Map; they hold different leases and interleave at every step:

    dispatch: prepare -> confirm -> append -> readback -> enter -> start -> prompt -> confirm ... -> complete
    collect:  evidence -> pick -> check -> validate -> settle -> confirm -> append -> readback -> report

`confirm`, `append` and `readback` are `_confirm_delivery_lane_registry`: it reads the ticket's
history, decides, appends and reads again. `enter` to `prompt` is `dispatch_lane`, `evidence` to
`settle` is `collect_lane`, both under `pm_runtime_lease` (`RuntimeLeaseFree`). What a call
read at its start (`reg`, `stamp`, `parent`) it keeps, as the code does.

The integration branch only grows, so a commit on it is its position and the base is 0. A
worker's commit is a version: amending makes the next. Others may commit to the branch, a
conflict may leave the worktree dirty until someone aborts the pick, a worker may exit or
amend at any time. Turns are those of `PmTurns` reduced to what delivery reads. Identities of panes,
worktrees and repositories, digests, ticket parsing and worker routing are
left out; the acceptance report of the last lane is the last turn's, although the Map may return from
acceptance to delivery; a prerequisite that fails becomes a report (`ReportOther`), and the worker's final
report is its status and the version it names. A worker waiting for input counts as working:
both calls wait for it. `Init` has the first `k` lanes delivered already.

## 3. Runs

| Run | Instance | Shows |
|---|---|---|
| `publication` | 2 publisher processes, 1 publication, lease 1, 2 attempts, 1 crash, 1 stall, 1 foreign write, 1 repair; symmetric publishers; 0.9 M states | the publication is called at most once and never silently; it is not made when declared absent; the ledger of attempts agrees with the row; a success is final; `Outbox` implements `EffectPromise` |
| `records` | runtime + 2 request threads of one process, 1 record, lease 2, grace 1, 2 attempts, 1 crash, 1 stall, 1 foreign write, fairness; 0.3 M states | written once unless a lease was lost under a live worker; success only after it was seen and completed; always settles |
| `fence` | runtime + 1 request thread, 1 record | finding 1 |
| `board` | 1 session with 2 contents, decisions, history of 2 events, 3 commits, batches of 2, 1 frame in flight, 1 drop, 1 failed load, 1 refresh, fairness; 1.2 M states | reads are gapless, the page misses nothing, the page catches up |
| `board_refresh` | the same, without fairness | finding 2 |
| `approvals` | 1 request, 2 symmetric mutations, 1 reader with 2 reconciles, 2 troubles; 2.3 M states | the grant is real, used once, stopped by a revocation, the ledger agrees with the Issue, final statuses stay; `Approvals` implements `ApprovalPromise` |
| `revoked_grant` | no trouble, no reconcile | finding 3 |
| `rebuild` | no trouble, no reconcile | finding 4 |
| `commissioning` | 1 turn of the coordinator, 2 symmetric reports (blocking question, blocker, acceptance), 1 order (decision to delivery), 2 agent sessions, 4 events; 1.3 M states | a session is prompted once per turn; a turn is active only after its prompt; one report per turn; questions reach the CEO; answers resume; no delivery before the ready report; one workspace; types; `Commissioning` implements `TurnPromise` |
| `pm_reopened` | 1 turn, 1 checkpoint, 1 session, 3 events | finding 5 |
| `delivery_lanes` | 2 lanes, 3 turns, 2 versions per worker, 2 calls at once, 7 records per ticket, 2 troubles; 5.8 M states | lanes sit in order and once on the branch; what is reported was validated; the registry's history stays readable; `DeliveryLanes` implements `DeliveryPromise` |
| `lane_later_turn` | 1 lane, 3 turns, 1 call at a time, 4 records, 2 troubles | finding 6 |

Why the bounds are enough for what they are asked:

- *Two workers, one effect.* Effects share no row: they meet only in `Earliest`.
  Every race in the Outbox is between the holder of a claim and one other party
  (reclaimer, operator, incident writer), and one crash plus one stall plus a
  reclaim of the second attempt are all in range. Lease 1 or 2, back-off 1 and
  grace 0 or 1 reach every order of expiries.
- *`MaxAttempts` 2* is the smallest budget that has a retry and a last attempt.
  Reclaiming an expired lease is not limited by it, in the code or in the model.
- *History of 2 events, 3 commits*: the count prune, the age prune, an age prune in
  the middle of the retained range, and a cursor that has expired all occur; batches of
  2 give batches shorter and longer than one.
- *Two mutations, one grant*: the smallest instance in which a grant can be used
  twice. Two troubles are a lost acknowledgment and a failed attempt of the same effect,
  or either with an outage, and two reconciles let one be overtaken and one follow it.

- *Two reports, four events.* `MaxEvents` pays for everything that starts or goes wrong: a
  report or an order weighs 2, a call of `commission_map` or a failure 1. Four reaches a question asked, answered
  and resumed, with a lost acknowledgment, a late prompt or the end of the grant in the
  budget that is left, a blocker and the order that leads on from it, two reports competing for a turn, and, from the fresh start, a
  commissioning with three failures or repetitions. Two sessions let an agent be replaced.
- *Two lanes, two calls.* Order needs two lanes; a race is between a dispatch and the
  collection, or two dispatches. Two troubles are a crash after the cherry-pick and a
  foreign commit, an amended commit and a lost answer, and so on. Seven records hold created,
  running, blocked, running, terminal, integrated and one repetition. The theorems of section 5
  hold without these bounds.

`CHECK_DEADLOCK FALSE` in every cfg: the bounded system really stops once its effects
are settled and its budgets used.

*Fairness.* `Outbox`: weak fairness of a thread that holds a claim (its calls return: they
have timeouts), of the heartbeat, of polling workers (the loop of `OutboxRuntime`) and
of time; none of operator commands, crashes, or request threads picking work up.
`BoardStream`: weak fairness of the stream (the server polls, the page's reconnect timer
fires) and of answers to requests; none of refreshes or commits. `CatchesUp` exempts a
page whose first load failed: nothing in the page opens its stream later.
`Commissioning` and `DeliveryLanes` assume none: the agent, the workers and the
operator may stay away forever, and every step of theirs waits for one of them.

What the properties do *not* say, on purpose:

- `SemanticOnce` holds while `stalls = 0`: a worker that overruns its lease writes
  beside its successor, and the repository does not promise otherwise (root
  `README.md`, "不承诺物理 exactly-once"). For publications `PublishedAtMostOnce` needs no
  such condition.
- `RetryBudget` is checked with distinct owner ids. Threads of one process share theirs
  and `_owned_lease` compares owner ids only, so a thread that overran its lease can settle
  its sibling's attempt with its own, older attempt number. With shared ids, one stall and one repair
  TLC finds a cycle with `MaxAttempts` retries: a thread keeps its claim from the cycle before the
  repair and schedules one more. `BudgetHeldUndisturbed` (section 5) says that the stall is
  necessary. `SuccessIsFinal` and `OneOpenAttempt` hold regardless (they are proved for any `OwnerOf`).
- `NothingMissed` says no decision *less*: the page counts a replayed or re-saved older
  decision again (`index.js` compares only with the latest) until the next reconcile event.
- `RevocationStops`, `LedgerAgrees` and `FinalStays` exempt requests overwritten by an
  overtaken reconcile. The code does overwrite: a consumption rolled back this way is
  shown as approved again and is not restored from the Issue, because a transition writes no
  consumption event there. `UsedOnce` and `GrantIsReal` hold without the exemption.

- `OnePromptPerTurn` is bought with progress: a process that dies between the receipt and the
  prompt leaves a receipt that says dispatching, a transcript without the marker and no
  rejection, and then neither retry nor repair nor commissioning prompts again. Such a resume
  stays unresolved and refuses the coordinator's later turns.
- `QuestionReachesCeo` speaks of effects that were acknowledged. If the completion of a
  report runs again after another turn has begun, the effect turns terminal, and a question that was
  not routed by then is not routed any more.
- `OneReportPerTurn` does not say that the report ends the turn: a blocked acknowledgment, which
  takes no lease, may end it first, and the report's completion then turns terminal.
- Workers have no receipts: a worker whose prompt was not answered, or that finished after a
  resume the registry does not show, may be prompted again. No document promises otherwise.
- `ReportedIsValidated` says that a validation passed on the branch when it ended at the
  recorded commit, not that this collection ran it.

Every property of a passing run has a mutant in `PROJECT.json`: the `X_Something`
operator next to the definition it replaces, a plausible bug under which TLC
finds the property violated.

## 4. Findings

1. `fence`: the heartbeat's error is read only after `adapter.apply` and the completion
   have run, so a worker whose heartbeat failed and whose lease is gone still writes;
   a comment in `outbox.py` says a fenced owner must stop applying.
2. `board_refresh`: Refresh loads a snapshot while the stream stays open. An event received
   during the load is dropped and the cursor moves past it.
3. `revoked_grant`: `cancel_map` uses a grant whose revocation is already in the Issue but
   not completed locally. The Issue then holds both a revocation and a consumption, which
   no reconcile accepts.
4. `rebuild`: `cancel_map` checks the expiry, reads the tracker, and then samples the
   time of the consumption. If the approval expires in between, the Issue gets a
   consumption after the expiry, which every later reconcile refuses.
5. `pm_reopened`: the acknowledgment of a resume is lost after its completion, the PM
   reports, the turn ends, and the retried completion makes the ended turn active again:
   `begin_pm_turn` refuses only while another turn is active. The turn's report
   slot is taken, so no report and no dispatch can end it.
6. `lane_later_turn`: a lane recorded as terminal or integrated in a turn whose report did not go
   through is refused by every later turn, because the record rebuilt by the collection
   carries the time of the current turn and must equal the one on the ticket. The PM's skill tells it to
   collect again in a later turn.

## 5. Proofs

`OutboxProofs` and `OutboxPublicationProofs` prove, for any sets of effects, workers,
owners and adapters and any settings:

| Theorem | Property |
|---|---|
| `TypeCorrect` | `TypeOK` |
| `LedgerAgrees` | `OneOpenAttempt` |
| `SuccessIsBacked` | `SuccessWasSeen` |
| `SuccessStays` | `SuccessIsFinal` |
| `WrittenOnce` | `SemanticOnce` |
| `CalledAtMostOnce` | `PublishedAtMostOnce` |
| `AbsentStaysAbsent` | `AbortedNeverPublished` |
| `OwnCallOnly` | `NoForeignPublication` |
| `UncertainIsReported` | `UncertainCallIsReported` |
| `LateIsReported` | `LateSuccessIsReported` |
| `OutboxKeepsPromise` | `KeepsPromise`, i.e. `Spec => Promise!Spec` |

*Assumptions*: `SettingsAssumption` (positive settings, as `__post_init__` enforces),
`TopologyAssumption` (types of the wiring) and, for publications only,
`PublisherOwnerAssumption`. Crashes, stalls, foreign writes and repairs are bounded by
arbitrary numbers, so the bounds restrict nothing.

*The inductive invariants.* `TypeInv` strengthens `TypeOK` by the shape of a worker (a
thread that is not idle has a task, only a composition with a publisher works on a
publication, only a publication reaches the publisher's steps, a heartbeat runs only under a
claim) and by `CycleShape` (a repair starts no cycle beyond the attempts made). `OneOpenAttempt` is inductive with it. `SuccessWasSeen` needs that a worker past
its confirmation has seen the effect and one past its completion has completed it
(`SeenInv`). `SemanticOnce` needs two parts while no stall has happened: a live claim is
undisturbed (its worker owns an unexpired lease, so no two workers are between
readback and acknowledgment of one effect), and a write, once done, is never read as absent
again (`Undisturbed`, `WriteRemains`).

For publications, leases prove nothing, since they may be lost at any time. The invariant
(`PublicationInv`) rests on the marker and the fence instead: `Call` (nothing is written
before the marker; only the worker inside the fence with an unused marker may still
write), `Path` (what every step of `_dispatch_claim` knows of marker, readback and
incident), `Exclusive` (one worker in the fence; the incident reaches the tracker only
when nobody is, and afterwards nobody gets to the call any more). `AbortedNeverPublished` follows because evidence is
read only after the incident was written. The refinement maps the row's state to
the promise's `status`, `writes > 0` to `made` and `seen` to `present`; each action is a
step of `EffectPromise` or a stutter (`Mapped`).

`OutboxRetryProofs` proves the budget under the same assumptions:

| Theorem | States |
|---|---|
| `BudgetHeld` | `RetryBudget`, if no two threads share an owner id |
| `BudgetHeldUndisturbed` | `RetryBudget` while `stalls = 0`, for any owner ids |
| `PublicationBudget` | the budget of publications, for any owner ids and any stalls |

The dispatcher decides on a retry with the attempt number of its claim, so the invariant
(`BudgetInv`) says when that number is the row's: `Current`, for every claim whose lease check can
pass, and `Counted`, that each scheduled retry used up an attempt of the cycle. Both are claimed of
an effect only if nobody can take another thread's claim for its own (`Sure`): without
stalls because `OnceInv` leaves one worker per effect, otherwise because the owner ids differ.
TLC found `BudgetInv` to hold on the instance of `publication` and on that of `records` with a
repair.

`ApprovalsProofs` proves, for any sets of requests, mutations and readers and any bounds:

| Theorem | Property |
|---|---|
| `TypeCorrect` | `TypeOK` |
| `GrantBacked` | `GrantIsReal` |
| `GrantUsedOnce` | `UsedOnce` |
| `RevocationHolds` | `RevocationStops` |
| `FinalStatusStays` | `FinalStays` |
| `LedgerFollows` | `LedgerAgrees` |
| `ApprovalsKeepPromise` | `KeepsApprovalPromise`, i.e. `Spec => Promise!Spec` |

*Assumption*: `ApprovalsAssumption` only (`NoOne` is no id, the bounds are numbers).

*The inductive invariant.* A row can be overwritten by a reconcile that read the Issue
long before, so nothing about a row can be kept without saying what such a reconcile holds.
`TypeInv` therefore adds to the types: `EventInv` (every event in the Issue comes from an effect that
was queued, with the decision it carries) and `ReadInv` (a reconcile holds a part of the
present Issue, and before it applies has accepted it: events never go away).
`SafeInv` holds per request: `BackedRow` (a row shows at most what the Issue shows, and a used grant was
approved there), `FinishedEffects` (a finished effect has left its row or event), `OneUser`
and, unless the request is in `rolled`, `Undisturbed` (the row of a used grant names its
user, a finished revocation or decision stays in the row, an operation that passed
`Validate` races no revocation). `OneUser` needs no row: it rests on the uniqueness of
`request_id`, which is why it survives an overtaken reconcile. `ProjectionBacked` and
`ProjectionKeeps` show that the row a reconcile computes satisfies the first group always, and the
second unless it counts as overtaken. `LedgerAgrees` is derived: with all effects done, the event types in the
Issue determine `StatusOf`, and each of them forces the row.

*The refinement* adds `ShownInv`, what the queued effects rest on: a history begins with its request
(`OnIssue`), a revocation is queued after the approval is shown, and the effects of a mutation
are those its grant entitles it to, a close only with the consumption on the Issue (`OfGrant`). None of it is ever
taken back, since events, grants and queued effects stay (`Stays`, `Enters`). `Write` is the step
of the promise its effect stands for, `Reserve` is `Take`, `CompleteMutation` is `Confirm`, and
everything else stutters. That a decision is shown once rests on `EventInv`; that no transition takes a
revoked grant on `Undisturbed`. TLC found `ShownInv` to hold on the instance of `approvals`.

`DeliveryLanesProofs` proves, for any number of lanes, turns, calls, records and troubles:

| Theorem | Property |
|---|---|
| `TypeCorrect` | `TypeOK` |
| `HistoryStaysReadable` | `HistoryReadable` |
| `LanesInOrder` | `InOrderOnce` |
| `ReportedWasValidated` | `ReportedIsValidated` |
| `LanesKeepPromise` | `PromiseKept`, i.e. `Spec => Promise!Spec` |

*Assumption*: `DeliveryLanesAssumption` only (there is a lane, the bounds are numbers).

*The inductive invariant.* Every call acts on what it read some steps before, so the
invariant says at each step of a call what is still true of that. `HistoryReadable` alone is
not inductive, since `AppendRecord` does not look at the history again: `DispatchInv` says that
what a dispatch decided to append may still be appended, and `CollectInv` says it of a collection.
Both hold because the two kinds of calls write different records (the shape in `TypeOK`): only a
dispatch may append to an absent, created or blocked lane and only a collection to a running or
terminal one, so neither can take the place the other has seen. `CollectInv` also
follows the evidence of a collection: all predecessors are integrated from its start on, an integrated record never
changes again, so `parent` stays the lane's place; after `check` the lane's commit is at its place of
a branch that only grows; at `settle` a validation has passed at or above it, and the comparison of
`Settle` makes that exact. `LaneInv` is what a collection
leaves: the commit of an integrated lane is at its place, validated, after integrated lanes only;
`ReportInv` adds that a reported lane is integrated. `InOrderOnce` and
`ReportedIsValidated` follow by walking down the lanes. For the refinement, `AppendCollect` of an integrated record
is `Deliver`, `ReportCollect` is `Report`, and every other step stutters.

`CommissioningProofs` proves, for any sets of turns, reports, kinds and orders, any number of agent
sessions and any number of events:

| Theorem | Property |
|---|---|
| `TypeCorrect` | `TypeOK` |
| `PromptedOnce` | `OnePromptPerTurn` |
| `ActivePrompted` | `ActiveTurnWasPrompted` |
| `ReportedOnce` | `OneReportPerTurn` |
| `QuestionRouted` | `QuestionReachesCeo` |
| `AnswerResumed` | `AnswerResumes` |
| `ReadyFirst` | `ReadyBeforeDelivery` |
| `SingleWorkspace` | `OneWorkspace` |
| `TurnsKeepPromise` (`CommissioningPromiseProofs`) | `KeepsTurnPromise`, i.e. `Spec => Promise!Spec` |

*Assumption*: `PmTurnsAssumption` (the names of turns and reports are distinct, the orders are among `Transitions`, the bounds are numbers).

*The inductive invariant* is a conjunction of one part per story, each saying what is true at every
position of the step that acts on it. `PromptInv` (with `PromptOf` per turn) relates the receipt, the
position of the prompting step and `late`: a session has seen the prompt at most once, and where
the step may still prompt, no session at or after the present one has seen it and none will late; that is
why a readback that finds no marker may prompt again. `TurnInv`: an active turn has a prompted
receipt, because its completion comes after the receipt and no receipt goes back (`Confirmed`).
`ReportInv`: a call under way is the only one, its report is not queued and its turn has none, so
recording it keeps one report per turn. `QuestionInv` and `AnswerInv` follow a question and an
answer through their effects: they rest on `EffectsLive` (an effect is started, attempted, finished and
acknowledged in this order; it finishes only after its own work). `DeliveryInv`: the stage effect
of delivery is queued only after the ready report, and until then nothing else reports for
delivery. `OneWorkspace` is inductive by itself: `_ensure_workspace` creates one only where it has
found none. TLC found the invariant to hold on the instance of `commissioning`.

*The refinement* needs to know that what shows is what was meant, whichever step shows it. `ShownInv`
adds that to the invariant: a record is on the Issue once its attempt is past the write and
stays as it was queued (`RecordOf`, `AnswerShown`); only a question that is shown is routed and answered
(`QuestionShown`); a resume that was queued carries the answer shown or follows the end of its grant,
and has a receipt before anybody can prompt (`AnswerShown`, `PromptDue`); an acknowledgment that
continues rests on an answer that did (`AckShown`, which must survive the end of the grant between
the read and the move of the stage); a report and the call that files it speak for a turn a
session took in (`ReportDue`, `CallDue`). That a repeated write shows nothing new is where the
stutters come from: `WriteReport`, `WriteAnswer` and `WriteStage` are a step of `TurnPromise` the first time
only, and a prompt never finds its session prompted, by `PromptInv` after the step. TLC found
`ShownInv` to hold on the same instance.

`BoardProofs` proves, for any resources and contents, any retention, batch size and bounds:

| Theorem | Property |
|---|---|
| `TypeCorrect` | `TypeOK` |
| `NothingSkipped` | `ReadsAreGapless` |
| `PageCatchesAll` | `NothingMissed` |

*Assumptions*: `JournalAssumption` (the history keeps at least one event, a resource starts with
one of the contents) and `StreamAssumption` (batches and the wire hold at least one).

*The inductive invariant.* Pruning forgets events, so the invariant speaks of the whole history:
there are an `H` (the event of each cursor) and a `D` (the number of decisions committed with it)
such that `RowsHold` (the rows are exactly the history above the floor, one per cursor),
`DecisionsCounted` and `LastIsContent` (the last event about a resource carries its committed
content). Each writer extends `H` and `D` (`Grows`, `Tell`); an age prune or a count prune moves the floor.
`ReadsAreGapless` follows from `RowsHold` once the greatest cursor read exists (`MaxIsGreatest`,
from the well-foundedness of numbers). For the page, `WireHolds` says that the frames under way carry the history from the
page's cursor to the server's position without a hole, or a demand to reload; `PagesHold`, with
`Leads(board, ...)`, that a ready page's board and every answer on its way become the committed state
once the later events are applied, older decisions counted again at most. Applying a frame keeps `Leads`
event by event; the induction over the frame looks at its first event that would break it. With `H` and `D` as
history variables, TLC found the invariant to hold on the instance of `board`.

*Only model-checked*: `EveryEffectSettles` and `CatchesUp`: liveness under fairness is beyond the
prover, so only the bounded instances are known to satisfy them. What the runs that expect a violation check is
refuted, not proved.

## 6. Not modelled

- *CEO sessions* and their part of restart recovery: lineage, titles and resume markers live in the Hermes
  session store, which is not part of this repository. A model would check the behaviour
  assumed of that store. The CEO's turn appears as one effect (`wake`, and a record in `Outbox`).
- *Repair previews and their application*: an operator's plan over the identities above.
- *The card's compare-and-save and label replacement*: GitHub offers no conditional update; the
  read and the write of labels are one step where a stage is moved.
- *Setup plan and apply*: host edits by one operator, with readback; the *doctor* only reads.
- *Changes requested at acceptance*, the acceptance packet, worker routing.
- *Lock order across components*: each model takes the leases of its own component.
- Pure data work (GraphQL and comment parsing, packet validation, formatting), read-only
  views, the composition of processes (its processes are the workers of `Outbox`) and
  the thin CLI, tool and REST adapters.

External systems (GitHub, Herdr, Git, the publisher's commands) appear as the state their callers read
and write.

## 7. Plan

Done, in this order, the most important behaviour first: `EffectPromise` and `Outbox`;
`BoardJournal` and `BoardStream`; `Approvals`; `PmTurns` with `Commissioning`; `DeliveryLanes` and
`DeliveryPromise`; each with the proofs of its safety properties; `TurnPromise` and `ApprovalPromise`
with their refinements.

Next:

1. `Maps`: the card's compare-and-save against reconciles.
2. An abstract specification of the page: a reader that sees every event once, implemented by `BoardStream`.
