---------------------------- MODULE DeliveryLanes ----------------------------
(***************************************************************************)
(* Delivery of one commissioned Map: dispatch_pm_delivery_lane and         *)
(* collect_pm_delivery_lane of application.py with prepare_lane,           *)
(* dispatch_lane and collect_lane of CoordinatorRuntime.  Every lane is a  *)
(* ticket with a worker of its own; its registry is a history of records   *)
(* on the ticket; the lanes' commits are picked onto one integration       *)
(* branch, in order.                                                       *)
(*                                                                         *)
(* A lane is its integration order.  The branch only grows, so a commit on *)
(* it is its position, 0 the base.  A commit of a worker is a version: the *)
(* worker amends the one commit the contract allows.  Turns are PmTurns',  *)
(* reduced to what delivery reads: the active turn and its report.  A      *)
(* worker that waits for input works: both calls just wait for it.         *)
(***************************************************************************)
EXTENDS FiniteSets, Naturals, Sequences

CONSTANTS N,           \* lanes of the Map
          MaxTurns, MaxCommits, MaxCalls, MaxRecords, MaxTrouble  \* bounds

ASSUME DeliveryLanesAssumption ==
  /\ N \in Nat \ {0} /\ MaxTurns \in Nat /\ MaxCommits \in Nat
  /\ MaxCalls \in Nat /\ MaxRecords \in Nat /\ MaxTrouble \in Nat

VARIABLES
  turn,       \* pm_assignments: active, its updated_at, its report reserved
  registry,   \* each ticket's registry records, oldest first
  worker,     \* status of each lane's Herdr agent
  work,       \* the version committed in each execution worktree, 0 for none
  said,       \* the last complete final report in the worker's transcript
  branch,     \* the integration branch: a lane's version, or a foreign commit
  clean,      \* no conflict in the integration worktree
  validated,  \* history: the commits of the branch whose validation passed
  reported,   \* lanes whose checkpoint or acceptance was reported
  dispatch,   \* the dispatch under way of each lane, holding delivery_lane_lease
  collect,    \* the collection under way, holding delivery_integration_lease
  trouble     \* bounded: failures, crashes and interference so far

workers == <<worker, work, said>>
git == <<branch, clean, validated>>
vars == <<turn, registry, workers, git, reported, dispatch, collect, trouble>>

Lane == 1..N
Foreign == [lane |-> 0, version |-> 0]
Absent == [state |-> "absent", stamp |-> 0, head |-> 0, commit |-> 0]
NoDispatch == [step |-> "none", reg |-> Absent, stamp |-> 0, parent |-> 0]
NoCollect == [step |-> "none", lane |-> 0, reg |-> Absent, stamp |-> 0, parent |-> 0,
              head |-> 0, commit |-> 0, already |-> FALSE, write |-> Absent]
NoWord == [status |-> "none", version |-> 0]

\* What the delivery of a lane leaves when a retry did it all in one turn.
Delivered(l) ==
  LET rec(state, head, commit) ==
        [state |-> state, stamp |-> 1, head |-> head, commit |-> commit] IN
    <<rec("created", 0, 0), rec("running", 0, 0), rec("terminal", 1, 0),
      rec("integrated", 1, l)>>

\* The first lanes have been delivered, and the others have not been dispatched.
Init ==
  \E k \in 0..(N - 1) :
    /\ turn = [active |-> FALSE, stamp |-> 1, reserved |-> FALSE]
    /\ registry = [l \in Lane |-> IF l <= k THEN Delivered(l) ELSE <<>>]
    /\ worker = [l \in Lane |-> IF l <= k THEN "done" ELSE "absent"]
    /\ work = [l \in Lane |-> IF l <= k THEN 1 ELSE 0]
    /\ said = [l \in Lane |->
                 IF l <= k THEN [status |-> "confirmed", version |-> 1] ELSE NoWord]
    /\ branch = [l \in 1..k |-> [lane |-> l, version |-> 1]]
    /\ clean = TRUE /\ validated = 1..k
    /\ reported = 1..k
    /\ dispatch = [l \in Lane |-> NoDispatch]
    /\ collect = NoCollect
    /\ trouble = 0

Trouble == trouble < MaxTrouble /\ trouble' = trouble + 1

Tip == Len(branch)

\* _latest_delivery_lane_registry
Latest(l) == IF registry[l] = <<>> THEN Absent ELSE registry[l][Len(registry[l])]

\* _delivery_integration_frontier: the predecessors confirmed so far, and their head.
Known(l) == Cardinality({p \in 1..(l - 1) : Latest(p).state = "integrated"})
Parent(l) == IF Known(l) = 0 THEN 0 ELSE Latest(Known(l)).commit

\* Mutant: a collection does not ask for every predecessor.
FrontierReady_Any(l) == TRUE

\* require_all: every predecessor is integrated.
FrontierReady(l) == Known(l) = l - 1

\* Who holds pm_runtime_lease: prepare_lane, dispatch_lane and collect_lane.
RuntimeLeaseFree ==
  /\ \A l \in Lane : dispatch[l].step \notin {"start", "prompt"}
  /\ collect.step \notin {"pick", "check", "validate", "settle"}

\* The bound on the calls under way at once.
MayCall ==
  Cardinality({l \in Lane : dispatch[l] # NoDispatch})
    + (IF collect = NoCollect THEN 0 ELSE 1) < MaxCalls

-----------------------------------------------------------------------------
(* Turns of the PM. *)

\* The acceptance report ends the delivery.
BeginTurn ==
  /\ ~turn.active /\ turn.stamp < MaxTurns /\ N \notin reported
  /\ turn' = [active |-> TRUE, stamp |-> turn.stamp + 1, reserved |-> FALSE]
  /\ UNCHANGED <<registry, workers, git, reported, dispatch, collect, trouble>>

MayReport == turn.active /\ ~turn.reserved
Reserve == turn' = [turn EXCEPT !.reserved = TRUE]

\* Another report of the PM, or the blocker of a dispatch whose prerequisites fail.
ReportOther ==
  /\ Trouble
  /\ MayReport /\ Reserve
  /\ UNCHANGED <<registry, workers, git, reported, dispatch, collect>>

\* The report's effect is confirmed and ends the turn.
EndTurn ==
  /\ turn.active /\ turn.reserved
  /\ turn' = [turn EXCEPT !.active = FALSE]
  /\ UNCHANGED <<registry, workers, git, reported, dispatch, collect, trouble>>

-----------------------------------------------------------------------------
(* The registry: _confirm_delivery_lane_registry reads it, appends and reads again. *)

Transitions ==
  {<<"absent", "created">>, <<"created", "running">>, <<"blocked", "running">>,
   <<"running", "blocked">>, <<"running", "terminal">>, <<"terminal", "integrated">>}

\* Mutant: any record may follow any other.
MayAppend_Any(l, reg) == TRUE

MayAppend(l, reg) == <<Latest(l).state, reg.state>> \in Transitions

AppendRecord(l, reg) ==
  /\ Len(registry[l]) < MaxRecords
  /\ registry' = [registry EXCEPT ![l] = Append(@, reg)]

-----------------------------------------------------------------------------
(* dispatch_pm_delivery_lane *)

Dispatching(l, step) == dispatch' = [dispatch EXCEPT ![l].step = step]
DispatchStops(l) == dispatch' = [dispatch EXCEPT ![l] = NoDispatch]

DispatchLane(l) ==
  /\ dispatch[l] = NoDispatch /\ turn.active /\ MayCall
  /\ Latest(l).state \in {"absent", "created", "running", "blocked"}
  /\ dispatch' = [dispatch EXCEPT ![l] =
       [step |-> IF Latest(l) = Absent THEN "prepare" ELSE "enter", reg |-> Latest(l),
        stamp |-> turn.stamp, parent |-> Parent(l)]]
  /\ UNCHANGED <<turn, registry, workers, git, reported, collect, trouble>>

\* _validate_delivery_git before a worker was started.
Untouched(l) == clean /\ Tip = dispatch[l].parent /\ work[l] = 0

\* prepare_lane: the pane of the worktree is found again, or split.
PrepareLane(l) ==
  /\ dispatch[l].step = "prepare" /\ RuntimeLeaseFree
  /\ IF Untouched(l) /\ worker[l] = "absent"
     THEN dispatch' = [dispatch EXCEPT
            ![l].step = "confirm",
            ![l].reg = [Absent EXCEPT !.state = "created", !.stamp = dispatch[l].stamp]]
     ELSE DispatchStops(l)
  /\ UNCHANGED <<turn, registry, workers, git, reported, collect, trouble>>

NextOf(l) == IF dispatch[l].reg.state = "created" THEN "enter" ELSE "complete"

ConfirmDispatch(l) ==
  LET reg == dispatch[l].reg IN
  /\ dispatch[l].step = "confirm"
  /\ IF Latest(l) = reg THEN Dispatching(l, NextOf(l))
     ELSE IF MayAppend(l, reg) THEN Dispatching(l, "append")
     ELSE DispatchStops(l)
  /\ UNCHANGED <<turn, registry, workers, git, reported, collect, trouble>>

AppendDispatch(l) ==
  /\ dispatch[l].step = "append"
  /\ AppendRecord(l, dispatch[l].reg)
  /\ Dispatching(l, "readback")
  /\ UNCHANGED <<turn, workers, git, reported, collect, trouble>>

ReadBackDispatch(l) ==
  /\ dispatch[l].step = "readback"
  /\ IF Latest(l) = dispatch[l].reg THEN Dispatching(l, NextOf(l)) ELSE DispatchStops(l)
  /\ UNCHANGED <<turn, registry, workers, git, reported, collect, trouble>>

\* _dispatch_projection
Running(l) ==
  dispatch' = [dispatch EXCEPT
    ![l].step = "confirm",
    ![l].reg = [Absent EXCEPT
      !.state = "running",
      !.stamp = IF dispatch[l].reg.state = "running" THEN dispatch[l].reg.stamp
                ELSE dispatch[l].stamp]]

\* dispatch_lane up to its first command: a worker that works is not prompted again.
EnterLane(l) ==
  LET reg == dispatch[l].reg IN
  /\ dispatch[l].step = "enter" /\ RuntimeLeaseFree
  /\ IF ~clean \/ Tip # dispatch[l].parent
     THEN DispatchStops(l)
     ELSE \/ /\ worker[l] = "absent"
             /\ IF reg.state = "created" /\ Untouched(l)
                THEN Dispatching(l, "start") ELSE DispatchStops(l)
          \/ /\ \/ worker[l] = "working"
                \/ worker[l] = "done" /\ reg.state # "blocked"
             /\ Running(l)
          \/ /\ worker[l] = "idle" \/ (worker[l] = "done" /\ reg.state = "blocked")
             /\ Dispatching(l, "prompt")
  /\ UNCHANGED <<turn, registry, workers, git, reported, collect, trouble>>

StartWorker(l) ==
  /\ dispatch[l].step = "start"
  /\ worker' = [worker EXCEPT ![l] = "idle"]
  /\ \/ Dispatching(l, "prompt") /\ UNCHANGED trouble
     \/ Trouble /\ DispatchStops(l)
  /\ UNCHANGED <<turn, registry, work, said, git, reported, collect>>

\* herdr agent prompt --until working: it is answered, or its answer is lost.
PromptWorker(l) ==
  /\ dispatch[l].step = "prompt" /\ worker[l] \in {"idle", "done"}
  /\ worker' = [worker EXCEPT ![l] = "working"]
  /\ \/ Running(l) /\ UNCHANGED trouble
     \/ Trouble /\ DispatchStops(l)
  /\ UNCHANGED <<turn, registry, work, said, git, reported, collect>>

\* complete_pm_dispatch, for the turn read at the start.
CompleteDispatch(l) ==
  /\ dispatch[l].step = "complete"
  /\ turn' = IF turn.active /\ turn.stamp = dispatch[l].stamp /\ ~turn.reserved
             THEN [turn EXCEPT !.active = FALSE] ELSE turn
  /\ DispatchStops(l)
  /\ UNCHANGED <<registry, workers, git, reported, collect, trouble>>

-----------------------------------------------------------------------------
(* collect_pm_delivery_lane *)

Collecting(step) == collect' = [collect EXCEPT !.step = step]
CollectStops == collect' = NoCollect

CollectLane(l) ==
  /\ collect = NoCollect /\ turn.active /\ MayCall
  /\ Latest(l).state \in {"running", "blocked", "terminal", "integrated"}
  /\ FrontierReady(l)
  /\ collect' = [NoCollect EXCEPT !.step = "evidence", !.lane = l, !.reg = Latest(l),
                                  !.stamp = turn.stamp, !.parent = Parent(l)]
  /\ UNCHANGED <<turn, registry, workers, git, reported, dispatch, trouble>>

\* _collect_worker_report: the terminal record, the worker's own report, or, when the
\* worker is gone or its transcript says nothing, what Git shows.
Evidence(l, reg) ==
  IF reg.state \in {"terminal", "integrated"} THEN "terminal"
  ELSE IF worker[l] = "absent" \/ (worker[l] = "done" /\ said[l] = NoWord) THEN "git"
  ELSE IF worker[l] = "done" THEN said[l].status
  ELSE "open"

Corroborated(l, reg) ==
  /\ work[l] # 0
  /\ Evidence(l, reg) = "confirmed" => said[l].version = work[l]
  /\ reg.head \in {0, work[l]}

\* _patch_is_integrated
Integrated(l, version) ==
  \E i \in 1..Tip : branch[i] = [lane |-> l, version |-> version]

Blocked(reg) == [Absent EXCEPT !.state = "blocked", !.stamp = reg.stamp]

\* collect_lane up to its cherry-pick.
ReadEvidence ==
  LET l == collect.lane
      reg == collect.reg
      already == Tip # collect.parent /\ Integrated(l, work[l])
      write(r) == [collect EXCEPT !.step = "confirm", !.write = r] IN
  /\ collect.step = "evidence" /\ RuntimeLeaseFree
  /\ IF ~clean \/ (Evidence(l, reg) = "open" /\ reg.state # "blocked") THEN CollectStops
     ELSE IF reg.state = "blocked" THEN collect' = write(reg)
     ELSE IF Evidence(l, reg) = "blocked"
          THEN collect' = write(Blocked([reg EXCEPT !.stamp = collect.stamp]))
     ELSE IF /\ Corroborated(l, reg)
             /\ Tip = collect.parent \/ already
             /\ reg.state = "integrated" => reg.commit = Tip /\ already
          THEN collect' = [collect EXCEPT !.step = IF already THEN "check" ELSE "pick",
                                          !.head = work[l], !.already = already]
     ELSE CollectStops
  /\ UNCHANGED <<turn, registry, workers, git, reported, dispatch, trouble>>

CherryPick ==
  /\ collect.step = "pick"
  /\ \/ /\ branch' = Append(branch, [lane |-> collect.lane, version |-> collect.head])
        /\ Collecting("check")
        /\ UNCHANGED <<clean, trouble>>
     \/ Trouble /\ clean' = FALSE /\ CollectStops /\ UNCHANGED branch
  /\ UNCHANGED <<turn, registry, workers, validated, reported, dispatch>>

\* Mutant: the patch is somewhere on the branch, whatever else is.
Owned_Anywhere == Integrated(collect.lane, collect.head)

\* _require_owned_integration_patch: one commit on top of the predecessors' head.
Owned == Tip = collect.parent + 1 /\ Integrated(collect.lane, collect.head)

\* Mutant: a patch found on the branch counts as validated.
AfterCheck_Skips == IF collect.already THEN "settle" ELSE "validate"

AfterCheck == "validate"

CheckPatch ==
  /\ collect.step = "check"
  /\ IF Owned /\ clean
     THEN collect' = [collect EXCEPT !.step = AfterCheck, !.commit = Tip]
     ELSE CollectStops
  /\ UNCHANGED <<turn, registry, workers, git, reported, dispatch, trouble>>

\* validation_argv, in the integration worktree.
Validate ==
  /\ collect.step = "validate"
  /\ \/ validated' = validated \cup {Tip} /\ Collecting("settle") /\ UNCHANGED trouble
     \/ Trouble /\ CollectStops /\ UNCHANGED validated
  /\ UNCHANGED <<turn, registry, workers, branch, clean, reported, dispatch>>

Terminal ==
  [state |-> "terminal", stamp |-> collect.stamp, head |-> collect.head, commit |-> 0]
IntegratedRecord ==
  [Terminal EXCEPT !.state = "integrated", !.commit = collect.commit]

\* _validate_local_delivery_outcome: a record that was there must come out the same.
SameAsRecorded ==
  /\ collect.reg.state = "terminal" => Terminal = collect.reg
  /\ collect.reg.state = "integrated" => IntegratedRecord = collect.reg

\* Nothing moved while it validated; then the records are to be written.
Settle ==
  /\ collect.step = "settle"
  /\ IF Tip = collect.commit /\ clean /\ work[collect.lane] = collect.head
          /\ SameAsRecorded
     THEN collect' = [collect EXCEPT
            !.step = IF collect.reg.state = "integrated" THEN "report" ELSE "confirm",
            !.write = IF collect.reg.state = "running" THEN Terminal
                      ELSE IntegratedRecord]
     ELSE CollectStops
  /\ UNCHANGED <<turn, registry, workers, git, reported, dispatch, trouble>>

\* The terminal record is followed by the integrated one, the others by the report.
Written ==
  IF collect.write.state = "terminal"
  THEN [collect EXCEPT !.step = "confirm", !.write = IntegratedRecord]
  ELSE [collect EXCEPT !.step = "report"]

ConfirmCollect ==
  LET l == collect.lane IN
  /\ collect.step = "confirm"
  /\ IF Latest(l) = collect.write THEN collect' = Written
     ELSE IF MayAppend(l, collect.write) THEN Collecting("append")
     ELSE CollectStops
  /\ UNCHANGED <<turn, registry, workers, git, reported, dispatch, trouble>>

AppendCollect ==
  /\ collect.step = "append"
  /\ AppendRecord(collect.lane, collect.write)
  /\ Collecting("readback")
  /\ UNCHANGED <<turn, workers, git, reported, dispatch, trouble>>

ReadBackCollect ==
  /\ collect.step = "readback"
  /\ IF Latest(collect.lane) = collect.write THEN collect' = Written ELSE CollectStops
  /\ UNCHANGED <<turn, registry, workers, git, reported, dispatch, trouble>>

\* report_pm: a blocker, a checkpoint or, for the last lane, the acceptance.
ReportCollect ==
  /\ collect.step = "report"
  /\ IF MayReport /\ collect.lane \notin reported
     THEN /\ Reserve
          /\ reported' = IF collect.write.state = "blocked" THEN reported
                         ELSE reported \cup {collect.lane}
     ELSE UNCHANGED <<turn, reported>>
  /\ CollectStops
  /\ UNCHANGED <<registry, workers, git, dispatch, trouble>>

-----------------------------------------------------------------------------
(* Workers, and what goes wrong. *)

WorkerCommits(l) ==
  /\ worker[l] = "working" /\ work[l] = 0
  /\ work' = [work EXCEPT ![l] = 1]
  /\ UNCHANGED <<turn, registry, worker, said, git, reported, dispatch, collect,
                 trouble>>

\* A blocker counts among the bounded troubles.
WorkerReports(l, status) ==
  /\ worker[l] = "working"
  /\ \/ status = "confirmed" /\ work[l] # 0 /\ UNCHANGED trouble
     \/ status = "blocked" /\ Trouble
  /\ worker' = [worker EXCEPT ![l] = "done"]
  /\ said' = [said EXCEPT ![l] = [status |-> status, version |-> work[l]]]
  /\ UNCHANGED <<turn, registry, work, git, reported, dispatch, collect>>

WorkerExits(l) ==
  /\ Trouble
  /\ worker[l] # "absent"
  /\ worker' = [worker EXCEPT ![l] = "absent"]
  /\ UNCHANGED <<turn, registry, work, said, git, reported, dispatch, collect>>

\* The worker amends its commit, resumed after a blocker or, when it is done, by hand.
Amend(l) ==
  /\ Trouble
  /\ worker[l] \in {"working", "done"} /\ work[l] \in 1..(MaxCommits - 1)
  /\ work' = [work EXCEPT ![l] = @ + 1]
  /\ UNCHANGED <<turn, registry, worker, said, git, reported, dispatch, collect>>

\* Somebody else commits on the integration branch.
ForeignCommit ==
  /\ Trouble
  /\ branch' = Append(branch, Foreign)
  /\ UNCHANGED <<turn, registry, workers, clean, validated, reported, dispatch,
                 collect>>

\* git cherry-pick --abort, by hand.
AbortPick ==
  /\ ~clean
  /\ clean' = TRUE
  /\ UNCHANGED <<turn, registry, workers, branch, validated, reported,
                 dispatch, collect,
                 trouble>>

\* A command or a read of one call fails.
CallFails ==
  /\ Trouble
  /\ \/ /\ collect # NoCollect
        /\ CollectStops /\ UNCHANGED dispatch
     \/ /\ \E l \in Lane : dispatch[l] # NoDispatch /\ DispatchStops(l)
        /\ UNCHANGED collect
  /\ UNCHANGED <<turn, registry, workers, git, reported>>

\* The process dies with every call in it.
Crash ==
  /\ Trouble
  /\ collect # NoCollect \/ \E l \in Lane : dispatch[l] # NoDispatch
  /\ dispatch' = [l \in Lane |-> NoDispatch] /\ CollectStops
  /\ UNCHANGED <<turn, registry, workers, git, reported>>

DispatchStep(l) ==
  \/ DispatchLane(l) \/ PrepareLane(l) \/ ConfirmDispatch(l) \/ AppendDispatch(l)
  \/ ReadBackDispatch(l) \/ EnterLane(l) \/ StartWorker(l) \/ PromptWorker(l)
  \/ CompleteDispatch(l)

CollectStep ==
  \/ \E l \in Lane : CollectLane(l)
  \/ ReadEvidence \/ CherryPick \/ CheckPatch \/ Validate \/ Settle
  \/ ConfirmCollect \/ AppendCollect \/ ReadBackCollect \/ ReportCollect

WorkerStep(l) ==
  \/ WorkerCommits(l) \/ WorkerExits(l) \/ Amend(l)
  \/ \E status \in {"confirmed", "blocked"} : WorkerReports(l, status)

Next ==
  \/ BeginTurn \/ ReportOther \/ EndTurn
  \/ \E l \in Lane : DispatchStep(l) \/ WorkerStep(l)
  \/ CollectStep
  \/ ForeignCommit \/ AbortPick \/ CallFails \/ Crash

Spec == Init /\ [][Next]_vars
-----------------------------------------------------------------------------
(* Properties. *)

\* A lane that is recorded as integrated sits at its place of the branch, on the lanes
\* before it and nothing else, with the very commit its record names, although others
\* commit to the branch, workers amend, and calls die between the cherry-pick and the
\* record (collect_lane, _require_owned_integration_patch).
InOrderOnce ==
  \A l \in Lane : Latest(l).state = "integrated" =>
    /\ Latest(l).commit = l
    /\ \A i \in 1..l : branch[i] = [lane |-> i, version |-> Latest(i).head]

\* A lane is reported as delivered only when it and all lanes before it are recorded as
\* integrated and their validation passed on the branch, the attempt that picked the
\* commit or a later one (_collect_pm_delivery_lane, collect_lane).
ReportedIsValidated ==
  \A l \in reported : \A i \in 1..l :
    Latest(i).state = "integrated" /\ Latest(i).commit \in validated

\* A dispatch and a collection of one lane hold different leases, and each appends what
\* it decided on an earlier read; the history never becomes one that
\* _latest_delivery_lane_registry refuses, which would end the lane for good.
HistoryReadable ==
  \A l \in Lane : LET h == registry[l] IN
    /\ h # <<>> => h[1].state = "created"
    /\ \A i \in 2..Len(h) :
         \/ h[i] = h[i - 1]
         \/ /\ <<h[i - 1].state, h[i].state>> \in Transitions
            /\ h[i - 1].state = "terminal" => h[i].head = h[i - 1].head

\* Delivery keeps the promise of DeliveryPromise: one lane after another is delivered,
\* for good, and is reported at most once and only then.
Promise == INSTANCE DeliveryPromise WITH
  delivered <- {l \in Lane : Latest(l).state = "integrated"}

PromiseKept == Promise!Spec

\* What the PM's skill and the README say of collection: a later coordinator turn
\* collects the lane with the same payload, idempotently, from the tracker's registry
\* and Git.  Evidence that still holds is not refused for the turn that recorded it.
LaterTurnCollects ==
  collect.step = "settle" =>
    LET l == collect.lane IN
      Tip = collect.commit /\ clean /\ work[l] = collect.head => SameAsRecorded
=============================================================================
