------------------------- MODULE DeliveryLanesProofs --------------------------
(***************************************************************************)
(* Machine-checked theorems about DeliveryLanes, for any number of lanes,  *)
(* turns, calls under way, records and failures.                           *)
(***************************************************************************)
EXTENDS DeliveryLanes, FiniteSetTheorems, TLAPS

(***************************************************************************)
(* Types.                                                                  *)
(***************************************************************************)
States == {"absent", "created", "running", "blocked", "terminal", "integrated"}
Record == [state : States, stamp : Nat, head : Nat, commit : Nat]
Recorded == {r \in Record : r.state # "absent"}
Words == [status : {"none", "confirmed", "blocked"}, version : Nat]
Commits == [lane : 0..N, version : Nat]

DispatchSteps ==
  {"none", "prepare", "confirm", "append", "readback", "enter", "start", "prompt",
   "complete"}
CollectSteps ==
  {"none", "evidence", "pick", "check", "validate", "settle", "confirm", "append",
   "readback", "report"}
Dispatches ==
  [step : DispatchSteps, reg : Record, stamp : Nat, parent : Nat]
Collections ==
  [step : CollectSteps, lane : 0..N, reg : Record, stamp : Nat, parent : Nat,
   head : Nat, commit : Nat, already : BOOLEAN, write : Record]

TurnOK == turn \in [active : BOOLEAN, stamp : Nat, reserved : BOOLEAN]
CountOK == trouble \in Nat /\ reported \subseteq Lane
RegistryOK == registry \in [Lane -> Seq(Recorded)]
WorkersOK ==
  /\ worker \in [Lane -> {"absent", "idle", "working", "done"}]
  /\ work \in [Lane -> Nat] /\ said \in [Lane -> Words]
GitOK == branch \in Seq(Commits) /\ clean \in BOOLEAN /\ validated \subseteq Nat
DispatchOK == dispatch \in [Lane -> Dispatches]
CollectOK == collect \in Collections

\* A dispatch writes that a lane was created or runs, ...
DispatchShaped(d) ==
  d.step \in {"confirm", "append", "readback"} => d.reg.state \in {"created", "running"}
DispatchShape == \A l \in Lane : DispatchShaped(dispatch[l])

\* ... and a collection the three other states.
CollectShaped(c) ==
  /\ c.step # "none" =>
       c.lane \in Lane /\ c.reg.state \in {"running", "blocked", "terminal", "integrated"}
  /\ c.step \in {"confirm", "append", "readback", "report"} =>
       c.write.state \in {"blocked", "terminal", "integrated"}
CollectShape == CollectShaped(collect)

TypeOK ==
  /\ TurnOK /\ CountOK /\ RegistryOK /\ WorkersOK /\ GitOK
  /\ DispatchOK /\ CollectOK /\ DispatchShape /\ CollectShape

(***************************************************************************)
(* The inductive invariant.                                                *)
(***************************************************************************)

\* What a dispatch decided to append may still be appended.
DispatchInv ==
  \A l \in Lane : dispatch[l].step = "append" => MayAppend(l, dispatch[l].reg)

\* The commit a collection works on is at the lane's place of the branch.
Placed(c) ==
  /\ c.commit = c.lane /\ c.lane <= Len(branch)
  /\ branch[c.lane] = [lane |-> c.lane, version |-> c.head]

Before == {"evidence", "pick", "check", "validate", "settle"}

CollectInv ==
  LET c == collect
      l == c.lane IN
  c.step # "none" =>
    /\ c.parent = l - 1
    /\ \A p \in 1..(l - 1) : Latest(p).state = "integrated"
    /\ c.step \in Before /\ c.reg.state \in {"terminal", "integrated"}
         => Latest(l) = c.reg
    /\ c.step \in Before \ {"evidence"} => c.reg.state # "blocked"
    /\ c.step \in {"validate", "settle"} => Placed(c)
    /\ c.step = "settle" => \E v \in validated : c.commit <= v /\ v <= Len(branch)
    /\ c.step \in {"confirm", "append", "readback"} =>
         /\ c.write.state # "blocked" =>
              Placed(c) /\ c.commit \in validated /\ c.write.head = c.head
         /\ c.write.state = "integrated" => c.write.commit = c.commit
    /\ c.step = "append" => MayAppend(l, c.write)
    /\ c.step \in {"confirm", "append"} /\ c.write.state = "integrated" =>
         Latest(l).state = "terminal" /\ Latest(l).head = c.head
    /\ c.step = "report" /\ c.write.state # "blocked" => Latest(l).state = "integrated"

\* A lane recorded as integrated is there, validated, after all lanes before it.
LaneInv ==
  \A l \in Lane : Latest(l).state = "integrated" =>
    /\ Latest(l).commit = l /\ l <= Len(branch)
    /\ branch[l] = [lane |-> l, version |-> Latest(l).head]
    /\ l \in validated
    /\ \A p \in 1..(l - 1) : Latest(p).state = "integrated"

ReportInv == \A l \in reported : Latest(l).state = "integrated"

Inv == HistoryReadable /\ DispatchInv /\ CollectInv /\ LaneInv /\ ReportInv

-----------------------------------------------------------------------------
\* Append, as the prover needs it.
LEMMA AppendFacts ==
  ASSUME NEW S, NEW s \in Seq(S), NEW x \in S
  PROVE  /\ Append(s, x) \in Seq(S) /\ Len(Append(s, x)) = Len(s) + 1
         /\ \A i \in 1..Len(s) : Append(s, x)[i] = s[i]
         /\ Append(s, x)[Len(s) + 1] = x
  OBVIOUS

LEMMA LatestType ==
  ASSUME TypeOK, NEW l \in Lane
  PROVE  Latest(l) \in Record
<1>1. registry[l] \in Seq(Recorded)
  BY DEF TypeOK, RegistryOK
<1>2. registry[l] # << >> => registry[l][Len(registry[l])] \in Recorded
  BY <1>1
<1>3. Absent \in Record
  BY DEF Absent, Record, States
<1> QED BY <1>2, <1>3 DEF Latest, Recorded

\* Nothing but an append changes what Latest reads.
LEMMA LatestSame ==
  ASSUME registry' = registry
  PROVE  \A l \in Lane : Latest(l)' = Latest(l)
  BY DEF Latest

LEMMA LatestAppended ==
  ASSUME TypeOK, NEW l \in Lane, NEW reg \in Recorded, AppendRecord(l, reg)
  PROVE  /\ registry' \in [Lane -> Seq(Recorded)]
         /\ Latest(l)' = reg
         /\ \A k \in Lane \ {l} : Latest(k)' = Latest(k)
<1>1. registry \in [Lane -> Seq(Recorded)]
  BY DEF TypeOK, RegistryOK
<1>2. registry' = [registry EXCEPT ![l] = Append(registry[l], reg)]
  BY DEF AppendRecord
<1>3. /\ Append(registry[l], reg) \in Seq(Recorded)
      /\ Len(Append(registry[l], reg)) = Len(registry[l]) + 1
      /\ Append(registry[l], reg)[Len(registry[l]) + 1] = reg
  BY <1>1, AppendFacts
<1>4. registry'[l] = Append(registry[l], reg)
  BY <1>1, <1>2
<1>5. Latest(l)' = reg
  BY <1>1, <1>3, <1>4 DEF Latest
<1> QED BY <1>1, <1>2, <1>3, <1>5 DEF Latest

-----------------------------------------------------------------------------
\* A part of the type stays while its variables do.
LEMMA Frames ==
  /\ TurnOK /\ UNCHANGED turn => TurnOK'
  /\ CountOK /\ UNCHANGED <<trouble, reported>> => CountOK'
  /\ RegistryOK /\ UNCHANGED registry => RegistryOK'
  /\ WorkersOK /\ UNCHANGED workers => WorkersOK'
  /\ GitOK /\ UNCHANGED git => GitOK'
  /\ DispatchOK /\ UNCHANGED dispatch => DispatchOK'
  /\ CollectOK /\ UNCHANGED collect => CollectOK'
  /\ DispatchShape /\ UNCHANGED dispatch => DispatchShape'
  /\ CollectShape /\ UNCHANGED collect => CollectShape'
<1>1. TurnOK /\ UNCHANGED turn => TurnOK'
  BY DEF TurnOK
<1>2. CountOK /\ UNCHANGED <<trouble, reported>> => CountOK'
  BY DEF CountOK, Lane
<1>3. RegistryOK /\ UNCHANGED registry => RegistryOK'
  BY DEF RegistryOK, Recorded, Record, States, Lane
<1>4. WorkersOK /\ UNCHANGED workers => WorkersOK'
  BY DEF WorkersOK, workers, Words, Lane
<1>5. GitOK /\ UNCHANGED git => GitOK'
  BY DEF GitOK, git, Commits
<1>6. DispatchOK /\ UNCHANGED dispatch => DispatchOK'
  BY DEF DispatchOK, Dispatches, DispatchSteps, Record, States, Lane
<1>7. CollectOK /\ UNCHANGED collect => CollectOK'
  BY DEF CollectOK, Collections, CollectSteps, Record, States
<1>8. DispatchShape /\ UNCHANGED dispatch => DispatchShape'
  BY DEF DispatchShape, DispatchShaped, Lane
<1>9. CollectShape /\ UNCHANGED collect => CollectShape'
  BY DEF CollectShape, CollectShaped, Lane
<1> QED BY <1>1, <1>2, <1>3, <1>4, <1>5, <1>6, <1>7, <1>8, <1>9

\* A dispatch moves on: to any step with what it holds, or to what it read or found.
LEMMA DispatchTo ==
  ASSUME TypeOK, NEW l \in Lane, NEW d \in Dispatches, DispatchShaped(d),
         dispatch' = [dispatch EXCEPT ![l] = d]
  PROVE  DispatchOK' /\ DispatchShape'
<1>1. dispatch' \in [Lane -> Dispatches]
  BY DEF TypeOK, DispatchOK
<1>2. ASSUME NEW k \in Lane PROVE DispatchShaped(dispatch'[k])
  <2>1. dispatch'[k] = IF k = l THEN d ELSE dispatch[k]
    BY DEF TypeOK, DispatchOK
  <2> QED BY <2>1 DEF TypeOK, DispatchShape
<1>3. DispatchOK'
  BY <1>1 DEF DispatchOK, Dispatches, DispatchSteps, Record, States, Lane
<1>4. DispatchShape'
  BY <1>2 DEF DispatchShape, DispatchShaped, Lane
<1> QED BY <1>3, <1>4

LEMMA DispatchMoves ==
  ASSUME TypeOK, NEW l \in Lane
  PROVE  /\ DispatchStops(l) => DispatchOK' /\ DispatchShape'
         /\ \A s \in DispatchSteps :
              /\ Dispatching(l, s)
              /\ s \in {"confirm", "append", "readback"}
                   => dispatch[l].reg.state \in {"created", "running"}
              => DispatchOK' /\ DispatchShape'
         /\ Running(l) => DispatchOK' /\ DispatchShape'
<1>0. dispatch[l] \in Dispatches /\ dispatch \in [Lane -> Dispatches]
  BY DEF TypeOK, DispatchOK
<1>1. ASSUME DispatchStops(l) PROVE DispatchOK' /\ DispatchShape'
  <2>1. NoDispatch \in Dispatches
    BY DEF NoDispatch, Dispatches, DispatchSteps, Absent, Record, States
  <2>2. DispatchShaped(NoDispatch)
    BY DEF NoDispatch, DispatchShaped
  <2> QED BY <1>1, <2>1, <2>2, DispatchTo DEF DispatchStops
<1>2. ASSUME NEW s \in DispatchSteps, Dispatching(l, s),
             s \in {"confirm", "append", "readback"}
               => dispatch[l].reg.state \in {"created", "running"}
      PROVE  DispatchOK' /\ DispatchShape'
  <2> DEFINE d == [dispatch[l] EXCEPT !.step = s]
  <2>1. d \in Dispatches
    BY <1>0 DEF Dispatches
  <2>2. DispatchShaped(d)
    BY <1>0, <1>2 DEF DispatchShaped, Dispatches
  <2>3. dispatch' = [dispatch EXCEPT ![l] = d]
    BY <1>0, <1>2 DEF Dispatching, Dispatches
  <2> QED BY <2>1, <2>2, <2>3, DispatchTo
<1>3. ASSUME Running(l) PROVE DispatchOK' /\ DispatchShape'
  <2> DEFINE stamp == IF dispatch[l].reg.state = "running" THEN dispatch[l].reg.stamp
                      ELSE dispatch[l].stamp
             reg == [Absent EXCEPT !.state = "running", !.stamp = stamp]
             d == [dispatch[l] EXCEPT !.step = "confirm", !.reg = reg]
  <2>1. stamp \in Nat
    BY <1>0 DEF Dispatches, Record
  <2>2. reg \in Record /\ reg.state = "running"
    BY <2>1 DEF Absent, Record, States
  <2>3. d \in Dispatches
    BY <1>0, <2>2 DEF Dispatches, DispatchSteps
  <2>4. DispatchShaped(d)
    BY <1>0, <2>2 DEF DispatchShaped, Dispatches
  <2>5. dispatch' = [dispatch EXCEPT ![l] = d]
    BY <1>0, <1>3 DEF Running, Dispatches
  <2> QED BY <2>3, <2>4, <2>5, DispatchTo
<1> QED BY <1>1, <1>2, <1>3

LEMMA CollectTo ==
  ASSUME NEW c \in Collections, CollectShaped(c), collect' = c
  PROVE  CollectOK' /\ CollectShape'
<1>1. CollectOK'
  BY DEF CollectOK, Collections, CollectSteps, Record, States
<1>2. CollectShape'
  BY DEF CollectShape, CollectShaped, Lane
<1> QED BY <1>1, <1>2

LEMMA CollectMoves ==
  ASSUME TypeOK
  PROVE  /\ CollectStops => CollectOK' /\ CollectShape'
         /\ \A s \in CollectSteps :
              /\ collect.step # "none" /\ Collecting(s)
              /\ s \in {"confirm", "append", "readback", "report"}
                   => collect.write.state \in {"blocked", "terminal", "integrated"}
              => CollectOK' /\ CollectShape'
         /\ \A w \in Record, s \in {"confirm", "report"} :
              /\ collect.step # "none"
              /\ w.state \in {"blocked", "terminal", "integrated"}
              /\ collect' = [collect EXCEPT !.step = s, !.write = w]
              => CollectOK' /\ CollectShape'
<1>0. collect \in Collections /\ CollectShaped(collect)
  BY DEF TypeOK, CollectOK, CollectShape
<1>1. ASSUME CollectStops PROVE CollectOK' /\ CollectShape'
  <2>1. NoCollect \in Collections
    BY DeliveryLanesAssumption
       DEF NoCollect, Collections, CollectSteps, Absent, Record, States
  <2>2. CollectShaped(NoCollect)
    BY DEF NoCollect, CollectShaped
  <2> QED BY <1>1, <2>1, <2>2, CollectTo DEF CollectStops
<1>2. ASSUME NEW s \in CollectSteps, collect.step # "none", Collecting(s),
             s \in {"confirm", "append", "readback", "report"}
               => collect.write.state \in {"blocked", "terminal", "integrated"}
      PROVE  CollectOK' /\ CollectShape'
  <2> DEFINE c == [collect EXCEPT !.step = s]
  <2>1. c \in Collections
    BY <1>0 DEF Collections
  <2>2. CollectShaped(c)
    BY <1>0, <1>2 DEF CollectShaped, Collections
  <2> QED BY <1>2, <2>1, <2>2, CollectTo DEF Collecting
<1>3. ASSUME NEW w \in Record, NEW s \in {"confirm", "report"}, collect.step # "none",
             w.state \in {"blocked", "terminal", "integrated"},
             collect' = [collect EXCEPT !.step = s, !.write = w]
      PROVE  CollectOK' /\ CollectShape'
  <2> DEFINE c == [collect EXCEPT !.step = s, !.write = w]
  <2>1. c \in Collections
    BY <1>0 DEF Collections, CollectSteps
  <2>2. CollectShaped(c)
    BY <1>0, <1>3 DEF CollectShaped, Collections
  <2> QED BY <1>3, <2>1, <2>2, CollectTo
<1> QED BY <1>1, <1>2, <1>3

-----------------------------------------------------------------------------
\* What the steps of a collection that decide something come to.
LEMMA RecordTypes ==
  ASSUME TypeOK, collect.step # "none"
  PROVE  /\ collect.reg \in Record /\ collect.head \in Nat /\ collect.commit \in Nat
         /\ Terminal \in Record /\ Terminal.state = "terminal"
         /\ Terminal.head = collect.head
         /\ IntegratedRecord \in Record /\ IntegratedRecord.state = "integrated"
         /\ IntegratedRecord.head = collect.head
         /\ IntegratedRecord.commit = collect.commit
<1>1. /\ collect.stamp \in Nat /\ collect.head \in Nat /\ collect.commit \in Nat
      /\ collect.reg \in Record
  BY DEF TypeOK, CollectOK, Collections
<1> QED BY <1>1 DEF Terminal, IntegratedRecord, Record, States

LEMMA EvidenceOutcome ==
  ASSUME TypeOK, ReadEvidence
  PROVE  /\ collect.step = "evidence"
         /\ \/ CollectStops
            \/ \E w \in Record :
                 /\ w.state = "blocked"
                 /\ collect' = [collect EXCEPT !.step = "confirm", !.write = w]
            \/ \E s \in {"check", "pick"}, b \in BOOLEAN :
                 /\ collect.reg.state # "blocked"
                 /\ collect' = [collect EXCEPT !.step = s, !.head = work[collect.lane],
                                               !.already = b]
<1>1. collect.step = "evidence"
  BY DEF ReadEvidence
<1>2. collect.reg \in Record /\ collect.stamp \in Nat
  BY <1>1 DEF TypeOK, CollectOK, Collections
<1> DEFINE b == Blocked([collect.reg EXCEPT !.stamp = collect.stamp])
<1>3. b \in Record /\ b.state = "blocked"
  BY <1>2 DEF Blocked, Absent, Record, States
<1> DEFINE already == Tip # collect.parent /\ Integrated(collect.lane, work[collect.lane])
<1>4. already \in BOOLEAN
  OBVIOUS
<1> HIDE DEF b, already
<1>5. \/ CollectStops
      \/ /\ collect.reg.state = "blocked"
         /\ collect' = [collect EXCEPT !.step = "confirm", !.write = collect.reg]
      \/ collect' = [collect EXCEPT !.step = "confirm", !.write = b]
      \/ /\ collect.reg.state # "blocked"
         /\ collect' = [collect EXCEPT !.step = IF already THEN "check" ELSE "pick",
                                       !.head = work[collect.lane],
                                       !.already = already]
  BY DEF ReadEvidence, b, already
<1> QED BY <1>1, <1>2, <1>3, <1>4, <1>5

LEMMA CheckOutcome ==
  ASSUME CheckPatch
  PROVE  /\ collect.step = "check"
         /\ \/ CollectStops
            \/ /\ Owned
               /\ collect' = [collect EXCEPT !.step = "validate", !.commit = Tip]
  BY DEF CheckPatch, AfterCheck

LEMMA SettleOutcome ==
  ASSUME Settle
  PROVE  /\ collect.step = "settle"
         /\ \/ CollectStops
            \/ /\ SameAsRecorded /\ Tip = collect.commit
               /\ collect' = [collect EXCEPT
                    !.step = IF collect.reg.state = "integrated" THEN "report"
                             ELSE "confirm",
                    !.write = IF collect.reg.state = "running" THEN Terminal
                              ELSE IntegratedRecord]
  BY DEF Settle

LEMMA WrittenOutcome ==
  ASSUME collect' = Written
  PROVE  \/ /\ collect.write.state = "terminal"
            /\ collect' = [collect EXCEPT !.step = "confirm", !.write = IntegratedRecord]
         \/ collect.write.state # "terminal" /\ Collecting("report")
  BY DEF Written, Collecting

\* A record that may follow another is none of an absent registry.
LEMMA AppendedIsRecorded ==
  /\ \A l \in Lane : TypeOK /\ dispatch[l].step = "append" => dispatch[l].reg \in Recorded
  /\ TypeOK /\ collect.step = "append" => collect.write \in Recorded /\ collect.lane \in Lane
<1>1. ASSUME NEW l \in Lane, TypeOK, dispatch[l].step = "append"
      PROVE  dispatch[l].reg \in Recorded
  BY <1>1 DEF TypeOK, DispatchOK, DispatchShape, DispatchShaped, Dispatches, Recorded
<1>2. ASSUME TypeOK, collect.step = "append"
      PROVE  collect.write \in Recorded /\ collect.lane \in Lane
  BY <1>2 DEF TypeOK, CollectOK, CollectShape, CollectShaped, Collections, Recorded
<1> QED BY <1>1, <1>2

-----------------------------------------------------------------------------
LEMMA TypeInit == Init => TypeOK
<1> SUFFICES ASSUME Init PROVE TypeOK
  OBVIOUS
<1> USE DeliveryLanesAssumption
<1>1. PICK k \in 0..(N - 1) :
        /\ turn = [active |-> FALSE, stamp |-> 1, reserved |-> FALSE]
        /\ registry = [l \in Lane |-> IF l <= k THEN Delivered(l) ELSE << >>]
        /\ worker = [l \in Lane |-> IF l <= k THEN "done" ELSE "absent"]
        /\ work = [l \in Lane |-> IF l <= k THEN 1 ELSE 0]
        /\ said = [l \in Lane |-> IF l <= k THEN [status |-> "confirmed", version |-> 1]
                                  ELSE NoWord]
        /\ branch = [l \in 1..k |-> [lane |-> l, version |-> 1]]
        /\ clean = TRUE /\ validated = 1..k
        /\ reported = 1..k
        /\ dispatch = [l \in Lane |-> NoDispatch]
        /\ collect = NoCollect
        /\ trouble = 0
  BY DEF Init
<1>2. TurnOK
  BY <1>1 DEF TurnOK
<1>3. CountOK
  BY <1>1 DEF CountOK, Lane
<1>4. RegistryOK
  <2>1. ASSUME NEW l \in Lane PROVE Delivered(l) \in Seq(Recorded)
    BY DEF Delivered, Recorded, Record, States, Lane
  <2>2. << >> \in Seq(Recorded)
    OBVIOUS
  <2> QED BY <1>1, <2>1, <2>2 DEF RegistryOK
<1>5. WorkersOK
  <2>1. worker \in [Lane -> {"absent", "idle", "working", "done"}]
    BY <1>1
  <2>2. work \in [Lane -> Nat]
    BY <1>1
  <2>3. said \in [Lane -> Words]
    BY <1>1 DEF Words, NoWord
  <2> QED BY <2>1, <2>2, <2>3 DEF WorkersOK
<1>6. GitOK
  <2>1. branch \in Seq(Commits)
    BY <1>1 DEF Commits
  <2> QED BY <1>1, <2>1 DEF GitOK
<1>7. DispatchOK
  BY <1>1 DEF DispatchOK, NoDispatch, Dispatches, DispatchSteps, Absent, Record, States
<1>8. CollectOK
  BY <1>1 DEF CollectOK, NoCollect, Collections, CollectSteps, Absent, Record, States
<1>9. DispatchShape
  BY <1>1 DEF DispatchShape, DispatchShaped, NoDispatch
<1>10. CollectShape
  BY <1>1 DEF CollectShape, CollectShaped, NoCollect
<1> QED BY <1>2, <1>3, <1>4, <1>5, <1>6, <1>7, <1>8, <1>9, <1>10 DEF TypeOK

\* Steps of a turn, of a worker and of the world leave every call alone.
Outside ==
  \/ BeginTurn \/ ReportOther \/ EndTurn
  \/ \E l \in Lane : WorkerStep(l)
  \/ ForeignCommit \/ AbortPick

LEMMA TypeOutside == TypeOK /\ Outside => TypeOK'
<1> SUFFICES ASSUME TypeOK, Outside PROVE TypeOK'
  OBVIOUS
<1>1. CASE BeginTurn
  <2>1. TurnOK'
    BY <1>1 DEF BeginTurn, TypeOK, TurnOK
  <2> QED BY <1>1, <2>1, Frames DEF BeginTurn, TypeOK, workers, git
<1>2. CASE ReportOther
  <2>1. TurnOK'
    BY <1>2 DEF ReportOther, TypeOK, TurnOK, Reserve
  <2>2. CountOK'
    BY <1>2 DEF ReportOther, TypeOK, CountOK, Trouble, Lane
  <2> QED BY <1>2, <2>1, <2>2, Frames DEF ReportOther, TypeOK, workers, git
<1>3. CASE EndTurn
  <2>1. TurnOK'
    BY <1>3 DEF EndTurn, TypeOK, TurnOK
  <2> QED BY <1>3, <2>1, Frames DEF EndTurn, TypeOK, workers, git
<1>4. ASSUME NEW l \in Lane, WorkerCommits(l) PROVE TypeOK'
  <2>1. WorkersOK'
    BY <1>4 DEF WorkerCommits, TypeOK, WorkersOK, Words, Lane
  <2> QED BY <1>4, <2>1, Frames DEF WorkerCommits, TypeOK, workers, git
<1>5. ASSUME NEW l \in Lane, WorkerExits(l) PROVE TypeOK'
  <2>1. WorkersOK'
    BY <1>5 DEF WorkerExits, TypeOK, WorkersOK, Words, Lane
  <2>2. CountOK'
    BY <1>5 DEF WorkerExits, TypeOK, CountOK, Trouble, Lane
  <2> QED BY <1>5, <2>1, <2>2, Frames DEF WorkerExits, TypeOK, workers, git
<1>6. ASSUME NEW l \in Lane, Amend(l) PROVE TypeOK'
  <2>1. WorkersOK'
    BY <1>6 DEF Amend, TypeOK, WorkersOK, Words, Lane
  <2>2. CountOK'
    BY <1>6 DEF Amend, TypeOK, CountOK, Trouble, Lane
  <2> QED BY <1>6, <2>1, <2>2, Frames DEF Amend, TypeOK, workers, git
<1>7. ASSUME NEW l \in Lane, NEW s \in {"confirmed", "blocked"}, WorkerReports(l, s)
      PROVE  TypeOK'
  <2>1. WorkersOK'
    BY <1>7 DEF WorkerReports, TypeOK, WorkersOK, Words, Lane
  <2>2. CountOK'
    BY <1>7 DEF WorkerReports, TypeOK, CountOK, Trouble, Lane
  <2> QED BY <1>7, <2>1, <2>2, Frames DEF WorkerReports, TypeOK, workers, git
<1>8. CASE ForeignCommit
  <2>1. branch' \in Seq(Commits)
    <3>1. Foreign \in Commits
      BY DeliveryLanesAssumption DEF Foreign, Commits
    <3> QED BY <1>8, <3>1, AppendFacts DEF ForeignCommit, TypeOK, GitOK
  <2>2. GitOK'
    BY <1>8, <2>1 DEF ForeignCommit, TypeOK, GitOK, Commits
  <2>3. CountOK'
    BY <1>8 DEF ForeignCommit, TypeOK, CountOK, Trouble, Lane
  <2> QED BY <1>8, <2>2, <2>3, Frames DEF ForeignCommit, TypeOK, workers
<1>9. CASE AbortPick
  <2>1. GitOK'
    BY <1>9 DEF AbortPick, TypeOK, GitOK, Commits
  <2> QED BY <1>9, <2>1, Frames DEF AbortPick, TypeOK, workers
<1> QED
  BY <1>1, <1>2, <1>3, <1>4, <1>5, <1>6, <1>7, <1>8, <1>9 DEF Outside, WorkerStep

LEMMA TypeDispatch ==
  ASSUME TypeOK, NEW l \in Lane, DispatchStep(l)
  PROVE  TypeOK'
<1> USE DispatchMoves DEF DispatchSteps
<1>1. CASE DispatchLane(l)
  <2> DEFINE d == [step |-> IF Latest(l) = Absent THEN "prepare" ELSE "enter",
                   reg |-> Latest(l), stamp |-> turn.stamp,
                   parent |-> Parent(l)]
  <2>1. turn.stamp \in Nat
    BY DEF TypeOK, TurnOK
  <2>2. Known(l) \in Nat /\ Known(l) <= l - 1
    <3> DEFINE P == {p \in 1..(l - 1) : Latest(p).state = "integrated"}
    <3>1. IsFiniteSet(1..(l - 1)) /\ Cardinality(1..(l - 1)) = l - 1
      BY DeliveryLanesAssumption, FS_Interval DEF Lane
    <3>2. P \subseteq 1..(l - 1)
      OBVIOUS
    <3> HIDE DEF P
    <3>3. Cardinality(P) \in Nat /\ Cardinality(P) <= l - 1
      BY <3>1, <3>2, FS_Subset, FS_CardinalityType
    <3> QED BY <3>3 DEF Known, P
  <2>3. Parent(l) \in Nat
    <3>1. CASE Known(l) = 0
      BY <3>1 DEF Parent
    <3>2. CASE Known(l) # 0
      <4>1. Known(l) \in Lane
        BY <2>2, <3>2, DeliveryLanesAssumption DEF Lane
      <4> QED BY <3>2, <4>1, LatestType DEF Parent, Record
    <3> QED BY <3>1, <3>2
  <2>4. d \in Dispatches
    BY <2>1, <2>2, <2>3, LatestType DEF Dispatches
  <2>5. DispatchShaped(d)
    BY DEF DispatchShaped
  <2>6. dispatch' = [dispatch EXCEPT ![l] = d]
    BY <1>1 DEF DispatchLane
  <2>7. DispatchOK' /\ DispatchShape'
    BY <2>4, <2>5, <2>6, DispatchTo
  <2> QED BY <1>1, <2>7, Frames DEF DispatchLane, TypeOK
<1>2. CASE PrepareLane(l)
  <2>1. CASE DispatchStops(l)
    BY <1>2, <2>1, Frames DEF PrepareLane, TypeOK
  <2>2. CASE ~DispatchStops(l)
    <3> DEFINE reg == [Absent EXCEPT !.state = "created", !.stamp = dispatch[l].stamp]
               d == [dispatch[l] EXCEPT !.step = "confirm", !.reg = reg]
    <3>1. dispatch[l] \in Dispatches /\ dispatch \in [Lane -> Dispatches]
      BY DEF TypeOK, DispatchOK
    <3>2. reg \in Record /\ reg.state = "created"
      BY <3>1 DEF Absent, Dispatches, Record, States
    <3>3. d \in Dispatches /\ DispatchShaped(d)
      BY <3>1, <3>2 DEF Dispatches, DispatchShaped
    <3>4. dispatch' = [dispatch EXCEPT ![l] = d]
      BY <1>2, <2>2, <3>1 DEF PrepareLane, Dispatches
    <3>5. DispatchOK' /\ DispatchShape'
      BY <3>3, <3>4, DispatchTo
    <3> QED BY <1>2, <3>5, Frames DEF PrepareLane, TypeOK
  <2> QED BY <2>1, <2>2
<1>3. CASE ConfirmDispatch(l)
  <2>1. NextOf(l) \in {"enter", "complete"}
    BY DEF NextOf
  <2>2. dispatch[l].reg.state \in {"created", "running"}
    BY <1>3 DEF ConfirmDispatch, TypeOK, DispatchShape, DispatchShaped
  <2>3. DispatchOK' /\ DispatchShape'
    BY <1>3, <2>1, <2>2 DEF ConfirmDispatch
  <2> QED BY <1>3, <2>3, Frames DEF ConfirmDispatch, TypeOK
<1>4. CASE AppendDispatch(l)
  <2>1. dispatch[l].reg \in Recorded
    BY <1>4, AppendedIsRecorded DEF AppendDispatch
  <2>2. RegistryOK'
    <3>1. registry' \in [Lane -> Seq(Recorded)]
      BY <1>4, <2>1, LatestAppended DEF AppendDispatch
    <3> QED BY <3>1 DEF RegistryOK, Recorded, Record, States, Lane
  <2>3. dispatch[l].reg.state \in {"created", "running"}
    BY <1>4 DEF AppendDispatch, TypeOK, DispatchShape, DispatchShaped
  <2>4. DispatchOK' /\ DispatchShape'
    BY <1>4, <2>3 DEF AppendDispatch
  <2> QED BY <1>4, <2>2, <2>4, Frames DEF AppendDispatch, TypeOK
<1>5. CASE ReadBackDispatch(l)
  <2>1. NextOf(l) \in {"enter", "complete"}
    BY DEF NextOf
  <2>2. DispatchOK' /\ DispatchShape'
    BY <1>5, <2>1 DEF ReadBackDispatch
  <2> QED BY <1>5, <2>2, Frames DEF ReadBackDispatch, TypeOK
<1>6. CASE EnterLane(l)
  <2>1. \/ DispatchStops(l) \/ Running(l)
        \/ \E s \in {"start", "prompt"} : Dispatching(l, s)
    BY <1>6 DEF EnterLane
  <2>2. DispatchOK' /\ DispatchShape'
    BY <2>1
  <2> QED BY <1>6, <2>2, Frames DEF EnterLane, TypeOK
<1>7. CASE StartWorker(l)
  <2>1. DispatchOK' /\ DispatchShape'
    BY <1>7 DEF StartWorker
  <2>2. WorkersOK'
    BY <1>7 DEF StartWorker, TypeOK, WorkersOK, Words, Lane
  <2>3. CountOK'
    BY <1>7 DEF StartWorker, TypeOK, CountOK, Trouble, Lane
  <2> QED BY <1>7, <2>1, <2>2, <2>3, Frames DEF StartWorker, TypeOK
<1>8. CASE PromptWorker(l)
  <2>1. DispatchOK' /\ DispatchShape'
    BY <1>8 DEF PromptWorker
  <2>2. WorkersOK'
    BY <1>8 DEF PromptWorker, TypeOK, WorkersOK, Words, Lane
  <2>3. CountOK'
    BY <1>8 DEF PromptWorker, TypeOK, CountOK, Trouble, Lane
  <2> QED BY <1>8, <2>1, <2>2, <2>3, Frames DEF PromptWorker, TypeOK
<1>9. CASE CompleteDispatch(l)
  <2>1. DispatchOK' /\ DispatchShape'
    BY <1>9 DEF CompleteDispatch
  <2>2. TurnOK'
    BY <1>9 DEF CompleteDispatch, TypeOK, TurnOK
  <2> QED BY <1>9, <2>1, <2>2, Frames DEF CompleteDispatch, TypeOK
<1> QED
  BY <1>1, <1>2, <1>3, <1>4, <1>5, <1>6, <1>7, <1>8, <1>9 DEF DispatchStep

LEMMA TypeCollect ==
  ASSUME TypeOK, CollectStep
  PROVE  TypeOK'
<1>0. collect \in Collections /\ CollectShaped(collect)
  BY DEF TypeOK, CollectOK, CollectShape
<1>1. ASSUME NEW l \in Lane, CollectLane(l) PROVE TypeOK'
  <2> DEFINE c == [NoCollect EXCEPT !.step = "evidence", !.lane = l, !.reg = Latest(l),
                                    !.stamp = turn.stamp, !.parent = Parent(l)]
  <2>1. turn.stamp \in Nat
    BY DEF TypeOK, TurnOK
  <2>2. Parent(l) \in Nat
    <3>1. CASE Known(l) = 0
      BY <3>1 DEF Parent
    <3>2. CASE Known(l) # 0
      <4>1. Known(l) \in Lane
        BY <1>1, <3>2, DeliveryLanesAssumption DEF CollectLane, FrontierReady, Lane
      <4> QED BY <3>2, <4>1, LatestType DEF Parent, Record
    <3> QED BY <3>1, <3>2
  <2>3. l \in 0..N
    BY DeliveryLanesAssumption DEF Lane
  <2>4. c \in Collections
    BY <2>1, <2>2, <2>3, LatestType
       DEF NoCollect, Collections, CollectSteps, Absent, Record, States
  <2>5. CollectShaped(c)
    BY <1>1 DEF CollectLane, CollectShaped, NoCollect
  <2>6. CollectOK' /\ CollectShape'
    <3>1. collect' = c
      BY <1>1 DEF CollectLane
    <3> HIDE DEF c
    <3> QED BY <2>4, <2>5, <3>1, CollectTo
  <2> QED BY <1>1, <2>6, Frames DEF CollectLane, TypeOK
<1>2. CASE ReadEvidence
  <2>1. ASSUME NEW s \in {"check", "pick"}, NEW b \in BOOLEAN, collect.step = "evidence",
               collect' = [collect EXCEPT !.step = s, !.head = work[collect.lane],
                                          !.already = b]
        PROVE  CollectOK' /\ CollectShape'
    <3> DEFINE c == [collect EXCEPT !.step = s, !.head = work[collect.lane],
                                    !.already = b]
    <3>1. work[collect.lane] \in Nat
      BY <1>0, <2>1 DEF CollectShaped, TypeOK, WorkersOK
    <3>2. c \in Collections
      BY <1>0, <3>1 DEF Collections, CollectSteps
    <3>3. CollectShaped(c)
      BY <1>0, <2>1 DEF CollectShaped, Collections
    <3> QED BY <2>1, <3>2, <3>3, CollectTo
  <2>2. CollectOK' /\ CollectShape'
    BY <1>2, <2>1, EvidenceOutcome, CollectMoves DEF CollectSteps
  <2> QED BY <1>2, <2>2, Frames DEF ReadEvidence, TypeOK
<1>3. CASE CherryPick
  <2>1. CollectOK' /\ CollectShape'
    BY <1>3, CollectMoves DEF CollectSteps, CherryPick
  <2>2. branch' \in Seq(Commits)
    <3> DEFINE x == [lane |-> collect.lane, version |-> collect.head]
    <3>1. x \in Commits
      BY <1>0 DEF Collections, Commits
    <3> HIDE DEF x
    <3>2. Append(branch, x) \in Seq(Commits)
      BY <3>1, AppendFacts DEF TypeOK, GitOK
    <3>3. branch' = Append(branch, x) \/ branch' = branch
      BY <1>3 DEF CherryPick, x
    <3> QED BY <3>2, <3>3 DEF TypeOK, GitOK
  <2>3. GitOK'
    BY <1>3, <2>2 DEF CherryPick, TypeOK, GitOK, Commits
  <2>4. CountOK'
    BY <1>3 DEF CherryPick, TypeOK, CountOK, Trouble, Lane
  <2> QED BY <1>3, <2>1, <2>3, <2>4, Frames DEF CherryPick, TypeOK
<1>4. CASE CheckPatch
  <2>1. ASSUME collect.step = "check",
               collect' = [collect EXCEPT !.step = "validate", !.commit = Tip]
        PROVE  CollectOK' /\ CollectShape'
    <3> DEFINE c == [collect EXCEPT !.step = "validate", !.commit = Tip]
    <3>1. Tip \in Nat
      BY DEF Tip, TypeOK, GitOK
    <3>2. c \in Collections
      BY <1>0, <3>1 DEF Collections, CollectSteps
    <3>3. CollectShaped(c)
      BY <1>0, <2>1 DEF CollectShaped, Collections
    <3> QED BY <2>1, <3>2, <3>3, CollectTo
  <2>2. CollectOK' /\ CollectShape'
    BY <1>4, <2>1, CheckOutcome, CollectMoves DEF CollectSteps
  <2> QED BY <1>4, <2>2, Frames DEF CheckPatch, TypeOK
<1>5. CASE Validate
  <2>1. CollectOK' /\ CollectShape'
    BY <1>5, CollectMoves DEF CollectSteps, Validate
  <2>2. GitOK'
    <3>1. Tip \in Nat
      BY DEF Tip, TypeOK, GitOK
    <3>2. validated' \subseteq Nat
      BY <1>5, <3>1 DEF Validate, TypeOK, GitOK
    <3>3. branch' = branch /\ clean' = clean
      BY <1>5 DEF Validate
    <3> QED BY <3>2, <3>3 DEF TypeOK, GitOK, Commits
  <2>3. CountOK'
    BY <1>5 DEF Validate, TypeOK, CountOK, Trouble, Lane
  <2> QED BY <1>5, <2>1, <2>2, <2>3, Frames DEF Validate, TypeOK
<1>6. CASE Settle
  <2>1. CollectOK' /\ CollectShape'
    BY <1>6, SettleOutcome, RecordTypes, CollectMoves DEF CollectSteps
  <2> QED BY <1>6, <2>1, Frames DEF Settle, TypeOK
<1>7. CASE ConfirmCollect
  <2>1. collect.step = "confirm"
        /\ (collect' = Written \/ Collecting("append") \/ CollectStops)
    BY <1>7 DEF ConfirmCollect
  <2>2. CollectOK' /\ CollectShape'
    BY <1>0, <2>1, WrittenOutcome, RecordTypes, CollectMoves DEF CollectSteps, CollectShaped
  <2> QED BY <1>7, <2>2, Frames DEF ConfirmCollect, TypeOK
<1>8. CASE AppendCollect
  <2>1. collect.write \in Recorded /\ collect.lane \in Lane
    BY <1>8, AppendedIsRecorded DEF AppendCollect
  <2>2. RegistryOK'
    <3>1. registry' \in [Lane -> Seq(Recorded)]
      BY <1>8, <2>1, LatestAppended DEF AppendCollect
    <3> QED BY <3>1 DEF RegistryOK, Recorded, Record, States, Lane
  <2>3. CollectOK' /\ CollectShape'
    BY <1>0, <1>8, CollectMoves DEF CollectSteps, AppendCollect, CollectShaped
  <2> QED BY <1>8, <2>2, <2>3, Frames DEF AppendCollect, TypeOK
<1>9. CASE ReadBackCollect
  <2>1. collect.step = "readback" /\ (collect' = Written \/ CollectStops)
    BY <1>9 DEF ReadBackCollect
  <2>2. CollectOK' /\ CollectShape'
    BY <1>0, <2>1, WrittenOutcome, RecordTypes, CollectMoves DEF CollectSteps, CollectShaped
  <2> QED BY <1>9, <2>2, Frames DEF ReadBackCollect, TypeOK
<1>10. CASE ReportCollect
  <2>1. CollectOK' /\ CollectShape'
    BY <1>10, CollectMoves DEF CollectSteps, ReportCollect
  <2>2. TurnOK'
    BY <1>10 DEF ReportCollect, TypeOK, TurnOK, Reserve
  <2>3. collect.lane \in Lane
    BY <1>0, <1>10 DEF ReportCollect, CollectShaped
  <2>4. CountOK'
    <3>1. reported' = reported \/ reported' = reported \cup {collect.lane}
      BY <1>10 DEF ReportCollect
    <3> QED BY <1>10, <2>3, <3>1 DEF ReportCollect, TypeOK, CountOK, Lane
  <2> QED BY <1>10, <2>1, <2>2, <2>4, Frames DEF ReportCollect, TypeOK
<1> QED
  BY <1>1, <1>2, <1>3, <1>4, <1>5, <1>6, <1>7, <1>8, <1>9, <1>10 DEF CollectStep

LEMMA TypeFailure == TypeOK /\ (CallFails \/ Crash) => TypeOK'
<1> SUFFICES ASSUME TypeOK, CallFails \/ Crash PROVE TypeOK'
  OBVIOUS
<1>1. CASE CallFails
  <2>1. CountOK'
    BY <1>1 DEF CallFails, TypeOK, CountOK, Trouble, Lane
  <2>2. CASE CollectStops /\ UNCHANGED dispatch
    BY <1>1, <2>1, <2>2, CollectMoves, Frames DEF CallFails, TypeOK
  <2>3. ASSUME NEW l \in Lane, DispatchStops(l), UNCHANGED collect PROVE TypeOK'
    BY <1>1, <2>1, <2>3, DispatchMoves, Frames DEF CallFails, TypeOK
  <2> QED BY <1>1, <2>2, <2>3 DEF CallFails
<1>2. CASE Crash
  <2>1. CountOK'
    BY <1>2 DEF Crash, TypeOK, CountOK, Trouble, Lane
  <2>2. CollectOK' /\ CollectShape'
    BY <1>2, CollectMoves DEF Crash
  <2>3. DispatchOK'
    BY <1>2 DEF Crash, DispatchOK, NoDispatch, Dispatches, DispatchSteps, Absent, Record,
                States, Lane
  <2>4. DispatchShape'
    BY <1>2 DEF Crash, DispatchShape, DispatchShaped, NoDispatch, Lane
  <2> QED BY <1>2, <2>1, <2>2, <2>3, <2>4, Frames DEF Crash, TypeOK
<1> QED BY <1>1, <1>2

LEMMA TypeStep == TypeOK /\ [Next]_vars => TypeOK'
<1>1. TypeOK /\ UNCHANGED vars => TypeOK'
  BY Frames DEF TypeOK, vars
<1> QED
  BY <1>1, TypeOutside, TypeDispatch, TypeCollect, TypeFailure DEF Next, Outside

\* Every variable keeps its type, for any number of lanes, turns, calls and failures; a
\* dispatch never writes a state that belongs to a collection, nor the other way round
\* (_confirm_delivery_lane_registry and its callers).
THEOREM TypeCorrect == Spec => []TypeOK
  BY TypeInit, TypeStep, PTL DEF Spec

-----------------------------------------------------------------------------
\* A commit on the integration branch stays where it is, and so does a validation.
Grows ==
  /\ Len(branch) <= Len(branch')
  /\ \A i \in 1..Len(branch) : branch'[i] = branch[i]
  /\ validated \subseteq validated'

LEMMA GrowsBy ==
  ASSUME TypeOK, TypeOK', validated \subseteq validated',
         branch' = branch \/ \E x \in Commits : branch' = Append(branch, x)
  PROVE  Grows
<1>1. branch \in Seq(Commits) /\ branch' \in Seq(Commits)
  BY DEF TypeOK, GitOK, Commits
<1>2. CASE branch' = branch
  BY <1>1, <1>2 DEF Grows
<1>3. ASSUME NEW x \in Commits, branch' = Append(branch, x) PROVE Grows
  BY <1>1, <1>3, AppendFacts DEF Grows
<1> QED BY <1>2, <1>3

\* What does not touch the registry leaves the history and the lanes as they are.
LEMMA RegistryKept ==
  ASSUME TypeOK, Inv, UNCHANGED registry, Grows
  PROVE  HistoryReadable' /\ LaneInv'
<1>1. HistoryReadable'
  BY DEF Inv, HistoryReadable, Transitions, Lane
<1>2. ASSUME NEW l \in Lane, Latest(l)'.state = "integrated"
      PROVE  /\ Latest(l)'.commit = l /\ l <= Len(branch')
             /\ branch'[l] = [lane |-> l, version |-> Latest(l)'.head]
             /\ l \in validated'
             /\ \A p \in 1..(l - 1) : Latest(p)'.state = "integrated"
  <2>1. Latest(l)' = Latest(l) /\ \A p \in 1..(l - 1) : Latest(p)' = Latest(p)
    BY LatestSame, DeliveryLanesAssumption DEF Lane
  <2>2. /\ Latest(l).commit = l /\ l <= Len(branch)
        /\ branch[l] = [lane |-> l, version |-> Latest(l).head]
        /\ l \in validated
        /\ \A p \in 1..(l - 1) : Latest(p).state = "integrated"
    BY <1>2, <2>1 DEF Inv, LaneInv
  <2>3. l \in 1..Len(branch) /\ Len(branch) \in Nat /\ Len(branch') \in Nat
    BY <2>2 DEF TypeOK, GitOK, Lane, Grows
  <2> QED BY <2>1, <2>2, <2>3 DEF Grows
<1>3. LaneInv'
  BY <1>2 DEF LaneInv, Lane
<1> QED BY <1>1, <1>3

LEMMA ReportKept ==
  ASSUME Inv, TypeOK, UNCHANGED <<registry, reported>>
  PROVE  ReportInv'
  BY LatestSame DEF Inv, ReportInv, TypeOK, CountOK

LEMMA DispatchKept ==
  ASSUME Inv, UNCHANGED registry,
         \A l \in Lane : dispatch'[l].step = "append" => dispatch'[l] = dispatch[l]
  PROVE  DispatchInv'
<1>1. \A l \in Lane : Latest(l)' = Latest(l)
  BY LatestSame
<1> QED BY <1>1 DEF Inv, DispatchInv, MayAppend, Transitions, Lane

LEMMA CollectKept ==
  ASSUME TypeOK, Inv, UNCHANGED <<registry, collect>>, Grows
  PROVE  CollectInv'
<1> SUFFICES ASSUME collect.step # "none" PROVE CollectInv'
  BY DEF CollectInv
<1>1. collect.lane \in Lane
  BY DEF TypeOK, CollectShape, CollectShaped
<1>2. /\ Latest(collect.lane)' = Latest(collect.lane)
      /\ \A p \in 1..(collect.lane - 1) : Latest(p)' = Latest(p)
  BY <1>1, LatestSame, DeliveryLanesAssumption DEF Lane
<1>3. Placed(collect) => Placed(collect)'
  <2> SUFFICES ASSUME Placed(collect) PROVE Placed(collect)'
    OBVIOUS
  <2>1. collect.lane \in 1..Len(branch) /\ Len(branch) \in Nat
    BY <1>1 DEF Placed, TypeOK, GitOK, Lane
  <2> QED BY <2>1, <1>1 DEF Placed, Grows, Lane
<1>4. ASSUME NEW v \in validated, collect.commit <= v, v <= Len(branch)
      PROVE  \E w \in validated' : collect.commit <= w /\ w <= Len(branch')
  BY <1>4 DEF Grows, TypeOK, GitOK
<1> QED BY <1>1, <1>2, <1>3, <1>4 DEF Inv, CollectInv, Grows, MayAppend, Transitions, Before

-----------------------------------------------------------------------------
LEMMA InvInit == Init => Inv
<1> SUFFICES ASSUME Init PROVE Inv
  OBVIOUS
<1> USE DeliveryLanesAssumption
<1>1. PICK k \in 0..(N - 1) :
        /\ registry = [l \in Lane |-> IF l <= k THEN Delivered(l) ELSE << >>]
        /\ branch = [l \in 1..k |-> [lane |-> l, version |-> 1]]
        /\ validated = 1..k /\ reported = 1..k
        /\ dispatch = [l \in Lane |-> NoDispatch]
        /\ collect = NoCollect
  BY DEF Init
<1>2. ASSUME NEW l \in Lane
      PROVE  Latest(l) = IF l <= k THEN [state |-> "integrated", stamp |-> 1, head |-> 1,
                                         commit |-> l] ELSE Absent
  <2>1. registry[l] = IF l <= k THEN Delivered(l) ELSE << >>
    BY <1>1
  <2>2. /\ Delivered(l) # << >> /\ Len(Delivered(l)) = 4
        /\ Delivered(l)[4] = [state |-> "integrated", stamp |-> 1, head |-> 1,
                              commit |-> l]
    BY DEF Delivered
  <2> QED BY <2>1, <2>2 DEF Latest
<1>3. HistoryReadable
  <2>1. ASSUME NEW l \in Lane, registry[l] = Delivered(l)
        PROVE  LET h == registry[l] IN
                 /\ h # << >> => h[1].state = "created"
                 /\ \A i \in 2..Len(h) :
                      \/ h[i] = h[i - 1]
                      \/ /\ <<h[i - 1].state, h[i].state>> \in Transitions
                         /\ h[i - 1].state = "terminal" => h[i].head = h[i - 1].head
    <3> DEFINE h == registry[l]
    <3>1. /\ Len(h) = 4 /\ h[1].state = "created" /\ h[2].state = "running"
          /\ h[3].state = "terminal" /\ h[4].state = "integrated"
          /\ h[3].head = 1 /\ h[4].head = 1
      BY <2>1 DEF Delivered
    <3> HIDE DEF h
    <3>2. ASSUME NEW i \in 2..Len(h)
          PROVE  /\ <<h[i - 1].state, h[i].state>> \in Transitions
                 /\ h[i - 1].state = "terminal" => h[i].head = h[i - 1].head
      <4>1. i = 2 \/ i = 3 \/ i = 4
        BY <3>1, <3>2
      <4> QED BY <3>1, <4>1 DEF Transitions
    <3> QED BY <3>1, <3>2 DEF h
  <2>2. ASSUME NEW l \in Lane, registry[l] = << >>
        PROVE  LET h == registry[l] IN
                 /\ h # << >> => h[1].state = "created"
                 /\ \A i \in 2..Len(h) :
                      \/ h[i] = h[i - 1]
                      \/ /\ <<h[i - 1].state, h[i].state>> \in Transitions
                         /\ h[i - 1].state = "terminal" => h[i].head = h[i - 1].head
    BY <2>2
  <2> QED BY <1>1, <2>1, <2>2 DEF HistoryReadable
<1>4. DispatchInv
  BY <1>1 DEF DispatchInv, NoDispatch
<1>5. CollectInv
  BY <1>1 DEF CollectInv, NoCollect
<1>6. LaneInv
  <2> SUFFICES ASSUME NEW l \in Lane, Latest(l).state = "integrated"
               PROVE  /\ Latest(l).commit = l /\ l <= Len(branch)
                      /\ branch[l] = [lane |-> l, version |-> Latest(l).head]
                      /\ l \in validated
                      /\ \A p \in 1..(l - 1) : Latest(p).state = "integrated"
    BY DEF LaneInv
  <2>1. l <= k
    BY <1>2 DEF Absent
  <2>2. Len(branch) = k
    BY <1>1
  <2>3. l \in 1..k /\ \A p \in 1..(l - 1) : p \in Lane /\ p <= k
    BY <2>1 DEF Lane
  <2> QED BY <1>1, <1>2, <2>1, <2>2, <2>3
<1>7. ReportInv
  <2>1. \A l \in 1..k : l \in Lane /\ l <= k
    BY DEF Lane
  <2> QED BY <1>1, <1>2, <2>1 DEF ReportInv
<1> QED BY <1>3, <1>4, <1>5, <1>6, <1>7 DEF Inv

LEMMA InvOutside == TypeOK /\ TypeOK' /\ Inv /\ Outside => Inv'
<1> SUFFICES ASSUME TypeOK, TypeOK', Inv, Outside PROVE Inv'
  OBVIOUS
<1>1. UNCHANGED <<registry, reported, dispatch, collect>>
  BY DEF Outside, WorkerStep, BeginTurn, ReportOther, EndTurn, WorkerCommits, WorkerExits,
         Amend, WorkerReports, ForeignCommit, AbortPick
<1>2. Grows
  <2>1. validated' = validated
        /\ (branch' = branch \/ branch' = Append(branch, Foreign))
    BY DEF Outside, WorkerStep, BeginTurn, ReportOther, EndTurn, WorkerCommits, WorkerExits,
           Amend, WorkerReports, ForeignCommit, AbortPick, git
  <2>2. Foreign \in Commits
    BY DeliveryLanesAssumption DEF Foreign, Commits
  <2> QED BY <2>1, <2>2, GrowsBy
<1> QED
  BY <1>1, <1>2, RegistryKept, ReportKept, DispatchKept, CollectKept DEF Inv

LEMMA Quiet ==
  ASSUME TypeOK, UNCHANGED git
  PROVE  Grows
  BY DEF Grows, git, TypeOK, GitOK

\* A dispatch that appends nothing may at most decide to: then the record may follow.
LEMMA InvDispatchQuiet ==
  ASSUME TypeOK, TypeOK', Inv, NEW l \in Lane,
         UNCHANGED <<registry, git, reported, collect>>,
         \A k \in Lane \ {l} : dispatch'[k] = dispatch[k],
         dispatch'[l].step = "append" => MayAppend(l, dispatch'[l].reg)
  PROVE  Inv'
<1>1. DispatchInv'
  <2>1. \A k \in Lane : Latest(k)' = Latest(k)
    BY LatestSame
  <2> QED BY <2>1 DEF Inv, DispatchInv, MayAppend, Transitions, Lane
<1> QED BY <1>1, Quiet, RegistryKept, ReportKept, CollectKept DEF Inv

LEMMA DispatchFields ==
  ASSUME TypeOK, NEW l \in Lane
  PROVE  /\ \A s \in DispatchSteps : Dispatching(l, s) =>
              /\ dispatch'[l].step = s /\ dispatch'[l].reg = dispatch[l].reg
              /\ \A k \in Lane \ {l} : dispatch'[k] = dispatch[k]
         /\ DispatchStops(l) =>
              /\ dispatch'[l].step = "none"
              /\ \A k \in Lane \ {l} : dispatch'[k] = dispatch[k]
         /\ Running(l) =>
              /\ dispatch'[l].step = "confirm"
              /\ \A k \in Lane \ {l} : dispatch'[k] = dispatch[k]
<1>1. dispatch \in [Lane -> Dispatches]
  BY DEF TypeOK, DispatchOK
<1>2. ASSUME NEW s \in DispatchSteps, Dispatching(l, s)
      PROVE  /\ dispatch'[l].step = s /\ dispatch'[l].reg = dispatch[l].reg
             /\ \A k \in Lane \ {l} : dispatch'[k] = dispatch[k]
  BY <1>1, <1>2 DEF Dispatching, Dispatches
<1>3. ASSUME DispatchStops(l)
      PROVE  /\ dispatch'[l].step = "none"
             /\ \A k \in Lane \ {l} : dispatch'[k] = dispatch[k]
  BY <1>1, <1>3 DEF DispatchStops, NoDispatch
<1>4. ASSUME Running(l)
      PROVE  /\ dispatch'[l].step = "confirm"
             /\ \A k \in Lane \ {l} : dispatch'[k] = dispatch[k]
  BY <1>1, <1>4 DEF Running, Dispatches
<1> QED BY <1>2, <1>3, <1>4

\* A step of a dispatch but the append itself.
LEMMA DispatchQuietly ==
  ASSUME TypeOK, NEW l \in Lane, DispatchStep(l), ~AppendDispatch(l)
  PROVE  /\ UNCHANGED <<registry, git, reported, collect>>
         /\ \A k \in Lane \ {l} : dispatch'[k] = dispatch[k]
         /\ dispatch'[l].step = "append" => MayAppend(l, dispatch'[l].reg)
<1> USE DispatchFields DEF DispatchSteps
<1>0. dispatch \in [Lane -> Dispatches]
  BY DEF TypeOK, DispatchOK
<1>1. CASE DispatchLane(l)
  BY <1>0, <1>1 DEF DispatchLane
<1>2. CASE PrepareLane(l)
  <2>1. CASE DispatchStops(l)
    BY <1>2, <2>1 DEF PrepareLane
  <2>2. CASE ~DispatchStops(l)
    BY <1>0, <1>2, <2>2 DEF PrepareLane, Dispatches
  <2> QED BY <2>1, <2>2
<1>3. CASE ConfirmDispatch(l)
  <2>1. NextOf(l) \in {"enter", "complete"}
    BY DEF NextOf
  <2> QED BY <1>3, <2>1 DEF ConfirmDispatch
<1>4. CASE ReadBackDispatch(l)
  <2>1. NextOf(l) \in {"enter", "complete"}
    BY DEF NextOf
  <2> QED BY <1>4, <2>1 DEF ReadBackDispatch
<1>5. CASE EnterLane(l)
  BY <1>5 DEF EnterLane
<1>6. CASE StartWorker(l)
  BY <1>6 DEF StartWorker
<1>7. CASE PromptWorker(l)
  BY <1>7 DEF PromptWorker
<1>8. CASE CompleteDispatch(l)
  BY <1>8 DEF CompleteDispatch
<1> QED BY <1>1, <1>2, <1>3, <1>4, <1>5, <1>6, <1>7, <1>8 DEF DispatchStep

-----------------------------------------------------------------------------
LEMMA HistoryAppended ==
  ASSUME TypeOK, HistoryReadable, NEW l \in Lane, NEW reg \in Recorded,
         MayAppend(l, reg), Latest(l).state = "terminal" => reg.head = Latest(l).head,
         AppendRecord(l, reg)
  PROVE  HistoryReadable'
<1>1. registry \in [Lane -> Seq(Recorded)]
  BY DEF TypeOK, RegistryOK
<1> DEFINE h == registry[l]
           g == Append(h, reg)
           Readable(s) ==
             /\ s # << >> => s[1].state = "created"
             /\ \A i \in 2..Len(s) :
                  \/ s[i] = s[i - 1]
                  \/ /\ <<s[i - 1].state, s[i].state>> \in Transitions
                     /\ s[i - 1].state = "terminal" => s[i].head = s[i - 1].head
<1>2. \A k \in Lane : Readable(registry[k])
  BY DEF HistoryReadable
<1>3. registry'[l] = g /\ \A k \in Lane \ {l} : registry'[k] = registry[k]
  BY <1>1 DEF AppendRecord
<1>4. /\ h \in Seq(Recorded) /\ g \in Seq(Recorded) /\ Len(g) = Len(h) + 1
      /\ Len(h) \in Nat
      /\ \A i \in 1..Len(h) : g[i] = h[i]
      /\ g[Len(h) + 1] = reg
  BY <1>1, AppendFacts
<1>5. Readable(h)
  BY <1>2
<1>6. Readable(g)
  <2>1. CASE h = << >>
    <3>1. Latest(l).state = "absent" /\ Len(h) = 0
      BY <2>1 DEF Latest, Absent
    <3>2. reg.state = "created"
      BY <3>1 DEF MayAppend, Transitions
    <3>3. Len(g) = 1 /\ g[1].state = "created"
      BY <1>4, <3>1, <3>2
    <3> QED BY <3>3
  <2>2. CASE h # << >>
    <3>1. Len(h) >= 1 /\ Latest(l) = h[Len(h)]
      BY <1>4, <2>2 DEF Latest
    <3> HIDE DEF h, g
    <3>2. g[1].state = "created"
      BY <1>4, <1>5, <2>2, <3>1
    <3>3. ASSUME NEW i \in 2..Len(g)
          PROVE  \/ g[i] = g[i - 1]
                 \/ /\ <<g[i - 1].state, g[i].state>> \in Transitions
                    /\ g[i - 1].state = "terminal" => g[i].head = g[i - 1].head
      <4>1. CASE i <= Len(h)
        <5>1. i \in 2..Len(h) /\ g[i] = h[i] /\ g[i - 1] = h[i - 1]
          BY <1>4, <3>3, <4>1
        <5> QED BY <1>5, <5>1
      <4>2. CASE i > Len(h)
        <5>1. i = Len(h) + 1 /\ Len(h) \in 1..Len(h)
          BY <1>4, <3>1, <3>3, <4>2
        <5>2. g[i] = reg /\ g[i - 1] = Latest(l)
          BY <1>4, <3>1, <5>1
        <5> QED BY <5>2 DEF MayAppend
      <4> QED BY <1>4, <3>3, <4>1, <4>2
    <3> QED BY <3>2, <3>3
  <2> QED BY <2>1, <2>2
<1>7. \A k \in Lane : Readable(registry'[k])
  <2> HIDE DEF h, g, Readable
  <2> QED BY <1>2, <1>3, <1>6
<1> QED BY <1>7 DEF HistoryReadable, Transitions, Lane

LEMMA InvAppendDispatch ==
  ASSUME TypeOK, TypeOK', Inv, NEW l \in Lane, AppendDispatch(l)
  PROVE  Inv'
<1> DEFINE reg == dispatch[l].reg
<1>1. reg \in Recorded /\ reg.state \in {"created", "running"} /\ MayAppend(l, reg)
  BY AppendedIsRecorded
     DEF AppendDispatch, TypeOK, DispatchShape, DispatchShaped, Inv, DispatchInv
<1>2. Latest(l).state \in {"absent", "created", "blocked"}
  BY <1>1 DEF MayAppend, Transitions
<1>3. /\ AppendRecord(l, reg) /\ UNCHANGED <<git, reported, collect>>
      /\ dispatch'[l].step = "readback"
      /\ \A k \in Lane \ {l} : dispatch'[k] = dispatch[k]
  BY DispatchFields DEF AppendDispatch, DispatchSteps
<1>4. Latest(l)' = reg /\ \A k \in Lane \ {l} : Latest(k)' = Latest(k)
  BY <1>1, <1>3, LatestAppended
<1>5. HistoryReadable'
  BY <1>1, <1>2, <1>3, HistoryAppended DEF Inv
<1> HIDE DEF reg
<1>6. DispatchInv'
  BY <1>3, <1>4 DEF Inv, DispatchInv, MayAppend, Transitions, Lane
<1>7. \A k \in Lane : Latest(k).state = "integrated" => k # l /\ Latest(k)' = Latest(k)
  BY <1>2, <1>4
<1>8. \A k \in Lane : Latest(k)'.state = "integrated" => k # l /\ Latest(k)' = Latest(k)
  BY <1>1, <1>4
<1>9. \A k \in Lane : \A p \in 1..(k - 1) : p \in Lane
  BY DeliveryLanesAssumption DEF Lane
<1>10. branch' = branch /\ validated' = validated
  BY <1>3 DEF git
<1>11. LaneInv'
  <2> SUFFICES ASSUME NEW k \in Lane, Latest(k)'.state = "integrated"
               PROVE  /\ Latest(k)'.commit = k /\ k <= Len(branch')
                      /\ branch'[k] = [lane |-> k, version |-> Latest(k)'.head]
                      /\ k \in validated'
                      /\ \A p \in 1..(k - 1) : Latest(p)'.state = "integrated"
    BY DEF LaneInv, Lane
  <2>1. Latest(k)' = Latest(k)
    BY <1>8
  <2>2. \A p \in 1..(k - 1) : Latest(p).state = "integrated"
    BY <2>1 DEF Inv, LaneInv
  <2>3. \A p \in 1..(k - 1) : Latest(p)'.state = "integrated"
    BY <1>7, <1>9, <2>2
  <2> QED BY <1>10, <2>1, <2>3 DEF Inv, LaneInv
<1>12. ReportInv'
  BY <1>3, <1>7 DEF Inv, ReportInv, TypeOK, CountOK
<1>13. CollectInv'
  <2> SUFFICES ASSUME collect.step # "none" PROVE CollectInv'
    BY <1>3 DEF CollectInv
  <2>1. collect.lane \in Lane /\ collect' = collect
    BY <1>3 DEF TypeOK, CollectShape, CollectShaped
  <2>2. \A p \in 1..(collect.lane - 1) : Latest(p)'.state = "integrated"
    BY <1>7, <1>9, <2>1 DEF Inv, CollectInv
  <2>3. Placed(collect) => Placed(collect)'
    BY <1>10, <2>1 DEF Placed
  <2>4. CASE collect.lane # l
    <3>1. Latest(collect.lane)' = Latest(collect.lane)
      BY <1>4, <2>1, <2>4
    <3> QED
      BY <1>10, <2>1, <2>2, <2>3, <3>1
         DEF Inv, CollectInv, MayAppend, Transitions, Before
  <2>5. CASE collect.lane = l
    <3>1. ~(collect.step = "append")
      <4> SUFFICES ASSUME collect.step = "append" PROVE FALSE
        OBVIOUS
      <4>1. MayAppend(l, collect.write)
        BY <2>5 DEF Inv, CollectInv
      <4>2. collect.write.state \in {"blocked", "terminal", "integrated"}
        BY DEF TypeOK, CollectShape, CollectShaped
      <4> QED BY <1>2, <4>1, <4>2 DEF MayAppend, Transitions
    <3>2. /\ ~(collect.step \in Before /\ collect.reg.state \in {"terminal", "integrated"})
          /\ ~(collect.step = "confirm" /\ collect.write.state = "integrated")
          /\ ~(collect.step = "report" /\ collect.write.state # "blocked")
      BY <1>2, <2>1, <2>5 DEF Inv, CollectInv
    <3> QED
      BY <1>10, <2>1, <2>2, <2>3, <3>1, <3>2 DEF Inv, CollectInv, Before
  <2> QED BY <2>4, <2>5
<1> QED BY <1>5, <1>6, <1>11, <1>12, <1>13 DEF Inv

LEMMA InvAppendCollect ==
  ASSUME TypeOK, TypeOK', Inv, AppendCollect
  PROVE  Inv'
<1>0. PICK l \in Lane, w \in Recorded : l = collect.lane /\ w = collect.write
  BY AppendedIsRecorded DEF AppendCollect
<1>1. /\ l \in Lane /\ w \in Recorded /\ MayAppend(l, w)
      /\ w.state \in {"blocked", "terminal", "integrated"}
  BY <1>0 DEF AppendCollect, TypeOK, CollectShape, CollectShaped, Inv, CollectInv
<1>2. Latest(l).state \in {"running", "terminal"}
  BY <1>1 DEF MayAppend, Transitions
<1>3. /\ AppendRecord(l, w) /\ UNCHANGED <<git, reported, dispatch>>
      /\ collect' = [collect EXCEPT !.step = "readback"]
      /\ collect.step = "append"
  BY <1>0 DEF AppendCollect, Collecting
<1>4. Latest(l)' = w /\ \A k \in Lane \ {l} : Latest(k)' = Latest(k)
  BY <1>1, <1>3, LatestAppended
<1>5. /\ w.state = "integrated" =>
           /\ Latest(l).head = collect.head /\ w.commit = collect.commit
      /\ w.state # "blocked" =>
           /\ Placed(collect) /\ collect.commit \in validated /\ w.head = collect.head
      /\ \A p \in 1..(l - 1) : Latest(p).state = "integrated"
      /\ collect.parent = l - 1
  BY <1>0, <1>3 DEF Inv, CollectInv
<1>6. HistoryReadable'
  <2>1. Latest(l).state = "terminal" => w.head = Latest(l).head
    BY <1>1, <1>5 DEF MayAppend, Transitions
  <2> QED BY <1>1, <1>3, <2>1, HistoryAppended DEF Inv
<1>7. branch' = branch /\ validated' = validated
  BY <1>3 DEF git
<1>8. /\ collect'.step = "readback" /\ collect'.lane = l /\ collect'.write = w
      /\ collect'.parent = collect.parent /\ collect'.head = collect.head
      /\ collect'.commit = collect.commit
  BY <1>0, <1>3 DEF TypeOK, CollectOK, Collections
<1>9. \A k \in Lane : Latest(k).state = "integrated" => k # l /\ Latest(k)' = Latest(k)
  BY <1>2, <1>4
<1>10. \A k \in Lane : \A p \in 1..(k - 1) : p \in Lane
  BY DeliveryLanesAssumption DEF Lane
<1>11. DispatchInv'
  <2> SUFFICES ASSUME NEW k \in Lane, dispatch[k].step = "append"
               PROVE  MayAppend(k, dispatch[k].reg)'
    BY <1>3 DEF DispatchInv, Lane
  <2>1. MayAppend(k, dispatch[k].reg)
    BY DEF Inv, DispatchInv
  <2>2. k # l
    <3>1. dispatch[k].reg.state \in {"created", "running"}
      BY DEF TypeOK, DispatchShape, DispatchShaped
    <3> QED BY <1>2, <2>1, <3>1 DEF MayAppend, Transitions
  <2> QED BY <1>3, <1>4, <2>1, <2>2 DEF MayAppend, Transitions
<1>12. \A p \in 1..(l - 1) : Latest(p)'.state = "integrated"
  BY <1>1, <1>5, <1>9, <1>10
<1>13. Placed(collect) => Placed(collect)'
  BY <1>0, <1>7, <1>8 DEF Placed
<1>14. CollectInv'
  BY <1>0, <1>1, <1>5, <1>7, <1>8, <1>12, <1>13 DEF CollectInv, Before
<1>15. LaneInv'
  <2> SUFFICES ASSUME NEW k \in Lane, Latest(k)'.state = "integrated"
               PROVE  /\ Latest(k)'.commit = k /\ k <= Len(branch')
                      /\ branch'[k] = [lane |-> k, version |-> Latest(k)'.head]
                      /\ k \in validated'
                      /\ \A p \in 1..(k - 1) : Latest(p)'.state = "integrated"
    BY DEF LaneInv, Lane
  <2>1. CASE k = l
    <3>1. Latest(k)' = w /\ w.state = "integrated"
      BY <1>4, <2>1
    <3>2. /\ Placed(collect) /\ collect.commit \in validated /\ w.head = collect.head
          /\ w.commit = collect.commit
      BY <1>5, <3>1
    <3>3. collect.lane = k
      BY <1>0, <2>1
    <3>4. /\ w.commit = k /\ k <= Len(branch) /\ k \in validated
          /\ branch[k] = [lane |-> k, version |-> w.head]
      BY <3>2, <3>3 DEF Placed
    <3> QED BY <1>7, <1>12, <2>1, <3>1, <3>4
  <2>2. CASE k # l
    <3>1. Latest(k)' = Latest(k)
      BY <1>4, <2>2
    <3>2. \A p \in 1..(k - 1) : Latest(p).state = "integrated"
      BY <3>1 DEF Inv, LaneInv
    <3>3. \A p \in 1..(k - 1) : Latest(p)'.state = "integrated"
      BY <1>9, <1>10, <3>2
    <3> QED BY <1>7, <3>1, <3>3 DEF Inv, LaneInv
  <2> QED BY <2>1, <2>2
<1>16. ReportInv'
  BY <1>3, <1>9 DEF Inv, ReportInv, TypeOK, CountOK
<1> QED BY <1>6, <1>11, <1>14, <1>15, <1>16 DEF Inv

-----------------------------------------------------------------------------
LEMMA InvCollectQuiet ==
  ASSUME TypeOK, TypeOK', Inv, UNCHANGED <<registry, dispatch, reported>>, Grows,
         CollectInv'
  PROVE  Inv'
  BY RegistryKept, ReportKept, DispatchKept DEF Inv

LEMMA CollectFields ==
  ASSUME TypeOK
  PROVE  /\ CollectStops => collect'.step = "none"
         /\ \A s \in CollectSteps : Collecting(s) =>
              /\ collect'.step = s /\ collect'.lane = collect.lane
              /\ collect'.reg = collect.reg /\ collect'.parent = collect.parent
              /\ collect'.head = collect.head /\ collect'.commit = collect.commit
              /\ collect'.write = collect.write
         /\ \A s \in CollectSteps, w \in Record :
              collect' = [collect EXCEPT !.step = s, !.write = w] =>
              /\ collect'.step = s /\ collect'.lane = collect.lane
              /\ collect'.reg = collect.reg /\ collect'.parent = collect.parent
              /\ collect'.head = collect.head /\ collect'.commit = collect.commit
              /\ collect'.write = w
<1>0. collect \in Collections
  BY DEF TypeOK, CollectOK
<1>1. CollectStops => collect'.step = "none"
  BY DEF CollectStops, NoCollect
<1>2. ASSUME NEW s \in CollectSteps, Collecting(s)
      PROVE  /\ collect'.step = s /\ collect'.lane = collect.lane
             /\ collect'.reg = collect.reg /\ collect'.parent = collect.parent
             /\ collect'.head = collect.head /\ collect'.commit = collect.commit
             /\ collect'.write = collect.write
  BY <1>0, <1>2 DEF Collecting, Collections
<1>3. ASSUME NEW s \in CollectSteps, NEW w \in Record,
             collect' = [collect EXCEPT !.step = s, !.write = w]
      PROVE  /\ collect'.step = s /\ collect'.lane = collect.lane
             /\ collect'.reg = collect.reg /\ collect'.parent = collect.parent
             /\ collect'.head = collect.head /\ collect'.commit = collect.commit
             /\ collect'.write = w
  BY <1>0, <1>3 DEF Collections
<1> QED BY <1>1, <1>2, <1>3

\* While a collection is under way and the registry rests, what it knows of lanes stays.
LEMMA FrontierKept ==
  ASSUME TypeOK, Inv, UNCHANGED registry, collect.step # "none",
         NEW l, l = collect.lane
  PROVE  /\ l \in Lane /\ collect.parent = l - 1
         /\ Latest(l)' = Latest(l)
         /\ \A p \in 1..(l - 1) : Latest(p)'.state = "integrated"
<1>1. l \in Lane /\ collect.parent = l - 1
  BY DEF TypeOK, CollectShape, CollectShaped, Inv, CollectInv
<1>2. \A p \in 1..(l - 1) : p \in Lane
  BY <1>1, DeliveryLanesAssumption DEF Lane
<1>3. \A p \in 1..(l - 1) : Latest(p).state = "integrated"
  BY DEF Inv, CollectInv
<1>4. \A k \in Lane : Latest(k)' = Latest(k)
  BY LatestSame
<1> QED BY <1>1, <1>2, <1>3, <1>4

\* All predecessors are integrated, and the head they leave is the number of them.
LEMMA FrontierIs ==
  ASSUME TypeOK, Inv, NEW l \in Lane, FrontierReady(l)
  PROVE  Parent(l) = l - 1 /\ \A p \in 1..(l - 1) : Latest(p).state = "integrated"
<1> DEFINE P == {p \in 1..(l - 1) : Latest(p).state = "integrated"}
<1>1. IsFiniteSet(1..(l - 1)) /\ Cardinality(1..(l - 1)) = l - 1
  BY DeliveryLanesAssumption, FS_Interval DEF Lane
<1>2. P \subseteq 1..(l - 1)
  OBVIOUS
<1>3. Cardinality(P) = l - 1
  BY DEF FrontierReady, Known
<1>4. P = 1..(l - 1)
  <2> HIDE DEF P
  <2> QED BY <1>1, <1>2, <1>3, FS_Subset
<1>5. \A p \in 1..(l - 1) : Latest(p).state = "integrated"
  BY <1>4
<1>6. Parent(l) = l - 1
  <2>1. CASE l = 1
    BY <2>1 DEF Parent, FrontierReady
  <2>2. CASE l # 1
    <3>1. l - 1 \in 1..(l - 1) /\ l - 1 \in Lane /\ l - 1 # 0
      BY <2>2, DeliveryLanesAssumption DEF Lane
    <3>2. Latest(l - 1).commit = l - 1
      BY <1>5, <3>1 DEF Inv, LaneInv
    <3> QED BY <3>1, <3>2 DEF Parent, FrontierReady
  <2> QED BY <2>1, <2>2
<1> QED BY <1>5, <1>6

LEMMA Stopped ==
  ASSUME TypeOK, CollectStops
  PROVE  CollectInv'
  BY CollectFields DEF CollectInv

\* The commit of the collection stays where it is.
LEMMA PlacedKept ==
  ASSUME TypeOK, Inv, Grows, collect.step # "none", Placed(collect),
         collect'.lane = collect.lane, collect'.commit = collect.commit,
         collect'.head = collect.head
  PROVE  Placed(collect)'
<1>1. collect.lane \in 1..Len(branch) /\ Len(branch) \in Nat /\ Len(branch') \in Nat
  BY DEF Placed, TypeOK, GitOK, CollectShape, CollectShaped, Lane, Grows
<1> QED BY <1>1 DEF Placed, Grows

LEMMA InvCollectLane ==
  ASSUME TypeOK, TypeOK', Inv, NEW l \in Lane, CollectLane(l)
  PROVE  Inv'
<1> DEFINE c == [NoCollect EXCEPT !.step = "evidence", !.lane = l, !.reg = Latest(l),
                                  !.stamp = turn.stamp, !.parent = Parent(l)]
<1>1. /\ FrontierReady(l) /\ collect' = c
      /\ UNCHANGED <<registry, git, dispatch, reported>>
  BY DEF CollectLane
<1>2. /\ c.step = "evidence" /\ c.lane = l /\ c.reg = Latest(l) /\ c.parent = Parent(l)
      /\ c.write = Absent
  BY DEF NoCollect
<1> HIDE DEF c
<1>3. Parent(l) = l - 1 /\ \A p \in 1..(l - 1) : Latest(p).state = "integrated"
  BY <1>1, FrontierIs
<1>4. Latest(l)' = Latest(l) /\ \A p \in 1..(l - 1) : Latest(p)' = Latest(p)
  BY <1>1, LatestSame, DeliveryLanesAssumption DEF Lane
<1>5. CollectInv'
  BY <1>1, <1>2, <1>3, <1>4 DEF CollectInv, Before
<1> QED BY <1>1, <1>5, Quiet, InvCollectQuiet

LEMMA InvReadEvidence ==
  ASSUME TypeOK, TypeOK', Inv, ReadEvidence
  PROVE  Inv'
<1>1. UNCHANGED <<registry, git, dispatch, reported>> /\ collect.step = "evidence"
  BY DEF ReadEvidence
<1>0. PICK l : l = collect.lane
  OBVIOUS
<1>2. /\ l \in Lane /\ collect.parent = l - 1
      /\ Latest(l)' = Latest(l)
      /\ \A p \in 1..(l - 1) : Latest(p)'.state = "integrated"
      /\ collect.reg.state \in {"terminal", "integrated"}
           => Latest(l) = collect.reg
  BY <1>0, <1>1, FrontierKept DEF Inv, CollectInv, Before
<1>3. ASSUME NEW w \in Record, w.state = "blocked",
             collect' = [collect EXCEPT !.step = "confirm", !.write = w]
      PROVE  CollectInv'
  <2>1. /\ collect'.step = "confirm" /\ collect'.lane = collect.lane
        /\ collect'.parent = collect.parent /\ collect'.write = w
    BY <1>3, CollectFields DEF CollectSteps
  <2> QED BY <1>0, <1>2, <1>3, <2>1 DEF CollectInv, Before
<1>4. ASSUME NEW s \in {"check", "pick"}, NEW b \in BOOLEAN,
             collect.reg.state # "blocked",
             collect' = [collect EXCEPT !.step = s, !.head = work[collect.lane],
                                        !.already = b]
      PROVE  CollectInv'
  <2>1. /\ collect'.step = s /\ collect'.lane = collect.lane
        /\ collect'.parent = collect.parent /\ collect'.reg = collect.reg
    BY <1>4 DEF TypeOK, CollectOK, Collections
  <2> QED BY <1>0, <1>2, <1>4, <2>1 DEF CollectInv, Before
<1>5. CollectInv'
  BY <1>3, <1>4, EvidenceOutcome, Stopped
<1> QED BY <1>1, <1>5, Quiet, InvCollectQuiet

LEMMA InvCherryPick ==
  ASSUME TypeOK, TypeOK', Inv, CherryPick
  PROVE  Inv'
<1>1. UNCHANGED <<registry, dispatch, reported, validated>> /\ collect.step = "pick"
  BY DEF CherryPick
<1>2. Grows
  <2> DEFINE x == [lane |-> collect.lane, version |-> collect.head]
  <2>1. x \in Commits
    BY DEF Commits, TypeOK, CollectOK, Collections
  <2>2. branch' = branch \/ branch' = Append(branch, x)
    BY DEF CherryPick
  <2> HIDE DEF x
  <2> QED BY <1>1, <2>1, <2>2, GrowsBy
<1>0. PICK l : l = collect.lane
  OBVIOUS
<1>3. /\ l \in Lane /\ collect.parent = l - 1
      /\ Latest(l)' = Latest(l)
      /\ \A p \in 1..(l - 1) : Latest(p)'.state = "integrated"
      /\ collect.reg.state \in {"terminal", "integrated"}
           => Latest(l) = collect.reg
      /\ collect.reg.state # "blocked"
  BY <1>0, <1>1, FrontierKept DEF Inv, CollectInv, Before
<1>4. CollectInv'
  <2>1. CASE Collecting("check")
    <3>1. /\ collect'.step = "check" /\ collect'.lane = collect.lane
          /\ collect'.parent = collect.parent /\ collect'.reg = collect.reg
      BY <2>1, CollectFields DEF CollectSteps
    <3> QED BY <1>0, <1>3, <3>1 DEF CollectInv, Before
  <2>2. CASE CollectStops
    BY <2>2, Stopped
  <2> QED BY <2>1, <2>2 DEF CherryPick
<1> QED BY <1>1, <1>2, <1>4, InvCollectQuiet

\* One commit on top of the predecessors', and the patch is on the branch: it is that
\* commit, for the others are the predecessors' own.
LEMMA OwnedIsPlaced ==
  ASSUME TypeOK, Inv, collect.step = "check", Owned
  PROVE  /\ Tip = collect.lane
         /\ branch[collect.lane] = [lane |-> collect.lane, version |-> collect.head]
<1> DEFINE l == collect.lane
<1>1. /\ l \in Lane /\ collect.parent = l - 1
      /\ \A p \in 1..(l - 1) : Latest(p).state = "integrated"
  BY DEF TypeOK, CollectShape, CollectShaped, Inv, CollectInv
<1>2. Tip = l
  BY <1>1, DeliveryLanesAssumption DEF Owned, Lane
<1>3. PICK i \in 1..Tip : branch[i] = [lane |-> l, version |-> collect.head]
  BY DEF Owned, Integrated
<1>4. i = l
  <2> SUFFICES ASSUME i # l PROVE FALSE
    OBVIOUS
  <2>1. i \in 1..(l - 1) /\ i \in Lane
    BY <1>1, <1>2, DeliveryLanesAssumption DEF Lane
  <2>2. branch[i] = [lane |-> i, version |-> Latest(i).head]
    BY <1>1, <2>1 DEF Inv, LaneInv
  <2>3. branch[i].lane = i /\ branch[i].lane = l
    BY <1>3, <2>2
  <2> QED BY <2>3
<1> QED BY <1>2, <1>3, <1>4

LEMMA InvCheckPatch ==
  ASSUME TypeOK, TypeOK', Inv, CheckPatch
  PROVE  Inv'
<1>1. UNCHANGED <<registry, git, dispatch, reported>> /\ collect.step = "check"
  BY DEF CheckPatch
<1>0. PICK l : l = collect.lane
  OBVIOUS
<1>2. /\ l \in Lane /\ collect.parent = l - 1
      /\ Latest(l)' = Latest(l)
      /\ \A p \in 1..(l - 1) : Latest(p)'.state = "integrated"
      /\ collect.reg.state \in {"terminal", "integrated"}
           => Latest(l) = collect.reg
      /\ collect.reg.state # "blocked"
  BY <1>0, <1>1, FrontierKept DEF Inv, CollectInv, Before
<1>3. ASSUME Owned, collect' = [collect EXCEPT !.step = "validate", !.commit = Tip]
      PROVE  CollectInv'
  <2>1. /\ collect'.step = "validate" /\ collect'.lane = collect.lane
        /\ collect'.parent = collect.parent /\ collect'.reg = collect.reg
        /\ collect'.head = collect.head /\ collect'.commit = Tip
    BY <1>3 DEF TypeOK, CollectOK, Collections
  <2>2. /\ Tip = collect.lane
        /\ branch[collect.lane] = [lane |-> collect.lane, version |-> collect.head]
    BY <1>1, <1>3, OwnedIsPlaced
  <2>3. branch' = branch /\ Len(branch) \in Nat
    BY <1>1 DEF git, TypeOK, GitOK
  <2>4. Placed(collect)'
    BY <2>1, <2>2, <2>3 DEF Placed, Tip
  <2> QED BY <1>0, <1>2, <2>1, <2>4 DEF CollectInv, Before
<1>4. CollectInv'
  BY <1>3, CheckOutcome, Stopped
<1> QED BY <1>1, <1>4, Quiet, InvCollectQuiet

LEMMA InvValidate ==
  ASSUME TypeOK, TypeOK', Inv, Validate
  PROVE  Inv'
<1>1. /\ UNCHANGED <<registry, dispatch, reported, branch>> /\ collect.step = "validate"
      /\ validated \subseteq validated'
  BY DEF Validate
<1>2. Grows
  BY <1>1, GrowsBy
<1>0. PICK l : l = collect.lane
  OBVIOUS
<1>3. /\ l \in Lane /\ collect.parent = l - 1
      /\ Latest(l)' = Latest(l)
      /\ \A p \in 1..(l - 1) : Latest(p)'.state = "integrated"
      /\ collect.reg.state \in {"terminal", "integrated"}
           => Latest(l) = collect.reg
      /\ collect.reg.state # "blocked" /\ Placed(collect)
  BY <1>0, <1>1, FrontierKept DEF Inv, CollectInv, Before
<1>4. ASSUME Collecting("settle"), validated' = validated \cup {Tip} PROVE CollectInv'
  <2>1. /\ collect'.step = "settle" /\ collect'.lane = collect.lane
        /\ collect'.parent = collect.parent /\ collect'.reg = collect.reg
        /\ collect'.head = collect.head /\ collect'.commit = collect.commit
    BY <1>4, CollectFields DEF CollectSteps
  <2>2. Placed(collect)'
    BY <1>1, <1>2, <1>3, <2>1, PlacedKept
  <2>3. \E v \in validated' : collect'.commit <= v /\ v <= Len(branch')
    <3>1. Tip \in validated' /\ Tip <= Len(branch') /\ collect'.commit <= Tip
      BY <1>1, <1>3, <1>4, <2>1 DEF Placed, Tip, TypeOK, GitOK
    <3> QED BY <3>1
  <2> QED BY <1>0, <1>3, <2>1, <2>2, <2>3 DEF CollectInv, Before
<1>5. CollectInv'
  BY <1>4, Stopped DEF Validate
<1> QED BY <1>1, <1>2, <1>5, InvCollectQuiet

LEMMA InvSettle ==
  ASSUME TypeOK, TypeOK', Inv, Settle
  PROVE  Inv'
<1>1. UNCHANGED <<registry, git, dispatch, reported>> /\ collect.step = "settle"
  BY DEF Settle
<1>0. PICK l : l = collect.lane
  OBVIOUS
<1>2. /\ l \in Lane /\ collect.parent = l - 1
      /\ Latest(l)' = Latest(l)
      /\ \A p \in 1..(l - 1) : Latest(p)'.state = "integrated"
      /\ collect.reg.state \in {"terminal", "integrated"}
           => Latest(l) = collect.reg
      /\ collect.reg.state # "blocked" /\ Placed(collect)
      /\ \E v \in validated : collect.commit <= v /\ v <= Len(branch)
  BY <1>0, <1>1, FrontierKept DEF Inv, CollectInv, Before
<1> DEFINE s == IF collect.reg.state = "integrated" THEN "report" ELSE "confirm"
           w == IF collect.reg.state = "running" THEN Terminal ELSE IntegratedRecord
<1>3. ASSUME SameAsRecorded, Tip = collect.commit,
             collect' = [collect EXCEPT !.step = s, !.write = w]
      PROVE  CollectInv'
  <2>0. /\ Terminal \in Record /\ Terminal.state = "terminal"
        /\ Terminal.head = collect.head
        /\ IntegratedRecord \in Record /\ IntegratedRecord.state = "integrated"
        /\ IntegratedRecord.head = collect.head
        /\ IntegratedRecord.commit = collect.commit
    BY <1>1, RecordTypes
  <2>1. collect.reg.state \in {"running", "terminal", "integrated"}
    BY <1>1, <1>2 DEF TypeOK, CollectShape, CollectShaped
  <2>2. w \in Record /\ s \in CollectSteps
    BY <2>0 DEF CollectSteps
  <2>3. /\ collect'.step = s /\ collect'.lane = collect.lane
        /\ collect'.parent = collect.parent /\ collect'.write = w
        /\ collect'.head = collect.head /\ collect'.commit = collect.commit
    BY <1>3, <2>2, CollectFields
  <2>4. Placed(collect)'
    BY <1>1, <1>2, <2>3, Quiet, PlacedKept
  <2>5. collect.commit \in validated'
    BY <1>1, <1>2, <1>3 DEF Tip, git, TypeOK, GitOK, CollectOK, Collections
  <2>6. CASE collect.reg.state = "running"
    BY <1>0, <1>2, <2>0, <2>3, <2>4, <2>5, <2>6 DEF CollectInv, Before
  <2>7. CASE collect.reg.state = "terminal"
    <3>1. Latest(l).state = "terminal" /\ Latest(l).head = collect.head
      BY <1>2, <1>3, <2>0, <2>7 DEF SameAsRecorded
    <3> QED BY <1>0, <1>2, <2>0, <2>3, <2>4, <2>5, <2>7, <3>1 DEF CollectInv, Before
  <2>8. CASE collect.reg.state = "integrated"
    BY <1>0, <1>2, <2>0, <2>3, <2>8 DEF CollectInv, Before
  <2> QED BY <2>1, <2>6, <2>7, <2>8
<1>4. CollectInv'
  BY <1>3, SettleOutcome, Stopped
<1> QED BY <1>1, <1>4, Quiet, InvCollectQuiet

\* The record that was to be written is there, or may be appended.
LEMMA InvWritten ==
  ASSUME TypeOK, TypeOK', Inv, UNCHANGED <<registry, git, dispatch, reported>>,
         collect.step \in {"confirm", "readback"},
         \/ collect' = Written /\ Latest(collect.lane) = collect.write
         \/ /\ Collecting("append") /\ collect.step = "confirm"
            /\ MayAppend(collect.lane, collect.write)
         \/ CollectStops
  PROVE  Inv'
<1>0. PICK l : l = collect.lane
  OBVIOUS
<1>1. /\ l \in Lane /\ collect.parent = l - 1
      /\ Latest(l)' = Latest(l)
      /\ \A p \in 1..(l - 1) : Latest(p)'.state = "integrated"
      /\ collect.write.state # "blocked" =>
           /\ Placed(collect) /\ collect.commit \in validated
           /\ collect.write.head = collect.head
      /\ collect.write.state = "integrated" => collect.write.commit = collect.commit
      /\ collect.step = "confirm" /\ collect.write.state = "integrated" =>
           Latest(l).state = "terminal" /\ Latest(l).head = collect.head
      /\ collect.write.state \in {"blocked", "terminal", "integrated"}
  BY <1>0, FrontierKept DEF Inv, CollectInv, TypeOK, CollectShape, CollectShaped
<1>2. validated' = validated /\ Grows
  BY Quiet DEF git
<1>3. CASE collect' = Written /\ Latest(collect.lane) = collect.write
  <2>1. CASE /\ collect.write.state = "terminal"
             /\ collect' = [collect EXCEPT !.step = "confirm",
                                           !.write = IntegratedRecord]
    <3>1. /\ IntegratedRecord \in Record /\ IntegratedRecord.state = "integrated"
          /\ IntegratedRecord.head = collect.head
          /\ IntegratedRecord.commit = collect.commit
      BY RecordTypes
    <3>2. /\ collect'.step = "confirm" /\ collect'.lane = collect.lane
          /\ collect'.parent = collect.parent /\ collect'.write = IntegratedRecord
          /\ collect'.head = collect.head /\ collect'.commit = collect.commit
      BY <2>1, <3>1, CollectFields DEF CollectSteps
    <3>3. Placed(collect)'
      BY <1>1, <1>2, <2>1, <3>2, PlacedKept
    <3>4. Latest(l).state = "terminal" /\ Latest(l).head = collect.head
      BY <1>0, <1>1, <1>3, <2>1
    <3>5. CollectInv'
      BY <1>0, <1>1, <1>2, <2>1, <3>1, <3>2, <3>3, <3>4 DEF CollectInv, Before
    <3> QED BY <1>2, <3>5, InvCollectQuiet
  <2>2. CASE collect.write.state # "terminal" /\ Collecting("report")
    <3>1. /\ collect'.step = "report" /\ collect'.lane = collect.lane
          /\ collect'.parent = collect.parent /\ collect'.write = collect.write
      BY <2>2, CollectFields DEF CollectSteps
    <3>2. CollectInv'
      BY <1>0, <1>1, <1>3, <2>2, <3>1 DEF CollectInv, Before
    <3> QED BY <1>2, <3>2, InvCollectQuiet
  <2> QED BY <1>3, <2>1, <2>2, WrittenOutcome
<1>4. CASE /\ Collecting("append") /\ collect.step = "confirm"
           /\ MayAppend(collect.lane, collect.write)
  <2>1. /\ collect'.step = "append" /\ collect'.lane = collect.lane
        /\ collect'.parent = collect.parent /\ collect'.write = collect.write
        /\ collect'.head = collect.head /\ collect'.commit = collect.commit
    BY <1>4, CollectFields DEF CollectSteps
  <2>2. collect.write.state # "blocked" => Placed(collect)'
    BY <1>1, <1>2, <2>1, PlacedKept
  <2>3. <<Latest(l)'.state, collect'.write.state>> \in Transitions
    BY <1>0, <1>1, <1>4, <2>1 DEF MayAppend
  <2>4. CollectInv'
    BY <1>0, <1>1, <1>2, <1>4, <2>1, <2>2, <2>3
       DEF CollectInv, Before, MayAppend, Transitions
  <2> QED BY <1>2, <2>4, InvCollectQuiet
<1>5. CASE CollectStops
  BY <1>2, <1>5, Stopped, InvCollectQuiet
<1> QED BY <1>3, <1>4, <1>5

LEMMA InvReportCollect ==
  ASSUME TypeOK, TypeOK', Inv, ReportCollect
  PROVE  Inv'
<1>1. /\ UNCHANGED <<registry, git, dispatch>> /\ CollectStops /\ collect.step = "report"
  BY DEF ReportCollect
<1>2. Grows
  BY <1>1, Quiet
<1>3. HistoryReadable' /\ LaneInv' /\ DispatchInv' /\ CollectInv'
  BY <1>1, <1>2, RegistryKept, DispatchKept, Stopped
<1>4. \/ reported' = reported
      \/ /\ collect.write.state # "blocked"
         /\ reported' = reported \cup {collect.lane}
  BY DEF ReportCollect
<1>5. collect.write.state # "blocked" => Latest(collect.lane).state = "integrated"
  BY <1>1 DEF Inv, CollectInv
<1>6. \A l \in reported' : l \in Lane
  BY DEF TypeOK, CountOK, Lane
<1>7. \A l \in reported' : Latest(l).state = "integrated"
  BY <1>4, <1>5 DEF Inv, ReportInv
<1>8. ReportInv'
  BY <1>1, <1>6, <1>7, LatestSame DEF ReportInv
<1> QED BY <1>3, <1>8 DEF Inv

LEMMA InvFailure == TypeOK /\ TypeOK' /\ Inv /\ (CallFails \/ Crash) => Inv'
<1> SUFFICES ASSUME TypeOK, TypeOK', Inv, CallFails \/ Crash PROVE Inv'
  OBVIOUS
<1>1. UNCHANGED <<registry, git, reported>>
  BY DEF CallFails, Crash
<1>2. \A l \in Lane : dispatch'[l].step = "append" => dispatch'[l] = dispatch[l]
  <2>1. CASE Crash
    BY <2>1 DEF Crash, NoDispatch
  <2>2. CASE UNCHANGED dispatch
    BY <2>2
  <2>3. ASSUME NEW k \in Lane, DispatchStops(k)
        PROVE  \A l \in Lane : dispatch'[l].step = "append" => dispatch'[l] = dispatch[l]
    BY <2>3, DispatchFields
  <2> QED BY <2>1, <2>2, <2>3 DEF CallFails
<1>3. CollectInv'
  <2>1. CollectStops \/ UNCHANGED collect
    BY DEF CallFails, Crash
  <2> QED BY <1>1, <2>1, Quiet, Stopped, CollectKept
<1> QED BY <1>1, <1>2, <1>3, Quiet, RegistryKept, ReportKept, DispatchKept DEF Inv
LEMMA InvStep == TypeOK /\ TypeOK' /\ Inv /\ [Next]_vars => Inv'
<1> SUFFICES ASSUME TypeOK, TypeOK', Inv, [Next]_vars PROVE Inv'
  OBVIOUS
<1>1. CASE UNCHANGED vars
  <2>1. UNCHANGED <<registry, git, reported, dispatch, collect>>
    BY <1>1 DEF vars
  <2> QED
    BY <2>1, Quiet, RegistryKept, ReportKept, DispatchKept, CollectKept DEF Inv
<1>2. ASSUME NEW l \in Lane, DispatchStep(l) PROVE Inv'
  <2>1. CASE AppendDispatch(l)
    BY <2>1, InvAppendDispatch
  <2>2. CASE ~AppendDispatch(l)
    BY <1>2, <2>2, DispatchQuietly, InvDispatchQuiet
  <2> QED BY <2>1, <2>2
<1>3. CASE CollectStep
  <2>1. CASE ConfirmCollect
    <3>1. /\ UNCHANGED <<registry, git, dispatch, reported>> /\ collect.step = "confirm"
          /\ \/ collect' = Written /\ Latest(collect.lane) = collect.write
             \/ Collecting("append") /\ MayAppend(collect.lane, collect.write)
             \/ CollectStops
      BY <2>1 DEF ConfirmCollect
    <3> QED BY <3>1, InvWritten
  <2>2. CASE ReadBackCollect
    <3>1. /\ UNCHANGED <<registry, git, dispatch, reported>> /\ collect.step = "readback"
          /\ \/ collect' = Written /\ Latest(collect.lane) = collect.write
             \/ CollectStops
      BY <2>2 DEF ReadBackCollect
    <3> QED BY <3>1, InvWritten
  <2> QED
    BY <1>3, <2>1, <2>2, InvCollectLane, InvReadEvidence, InvCherryPick, InvCheckPatch,
       InvValidate, InvSettle, InvAppendCollect, InvReportCollect DEF CollectStep
<1> QED
  BY <1>1, <1>2, <1>3, InvOutside, InvFailure DEF Next, Outside

LEMMA InvAlways == Spec => []Inv
<1>1. Spec => [](TypeOK /\ Inv)
  <2>1. Init => TypeOK /\ Inv
    BY TypeInit, InvInit
  <2>2. TypeOK /\ Inv /\ [Next]_vars => (TypeOK /\ Inv)'
    BY TypeStep, InvStep
  <2> QED BY <2>1, <2>2, PTL DEF Spec
<1> QED BY <1>1, PTL

\* A dispatch and a collection of one lane hold different leases and append what they
\* decided on an earlier read: whichever other calls, crashes and retries come between,
\* the ticket's history stays one that _latest_delivery_lane_registry reads.
THEOREM HistoryStaysReadable == Spec => []HistoryReadable
<1>1. Inv => HistoryReadable
  BY DEF Inv
<1> QED BY <1>1, InvAlways, PTL

\* A lane recorded as integrated sits at its own place of the branch, on exactly its
\* predecessors' commits, with the commit its record names, for any interference with
\* the branch and any crash between cherry-pick and record (collect_lane).
THEOREM LanesInOrder == Spec => []InOrderOnce
<1>1. Inv => InOrderOnce
  <2> SUFFICES ASSUME Inv, NEW l \in Lane, Latest(l).state = "integrated"
               PROVE  /\ Latest(l).commit = l
                      /\ \A i \in 1..l :
                           branch[i] = [lane |-> i, version |-> Latest(i).head]
    BY DEF InOrderOnce
  <2>1. Latest(l).commit = l /\ \A p \in 1..(l - 1) : Latest(p).state = "integrated"
    BY DEF Inv, LaneInv
  <2>2. \A i \in 1..l : i \in Lane /\ (i = l \/ i \in 1..(l - 1))
    BY DeliveryLanesAssumption DEF Lane
  <2>3. \A i \in 1..l : i \in Lane /\ Latest(i).state = "integrated"
    BY <2>1, <2>2
  <2>4. \A i \in 1..l : branch[i] = [lane |-> i, version |-> Latest(i).head]
    BY <2>3 DEF Inv, LaneInv
  <2> QED BY <2>1, <2>4
<1> QED BY <1>1, InvAlways, PTL

\* A reported lane, and every lane before it, is recorded as integrated and its commit
\* passed the validation on the branch (_collect_pm_delivery_lane, collect_lane).
THEOREM ReportedWasValidated == Spec => []ReportedIsValidated
<1>1. TypeOK /\ Inv => ReportedIsValidated
  <2> SUFFICES ASSUME TypeOK, Inv, NEW l \in reported, NEW i \in 1..l
               PROVE  Latest(i).state = "integrated" /\ Latest(i).commit \in validated
    BY DEF ReportedIsValidated
  <2>1. l \in Lane /\ Latest(l).state = "integrated"
    BY DEF TypeOK, CountOK, Inv, ReportInv
  <2>2. \A p \in 1..(l - 1) : Latest(p).state = "integrated"
    BY <2>1 DEF Inv, LaneInv
  <2>3. i \in Lane /\ (i = l \/ i \in 1..(l - 1))
    BY <2>1, DeliveryLanesAssumption DEF Lane
  <2>4. Latest(i).state = "integrated"
    BY <2>1, <2>2, <2>3
  <2> QED BY <2>3, <2>4 DEF Inv, LaneInv
<1> QED BY <1>1, TypeCorrect, InvAlways, PTL

-----------------------------------------------------------------------------
\* Delivery implements DeliveryPromise.
DeliveredLanes == {l \in Lane : Latest(l).state = "integrated"}

LEMMA PromiseInit == Init => Promise!Init
<1> SUFFICES ASSUME Init PROVE Promise!Init
  OBVIOUS
<1> USE DeliveryLanesAssumption
<1>1. PICK k \in 0..(N - 1) :
        /\ registry = [l \in Lane |-> IF l <= k THEN Delivered(l) ELSE << >>]
        /\ reported = 1..k
  BY DEF Init
<1>2. ASSUME NEW l \in Lane
      PROVE  Latest(l).state = IF l <= k THEN "integrated" ELSE "absent"
  <2>1. registry[l] = IF l <= k THEN Delivered(l) ELSE << >>
    BY <1>1
  <2>2. /\ Delivered(l) # << >> /\ Len(Delivered(l)) = 4
        /\ Delivered(l)[4].state = "integrated"
    BY DEF Delivered
  <2> QED BY <2>1, <2>2 DEF Latest, Absent
<1>3. {l \in Lane : Latest(l).state = "integrated"} = 1..k
  <2>1. \A l \in Lane : Latest(l).state = "integrated" <=> l <= k
    BY <1>2
  <2> QED BY <2>1 DEF Lane
<1> QED BY <1>1, <1>3 DEF Promise!Init

\* A step that neither appends an integrated record nor reports a lane changes nothing.
LEMMA PromiseStutter ==
  ASSUME UNCHANGED reported,
         \A l \in Lane : Latest(l)'.state = "integrated" <=> Latest(l).state = "integrated"
  PROVE  [Promise!Next]_<<DeliveredLanes, reported>>
<1>1. DeliveredLanes' = DeliveredLanes
  BY DEF DeliveredLanes, Lane
<1> QED BY <1>1

LEMMA PromiseRests ==
  ASSUME UNCHANGED <<registry, reported>>
  PROVE  [Promise!Next]_<<DeliveredLanes, reported>>
  BY LatestSame, PromiseStutter

LEMMA PromiseAppendDispatch ==
  ASSUME TypeOK, Inv, NEW l \in Lane, AppendDispatch(l)
  PROVE  [Promise!Next]_<<DeliveredLanes, reported>>
<1> DEFINE reg == dispatch[l].reg
<1>1. reg \in Recorded /\ reg.state \in {"created", "running"} /\ MayAppend(l, reg)
  BY AppendedIsRecorded
     DEF AppendDispatch, TypeOK, DispatchShape, DispatchShaped, Inv, DispatchInv
<1>2. Latest(l).state # "integrated" /\ reg.state # "integrated"
  BY <1>1 DEF MayAppend, Transitions
<1>3. AppendRecord(l, reg) /\ UNCHANGED reported
  BY DEF AppendDispatch
<1> HIDE DEF reg
<1>4. Latest(l)' = reg /\ \A k \in Lane \ {l} : Latest(k)' = Latest(k)
  BY <1>1, <1>3, LatestAppended
<1>5. \A k \in Lane : Latest(k)'.state = "integrated" <=> Latest(k).state = "integrated"
  BY <1>2, <1>4
<1> QED BY <1>3, <1>5, PromiseStutter

LEMMA PromiseAppendCollect ==
  ASSUME TypeOK, Inv, AppendCollect
  PROVE  [Promise!Next]_<<DeliveredLanes, reported>>
<1>0. PICK l \in Lane, w \in Recorded : l = collect.lane /\ w = collect.write
  BY AppendedIsRecorded DEF AppendCollect
<1>1. /\ l \in Lane /\ w \in Recorded /\ MayAppend(l, w)
      /\ AppendRecord(l, w) /\ UNCHANGED reported
      /\ \A p \in 1..(l - 1) : Latest(p).state = "integrated"
  BY <1>0 DEF AppendCollect, Inv, CollectInv
<1>2. Latest(l).state # "integrated"
  BY <1>1 DEF MayAppend, Transitions
<1>3. Latest(l)' = w /\ \A k \in Lane \ {l} : Latest(k)' = Latest(k)
  BY <1>1, LatestAppended
<1>4. CASE w.state # "integrated"
  <2>1. \A k \in Lane :
          Latest(k)'.state = "integrated" <=> Latest(k).state = "integrated"
    BY <1>2, <1>3, <1>4
  <2> QED BY <1>1, <2>1, PromiseStutter
<1>5. CASE w.state = "integrated"
  <2>1. Latest(l)'.state = "integrated"
    BY <1>3, <1>5
  <2>2. DeliveredLanes' = DeliveredLanes \cup {l}
    BY <1>1, <1>3, <2>1 DEF DeliveredLanes, Lane
  <2>3. l \notin DeliveredLanes
    BY <1>2 DEF DeliveredLanes
  <2>4. 1..(l - 1) \subseteq DeliveredLanes
    <3>1. \A p \in 1..(l - 1) : p \in Lane
      BY <1>1, DeliveryLanesAssumption DEF Lane
    <3> QED BY <1>1, <3>1 DEF DeliveredLanes
  <2>5. Promise!Deliver(l)
    BY <1>1, <2>2, <2>3, <2>4 DEF Promise!Deliver, DeliveredLanes
  <2> QED BY <1>1, <2>5 DEF Promise!Next, Lane
<1> QED BY <1>4, <1>5

LEMMA PromiseReport ==
  ASSUME TypeOK, Inv, ReportCollect
  PROVE  [Promise!Next]_<<DeliveredLanes, reported>>
<1>1. UNCHANGED registry /\ collect.step = "report"
  BY DEF ReportCollect
<1>2. CASE reported' = reported
  BY <1>1, <1>2, PromiseRests
<1>3. CASE reported' # reported
  <2>1. /\ collect.write.state # "blocked" /\ collect.lane \notin reported
        /\ reported' = reported \cup {collect.lane}
    BY <1>3 DEF ReportCollect
  <2>2. collect.lane \in Lane /\ Latest(collect.lane).state = "integrated"
    BY <1>1, <2>1 DEF TypeOK, CollectShape, CollectShaped, Inv, CollectInv
  <2>3. DeliveredLanes' = DeliveredLanes
    <3>1. \A l \in Lane : Latest(l)' = Latest(l)
      BY <1>1, LatestSame
    <3> QED BY <3>1 DEF DeliveredLanes, Lane
  <2>4. Promise!Report(collect.lane)
    BY <2>1, <2>2, <2>3 DEF Promise!Report, DeliveredLanes
  <2> QED BY <2>2, <2>4 DEF Promise!Next, Lane
<1> QED BY <1>2, <1>3

LEMMA PromiseStep ==
  TypeOK /\ Inv /\ [Next]_vars => [Promise!Next]_<<DeliveredLanes, reported>>
<1> SUFFICES ASSUME TypeOK, Inv, [Next]_vars
             PROVE  [Promise!Next]_<<DeliveredLanes, reported>>
  OBVIOUS
<1>1. CASE UNCHANGED vars
  BY <1>1, PromiseRests DEF vars
<1>2. ASSUME NEW l \in Lane, DispatchStep(l)
      PROVE  [Promise!Next]_<<DeliveredLanes, reported>>
  <2>1. CASE AppendDispatch(l)
    BY <2>1, PromiseAppendDispatch
  <2>2. CASE ~AppendDispatch(l)
    BY <1>2, <2>2, DispatchQuietly, PromiseRests
  <2> QED BY <2>1, <2>2
<1>3. CASE CollectStep
  <2>1. CASE AppendCollect
    BY <2>1, PromiseAppendCollect
  <2>2. CASE ReportCollect
    BY <2>2, PromiseReport
  <2>3. CASE ~AppendCollect /\ ~ReportCollect
    <3>1. UNCHANGED <<registry, reported>>
      BY <1>3, <2>3 DEF CollectStep, CollectLane, ReadEvidence, CherryPick, CheckPatch,
                        Validate, Settle, ConfirmCollect, ReadBackCollect
    <3> QED BY <3>1, PromiseRests
  <2> QED BY <2>1, <2>2, <2>3
<1>4. CASE Outside
  <2>1. UNCHANGED <<registry, reported>>
    BY <1>4 DEF Outside, WorkerStep, BeginTurn, ReportOther, EndTurn, WorkerCommits,
                WorkerExits, Amend, WorkerReports, ForeignCommit, AbortPick
  <2> QED BY <2>1, PromiseRests
<1>5. CASE CallFails \/ Crash
  <2>1. UNCHANGED <<registry, reported>>
    BY <1>5 DEF CallFails, Crash
  <2> QED BY <2>1, PromiseRests
<1> QED BY <1>1, <1>2, <1>3, <1>4, <1>5 DEF Next, Outside

\* Delivery implements its promise: the lanes are delivered one after another in their
\* declared order, never undone, and each is reported at most once and only then
\* (dispatch_pm_delivery_lane and collect_pm_delivery_lane).
THEOREM LanesKeepPromise == Spec => PromiseKept
<1>1. Init => Promise!Init
  BY PromiseInit
<1>2. TypeOK /\ Inv /\ [Next]_vars
        => [Promise!Next]_<<{l \in Lane : Latest(l).state = "integrated"}, reported>>
  BY PromiseStep DEF DeliveredLanes
<1> QED BY <1>1, <1>2, TypeCorrect, InvAlways, PTL DEF Spec, PromiseKept, Promise!Spec
=============================================================================
