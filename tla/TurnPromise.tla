----------------------------- MODULE TurnPromise -----------------------------
(***************************************************************************)
(* What the turns of a Map's PM promise to those who watch from outside:   *)
(* the agent and its transcript, the Issue, and the CEO.  A session gets   *)
(* the prompt of a turn once; what the Issue shows of a turn comes from an *)
(* agent that was prompted for it, once per turn; a question reaches the   *)
(* CEO once; it is answered once; the PM resumes with that answer; and the *)
(* Map's stage follows them, or the orders of an operator.  No effects,    *)
(* receipts, leases, calls or retries.                                     *)
(***************************************************************************)
EXTENDS Naturals

CONSTANTS Plain, Reports, Orders, Ready, None, Sessions

VARIABLES
  prompts,    \* how often each session has been prompted for a turn
  told,       \* the turn and kind of every report on the Issue
  woken,      \* questions the CEO has been given a turn for
  answered,   \* the answer to each question on the Issue
  withdrawn,  \* questions whose grant has ended
  ordered,    \* transitions an operator has ordered
  stage       \* the Map's stage on the Issue

Outcomes == {"continue", "blocked"}
AllReports == Reports \cup {Ready}
Turns == Plain \cup {Ready} \cup (Reports \X Outcomes)
Nothing == [turn |-> None, kind |-> "none"]

\* A new Map, or one whose commissioning turn is over.
Init ==
  \E over \in BOOLEAN :
    /\ prompts = [t \in Turns |->
                    [s \in Sessions |-> IF over /\ t = Ready /\ s = 1 THEN 1 ELSE 0]]
    /\ told = [r \in AllReports |-> IF over /\ r = Ready
                                    THEN [turn |-> Ready, kind |-> "checkpoint"]
                                    ELSE Nothing]
    /\ woken = {} /\ withdrawn = {} /\ ordered = {}
    /\ answered = [q \in Reports |-> "none"]
    /\ stage = IF over THEN "delivery" ELSE "authorized"

\* A turn that resumes the PM carries an answer the Issue shows, or the end of it.
Granted(t) ==
  \A q \in Reports, o \in Outcomes : t = <<q, o>> =>
    \/ o = answered[q]
    \/ o = "blocked" /\ q \in withdrawn

Prompt(t, s) ==
  /\ prompts[t][s] = 0
  /\ prompts' = [prompts EXCEPT ![t][s] = 1]
  /\ Granted(t)
  /\ UNCHANGED <<told, woken, answered, withdrawn, ordered, stage>>

\* Nobody reports in a turn the coordinator or an answer asked for before its prompt.
Report(r) ==
  /\ told[r] = Nothing
  /\ \E t \in Turns :
       /\ told'[r].turn = t
       /\ t # Ready => \E s \in Sessions : prompts[t][s] = 1
       /\ \A other \in AllReports : told[other].turn # t
       /\ \E kind \in {"checkpoint", "question", "blocking", "blocker", "acceptance"} :
            told' = [told EXCEPT ![r] = [turn |-> t, kind |-> kind]]
  /\ UNCHANGED <<prompts, woken, answered, withdrawn, ordered, stage>>

Asked(q) == told[q].kind \in {"question", "blocking"}

Wake(q) ==
  /\ Asked(q) /\ q \notin woken
  /\ woken' = woken \cup {q}
  /\ UNCHANGED <<prompts, told, answered, withdrawn, ordered, stage>>

Answer(q, outcome) ==
  /\ Asked(q) /\ answered[q] = "none"
  /\ answered' = [answered EXCEPT ![q] = outcome]
  /\ UNCHANGED <<prompts, told, woken, withdrawn, ordered, stage>>

Withdraw(q) ==
  /\ answered[q] = "continue" /\ q \notin withdrawn
  /\ withdrawn' = withdrawn \cup {q}
  /\ UNCHANGED <<prompts, told, woken, answered, ordered, stage>>

Order(m) ==
  /\ ordered' = ordered \cup {m}
  /\ UNCHANGED <<prompts, told, woken, answered, withdrawn, stage>>

\* Delivery begins with the ready report, stops at a blocking question, at a blocker or
\* for acceptance, and goes on from a question once its answer said so.  A blocker has
\* no answer: an operator's order leads on from it, or an answer acknowledged again.
Move(from, to) ==
  /\ stage = from
  /\ stage' = to
  /\ UNCHANGED <<prompts, told, woken, answered, withdrawn, ordered>>

MoveOn ==
  \/ Move("authorized", "delivery") /\ told[Ready] # Nothing
  \/ \E r \in Reports :
       \/ Move("delivery", "decision") /\ told[r].kind \in {"blocking", "blocker"}
       \/ Move("delivery", "acceptance") /\ told[r].kind = "acceptance"
       \/ Move("decision", "delivery") /\ told[r].kind = "blocking" /\ answered[r] = "continue"
  \/ \E m \in ordered : Move(m[1], m[2])

Next ==
  \/ \E t \in Turns, s \in Sessions : Prompt(t, s)
  \/ \E r \in AllReports : Report(r)
  \/ \E q \in Reports : \/ Wake(q) \/ Withdraw(q)
                        \/ \E outcome \in Outcomes : Answer(q, outcome)
  \/ \E m \in Orders : Order(m)
  \/ MoveOn

Spec == Init /\ [][Next]_<<prompts, told, woken, answered, withdrawn, ordered, stage>>
=============================================================================
