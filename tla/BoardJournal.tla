---------------------------- MODULE BoardJournal ----------------------------
(***************************************************************************)
(* The board-event journal of plugin/map_governance/events.py and the      *)
(* state writers of storage.py that append to it.  A writer changes its    *)
(* projection and appends the event in one SQLite transaction; an append   *)
(* is deduplicated by event id and by the resource's head, gets the next   *)
(* AUTOINCREMENT cursor, and prunes history by count and by age.           *)
(*                                                                         *)
(* Two kinds of projection stand for all of them: resources whose events   *)
(* carry the whole content (session.updated), and the decisions of a Map,  *)
(* whose events carry one decision each (decision.upserted) or all of them *)
(* (reconcile.completed).                                                  *)
(***************************************************************************)
EXTENDS Integers, Sequences, FiniteSets, FiniteSetsExt

CONSTANTS Resources,    \* resource keys of absolute projections
          Contents,     \* what their payload can be
          Initial,      \* their content before the first event
          MaxEvents,    \* BoardEventSettings.max_events
          MaxCommits    \* bound of the model

\* BoardEventSettings.__post_init__ requires a positive max_events.
ASSUME JournalAssumption ==
  /\ MaxEvents \in Nat \ {0} /\ MaxCommits \in Nat
  /\ Initial \in Contents

VARIABLES
  content,     \* the committed content of every absolute resource
  decided,     \* number of decisions; decision n is the n-th by decided_at
  rows,        \* table board_events
  latest,      \* board_event_meta.latest_cursor
  retained,    \* board_event_meta.retained_after_cursor
  heads,       \* table board_event_resource_heads
  identities,  \* table board_event_identities
  commits      \* bound: number of state changes so far

journalVars == <<content, decided, rows, latest, retained, heads, identities, commits>>

Kinds == {"absolute", "decision", "all"}

JournalInit ==
  /\ content = [r \in Resources |-> Initial]
  /\ decided = 0
  /\ rows = {}
  /\ latest = 0
  /\ retained = 0
  /\ heads = [r \in Resources |-> Initial]
  /\ identities = {}
  /\ commits = 0

Greatest(S, least) == Max(S \cup {least})

\* Mutant: a pruned prefix is deleted but not remembered.
RaisedFloor_Forgotten(gone) == retained

\* retained_after_cursor after deleting the rows up to the last expired one.
RaisedFloor(gone) == Greatest(gone, retained)

\* INSERT INTO board_events of each entry in turn, each with the prune of
\* _prune_configured_events; no row of the same transaction is old yet.
Insert(entries) ==
  LET last == latest + Len(entries)
      added == {[cursor |-> latest + i, old |-> FALSE, event |-> entries[i]] :
                  i \in 1..Len(entries)}
      gone == {row.cursor : row \in {x \in rows \cup added :
                                       x.old \/ x.cursor <= last - MaxEvents}}
      floor == Greatest(gone, 0)
  IN  /\ rows' = {row \in rows \cup added : row.cursor > floor}
      /\ latest' = last
      /\ retained' = RaisedFloor(gone)

\* content_event_id: resource, content and occurrence (or the payload's time).
EventId(r, c) == <<r, c, commits + 1>>

\* append_board_event: a known identity or the head's own content adds nothing.
IsNews(r, c) == EventId(r, c) \notin identities /\ heads[r] # c

\* A writer of an absolute projection: save_ceo_session_ready and its like.
Save(r, c) ==
  /\ commits < MaxCommits
  /\ commits' = commits + 1
  /\ content' = [content EXCEPT ![r] = c]
  /\ identities' = identities \cup {EventId(r, c)}
  /\ \/ /\ IsNews(r, c)
        /\ heads' = [heads EXCEPT ![r] = c]
        /\ Insert(<<[kind |-> "absolute", resource |-> r, content |-> c]>>)
     \/ /\ ~IsNews(r, c)
        /\ UNCHANGED <<rows, latest, retained, heads>>
  /\ UNCHANGED decided

DecisionEvent(n) == [kind |-> "decision", decision |-> n]

\* save_decision_projection of decision n, the next one or (a completion that runs
\* again, with a new confirmed_at) one already there.
SaveDecision(n) ==
  /\ commits < MaxCommits
  /\ commits' = commits + 1
  /\ n \in 1..(decided + 1)
  /\ decided' = Greatest({n}, decided)
  /\ Insert(<<DecisionEvent(n)>>)
  /\ UNCHANGED <<content, heads, identities>>

\* replace_decision_projections: binding a bound Map again rebuilds its decisions,
\* each with a new confirmed_at.
ReplaceDecisions ==
  /\ commits < MaxCommits
  /\ commits' = commits + 1
  /\ decided > 0
  /\ Insert([n \in 1..decided |-> DecisionEvent(n)])
  /\ UNCHANGED <<content, decided, heads, identities>>

\* apply_project_reconcile: one event with the whole history of the tracker, which
\* may hold a decision that was not known here.
Reconcile ==
  /\ commits < MaxCommits
  /\ commits' = commits + 1
  /\ decided' \in {decided, decided + 1}
  /\ Insert(<<[kind |-> "all", decisions |-> decided']>>)
  /\ UNCHANGED <<content, heads, identities>>

\* A row's committed_at passes retention_seconds; rows need not age in cursor order,
\* since a writer reads the clock before its transaction.
Age ==
  /\ \E row \in rows :
       /\ ~row.old
       /\ rows' = (rows \ {row}) \cup {[row EXCEPT !.old = TRUE]}
  /\ UNCHANGED <<content, decided, latest, retained, heads, identities, commits>>

JournalNext ==
  \/ \E r \in Resources, c \in Contents : Save(r, c)
  \/ \E n \in 1..(decided + 1) : SaveDecision(n)
  \/ ReplaceDecisions
  \/ Reconcile
  \/ Age

-----------------------------------------------------------------------------
(* BoardEventJournal.read *)

\* _logical_retention_floor joined with the physical one.
LogicalFloor ==
  Greatest({latest - MaxEvents} \cup {row.cursor : row \in {x \in rows : x.old}}, retained)

\* SELECT ... WHERE cursor > ? ORDER BY cursor LIMIT ?
Batch(cursor, limit) ==
  LET later == {row \in rows : row.cursor > cursor}
      Rank(row) == Cardinality({x \in later : x.cursor <= row.cursor})
      size == Min({limit, Cardinality(later)})
  IN  [i \in 1..size |-> CHOOSE row \in later : Rank(row) = i]

\* A reader that is not told to refresh misses nothing: whatever is pruned by count or
\* by age, in or out of cursor order, every event after its cursor is still there
\* (_prune_configured_events, _logical_retention_floor).
ReadsAreGapless ==
  \A cursor \in LogicalFloor..latest :
    {row.cursor : row \in {x \in rows : x.cursor > cursor}} = (cursor + 1)..latest

JournalTypeOK ==
  /\ content \in [Resources -> Contents]
  /\ decided \in Nat
  /\ \A row \in rows : row.cursor \in 1..latest /\ row.old \in BOOLEAN
                       /\ row.event.kind \in Kinds
  /\ latest \in Nat
  /\ retained \in 0..latest
  /\ heads \in [Resources -> Contents]
  /\ identities \subseteq Resources \X Contents \X Nat
  /\ commits \in 0..MaxCommits
=============================================================================
