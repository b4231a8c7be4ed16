---------------------------- MODULE BoardStream -----------------------------
(***************************************************************************)
(* One Maps page following the board: the snapshot of board_snapshot, the  *)
(* WebSocket of dashboard/plugin_api.py that reads the journal from a      *)
(* cursor, and the page of dashboard/dist/index.js that loads, applies     *)
(* events with its reducer, reconnects from its cursor and reloads when    *)
(* the cursor is no longer retained.                                       *)
(*                                                                         *)
(* Left out: the detail panel (a second reducer over the same events), the *)
(* events the page applies from the answers to its own requests (ahead of  *)
(* the stream, without moving the cursor), the reconnect delays, and the   *)
(* disposal of the page.                                                   *)
(***************************************************************************)
EXTENDS BoardJournal

CONSTANTS BatchSize,                          \* BoardEventSettings.batch_size
          MaxWire,                            \* frames the connection buffers
          MaxDrops, MaxFailures, MaxRefreshes \* bounds of the model

\* __post_init__ requires a positive batch_size.
ASSUME StreamAssumption ==
  /\ BatchSize \in Nat \ {0} /\ MaxWire \in Nat \ {0}
  /\ MaxDrops \in Nat /\ MaxFailures \in Nat /\ MaxRefreshes \in Nat

VARIABLES
  page,      \* state.status
  board,     \* state.board: content, and the decision summary's count and latest
  cursor,    \* control.cursor
  request,   \* board requests in flight, by who sent them
  socket,    \* "none" before the first connection, then "open" or "closed"
  position,  \* the cursor of stream_events
  wire,      \* frames sent and not yet received
  overtaken, \* history: the board shown is older than the cursor it was loaded under
  drops, failures, refreshes

pageVars == <<page, board, cursor, request, overtaken>>
streamVars == <<socket, position, wire>>
boundVars == <<drops, failures, refreshes>>
vars == <<journalVars, pageVars, streamVars, boundVars>>

\* The load that (re)opens the stream, and the one behind Refresh and Retry.
Loads == {"stream", "manual"}
Stages == {"idle", "asked", "cursor", "answered"}

Blank == [content |-> [r \in Resources |-> Initial], count |-> 0, newest |-> 0]

NoRequest == [stage |-> "idle", cursor |-> 0, board |-> Blank]

Init ==
  /\ JournalInit
  /\ page = "loading"
  /\ board = Blank
  /\ cursor = 0
  /\ request = [l \in Loads |-> IF l = "stream" THEN [NoRequest EXCEPT !.stage = "asked"]
                                ELSE NoRequest]
  /\ socket = "none"
  /\ position = 0
  /\ wire = << >>
  /\ overtaken = FALSE
  /\ drops = 0 /\ failures = 0 /\ refreshes = 0

Commit ==
  /\ JournalNext
  /\ UNCHANGED <<pageVars, streamVars, boundVars>>

-----------------------------------------------------------------------------
(* board_snapshot: the cursor first, then the board, in separate reads. *)

ReadCursor(l) ==
  /\ request[l].stage = "asked"
  /\ request' = [request EXCEPT ![l].stage = "cursor", ![l].cursor = latest]
  /\ UNCHANGED <<journalVars, page, board, cursor, overtaken, streamVars, boundVars>>

\* Mutant: the cursor names the next event instead of the last one.
SnapshotCursor_Next(l) == request[l].cursor + 1

SnapshotCursor(l) == request[l].cursor

\* board: the rows, then each summary; they are of different projections, so one
\* step stands for these reads.
ReadBoard(l) ==
  /\ request[l].stage = "cursor"
  /\ request' = [request EXCEPT ![l] =
       [stage |-> "answered", cursor |-> SnapshotCursor(l),
        board |-> [content |-> content, count |-> decided, newest |-> decided]]]
  /\ UNCHANGED <<journalVars, page, board, cursor, overtaken, streamVars, boundVars>>

-----------------------------------------------------------------------------
(* The page. *)

Connect(from) ==
  /\ socket' = "open"
  /\ position' = from
  /\ wire' = << >>

Disconnect ==
  /\ socket' = "closed"
  /\ position' = 0
  /\ wire' = << >>

\* Mutant: a full reload keeps the expired cursor.
NewCursor_Kept(l) == cursor

NewCursor(l) == request[l].cursor

\* load resolves: the page shows the snapshot.  Behind the stream it also sets the
\* cursor and opens the socket; behind Refresh or Retry it does neither.
Loaded(l) ==
  /\ request[l].stage = "answered"
  /\ page' = "ready"
  /\ board' = request[l].board
  /\ request' = [request EXCEPT ![l] = NoRequest]
  /\ \/ /\ l = "stream"
        /\ cursor' = NewCursor(l)
        /\ overtaken' = FALSE
        /\ Connect(NewCursor(l))
     \/ /\ l = "manual"
        /\ overtaken' = (request[l].cursor < cursor)
        /\ UNCHANGED <<cursor, streamVars>>
  /\ UNCHANGED <<journalVars, boundVars>>

\* load rejects; what the request had read makes no difference.  A failed first load
\* leaves the page without a stream for good.
LoadFails(l) ==
  /\ request[l].stage = "asked"
  /\ failures < MaxFailures
  /\ failures' = failures + 1
  /\ page' = "error"
  /\ board' = Blank
  /\ request' = [request EXCEPT ![l] = NoRequest]
  /\ UNCHANGED <<journalVars, cursor, overtaken, streamVars, drops, refreshes>>

\* The Refresh button of the board, or Retry of the error card.
Refresh ==
  /\ page \in {"ready", "error"}
  /\ request["manual"].stage = "idle"
  /\ refreshes < MaxRefreshes
  /\ refreshes' = refreshes + 1
  /\ page' = "loading"
  /\ board' = Blank
  /\ request' = [request EXCEPT !["manual"].stage = "asked"]
  /\ UNCHANGED <<journalVars, cursor, overtaken, streamVars, drops, failures>>

\* Mutant: the page reconnects from the newest cursor it was told of.
ResumeCursor_Latest(c) == latest

\* The reconnect timer opens the socket from control.cursor.
ResumeCursor(c) == c

Reconnect ==
  /\ socket = "closed"
  /\ request["stream"].stage = "idle"
  /\ Connect(ResumeCursor(cursor))
  /\ UNCHANGED <<journalVars, pageVars, boundVars>>

\* reduceBoardEvent
Reduced(b, event) ==
  CASE event.kind = "absolute" ->
         [b EXCEPT !.content[event.resource] = event.content]
    [] event.kind = "decision" ->
         [b EXCEPT !.count = @ + (IF b.newest = event.decision THEN 0 ELSE 1),
                   !.newest = event.decision]
    [] event.kind = "all" ->
         [b EXCEPT !.count = event.decisions, !.newest = event.decisions]

\* (frame.events || []).forEach(applyEvent); an unready page applies nothing.
ApplyAll(b, events) ==
  LET after[i \in 0..Len(events)] ==
        IF i = 0 THEN b ELSE Reduced(after[i - 1], events[i])
  IN  IF page = "ready" THEN after[Len(events)] ELSE b

ReceiveEvents ==
  /\ socket = "open"
  /\ wire # << >>
  /\ Head(wire).status = "open"
  /\ board' = ApplyAll(board, Head(wire).events)
  /\ cursor' = Head(wire).cursor
  /\ wire' = Tail(wire)
  /\ UNCHANGED <<journalVars, page, request, overtaken, socket, position, boundVars>>

\* refreshExpired: close the socket and load again.
ReceiveExpired ==
  /\ socket = "open"
  /\ wire # << >>
  /\ Head(wire).status = "refresh_required"
  /\ Disconnect
  /\ page' = "loading"
  /\ board' = Blank
  /\ request' = [request EXCEPT !["stream"].stage = "asked"]
  /\ UNCHANGED <<journalVars, cursor, overtaken, boundVars>>

\* The connection breaks, or the server gives up on a slow consumer.
Drop ==
  /\ socket = "open"
  /\ drops < MaxDrops
  /\ drops' = drops + 1
  /\ Disconnect
  /\ UNCHANGED <<journalVars, pageVars, failures, refreshes>>

-----------------------------------------------------------------------------
(* stream_events, one read of the journal at a time. *)

SendEvents ==
  LET batch == Batch(position, BatchSize)
  IN  /\ socket = "open"
      /\ Len(wire) < MaxWire
      /\ position >= LogicalFloor
      /\ batch # << >>
      /\ position' = batch[Len(batch)].cursor
      /\ wire' = Append(wire, [status |-> "open", cursor |-> batch[Len(batch)].cursor,
                               events |-> [i \in DOMAIN batch |-> batch[i].event]])
      /\ UNCHANGED <<journalVars, pageVars, socket, boundVars>>

\* The server closes the connection after this frame.
SendExpired ==
  /\ socket = "open"
  /\ Len(wire) < MaxWire
  /\ \A i \in DOMAIN wire : wire[i].status # "refresh_required"
  /\ position < LogicalFloor
  /\ wire' = Append(wire, [status |-> "refresh_required", cursor |-> position,
                           events |-> << >>])
  /\ UNCHANGED <<journalVars, pageVars, socket, position, boundVars>>

Stream == SendEvents \/ SendExpired \/ ReceiveEvents \/ ReceiveExpired \/ Reconnect

Answer(l) == ReadCursor(l) \/ ReadBoard(l) \/ Loaded(l)

Next ==
  \/ Commit
  \/ \E l \in Loads : Answer(l) \/ LoadFails(l)
  \/ Refresh \/ Drop \/ Stream

Spec == Init /\ [][Next]_vars

\* Requests are answered, the stream keeps polling and the reconnect timer fires.
FairSpec == Spec /\ WF_vars(Stream) /\ \A l \in Loads : WF_vars(Answer(l))

-----------------------------------------------------------------------------
TypeOK ==
  /\ JournalTypeOK
  /\ page \in {"loading", "ready", "error"}
  /\ board \in [content : [Resources -> Contents], count : Nat, newest : Nat]
  /\ cursor \in 0..latest
  /\ request \in [Loads -> [stage : Stages, cursor : 0..latest,
                            board : [content : [Resources -> Contents],
                                     count : Nat, newest : Nat]]]
  /\ socket \in {"none", "open", "closed"}
  /\ position \in 0..latest
  /\ Len(wire) <= MaxWire
  /\ overtaken \in BOOLEAN
  /\ drops \in 0..MaxDrops /\ failures \in 0..MaxFailures /\ refreshes \in 0..MaxRefreshes

\* The page has caught up: nothing is loading, nothing is on its way.
CaughtUp ==
  /\ page = "ready"
  /\ \A l \in Loads : request[l].stage = "idle"
  /\ socket = "open" /\ wire = << >>
  /\ cursor = latest

\* No committed change is lost between the snapshot, the stream, reconnects, pruned
\* history and full reloads: a page that has caught up shows every absolute resource
\* as committed and no decision less, unless a reload by hand put an older board
\* under its cursor (board_snapshot, stream_events, refreshExpired).
NothingMissed ==
  CaughtUp /\ ~overtaken =>
    /\ board.content = content
    /\ board.count >= decided

\* The page is the committed projection with every later event applied, however it
\* was loaded (README.md, the paragraph on the Maps page).
PageIsCurrent ==
  CaughtUp => board.content = content

\* Once changes stop, the page catches up for good over drops, expired cursors and
\* failed reloads, unless its very first load failed.
CatchesUp == <>[](cursor = latest \/ socket = "none")
=============================================================================
