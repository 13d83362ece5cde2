----------------------------- MODULE Transcript -----------------------------
(***************************************************************************)
(* The transcript the terminal UI shows while a turn runs                  *)
(* (src/internal/ui/app_bus_events.go, app_messages.go, app_subagents.go,  *)
(* app_send.go), and the one it builds from the store when a session is    *)
(* opened (app_hydration.go, app_subagent_hydration.go, app_sessions.go).  *)
(*                                                                         *)
(* The live one grows by events: deltas open and extend a bubble, the      *)
(* message's event finalises it, calls get rows, a sub-agent gets a        *)
(* transcript of its own that hangs on its call's row.  A goroutine per    *)
(* event type forwards, so events of different types overtake each other.  *)
(* Rows keep what the properties tell apart: a bubble shows the messages   *)
(* its text is of, in order.  The foreground stack is its top; whether the *)
(* UI is busy is UiTurns'.                                                 *)
(***************************************************************************)
EXTENDS SubagentRuns

CONSTANT MaxOpens  \* bound: times the session is opened again

ASSUME OpensAssumption == MaxOpens \in Nat

VARIABLES
  rows,        \* App.messages
  flushIdx,    \* App.lastAssistantFlushIdx (0 for -1)
  optimistic,  \* App.optimisticUserPending
  tracked,     \* the sub-agents in App.subagents
  subRows,     \* SubagentState.Messages
  ended,       \* those with EndedAt
  opens,       \* times the session was opened again
  clean        \* history: a message was announced before its calls, events
               \* were handled in order, no turn of the session failed, and
               \* it was opened only while nothing happened in it

subVars == <<tracked, subRows, ended>>
uiVars == <<rows, flushIdx, optimistic, subVars, opens>>
vars == <<runVars, uiVars, clean>>

Row == [kind |-> "user", id |-> None, shows |-> <<>>, streaming |-> FALSE,
        placeholder |-> FALSE, name |-> None, call |-> None, sub |-> None,
        result |-> None]
UserRow(id) == [Row EXCEPT !.id = id]
Bubble(id, shows) == [Row EXCEPT !.kind = "assistant", !.id = id, !.shows = shows]
ToolName(c) == IF SubOf[c] # None THEN "subagent" ELSE "tool"
ToolRow(c) == [Row EXCEPT !.kind = "tool", !.name = ToolName(c), !.call = c]
Streaming(row) == [row EXCEPT !.streaming = TRUE]

Init ==
  /\ InitRuns
  /\ rows = [i \in DOMAIN stored[Root] |-> UserRow(<<Root, i>>)]
  /\ flushIdx = 0 /\ optimistic = FALSE
  /\ tracked = {} /\ subRows = [s \in Subs |-> <<>>] /\ ended = {}
  /\ opens = 0 /\ clean = TRUE

(* The index of the last row a test holds of, or 0.                        *)
LastRow(rs, Test(_)) ==
  SelectLastInSeq(rs, Test)

LastIs(rs, Test(_)) == rs # <<>> /\ Test(Last(rs))
IsAssistant(row) == row.kind = "assistant"
IsStreamingBubble(row) == row.kind = "assistant" /\ row.streaming

-----------------------------------------------------------------------------
(* The store as rows.                                                      *)

Message(id) == stored[id[1]][id[2]]
Text(id) == [i \in 1 .. Message(id).text |-> id]

(* uiEntriesFromStoreMessage, with the results inlined (buildToolResult-   *)
(* Index) and the sub-agents hung on their calls (reconstructSubagent-     *)
(* State).                                                                 *)
HydratedCall(c) ==
  [ToolRow(c) EXCEPT !.sub = IF c \in Created THEN SubOf[c] ELSE None,
                     !.result = IF at[c] = "done" THEN c ELSE None]
Entries(id) ==
  CASE Message(id).role = "user" -> <<UserRow(id)>>
    [] OTHER -> (IF Message(id).text > 0 THEN <<Bubble(id, Text(id))>> ELSE <<>>)
                  \o [i \in 1 .. Cardinality(Message(id).calls) |->
                        HydratedCall(SetToSeq(Message(id).calls)[i])]

(* hydrateSessionMessages.                                                 *)
Hydrated(s) == FlattenSeq([i \in DOMAIN stored[s] |-> Entries(<<s, i>>)])

-----------------------------------------------------------------------------
(* Bubbles.                                                                *)

(* appendAssistantDelta on the trailing bubble that streams, on the one    *)
(* just flushed, or on a new one.                                          *)
Extended(row, id) ==
  [row EXCEPT !.shows = Append(IF row.placeholder THEN <<>> ELSE @, id),
              !.streaming = TRUE, !.placeholder = FALSE]

AppendAssistantDelta(id) ==
  IF \/ LastIs(rows, IsStreamingBubble)
     \/ flushIdx = Len(rows) /\ LastIs(rows, IsAssistant)
  THEN /\ rows' = [rows EXCEPT ![Len(rows)] = Extended(@, id)]
       /\ UNCHANGED flushIdx
  ELSE /\ rows' = Append(rows, Streaming(Bubble(None, <<id>>)))
       /\ flushIdx' = 0

(* The bubble a message is about: one that streams, or the last row.       *)
CurrentBubble ==
  IF LastRow(rows, IsStreamingBubble) # 0 THEN LastRow(rows, IsStreamingBubble)
  ELSE IF LastIs(rows, IsAssistant) THEN Len(rows) ELSE 0

(* insertPersistedAssistantMessage: before the trailing tool rows.         *)
Inserted(rs, row) ==
  InsertAt(rs, 1 + LastRow(rs, LAMBDA r : r.kind # "tool"), row)
IndexOfFinal(rs) == IF LastIs(rs, IsAssistant) THEN Len(rs) ELSE 0

(* Mutant: a message already there is flushed again.                       *)
FlushedBefore(id) == FALSE

(* flushAssistantStream's guard.                                           *)
Flushed(id) ==
  \E i \in DOMAIN rows : rows[i].id = id /\ IsAssistant(rows[i])
                                         /\ ~rows[i].streaming

(* flushAssistantStream: the bubble gets the message's id and, when it has *)
(* text, what is stored.                                                   *)
FlushAssistantStream(id) ==
  LET has == Message(id).text > 0
      new == Bubble(id, Text(id))
      i == CurrentBubble
      insert(rs) == IF has THEN Inserted(rs, new) ELSE rs
  IN CASE Flushed(id) -> UNCHANGED <<rows, flushIdx>>
       [] ~Flushed(id) /\ i = 0 ->
            /\ rows' = insert(rows)
            /\ flushIdx' = IF has THEN IndexOfFinal(rows') ELSE flushIdx
       [] ~Flushed(id) /\ i # 0 /\ rows[i].placeholder /\ ~has ->
            rows' = RemoveAt(rows, i) /\ flushIdx' = 0
       [] OTHER ->
            /\ rows' = [rows EXCEPT ![i] =
                          IF has THEN new
                          ELSE [@ EXCEPT !.id = id, !.streaming = FALSE,
                                         !.placeholder = FALSE]]
            /\ flushIdx' = i

(* appendPersistedUserMessage: in place, or over the optimistic row.       *)
ShowUserMessage(id) ==
  LET there == {i \in DOMAIN rows : rows[i].id = id /\ rows[i].kind = "user"}
      isUser(row) == row.kind = "user"
  IN /\ rows' = IF there # {}
                THEN [i \in DOMAIN rows |-> IF i = CHOOSE j \in there :
                                                     \A k \in there : j <= k
                                            THEN UserRow(id) ELSE rows[i]]
                ELSE IF optimistic /\ LastIs(rows, isUser)
                THEN [rows EXCEPT ![Len(rows)] = UserRow(id)]
                ELSE Append(rows, UserRow(id))
     /\ optimistic' = FALSE /\ flushIdx' = 0

(* dropContinuingPlaceholder.                                              *)
WithoutPlaceholder ==
  IF rows # <<>> /\ Last(rows).placeholder THEN Front(rows) ELSE rows

-----------------------------------------------------------------------------
(* Rows of calls.                                                          *)

(* updateLastTool and finishSubagentTool: the last row that runs a tool of *)
(* that name, or a row of its own.                                         *)
WithResult(rs, c, own) ==
  LET i == LastRow(rs, LAMBDA r : r.name = ToolName(c) /\ r.streaming)
  IN IF i # 0 THEN [rs EXCEPT ![i].streaming = FALSE, ![i].result = c]
              ELSE Append(rs, [own EXCEPT !.result = c])

(* attachSubagentToSubagentMessage: the row of the call, or else the last  *)
(* row of the tool nobody else has claimed.                                *)
Claimable(row, s) == row.name = "subagent" /\ row.sub \in {None, s}

(* Mutant: recency only.                                                   *)
AnchorByRecency(c) == LastRow(rows, LAMBDA r : Claimable(r, SubOf[c]))

Anchor(c) ==
  LET exact == LastRow(rows, LAMBDA r : Claimable(r, SubOf[c]) /\ r.call = c)
  IN IF exact # 0 THEN exact ELSE LastRow(rows, LAMBDA r : Claimable(r, SubOf[c]))

-----------------------------------------------------------------------------
(* handleBusEvent.                                                         *)

(* The next event of a type; those of other types may wait.                *)
Next1(e, type) ==
  /\ e.type = type
  /\ \E i \in DOMAIN events :
       /\ events[i] = e
       /\ \A j \in 1 .. i - 1 : events[j].type # type
       /\ events' = RemoveAt(events, i)
       /\ clean' = (clean /\ i = 1)

Handle(e, type) ==
  /\ Next1(e, type)
  /\ UNCHANGED <<stored, phase, text, at, turns, cancelled>>

Unrouted(e) == e.session # Root /\ e.session \notin tracked
SubRowsOf(s, rs) == subRows' = [subRows EXCEPT ![s] = rs]

(* Neither a sub-agent's nor the foreground's: dropped.                    *)
DropEvent(e) ==
  /\ e.type \in {"delta", "appended", "requested", "done"} /\ Unrouted(e)
  /\ Handle(e, e.type)
  /\ UNCHANGED uiVars

HandleTextDelta(e) ==
  /\ Handle(e, "delta")
  /\ \/ /\ e.session = Root /\ AppendAssistantDelta(e.of)
        /\ UNCHANGED subVars
     \/ /\ e.session \in tracked
        /\ LET rs == subRows[e.session] IN
           SubRowsOf(e.session,
             IF LastIs(rs, IsStreamingBubble)
             THEN [rs EXCEPT ![Len(rs)].shows = Append(@, e.of)]
             ELSE Append(rs, Streaming(Bubble(None, <<e.of>>))))
        /\ UNCHANGED <<rows, flushIdx, tracked, ended>>
  /\ UNCHANGED <<optimistic, opens>>

(* A tool's message changes nothing, and its event is left out.            *)
HandleMessageAppended(e) ==
  /\ Handle(e, "appended")
  /\ \/ /\ e.session = Root
        /\ IF Message(e.of).role = "user"
           THEN ShowUserMessage(e.of)
           ELSE FlushAssistantStream(e.of) /\ UNCHANGED optimistic
        /\ UNCHANGED subVars
     \/ /\ e.session \in tracked                     \* flushSubagentStream
        /\ LET rs == subRows[e.session]
               there == \E i \in DOMAIN rs : rs[i].id = e.of /\ IsAssistant(rs[i])
           IN IF Message(e.of).role = "assistant" /\ ~there
                 /\ LastIs(rs, IsAssistant)
              THEN SubRowsOf(e.session,
                     [rs EXCEPT ![Len(rs)].id = e.of, ![Len(rs)].streaming = FALSE])
              ELSE UNCHANGED subRows
        /\ UNCHANGED <<rows, flushIdx, optimistic, tracked, ended>>
  /\ UNCHANGED opens

HandleToolCallRequested(e) ==
  /\ Handle(e, "requested")
  /\ \/ /\ e.session = Root
        /\ rows' = Append(WithoutPlaceholder, Streaming(ToolRow(e.of)))
        /\ flushIdx' = 0
        /\ UNCHANGED subVars
     \/ /\ e.session \in tracked
        /\ SubRowsOf(e.session,
             Append(subRows[e.session], Streaming(ToolRow(e.of))))
        /\ UNCHANGED <<rows, flushIdx, tracked, ended>>
  /\ UNCHANGED <<optimistic, opens>>

HandleToolCallCompleted(e) ==
  /\ Handle(e, "done")
  /\ \/ /\ e.session = Root
        /\ rows' = WithResult(rows, e.of, [ToolRow(e.of) EXCEPT !.call = None])
        /\ UNCHANGED subVars
     \/ /\ e.session \in tracked
        /\ SubRowsOf(e.session,
             WithResult(subRows[e.session], e.of, ToolRow(e.of)))
        /\ UNCHANGED <<rows, tracked, ended>>
  /\ UNCHANGED <<flushIdx, optimistic, opens>>

(* onSubagentStarted: its transcript begins with the prompt.               *)
HandleSubagentStarted(e) ==
  LET s == SubOf[e.of] IN
  /\ Handle(e, "started")
  /\ tracked' = tracked \cup {s} /\ ended' = ended \ {s}
  /\ SubRowsOf(s, <<UserRow(None)>>)
  /\ rows' = IF Anchor(e.of) = 0 THEN rows
             ELSE [rows EXCEPT ![Anchor(e.of)].sub = s]
  /\ UNCHANGED <<flushIdx, optimistic, opens>>

(* onSubagentCompleted, maybeAppendContinuingPlaceholder.                  *)
HandleSubagentCompleted(e) ==
  LET s == SubOf[e.of] IN
  /\ Handle(e, "completed")
  /\ ended' = IF s \in tracked THEN ended \cup {s} ELSE ended
  /\ \/ UNCHANGED <<rows, flushIdx>>     \* not busy, or not on the screen
     \/ /\ s \in tracked /\ ~LastIs(rows, IsStreamingBubble)
        /\ rows' = Append(rows, [Streaming(Bubble(None, <<>>))
                                   EXCEPT !.placeholder = TRUE])
        /\ flushIdx' = 0
  /\ UNCHANGED <<optimistic, tracked, subRows, opens>>

(* TurnCompleted, of the root or of the sub-agent on the screen.  The user *)
(* goes from one to the other at any time.                                 *)
HandleTurnCompleted(e) ==
  /\ Handle(e, "turnCompleted")
  /\ \/ /\ e.session \in tracked \cup {Root}
        /\ rows' = WithoutPlaceholder /\ flushIdx' = 0
     \/ e.session # Root /\ UNCHANGED <<rows, flushIdx>>
  /\ UNCHANGED <<optimistic, subVars, opens>>

(* sendCompleted with an error, out of band and before the next prompt is  *)
(* stored; unless the turn was cancelled the user reads it.                *)
HandleSendFailed ==
  /\ phase[Root] = "failed" /\ Moved(Root, "idle")
  /\ optimistic' = FALSE
  /\ rows' = IF cancelled THEN rows
             ELSE Append(rows, [Row EXCEPT !.kind = "system"])
  /\ UNCHANGED <<stored, text, at, turns, cancelled, events, flushIdx, subVars,
                 opens, clean>>

-----------------------------------------------------------------------------
(* The user.                                                               *)

Quiet == phase[Root] \in {"idle", "over"}

(* startSend; a prompt sent while the UI is busy, or from the agent's      *)
(* queue, has no row yet.                                                  *)
Prompt ==
  /\ Quiet /\ turns < MaxTurns
  /\ turns' = turns + 1 /\ Moved(Root, "prompted") /\ cancelled' = FALSE
  /\ \/ /\ rows' = Append(rows, UserRow(None))
        /\ flushIdx' = 0 /\ optimistic' = TRUE
     \/ UNCHANGED <<rows, flushIdx, optimistic>>
  /\ UNCHANGED <<stored, text, at, events, subVars, opens, clean>>

(* applySwitchSession to the session itself, or back to it: what happened  *)
(* to its rows in between is gone.  inflightCancel ends the turn.          *)
OpenSession ==
  /\ opens < MaxOpens /\ opens' = opens + 1
  /\ rows' = Hydrated(Root) /\ flushIdx' = 0
  /\ tracked' = {SubOf[c] : c \in Created} /\ ended' = tracked'
  /\ subRows' = [s \in Subs |-> IF s \in tracked' THEN Hydrated(s) ELSE <<>>]
  /\ cancelled' = (cancelled \/ ~Quiet)
  /\ clean' = (clean /\ events = <<>> /\ Quiet)
  /\ UNCHANGED <<stored, phase, text, at, turns, events, optimistic>>

HandleEvent(e) ==
  \/ DropEvent(e) \/ HandleTextDelta(e) \/ HandleMessageAppended(e)
  \/ HandleToolCallRequested(e) \/ HandleToolCallCompleted(e)
  \/ HandleSubagentStarted(e) \/ HandleSubagentCompleted(e)
  \/ HandleTurnCompleted(e)

Next ==
  \/ /\ RunStep
     /\ clean' = (clean /\ (AnnouncedFirst /\ phase[Root] # "failed")')
     /\ UNCHANGED uiVars
  \/ \E e \in ToSet(events) : HandleEvent(e)
  \/ HandleSendFailed \/ Prompt \/ OpenSession

Spec == Init /\ [][Next]_vars

-----------------------------------------------------------------------------
TypeOK ==
  /\ phase \in [Sessions -> Phases] /\ at \in [Calls -> Stages]
  /\ \A s \in Sessions : text[s] \in Nat
  /\ turns \in 0 .. MaxTurns
  /\ Len(events) <= MaxBehind
  /\ flushIdx \in 0 .. Len(rows) /\ {optimistic, clean} \subseteq BOOLEAN
  /\ ended \subseteq tracked /\ tracked \subseteq Subs
  /\ opens \in 0 .. MaxOpens

(* No message of the store is in two rows of a transcript, in whatever     *)
(* order its events come and whenever the session is opened again.         *)
OneRowPerMessage ==
  \A s \in Sessions :
    LET rs == IF s = Root THEN rows ELSE subRows[s]
        named == {i \in DOMAIN rs : rs[i].id # None}
    IN Cardinality({rs[i].id : i \in named}) = Cardinality(named)

Shape(row) == [row EXCEPT !.id = None, !.streaming = FALSE, !.result = None]
Talk(rs) == SelectSeq([i \in DOMAIN rs |-> Shape(rs[i])],
                      LAMBDA r : r.kind # "tool")
After(rs, i) == Cardinality({j \in 1 .. i : rs[j].kind # "tool"})
Tools(rs) == {<<After(rs, i), Shape(rs[i])>> :
                i \in {j \in DOMAIN rs : rs[j].kind = "tool"}}
SameTranscript(rs, ss) ==
  Len(rs) = Len(ss) /\ Talk(rs) = Talk(ss) /\ Tools(rs) = Tools(ss)

(* Once a turn is over and its events are handled, in order, what is on    *)
(* the screen is what opening the session would show: the same bubbles     *)
(* with the same text, each sub-agent's transcript on its own call's row,  *)
(* no placeholder, and every sub-agent marked as ended.                    *)
LiveMatchesStore ==
  clean /\ events = <<>> /\ phase[Root] = "over" =>
    /\ SameTranscript(rows, Hydrated(Root))
    /\ tracked = {SubOf[c] : c \in Created} /\ ended = tracked
    /\ \A s \in tracked :
         phase[s] = "over" => SameTranscript(subRows[s], Hydrated(s))

-----------------------------------------------------------------------------
(* What does not hold (README, section 5).                                 *)

(* A sub-agent hangs on the row of its own call (app_subagents.go:470).    *)
AnchoredToOwnCall ==
  \A i \in DOMAIN rows : rows[i].sub # None => rows[i].sub = SubOf[rows[i].call]

(* A row shows its own call's result.                                      *)
ResultOnOwnRow ==
  \A i \in DOMAIN rows : {rows[i].call, rows[i].result} \subseteq Calls =>
                           rows[i].result = rows[i].call

(* A call is in one row.                                                   *)
OneRowPerCall ==
  \A i, j \in DOMAIN rows :
    rows[i].call # None /\ rows[i].call = rows[j].call => i = j

(* No bubble streams once its turn is over and its events are handled.     *)
BubblesAreFinal ==
  events = <<>> /\ phase[Root] = "over" =>
    \A i \in DOMAIN rows : ~IsStreamingBubble(rows[i])

(* A sub-agent that is over is marked as ended (EndedAt).                  *)
EndedIsMarked ==
  events = <<>> => \A c \in Calls : SubOf[c] \in tracked /\ at[c] = "done"
                                     => SubOf[c] \in ended
=============================================================================
