------------------------------ MODULE UiTurns ------------------------------
(***************************************************************************)
(* The turns of the foreground session as the terminal UI sees them        *)
(* (src/internal/ui/app.go, app_bus.go, app_bus_events.go, app_send.go,    *)
(* app_messages.go, app_keys.go).                                          *)
(*                                                                         *)
(* A prompt entered while the UI is idle is handed to a goroutine that     *)
(* calls Agent.Send; one entered while it is busy is kept as a draft and   *)
(* handed over when a turn completes.  The UI learns of turns by events of *)
(* several types, each with its own bounded subscription and its own       *)
(* forwarding goroutine, so that types overtake each other and a full      *)
(* buffer drops, and by messages of its own goroutines, in any order.      *)
(* A tick compares what the UI believes with the agent.                    *)
(*                                                                         *)
(* The agent is the one of AgentQueue, kept to what it publishes.  One     *)
(* action of the UI is one call of Update.                                 *)
(***************************************************************************)
EXTENDS Naturals, Sequences, FiniteSets, FiniteSetsExt, SequencesExt

CONSTANTS
  Prompts,      \* prompts the user may enter, each once
  Streamed,     \* those whose turn streams text
  None,         \* no prompt
  EventBuffer,  \* capacity of a subscription (16 to 256 in the code)
  MaxBehind     \* bound: events and messages on their way to Update

ASSUME StreamedAssumption == Streamed \subseteq Prompts
ASSUME NoneAssumption == None \notin Prompts
ASSUME BufferAssumption == EventBuffer \in Nat \ {0}
ASSUME BehindAssumption == MaxBehind \in Nat \ {0}

VARIABLES
  busy,          \* App.busy
  activeTurns,   \* App.activeTurns
  queueCount,    \* App.queueCount
  drafts,        \* App.queuedDrafts
  inflight,      \* the prompt whose context App.inflightCancel cancels
  pendingFlush,  \* App.pendingQueueFlush
  tick,          \* busyReconcileTicks are on their way
  streaming,     \* an assistant bubble of the transcript is still streaming
  messages,      \* sendStarted and sendCompleted on their way to Update
  events,        \* per type, the events published and not yet handled
  where,         \* where a prompt is
  reports,       \* prompts whose Send was called by a goroutine of the UI
  active,        \* Agent.activeRuns: the prompt whose turn it is
  queue,         \* Agent.queues
  changes        \* QueueChanged events counted and not yet published

viewVars == <<busy, activeTurns, queueCount, drafts, inflight, pendingFlush>>
uiVars == <<viewVars, tick, streaming>>
agentVars == <<active, queue, changes>>
vars == <<uiVars, messages, events, where, reports, agentVars>>

EventTypes == {"started", "completed", "appended", "delta", "queue"}
InTurn == {"hook", "streaming", "answered", "succeeded", "failed"}
Places == InTurn \cup {"unused", "draft", "spawned", "queued", "popped",
                       "over", "cleared"}

(* Two counts at most of a turn: its event, and the tick's own count.      *)
TypeOK ==
  /\ {busy, pendingFlush, tick, streaming} \subseteq BOOLEAN
  /\ activeTurns \in 0 .. 2 * Cardinality(Prompts)
  /\ queueCount \in 0 .. Cardinality(Prompts)
  /\ drafts \in Seq(Prompts) /\ queue \in Seq(Prompts)
  /\ {inflight, active} \subseteq Prompts \cup {None}
  /\ messages \subseteq [kind : {"started", "ok", "queued", "error"},
                         of : Prompts]
  /\ DOMAIN events = EventTypes
  /\ \A t \in EventTypes : Len(events[t]) <= EventBuffer
  /\ where \in [Prompts -> Places] /\ reports \subseteq Prompts
  /\ \A c \in changes : c.count \in 0 .. Cardinality(Prompts)

Init ==
  /\ busy = FALSE /\ activeTurns = 0 /\ queueCount = 0 /\ drafts = <<>>
  /\ inflight = None /\ pendingFlush = FALSE
  /\ tick = FALSE /\ streaming = FALSE
  /\ messages = {} /\ events = [t \in EventTypes |-> <<>>]
  /\ where = [p \in Prompts |-> "unused"] /\ reports = {}
  /\ active = None /\ queue = <<>> /\ changes = {}

Moved(p, place) == [where EXCEPT ![p] = place]

(* bus.Publish to the UI's subscription: a full buffer drops the event.    *)
Published(t, e) ==
  IF Len(events[t]) < EventBuffer THEN [events EXCEPT ![t] = Append(@, e)]
                                  ELSE events

Message(kind, p) == [kind |-> kind, of |-> p]

(***************************************************************************)
(* The agent, and the goroutine that calls it.                             *)
(***************************************************************************)
(* Agent.Send takes the free slot ...                                      *)
SendStarts(p) ==
  /\ where[p] \in {"spawned", "popped"} /\ active = None
  /\ active' = p /\ where' = Moved(p, "hook")
  /\ UNCHANGED <<uiVars, messages, events, reports, queue, changes>>

(* ... or queues the prompt; QueueChanged is published after the unlock.   *)
SendQueues(p) ==
  /\ where[p] \in {"spawned", "popped"} /\ active # None
  /\ queue' = Append(queue, p) /\ where' = Moved(p, "queued")
  /\ changes' = changes \cup
       {[cause |-> "push", of |-> p, count |-> Len(queue) + 1]}
  /\ UNCHANGED <<uiVars, messages, events, reports, active>>

(* The publication, and what its goroutine does next: Send returns nothing *)
(* to the UI, or the popped prompt is sent again, with nobody to report to.*)
PublishQueueChanged(c) ==
  /\ changes' = changes \ {c}
  /\ events' = Published("queue", c.count)
  /\ IF c.cause = "push"
     THEN /\ reports' = reports \ {c.of}
          /\ messages' = messages \cup
               {Message("queued", p) : p \in {c.of} \cap reports}
          /\ UNCHANGED where
     ELSE where' = Moved(c.of, "popped") /\ UNCHANGED <<reports, messages>>
  /\ UNCHANGED <<uiVars, active, queue>>

(* doSend and the turn: what they publish, in order.  A hook, the store,   *)
(* the provider or a cancelled context may end it anywhere.                *)
TurnStep(p, from, to, published) ==
  /\ where[p] = from
  /\ where' = Moved(p, to) /\ events' = published
  /\ UNCHANGED <<uiVars, messages, reports, agentVars>>

TurnStarted(p) == TurnStep(p, "hook", "streaming", Published("started", p))
TextDelta(p) ==
  p \in Streamed /\ TurnStep(p, "streaming", "streaming", Published("delta", p))
StoreAssistant(p) ==
  TurnStep(p, "streaming", "answered", Published("appended", p))
TurnCompleted(p) ==
  TurnStep(p, "answered", "succeeded", Published("completed", p))
TurnFails(p) ==
  \E from \in {"hook", "streaming", "answered"} :
    TurnStep(p, from, "failed", events)

(* Send releases the slot and takes the next prompt off the queue.         *)
SendReturns(p) ==
  /\ where[p] \in {"succeeded", "failed"}
  /\ active' = None /\ where' = Moved(p, "over")
  /\ reports' = reports \ {p}
  /\ messages' = messages \cup
       {Message(IF where[q] = "failed" THEN "error" ELSE "ok", q) :
          q \in {p} \cap reports}
  /\ IF queue = <<>>
     THEN UNCHANGED <<queue, changes>>
     ELSE /\ queue' = Tail(queue)
          /\ changes' = changes \cup
               {[cause |-> "pop", of |-> Head(queue), count |-> Len(queue) - 1]}
  /\ UNCHANGED <<uiVars, events>>

AgentStep ==
  \/ \E p \in Prompts :
       \/ SendStarts(p) \/ SendQueues(p) \/ SendReturns(p)
       \/ TurnStarted(p) \/ StoreAssistant(p) \/ TurnCompleted(p)
       \/ TurnFails(p)
  \/ \E c \in changes : PublishQueueChanged(c)

(***************************************************************************)
(* Parts of Update.                                                        *)
(***************************************************************************)
(* startSend and flushQueuedDraftsCmd: a goroutine for the prompt, and the *)
(* command that emits sendStarted.                                         *)
HandOver(p) ==
  /\ where' = Moved(p, "spawned") /\ reports' = reports \cup {p}
  /\ messages' = messages \cup {Message("started", p)}
  /\ inflight' = p

(* Mutant: the draft handed over stays the first.                          *)
FlushKeepsDraft ==
  IF drafts = <<>>
  THEN UNCHANGED <<drafts, queueCount, where, reports, messages, inflight>>
  ELSE HandOver(Head(drafts)) /\ UNCHANGED <<drafts, queueCount>>

(* flushQueuedDraftsCmd.                                                   *)
FlushQueuedDrafts ==
  IF drafts = <<>>
  THEN UNCHANGED <<drafts, queueCount, where, reports, messages, inflight>>
  ELSE /\ HandOver(Head(drafts))
       /\ drafts' = Tail(drafts) /\ queueCount' = Len(drafts) - 1

NoFlush == UNCHANGED <<drafts, queueCount, where, reports, messages, inflight>>

(* flushAssistantStream finalises the last bubble that streams.  A second  *)
(* one may stream before it; which deltas opened one is left out.          *)
FinaliseBubble == streaming' = FALSE \/ streaming' = streaming

(* dequeuePendingFlush.                                                    *)
DequeuePendingFlush ==
  /\ pendingFlush' = FALSE
  /\ busy' = (busy /\ ~pendingFlush)
  /\ IF pendingFlush THEN FlushQueuedDrafts ELSE NoFlush

Handles(t) ==
  /\ events[t] # <<>>
  /\ events' = [events EXCEPT ![t] = Tail(@)]

(***************************************************************************)
(* The user.                                                               *)
(***************************************************************************)
Enter(p) ==
  /\ where[p] = "unused"
  /\ IF busy
     THEN /\ drafts' = Append(drafts, p) /\ queueCount' = Len(drafts) + 1
          /\ where' = Moved(p, "draft")
          /\ UNCHANGED <<reports, messages, inflight>>
     ELSE HandOver(p) /\ UNCHANGED <<drafts, queueCount>>
  /\ UNCHANGED <<busy, activeTurns, pendingFlush, tick, streaming, events,
                 agentVars>>

Clear(ps) == where' = [p \in Prompts |-> IF p \in ps THEN "cleared" ELSE where[p]]

(* Mutant: the queue is announced empty and is not.                        *)
ClearQueueLater ==
  /\ UNCHANGED queue
  /\ events' = IF queue = <<>> THEN events ELSE Published("queue", 0)

(* Agent.ClearQueue publishes when it has dropped something.               *)
ClearQueue ==
  /\ queue' = <<>>
  /\ events' = IF queue = <<>> THEN events ELSE Published("queue", 0)

(* The first Esc clears the drafts, or else the agent's queue.             *)
Esc ==
  /\ busy
  /\ IF drafts # <<>>
     THEN /\ drafts' = <<>> /\ queueCount' = 0 /\ Clear(ToSet(drafts))
          /\ UNCHANGED <<events, queue>>
     ELSE /\ queueCount > 0 /\ ClearQueue /\ Clear(ToSet(queue))
          /\ UNCHANGED <<drafts, queueCount>>
  /\ UNCHANGED <<busy, activeTurns, inflight, pendingFlush, tick, streaming,
                 messages, reports, active, changes>>

(* A second one soon after, the first perhaps before the UI was busy.  It  *)
(* also cancels the turn, which may now fail, as it always may.            *)
Interrupt ==
  /\ busy
  /\ drafts' = <<>> /\ queueCount' = 0
  /\ ClearQueue /\ Clear(ToSet(drafts) \cup ToSet(queue))
  /\ UNCHANGED <<busy, activeTurns, inflight, pendingFlush, tick, streaming,
                 messages, reports, active, changes>>

(***************************************************************************)
(* Update: events of the bus.                                              *)
(***************************************************************************)
HandleTurnStarted ==
  /\ Handles("started")
  /\ activeTurns' = activeTurns + 1 /\ busy' = TRUE /\ tick' = TRUE
  /\ NoFlush /\ UNCHANGED agentVars
  /\ UNCHANGED <<pendingFlush, streaming>>

(* The last turn hands the next draft over, or lets a streaming bubble do  *)
(* so when its message arrives.                                            *)
HandleTurnCompleted ==
  /\ Handles("completed")
  /\ activeTurns' = IF activeTurns > 0 THEN activeTurns - 1 ELSE 0
  /\ CASE activeTurns' = 0 /\ drafts # <<>> /\ streaming ->
            pendingFlush' = TRUE /\ NoFlush /\ UNCHANGED busy
       [] activeTurns' = 0 /\ drafts # <<>> /\ ~streaming ->
            busy' = FALSE /\ FlushQueuedDrafts /\ UNCHANGED pendingFlush
       [] activeTurns' = 0 /\ drafts = <<>> /\ queueCount = 0 ->
            busy' = FALSE /\ NoFlush /\ UNCHANGED pendingFlush
       [] OTHER -> NoFlush /\ UNCHANGED <<busy, pendingFlush>>
  /\ UNCHANGED agentVars
  /\ UNCHANGED <<tick, streaming>>

(* The turn's assistant message.                                           *)
HandleMessageAppended ==
  /\ Handles("appended")
  /\ FinaliseBubble /\ DequeuePendingFlush
  /\ UNCHANGED <<activeTurns, tick, agentVars>>

(* appendAssistantDelta extends a bubble, or opens one, or opens the one   *)
(* just flushed again.                                                     *)
HandleTextDelta ==
  /\ Handles("delta")
  /\ streaming' = TRUE
  /\ NoFlush
  /\ UNCHANGED <<busy, activeTurns, pendingFlush, tick, agentVars>>

(* The count of the agent's queue, which the drafts' count hides.          *)
HandleQueueChanged ==
  /\ Handles("queue")
  /\ queueCount' = IF drafts = <<>> THEN Head(events["queue"]) ELSE queueCount
  /\ tick' = (tick \/ (drafts = <<>> /\ queueCount' > 0 /\ ~busy))
  /\ UNCHANGED agentVars
  /\ UNCHANGED <<busy, activeTurns, drafts, inflight, pendingFlush, streaming,
                 messages, where, reports>>

(***************************************************************************)
(* Update: messages of the UI's own goroutines, and the tick.              *)
(***************************************************************************)
HandleSendStarted(m) ==
  /\ m.kind = "started"
  /\ messages' = messages \ {m} /\ busy' = TRUE
  /\ UNCHANGED agentVars
  /\ UNCHANGED <<activeTurns, queueCount, drafts, inflight, pendingFlush, tick,
                 streaming, events, where, reports>>

(* A result or an error ends the turn the UI can cancel; so does a nil     *)
(* result, unless a turn is known to run.  An error ends it for the UI.    *)
HandleSendCompleted(m) ==
  /\ m.kind # "started"
  /\ messages' = messages \ {m}
  /\ inflight' = IF m.kind = "queued" /\ busy /\ activeTurns > 0
                 THEN inflight ELSE None
  /\ IF m.kind = "error" THEN activeTurns' = 0 /\ busy' = FALSE
                         ELSE UNCHANGED <<activeTurns, busy>>
  /\ UNCHANGED agentVars
  /\ UNCHANGED <<queueCount, drafts, pendingFlush, tick, streaming, events,
                 where, reports>>

(* handleBusyReconcileTick: it arms the next tick while there is something *)
(* to watch.  Each TurnStarted arms one too, so another may be on its way. *)
Reconcile ==
  /\ tick
  /\ CASE active # None /\ ~busy ->
            /\ busy' = TRUE
            /\ activeTurns' = IF activeTurns = 0 THEN 1 ELSE activeTurns
            /\ NoFlush /\ UNCHANGED <<pendingFlush, streaming>>
       [] active = None /\ busy /\ pendingFlush ->
            /\ activeTurns' = 0
            /\ DequeuePendingFlush
            /\ IF streaming THEN FinaliseBubble ELSE UNCHANGED streaming
       [] active = None /\ busy /\ ~pendingFlush /\ activeTurns > 0
              /\ drafts = <<>> /\ queueCount = 0 ->
            /\ activeTurns' = 0 /\ busy' = FALSE
            /\ NoFlush /\ UNCHANGED <<pendingFlush, streaming>>
       [] OTHER -> NoFlush /\ UNCHANGED <<busy, activeTurns, pendingFlush,
                                          streaming>>
  /\ tick' \in BOOLEAN
  /\ (busy' \/ queueCount' > 0 \/ drafts' # <<>> \/ inflight' # None) => tick'
  /\ UNCHANGED agentVars
  /\ UNCHANGED events

Delivery ==
  \/ HandleTurnStarted \/ HandleTurnCompleted \/ HandleMessageAppended
  \/ HandleTextDelta \/ HandleQueueChanged
  \/ \E m \in messages : HandleSendStarted(m) \/ HandleSendCompleted(m)

Behind == Cardinality(messages) + Cardinality(changes)
            + MapThenSumSet(LAMBDA t : Len(events[t]), EventTypes)

Next ==
  /\ \/ AgentStep \/ Delivery \/ Reconcile \/ Esc \/ Interrupt
     \/ \E p \in Prompts : Enter(p) \/ TextDelta(p)
  /\ Behind' <= MaxBehind

Spec == Init /\ [][Next]_vars

(***************************************************************************)
(* Properties.                                                             *)
(***************************************************************************)
(* A prompt the user entered is in one place, which the two queues and the *)
(* slot agree on: whatever order results, dropped events, flushes and      *)
(* ticks come in, no draft is lost, sent twice or sent and kept.           *)
HandedOverOnce ==
  /\ IsInjective(drafts) /\ ToSet(drafts) = {p \in Prompts : where[p] = "draft"}
  /\ IsInjective(queue \o <<active>>)
  /\ {p \in Prompts : where[p] = "queued"} =
       ToSet(queue) \cup {c.of : c \in {d \in changes : d.cause = "pop"}}
  /\ {p \in Prompts : where[p] \in InTurn} = {active} \ {None}
  /\ \A m \in messages : where[m.of] \notin {"unused", "draft"}
  /\ \A p \in reports \ {c.of : c \in changes} :
       where[p] \notin {"unused", "draft", "popped", "over"}

(* What Esc has thrown away is never run, although it may be a draft, or   *)
(* in the agent's queue with its event still to be published.              *)
ClearedStaysCleared ==
  [][\A p \in Prompts : where[p] = "cleared" => where'[p] = "cleared"]_vars

(* The comment in Update's sendCompleted: a completion "must NOT clear     *)
(* inflightCancel" of the active turn, or double-Esc and Ctrl+C stop       *)
(* working.  Once everything sent to Update is handled, a turn the UI      *)
(* started and shows can be cancelled.                                     *)
TurnCanBeStopped ==
  (messages = {} /\ (\A t \in EventTypes : events[t] = <<>>)
     /\ busy /\ active \in reports)
    => inflight # None
=============================================================================
