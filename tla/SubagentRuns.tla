---------------------------- MODULE SubagentRuns ----------------------------
(***************************************************************************)
(* A session's turn, the sub-agents its tool calls start, and the events   *)
(* all of them publish (src/internal/subagent/runtime.go,                  *)
(* src/internal/tool/subagent.go, src/internal/agent).                     *)
(*                                                                         *)
(* A sub-agent is a nested agent with a session of its own: the `subagent` *)
(* tool creates the session's row, announces it, sends the prompt to the   *)
(* agent and returns when that turn is over.  What a turn does inside is   *)
(* Turn's; here it stores its messages whole, and every tool is one that   *)
(* may run beside others.  A message is named by its session and index.    *)
(***************************************************************************)
EXTENDS Naturals, Sequences, FiniteSets, SequencesExt

CONSTANTS
  Root,      \* the session in the foreground
  Subs,      \* the sessions sub-agents get
  Calls,     \* tool calls the models may make, each once
  CallerOf,  \* per call, the session whose model makes it
  SubOf,     \* per call, the session it gets, or None: it is another tool
  None,
  MaxText(_), \* bound: text deltas of a message, by its id
  MaxSubs,   \* bound: sub-agents
  MaxStored, \* bound: messages a session stores
  Failing,   \* bound: sessions whose turns may fail, but for a cancelled one
  MaxTurns,  \* bound: turns of the root session
  MaxBehind  \* bound: events published and not yet handled

Sessions == Subs \cup {Root}

ASSUME SessionsAssumption == Root \notin Subs /\ None \notin Sessions \cup Calls
ASSUME CallerAssumption == CallerOf \in [Calls -> Sessions]

(* The runtime keeps the tool from sub-agents (buildToolRegistry).         *)
ASSUME SubAssumption ==
  /\ SubOf \in [Calls -> Subs \cup {None}]
  /\ \A c \in Calls : SubOf[c] # None => CallerOf[c] = Root
  /\ \A c, d \in Calls : SubOf[c] = SubOf[d] => c = d \/ SubOf[c] = None
ASSUME BoundsAssumption == /\ MaxStored \in [Sessions -> Nat]
                           /\ Failing \subseteq Sessions
                           /\ MaxTurns \in Nat
                           /\ MaxSubs \in Nat
                           /\ MaxBehind \in Nat \ {0}

VARIABLES
  stored,  \* per session, its messages in the store
  phase,   \* where a session's turn is
  text,    \* deltas streamed in its step
  at,      \* where a call is
  turns,   \* turns of the root session so far
  cancelled, \* the context of the turn, and of its sub-agents', is
  events   \* published and not yet handled, in order

runVars == <<stored, phase, text, at, turns, cancelled, events>>

Phases == {"idle", "prompted", "streaming", "stored", "announced", "over",
           "failing", "failed"}
Stages == {"none", "made", "requested", "created", "running", "returned",
           "done"}

UserMessage == [role |-> "user", text |-> 1, calls |-> {}]
AssistantMessage(s, cs) == [role |-> "assistant", text |-> text[s], calls |-> cs]

(* The calls a session's model may make now.                               *)
Available(s) == {c \in Calls : CallerOf[c] = s /\ at[c] = "none"}

Event(type, s, of) == [type |-> type, session |-> s, of |-> of]

(* bus.Publish; no subscription is full within the bound.                  *)
Publish(type, s, of) ==
  /\ Len(events) < MaxBehind
  /\ events' = Append(events, Event(type, s, of))

Moved(s, to) == phase' = [phase EXCEPT ![s] = to]
CallMoved(c, to) == at' = [at EXCEPT ![c] = to]

(* The history ends with a prompt whose turn failed.                       *)
InitRuns ==
  /\ stored = [s \in Sessions |-> IF s = Root THEN <<UserMessage>> ELSE <<>>]
  /\ phase = [s \in Sessions |-> "idle"]
  /\ text = [s \in Sessions |-> 0]
  /\ at = [c \in Calls |-> "none"]
  /\ turns = 0 /\ cancelled = FALSE
  /\ events = <<>>

-----------------------------------------------------------------------------
(* A turn.                                                                 *)

(* doSend stores the prompt.                                               *)
StorePrompt(s) ==
  /\ phase[s] = "prompted" /\ ~cancelled /\ Len(stored[s]) < MaxStored[s]
  /\ Moved(s, "streaming")
  /\ stored' = [stored EXCEPT ![s] = Append(@, UserMessage)]
  /\ Publish("appended", s, <<s, Len(stored[s]) + 1>>)
  /\ UNCHANGED <<text, at, turns, cancelled>>

TextDelta(s) ==
  /\ phase[s] = "streaming"
  /\ LET id == <<s, Len(stored[s]) + 1>> IN
       text[s] < MaxText(id) /\ Publish("delta", s, id)
  /\ text' = [text EXCEPT ![s] = @ + 1]
  /\ UNCHANGED <<stored, phase, at, turns, cancelled>>

(* appendAssistant: the first of the tools, or the end of the stream,      *)
(* stores the message with the calls of the step ...                       *)
StoreAssistant(s, cs) ==
  /\ phase[s] = "streaming" /\ ~cancelled /\ Len(stored[s]) < MaxStored[s]
  /\ stored' = [stored EXCEPT ![s] = Append(@, AssistantMessage(s, cs))]
  /\ at' = [c \in Calls |-> IF c \in cs THEN "made" ELSE at[c]]
  /\ Moved(s, "stored")
  /\ UNCHANGED <<text, turns, cancelled, events>>

(* ... and publishes after the unlock, when another tool may already run.  *)
AnnounceAssistant(s) ==
  /\ phase[s] \in {"stored", "failing"}
  /\ Moved(s, IF phase[s] = "stored" THEN "announced" ELSE "failed")
  /\ Publish("appended", s, <<s, Len(stored[s])>>)
  /\ UNCHANGED <<stored, text, at, turns, cancelled>>

Current(s) == IF stored[s] = <<>> THEN {} ELSE Last(stored[s]).calls

RequestCall(c) ==
  LET s == CallerOf[c] IN
  /\ at[c] = "made" /\ c \in Current(s)
  /\ \/ phase[s] = "announced"
     \/ phase[s] = "stored" /\ \E d \in Current(s) \ {c} : at[d] = "made"
  /\ CallMoved(c, "requested")
  /\ Publish("requested", s, c)
  /\ UNCHANGED <<stored, phase, text, turns, cancelled>>

(* The call's end, after its sub-agent's or, for a call a hook or the user *)
(* denies, another tool's and one that fails, right away.                  *)
CompleteCall(c) ==
  /\ at[c] \in {"requested", "returned"} /\ CallMoved(c, "done")
  /\ Publish("done", CallerOf[c], c)
  /\ UNCHANGED <<stored, phase, text, turns, cancelled>>

(* The step is over: another follows its calls, or the turn ends.          *)
FinishStep(s) ==
  /\ phase[s] = "announced"
  /\ \A c \in Current(s) : at[c] = "done"
  /\ text' = [text EXCEPT ![s] = 0]
  /\ IF Current(s) # {}
     THEN Moved(s, "streaming") /\ UNCHANGED events
     ELSE Moved(s, "over") /\ Publish("turnCompleted", s, None)
  /\ UNCHANGED <<stored, at, turns, cancelled>>

(* The provider or the store ends the turn, which stores what it has       *)
(* streamed and results of the calls not made, or a cancelled context,     *)
(* with which nothing can be stored; no tool is running.                   *)
TurnFails(s, cs) ==
  /\ phase[s] \in {"prompted", "streaming", "announced"}
  /\ \A c \in Calls : CallerOf[c] = s => at[c] \in {"none", "made", "done"}
  /\ text' = [text EXCEPT ![s] = 0]
  /\ \/ cancelled /\ cs = {} /\ Moved(s, "failed") /\ UNCHANGED <<stored, at>>
     \/ /\ ~cancelled /\ s \in Failing
        /\ at' = [c \in Calls |-> IF c \in cs \/ (CallerOf[c] = s /\ at[c] = "made")
                                   THEN "done" ELSE at[c]]
        /\ IF phase[s] = "streaming" /\ (text[s] > 0 \/ cs # {})
           THEN /\ Len(stored[s]) < MaxStored[s] /\ Moved(s, "failing")
                /\ stored' = [stored EXCEPT ![s] = Append(@, AssistantMessage(s, cs))]
           ELSE cs = {} /\ Moved(s, "failed") /\ UNCHANGED stored
  /\ UNCHANGED <<turns, cancelled, events>>

-----------------------------------------------------------------------------
(* Runner.Run.                                                             *)

(* The calls whose sub-agent session has a row.                            *)
Created == {c \in Calls : /\ SubOf[c] # None
                          /\ (at[c] = "created" \/ phase[SubOf[c]] # "idle")}

(* The row comes before the event: a run that fails leaves it behind.      *)
CreateSession(c) ==
  /\ at[c] = "requested" /\ SubOf[c] # None /\ ~cancelled
  /\ Cardinality(Created) < MaxSubs
  /\ CallMoved(c, "created")
  /\ UNCHANGED <<stored, phase, text, turns, cancelled, events>>

PublishStarted(c) ==
  /\ at[c] = "created" /\ CallMoved(c, "running")
  /\ Publish("started", CallerOf[c], c)
  /\ Moved(SubOf[c], "prompted")
  /\ UNCHANGED <<stored, text, turns, cancelled>>

(* publishCompleted, on success and on failure.                            *)
PublishCompleted(c) ==
  /\ at[c] = "running" /\ phase[SubOf[c]] \in {"over", "failed"}
  /\ CallMoved(c, "returned")
  /\ Publish("completed", CallerOf[c], c)
  /\ UNCHANGED <<stored, phase, text, turns, cancelled>>

RunStep ==
  \/ \E s \in Sessions :
       \/ StorePrompt(s) \/ TextDelta(s) \/ AnnounceAssistant(s)
       \/ FinishStep(s)
       \/ \E cs \in SUBSET Available(s) : StoreAssistant(s, cs) \/ TurnFails(s, cs)
  \/ \E c \in Calls :
       \/ RequestCall(c) \/ CompleteCall(c)
       \/ CreateSession(c) \/ PublishStarted(c) \/ PublishCompleted(c)

(* No call of a message is requested before the message is announced.      *)
AnnouncedFirst ==
  \A s \in Sessions : phase[s] = "stored" =>
                       \A c \in Current(s) : at[c] = "made"
=============================================================================
