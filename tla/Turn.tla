-------------------------------- MODULE Turn --------------------------------
(***************************************************************************)
(* One session's turns as the agent streams them                           *)
(* (runFantasyLoop, src/internal/agent/fantasy_loop.go).                   *)
(*                                                                         *)
(* The Fantasy library drives a turn by callbacks: text and tool calls     *)
(* arrive on the stream's goroutine, tools run on goroutines of their own. *)
(* The first of them to get there stores the step's assistant message      *)
(* (appendAssistant, guarded by currentID and a condition variable); a     *)
(* step without tool calls stores it when it finishes, a failing stream    *)
(* stores what it has.  Fantasy itself is external: a step streams any     *)
(* text and calls, the executor starts non-parallel tools one at a time,   *)
(* and Stream returns only when the tools it started have returned.        *)
(*                                                                         *)
(* A call that names a path makes the agent look for context files near it *)
(* (LazyTracker.Touch, src/internal/agentsmd/lazy.go): on the stream's     *)
(* goroutine when the call arrives, and again on the tool's.  What it      *)
(* finds goes into the next step's request; the UI adds a row about it to  *)
(* the session, at any time.                                               *)
(*                                                                         *)
(* The log is the session's rows in the store; a crash loses all but it.   *)
(***************************************************************************)
EXTENDS Integers, Sequences, FiniteSets, SequencesExt

CONSTANTS
  Calls,      \* tool calls the model may make in a run
  Parallel,   \* those of tools that are Parallelizable
  Eager,      \* the executor may start a tool before the stream has finished
  Paths,      \* calls that name a path, each below a directory of its own
  MaxLazy,    \* MaxLazyContextFiles
  Handles,    \* model handles SetModel may install
  NoMessage,  \* currentID = ""
  MaxText,    \* bound: text deltas per step
  MaxSteps,   \* bound: steps per run
  MaxTurns    \* bound: turns per run

ASSUME ParallelAssumption == Parallel \subseteq Calls
ASSUME EagerAssumption == Eager \in BOOLEAN
ASSUME PathsAssumption == Paths \subseteq Calls /\ MaxLazy \in Nat
ASSUME BoundsAssumption == /\ MaxText \in Nat
                           /\ MaxSteps \in Nat \ {0}
                           /\ MaxTurns \in Nat \ {0}
ASSUME NoMessageAssumption == NoMessage \notin Nat

VARIABLES
  log,          \* the messages stored for the session
  billed,       \* per step, how often its usage went to recordUsage
  turns,        \* turns started
  step,         \* steps started (over all turns)
  stream,       \* where the stream's goroutine is
  text,         \* textBuf: deltas received in this step
  calls,        \* streamToolCalls: the calls received in this step
  pendingUsage, \* the step whose usage OnStreamFinish kept last (0: none)
  currentID,    \* index in the log of the step's assistant message
  final,        \* index of the last assistant message (0: nil)
  appending,    \* appendingAsst
  snapshot,     \* the parts and usage an appender is about to store
  tool,         \* where each tool call is
  usageArg,     \* pendingUsage as beforeRun read it
  handle,       \* Agent.handle
  turnHandle,   \* the handle frozen for the turn
  seen,         \* calls below whose directories a file was found (seenDirs)
  pendingLazy,  \* the blocks kept for the next step
  announced,    \* LazyContextLoaded events the UI has not handled
  early         \* history: a tool of the step began before its stream ended

bufferVars == <<text, calls, pendingUsage>>
appendVars == <<currentID, final, appending, snapshot>>
toolVars == <<tool, usageArg>>
modelVars == <<handle, turnHandle>>
lazyVars == <<seen, pendingLazy, announced>>
storeVars == <<log, billed>>
localVars == <<bufferVars, appendVars, usageArg, early>>
vars == <<storeVars, turns, step, stream, bufferVars, appendVars, toolVars,
          modelVars, lazyVars, early>>

Streams == {"idle", "open", "finished", "storing", "failed", "failstoring",
            "synthesise"}
Tools == {"idle", "arriving", "called", "before", "storing", "touching",
          "running", "ran", "over", "broken"}

(* The goroutine that stores an assistant message is a tool's or Stream's. *)
StreamThread == 0
Appenders == Calls \cup {StreamThread}

Nothing == [text |-> 0, calls |-> {}, usage |-> 0]
Buffered(u) == [text |-> text, calls |-> calls, usage |-> u]

UserMessage == [role |-> "user"]
AssistantMessage(x) ==
  [role |-> "assistant", step |-> step, text |-> x.text, calls |-> x.calls,
   pricedBy |-> handle, turnOf |-> turnHandle, usage |-> x.usage]
ToolMessage(c, synthetic) ==
  [role |-> "tool", call |-> c, synthetic |-> synthetic]
ContextMessage == [role |-> "system"]

Init ==
  /\ log = <<>>
  /\ billed = [k \in 1..MaxSteps |-> 0]
  /\ turns = 0
  /\ step = 0
  /\ stream = "idle"
  /\ text = 0
  /\ calls = {}
  /\ pendingUsage = 0
  /\ currentID = NoMessage
  /\ final = 0
  /\ appending = FALSE
  /\ snapshot = [a \in Appenders |-> Nothing]
  /\ tool = [c \in Calls |-> "idle"]
  /\ usageArg = [c \in Calls |-> 0]
  /\ handle \in Handles
  /\ turnHandle = handle
  /\ seen = {} /\ pendingLazy = {} /\ announced = {}
  /\ early = FALSE

-----------------------------------------------------------------------------
(* PrepareStep takes the blocks kept for the session into the request.     *)
PrepareStep ==
  /\ pendingLazy' = {}
  /\ UNCHANGED <<seen, announced>>

(* Send stores the user message and the turn begins.                       *)
StartTurn ==
  /\ stream = "idle"
  /\ turns < MaxTurns
  /\ step < MaxSteps
  /\ turns' = turns + 1
  /\ step' = step + 1
  /\ log' = Append(log, UserMessage)
  /\ stream' = "open"
  /\ turnHandle' = handle
  /\ PrepareStep
  /\ UNCHANGED <<billed, localVars, tool, handle>>

SetModel(h) ==
  /\ handle' = h
  /\ UNCHANGED <<storeVars, turns, step, stream, bufferVars, appendVars,
                 toolVars, turnHandle, lazyVars, early>>

AbandonedTools ==
  [c \in Calls |-> IF tool[c] = "idle" THEN "idle" ELSE "over"]

(* The locals of runFantasyLoop go with it.                                *)
EndTurn ==
  /\ stream' = "idle"
  /\ tool' = AbandonedTools
  /\ text' = 0 /\ calls' = {} /\ pendingUsage' = 0
  /\ currentID' = NoMessage /\ final' = 0 /\ appending' = FALSE
  /\ snapshot' = [a \in Appenders |-> Nothing]
  /\ usageArg' = [c \in Calls |-> 0]
  /\ early' = FALSE

(* The process dies; what was not stored is gone.                          *)
Crash ==
  /\ stream # "idle"
  /\ EndTurn
  /\ seen' = {} /\ pendingLazy' = {} /\ announced' = {}
  /\ UNCHANGED <<storeVars, turns, step, modelVars>>

-----------------------------------------------------------------------------
(* The lazy context.                                                       *)

(* walkUp reads the context files of directories not seen, up to a cap;    *)
(* when one is left over the tracker has disabled itself for good.         *)
Found(cs) ==
  LET fresh == (cs \cap Paths) \ seen
      room == MaxLazy - Cardinality(seen)
  IN  {found \in SUBSET fresh :
         /\ Cardinality(found) <= room
         /\ Cardinality(found) < room => found = fresh}

(* collectLazyContext: what was found is announced, and its blocks are     *)
(* kept for the next step.                                                 *)
Touches(cs) ==
  \E found \in Found(cs) :
    /\ seen' = seen \cup found
    /\ announced' = announced \cup found
    /\ pendingLazy' = pendingLazy \cup found

(* App.handleBusEvent appends a system row to the session, or fails to.    *)
Annotate ==
  /\ \E c \in announced : announced' = announced \ {c}
  /\ log' = Append(log, ContextMessage) \/ UNCHANGED log
  /\ UNCHANGED <<billed, turns, step, stream, bufferVars, appendVars,
                 toolVars, modelVars, seen, pendingLazy, early>>

-----------------------------------------------------------------------------
(* The stream's callbacks, one after the other.                            *)

Arriving == \E c \in Calls : tool[c] = "arriving"
Streaming == stream = "open" /\ ~Arriving

OnTextDelta ==
  /\ Streaming
  /\ text < MaxText
  /\ text' = text + 1
  /\ UNCHANGED <<storeVars, turns, step, stream, calls, pendingUsage,
                 appendVars, toolVars, modelVars, lazyVars, early>>

(* A call's input has been streamed; the call itself follows, which makes  *)
(* the stream's goroutine enter Touch.  (Some providers send only that.)   *)
NewCall(c) == Streaming /\ step < MaxSteps /\ tool[c] = "idle"

OnToolInputEnd(c) ==
  /\ NewCall(c)
  /\ tool' = [tool EXCEPT ![c] = "arriving"]
  /\ calls' = calls \cup {c}
  /\ UNCHANGED <<storeVars, turns, step, stream, text, pendingUsage,
                 appendVars, usageArg, modelVars, lazyVars, early>>

OnToolCall(c) ==
  /\ tool[c] = "arriving" \/ NewCall(c)
  /\ Touches({c})
  /\ tool' = [tool EXCEPT ![c] = "called"]
  /\ calls' = calls \cup {c}
  /\ UNCHANGED <<storeVars, turns, step, stream, text, pendingUsage,
                 appendVars, usageArg, modelVars, early>>

ReportedUsage == step

OnStreamFinish ==
  /\ Streaming
  /\ pendingUsage' = ReportedUsage
  /\ stream' = "finished"
  /\ UNCHANGED <<storeVars, turns, step, text, calls, appendVars, toolVars,
                 modelVars, lazyVars, early>>

-----------------------------------------------------------------------------
(* appendAssistant, entered with a usage and followed by a state of the    *)
(* caller: the message exists already, or the caller stores it.            *)

GuardIgnoresAppender == TRUE                        \* mutant: no cond.Wait
GuardOpen == currentID # NoMessage \/ ~appending

Enters(a, u) ==
  /\ GuardOpen
  /\ currentID = NoMessage
  /\ appending' = TRUE
  /\ snapshot' = [snapshot EXCEPT ![a] = Buffered(u)]

AppendMessage(a) ==
  /\ log' = Append(log, AssistantMessage(snapshot[a]))
  /\ billed' = [k \in 1..MaxSteps |->
                  IF k = snapshot[a].usage THEN billed[k] + 1 ELSE billed[k]]

StoresAssistant(a) ==
  /\ AppendMessage(a)
  /\ snapshot' = [snapshot EXCEPT ![a] = Nothing]
  /\ currentID' = Len(log) + 1
  /\ final' = Len(log) + 1
  /\ appending' = FALSE

StaysAppending == appending                         \* mutant: no reset
AppendingAfterFailure == FALSE

StoreAssistantFails ==
  /\ appending' = AppendingAfterFailure
  /\ UNCHANGED <<storeVars, currentID, final, snapshot>>

-----------------------------------------------------------------------------
(* A tool's goroutine: beforeRun, the tool with its hooks, OnToolResult.   *)

InFlight(c) ==
  tool[c] \in {"before", "storing", "touching", "running", "ran"}

Startable(c) ==
  /\ tool[c] = "called"
  /\ \/ stream = "finished"
     \/ stream = "open" /\ Eager
  /\ \A d \in Calls \ {c} : InFlight(d) => c \in Parallel /\ d \in Parallel

UsageAtStart == pendingUsage

ToolStart(c) ==
  /\ Startable(c)
  /\ tool' = [tool EXCEPT ![c] = "before"]
  /\ usageArg' = [usageArg EXCEPT ![c] = UsageAtStart]
  /\ early' = (early \/ stream = "open")
  /\ UNCHANGED <<storeVars, turns, step, stream, bufferVars, appendVars,
                 modelVars, lazyVars>>

MessageIsStored == currentID # NoMessage

ToolFindsMessage(c) ==
  /\ tool[c] = "before"
  /\ GuardOpen
  /\ MessageIsStored
  /\ tool' = [tool EXCEPT ![c] = "touching"]
  /\ UNCHANGED <<storeVars, turns, step, stream, bufferVars, appendVars,
                 usageArg, modelVars, lazyVars, early>>

ToolEntersAppend(c) ==
  /\ tool[c] = "before"
  /\ Enters(c, usageArg[c])
  /\ tool' = [tool EXCEPT ![c] = "storing"]
  /\ UNCHANGED <<storeVars, turns, step, stream, bufferVars, currentID,
                 final, usageArg, modelVars, lazyVars, early>>

ToolStoresAssistant(c) ==
  /\ tool[c] = "storing"
  /\ \/ /\ StoresAssistant(c)
        /\ tool' = [tool EXCEPT ![c] = "touching"]
     \/ /\ StoreAssistantFails
        /\ tool' = [tool EXCEPT ![c] = "broken"]
  /\ UNCHANGED <<turns, step, stream, bufferVars, usageArg, modelVars,
                 lazyVars, early>>

(* beforeRun touches the paths of the last message's calls, Run its own.   *)
ToolTouches(c) ==
  /\ tool[c] = "touching"
  /\ Touches(log[final].calls \cup {c})
  /\ tool' = [tool EXCEPT ![c] = "running"]
  /\ UNCHANGED <<storeVars, turns, step, stream, bufferVars, appendVars,
                 usageArg, modelVars, early>>

(* Hook denial, result, error and panic all come back as a response.       *)
ToolReturns(c) ==
  /\ tool[c] = "running"
  /\ tool' = [tool EXCEPT ![c] = "ran"]
  /\ UNCHANGED <<storeVars, turns, step, stream, bufferVars, appendVars,
                 usageArg, modelVars, lazyVars, early>>

OnToolResult(c) ==
  /\ tool[c] = "ran"
  /\ \/ /\ log' = Append(log, ToolMessage(c, FALSE))
        /\ tool' = [tool EXCEPT ![c] = "over"]
     \/ /\ tool' = [tool EXCEPT ![c] = "broken"]
        /\ UNCHANGED log
  /\ UNCHANGED <<billed, turns, step, stream, bufferVars, appendVars,
                 usageArg, modelVars, lazyVars, early>>

-----------------------------------------------------------------------------
(* The end of a step.                                                      *)

AllAnswered == \A c \in calls : tool[c] = "over"

(* OnStepFinish without tool calls: the step's message and its own usage.  *)
FinishEntersAppend ==
  /\ stream = "finished"
  /\ calls = {}
  /\ Enters(StreamThread, step)
  /\ stream' = "storing"
  /\ UNCHANGED <<storeVars, turns, step, bufferVars, currentID, final,
                 toolVars, modelVars, lazyVars, early>>

FinishStoresAssistant ==
  /\ stream = "storing"
  /\ \/ /\ AppendMessage(StreamThread)
        /\ EndTurn
     \/ /\ StoreAssistantFails
        /\ stream' = "failed"
        /\ UNCHANGED <<bufferVars, toolVars, early>>
  /\ UNCHANGED <<turns, step, modelVars, lazyVars>>

(* OnStepFinish with tool calls: the buffers and currentID are reset; the  *)
(* usage kept by OnStreamFinish and the last message are not.  Its own     *)
(* Touch is left out: the message's paths are those the tools have touched *)
(* by then, and a directory that has been seen is not looked at again.     *)
ResetForgotten == currentID                         \* mutant
CurrentIDAfterStep == NoMessage

FinishWithCalls ==
  /\ stream = "finished"
  /\ calls # {}
  /\ AllAnswered
  /\ step' = step + 1
  /\ stream' = "open"
  /\ text' = 0
  /\ calls' = {}
  /\ currentID' = CurrentIDAfterStep
  /\ early' = FALSE
  /\ PrepareStep
  /\ UNCHANGED <<storeVars, turns, pendingUsage, final, appending, snapshot,
                 toolVars, modelVars>>

(* Stream returns an error: of the provider, of a callback (a tool that    *)
(* could not store), or of a cancelled context.                            *)
HasPartial == text > 0 \/ calls # {}

StreamFails ==
  /\ stream \in {"open", "finished"}
  /\ \A c \in Calls : ~InFlight(c)
  /\ \/ HasPartial /\ stream' = "failed" /\ UNCHANGED <<localVars, tool>>
     \/ ~HasPartial /\ EndTurn
  /\ UNCHANGED <<storeVars, turns, step, modelVars, lazyVars>>

(* appendSyntheticToolResults goes over the calls of the last message.     *)
BeginSynthetic(x) ==
  /\ stream' = "synthesise"
  /\ snapshot' = [snapshot EXCEPT ![StreamThread] =
                    [Nothing EXCEPT !.calls = x]]

FailureFindsMessage ==
  /\ stream = "failed"
  /\ GuardOpen
  /\ currentID # NoMessage
  /\ BeginSynthetic(log[final].calls)
  /\ UNCHANGED <<storeVars, turns, step, bufferVars, currentID, final,
                 appending, toolVars, modelVars, lazyVars, early>>

FailureEntersAppend ==
  /\ stream = "failed"
  /\ Enters(StreamThread, pendingUsage)
  /\ stream' = "failstoring"
  /\ UNCHANGED <<storeVars, turns, step, bufferVars, currentID, final,
                 toolVars, modelVars, lazyVars, early>>

FailureStoresAssistant ==
  /\ stream = "failstoring"
  /\ \/ /\ AppendMessage(StreamThread)
        /\ currentID' = Len(log) + 1 /\ final' = Len(log) + 1
        /\ appending' = FALSE
        /\ BeginSynthetic(snapshot[StreamThread].calls)
        /\ UNCHANGED <<bufferVars, toolVars, early>>
     \/ EndTurn /\ UNCHANGED storeVars
  /\ UNCHANGED <<turns, step, modelVars, lazyVars>>

AppendSyntheticToolResult ==
  /\ stream = "synthesise"
  /\ \E c \in snapshot[StreamThread].calls :
       /\ log' = Append(log, ToolMessage(c, TRUE))
       /\ snapshot' = [snapshot EXCEPT ![StreamThread].calls = @ \ {c}]
  /\ UNCHANGED <<billed, turns, step, stream, bufferVars, currentID, final,
                 appending, toolVars, modelVars, lazyVars, early>>

(* All of them are stored, or storing one failed.                          *)
SyntheticEnds ==
  /\ stream = "synthesise"
  /\ EndTurn
  /\ UNCHANGED <<storeVars, turns, step, modelVars, lazyVars>>

-----------------------------------------------------------------------------
ToolStep(c) ==
  \/ ToolStart(c)
  \/ ToolFindsMessage(c)
  \/ ToolEntersAppend(c)
  \/ ToolStoresAssistant(c)
  \/ ToolTouches(c)
  \/ ToolReturns(c)
  \/ OnToolResult(c)

FinishStep ==
  \/ FinishEntersAppend
  \/ FinishStoresAssistant
  \/ FinishWithCalls
  \/ FailureFindsMessage
  \/ FailureEntersAppend
  \/ FailureStoresAssistant
  \/ AppendSyntheticToolResult

Next ==
  \/ StartTurn
  \/ Crash
  \/ \E h \in Handles : SetModel(h)
  \/ OnTextDelta
  \/ \E c \in Calls : OnToolInputEnd(c) \/ OnToolCall(c)
  \/ OnStreamFinish
  \/ \E c \in Calls : ToolStep(c)
  \/ FinishStep
  \/ StreamFails
  \/ SyntheticEnds
  \/ Annotate

Spec == Init /\ [][Next]_vars

(* Fairness: every goroutine of the turn runs, tools return, the provider  *)
(* finishes its stream or fails, and Fantasy reports a failure it got.     *)
Fairness ==
  /\ \A c \in Calls : WF_vars(ToolStep(c))
  /\ WF_vars(\E c \in Calls : tool[c] = "arriving" /\ OnToolCall(c))
  /\ WF_vars(OnStreamFinish)
  /\ WF_vars(FinishStep)
  /\ WF_vars(SyntheticEnds)
  /\ WF_vars((\E c \in Calls : tool[c] = "broken") /\ StreamFails)

FairSpec == Spec /\ Fairness

-----------------------------------------------------------------------------
(* What the next request sends to the model (toFantasyMessages): results   *)
(* of unknown calls are dropped, and an assistant message whose calls have *)
(* no stored result is followed by synthetic ones.                         *)

CallsIn(msgs) ==
  UNION {msgs[i].calls : i \in {j \in DOMAIN msgs : msgs[j].role = "assistant"}}
ResultsIn(msgs) ==
  {msgs[i].call : i \in {j \in DOMAIN msgs : msgs[j].role = "tool"}}

AssistantAlone(m, msgs) == <<m>>                    \* mutant
WithSyntheticResults(m, msgs) ==
  <<m>> \o SetToSeq({ToolMessage(c, TRUE) : c \in m.calls \ ResultsIn(msgs)})

ToFantasyMessages(msgs) ==
  FlattenSeq([i \in DOMAIN msgs |->
    CASE msgs[i].role = "assistant" -> WithSyntheticResults(msgs[i], msgs)
      [] msgs[i].role = "tool" /\ msgs[i].call \notin CallsIn(msgs) -> <<>>
      [] OTHER -> <<msgs[i]>>])

-----------------------------------------------------------------------------
AssistantsOf(k) ==
  {i \in DOMAIN log : log[i].role = "assistant" /\ log[i].step = k}

(* The types of the state; the usage kept for the failure path is that of  *)
(* a step already begun.                                                   *)
TypeOK ==
  /\ \A i \in DOMAIN log :
       \/ log[i] \in {UserMessage, ContextMessage}
       \/ log[i] \in [role : {"assistant"}, step : 1..MaxSteps,
                      text : 0..MaxText, calls : SUBSET Calls,
                      pricedBy : Handles, turnOf : Handles,
                      usage : 0..MaxSteps]
       \/ log[i] \in [role : {"tool"}, call : Calls, synthetic : BOOLEAN]
  /\ billed \in [1..MaxSteps -> Nat]
  /\ turns \in 0..MaxTurns
  /\ step \in 0..MaxSteps
  /\ stream \in Streams
  /\ text \in 0..MaxText
  /\ calls \subseteq Calls
  /\ pendingUsage \in 0..step
  /\ currentID \in (1..Len(log)) \cup {NoMessage}
  /\ final \in 0..Len(log)
  /\ appending \in BOOLEAN
  /\ snapshot \in [Appenders -> [text : 0..MaxText, calls : SUBSET Calls,
                                 usage : 0..MaxSteps]]
  /\ tool \in [Calls -> Tools]
  /\ usageArg \in [Calls -> 0..MaxSteps]
  /\ {handle, turnHandle} \subseteq Handles
  /\ seen \subseteq Paths /\ pendingLazy \subseteq seen
  /\ announced \subseteq seen
  /\ early \in BOOLEAN

(* A step stores one assistant message at most, however many tools reach   *)
(* appendAssistant together and whether or not an earlier attempt failed;  *)
(* and no tool runs, nor is a result stored, before it is in the store.    *)
OneAssistantPerStep ==
  /\ \A i, j \in DOMAIN log :
       log[i].role = "assistant" /\ log[j].role = "assistant"
         /\ log[i].step = log[j].step => i = j
  /\ \A c \in Calls :
       tool[c] \in {"running", "ran"} => AssistantsOf(step) # {}

(* When no tool of a step has started before its stream ended, a step that *)
(* goes on to the next has stored all its text and calls in one message,   *)
(* and has recorded its usage exactly once.                                *)
NothingDropped ==
  [][FinishWithCalls /\ ~early =>
       /\ \E i \in AssistantsOf(step) :
            log[i].text = text /\ log[i].calls = calls
       /\ billed[step] = 1]_vars

(* Whatever a failure, a cancellation or a crash left in the store, the    *)
(* conversation sent to the model is well formed: every call is followed   *)
(* by a result, every result follows its call, and between the two there   *)
(* are only results (and what the UI adds of its own, see NothingBetween). *)
RepliesAmong(between) ==
  LET msgs == ToFantasyMessages(log)
      Calling(i, c) == msgs[i].role = "assistant" /\ c \in msgs[i].calls
      Answering(i, c) == msgs[i].role = "tool" /\ msgs[i].call = c
      Joined(i, j) == \A k \in (i + 1)..(j - 1) : msgs[k].role \in between
  IN  \A i \in DOMAIN msgs : \A c \in Calls :
        /\ Calling(i, c) =>
             \E j \in (i + 1)..Len(msgs) : Answering(j, c) /\ Joined(i, j)
        /\ Answering(i, c) =>
             \E j \in 1..(i - 1) : Calling(j, c) /\ Joined(j, i)

ReplayIsWellFormed == RepliesAmong({"tool", "system"})

(* The UI's row is "a non-intrusive annotation" (app_bus_events.go); but   *)
(* it is replayed as a message of the user's (toFantasyRole), and may be   *)
(* stored between a call and its result.                                   *)
NothingBetween == RepliesAmong({"tool"})

(* "Not safe for concurrent use -- callers must serialise access (the      *)
(* agent loop already serialises per session)" (the comment of             *)
(* LazyTracker): no goroutine is in Touch while another marks a directory. *)
TouchIsSerialised ==
  \A c, d \in Calls :
    tool[c] = "arriving" /\ c \in Paths \ seen => tool[d] # "touching"

(* Every turn ends, without its tools and its stream waiting for each      *)
(* other's append for ever.                                                *)
TurnEnds == stream # "idle" ~> stream = "idle"

(* "the agent executes them one at a time" (the package comment).          *)
SequentialTools ==
  \A c, d \in Calls : tool[c] = "running" /\ tool[d] = "running" => c = d

(* The usage of a step is recorded once ("Do not record the same step      *)
(* again here", OnStepFinish).                                             *)
BilledAtMostOnce == \A k \in 1..MaxSteps : billed[k] <= 1

(* A synthetic result, whose text is "tool call was interrupted and did    *)
(* not produce a result", is stored for such calls only.                   *)
SyntheticMeansUnanswered ==
  \A i, j \in DOMAIN log :
    log[i].role = "tool" /\ log[j].role = "tool" /\ log[i].call = log[j].call
      => log[i].synthetic = log[j].synthetic

(* The turn's accounting uses the handle frozen when the turn began.       *)
PricedByTurnHandle ==
  \A i \in DOMAIN log :
    log[i].role = "assistant" => log[i].pricedBy = log[i].turnOf
=============================================================================
