------------------------------ MODULE TurnProofs ------------------------------
(***************************************************************************)
(* Proofs about Turn, for any number of calls, texts, steps and turns, any *)
(* set of parallel tools, and executors that start tools early or late.    *)
(*                                                                         *)
(* TurnInv is inductive.  One goroutine at a time is about to store the    *)
(* step's assistant message, and none once it is stored (AppendInv); a     *)
(* tool past beforeRun has found it (ToolInv, MessageInv); and what an     *)
(* appender holds, once the stream of a step no tool of which has started  *)
(* early is over, is all that the step streamed (KeptInv).                 *)
(*                                                                         *)
(* ReplayInv adds what the stored rows are to each other: a call is in one *)
(* message, its results are below it, and in between are only results and  *)
(* the UI's rows (PairsInv).  That is enough for the conversation that is  *)
(* sent next to be well formed, wherever a turn was cut off (ReplayPairs). *)
(***************************************************************************)
EXTENDS Turn, SeqLemmas, FiniteSetTheorems, TLAPS

(* The rows of a session.                                                  *)
AssistantMessages ==
  [role : {"assistant"}, step : 1..MaxSteps, text : 0..MaxText,
   calls : SUBSET Calls, pricedBy : Handles, turnOf : Handles,
   usage : 0..MaxSteps]
ToolMessages == [role : {"tool"}, call : Calls, synthetic : BOOLEAN]
Messages == {UserMessage, ContextMessage} \cup AssistantMessages \cup ToolMessages
LogType == log \in Seq(Messages)

(* appendAssistant has been entered and has not returned.                  *)
Appending(c) == tool[c] = "storing"
StreamAppends == stream \in {"storing", "failstoring"}

AppendInv ==
  /\ \A c, d \in Calls : Appending(c) /\ Appending(d) => c = d
  /\ \A c \in Calls : Appending(c) => ~StreamAppends /\ appending /\ currentID = NoMessage
  /\ StreamAppends => appending /\ currentID = NoMessage

ToolInv ==
  /\ \A c \in Calls \ calls : tool[c] \in {"idle", "over"}
  /\ \A c \in calls : tool[c] # "idle"
  /\ \A c \in calls :
       tool[c] \in {"touching", "running", "ran", "over"} => currentID # NoMessage
  /\ stream = "idle" => calls = {} /\ currentID = NoMessage
  /\ stream # "idle" => step > 0
  /\ calls # {} => step < MaxSteps

(* The assistant message at an index of the log is the step's.             *)
IsMessageOf(i, k) ==
  i \in DOMAIN log /\ log[i].role = "assistant" /\ log[i].step = k

MessageInv ==
  /\ \A i \in DOMAIN log : log[i].role = "assistant" => log[i].step \in 1..step
  /\ \A i, j \in DOMAIN log : \A k \in 1..step :
       IsMessageOf(i, k) /\ IsMessageOf(j, k) => i = j
  /\ stream # "idle" /\ currentID = NoMessage =>
       \A i \in DOMAIN log : ~IsMessageOf(i, step)
  /\ currentID # NoMessage => final = currentID /\ IsMessageOf(currentID, step)

(* A step's usage goes to recordUsage with its message.                    *)
BilledInv ==
  /\ \A k \in 1..MaxSteps : k > step => billed[k] = 0
  /\ stream # "idle" /\ currentID = NoMessage => billed[step] = 0
  /\ \A a \in Appenders : snapshot[a].usage \in 0..step
  /\ \A c \in Calls : usageArg[c] \in 0..step

KeptInv ==
  /\ stream = "finished" => pendingUsage = step
  /\ ~early /\ stream = "open" =>
       /\ currentID = NoMessage
       /\ \A c \in calls : tool[c] \in {"arriving", "called"}
  /\ ~early /\ stream = "finished" =>
       /\ \A c \in calls : tool[c] = "before" => usageArg[c] = step
       /\ \A c \in calls : Appending(c) => snapshot[c] = Buffered(step)
       /\ currentID # NoMessage =>
            /\ log[currentID].text = text /\ log[currentID].calls = calls
            /\ billed[step] = 1

TurnInv ==
  TypeOK /\ LogType /\ AppendInv /\ ToolInv /\ MessageInv /\ BilledInv /\ KeptInv

-----------------------------------------------------------------------------
USE DEF bufferVars, appendVars, toolVars, modelVars, lazyVars, storeVars,
        localVars

(* What a row is, by its role.                                             *)
LEMMA Roles ==
  /\ UserMessage \in Messages /\ UserMessage.role # "assistant"
  /\ ContextMessage \in Messages /\ ContextMessage.role # "assistant"
  /\ \A c \in Calls : \A b \in BOOLEAN :
       ToolMessage(c, b) \in Messages /\ ToolMessage(c, b).role # "assistant"
  /\ \A m \in Messages : m.role = "assistant" => m \in AssistantMessages
<1>1. UserMessage.role = "user" /\ ContextMessage.role = "system"
  BY DEF UserMessage, ContextMessage
<1>2. \A c \in Calls : \A b \in BOOLEAN :
        ToolMessage(c, b) \in ToolMessages /\ ToolMessage(c, b).role = "tool"
  BY DEF ToolMessage, ToolMessages
<1>3. \A m \in ToolMessages : m.role = "tool"
  BY DEF ToolMessages
<1> QED
  BY <1>1, <1>2, <1>3 DEF Messages

(* The steps of Next, one by one.                                          *)
LEMMA NextCases ==
  ASSUME [Next]_vars
  PROVE  \/ StartTurn \/ Crash \/ OnTextDelta \/ OnStreamFinish
         \/ \E h \in Handles : SetModel(h)
         \/ \E c \in Calls : OnToolInputEnd(c) \/ OnToolCall(c) \/ ToolStep(c)
         \/ FinishStep \/ StreamFails \/ SyntheticEnds \/ Annotate
         \/ UNCHANGED vars
BY DEF Next

-----------------------------------------------------------------------------
(* Types: first what only the stream, the executor and the user change.    *)
ControlType ==
  /\ turns \in 0..MaxTurns
  /\ step \in 0..MaxSteps
  /\ stream \in Streams
  /\ text \in 0..MaxText
  /\ calls \subseteq Calls
  /\ pendingUsage \in 0..step
  /\ early \in BOOLEAN
  /\ handle \in Handles /\ turnHandle \in Handles
ToolType == tool \in [Calls -> Tools] /\ usageArg \in [Calls -> 0..MaxSteps]
Snapshots == [text : 0..MaxText, calls : SUBSET Calls, usage : 0..MaxSteps]
AppendType ==
  /\ currentID \in (1..Len(log)) \cup {NoMessage}
  /\ final \in 0..Len(log)
  /\ appending \in BOOLEAN
  /\ snapshot \in [Appenders -> Snapshots]
LazyType ==
  /\ seen \subseteq Paths
  /\ pendingLazy \subseteq seen
  /\ announced \subseteq seen
BilledType == billed \in [1..MaxSteps -> Nat]

(* The parts together say what TypeOK says.                                *)
LEMMA TypeParts ==
  LogType => (TypeOK <=> /\ ControlType /\ ToolType /\ AppendType /\ LazyType
                         /\ BilledType)
<1> SUFFICES ASSUME LogType
             PROVE  TypeOK <=> /\ ControlType /\ ToolType /\ AppendType
                               /\ LazyType /\ BilledType
  OBVIOUS
<1>1. \A i \in DOMAIN log : log[i] \in Messages
  BY DEF LogType
<1>2. \A i \in DOMAIN log :
        \/ log[i] \in {UserMessage, ContextMessage}
        \/ log[i] \in AssistantMessages
        \/ log[i] \in ToolMessages
  BY <1>1 DEF Messages
<1> QED
  BY <1>2 DEF TypeOK, ControlType, ToolType, AppendType, LazyType, BilledType,
              Snapshots, AssistantMessages, ToolMessages

(* The buffers, taken as a whole, are a snapshot.                          *)
LEMMA BufferedType ==
  ASSUME ControlType
  PROVE  /\ \A u \in 0..MaxSteps : Buffered(u) \in Snapshots
         /\ Nothing \in Snapshots
         /\ \A x \in SUBSET Calls : [Nothing EXCEPT !.calls = x] \in Snapshots
<1>1. 0 \in 0..MaxText /\ 0 \in 0..MaxSteps
  BY BoundsAssumption
<1> QED
  BY <1>1 DEF ControlType, Buffered, Nothing, Snapshots

(* What appendAssistant stores is an assistant message of the step.        *)
LEMMA MessageType ==
  ASSUME ControlType, step > 0, NEW x \in Snapshots
  PROVE  /\ AssistantMessage(x) \in Messages
         /\ AssistantMessage(x).role = "assistant"
         /\ AssistantMessage(x).step = step
         /\ AssistantMessage(x).text = x.text
         /\ AssistantMessage(x).calls = x.calls
<1>1. step \in 1..MaxSteps
  BY BoundsAssumption DEF ControlType
<1>2. AssistantMessage(x) \in AssistantMessages
  BY <1>1 DEF AssistantMessage, AssistantMessages, Snapshots, ControlType
<1> QED
  BY <1>2 DEF AssistantMessage, Messages

(* The control's types are kept.                                           *)
LEMMA ControlTypeStep == ControlType /\ ToolInv /\ [Next]_vars => ControlType'
<1> SUFFICES ASSUME ControlType, ToolInv, [Next]_vars PROVE ControlType'
  OBVIOUS
<1>t. /\ 0 \in 0..MaxText
      /\ MaxText \in Nat /\ MaxSteps \in Nat /\ MaxTurns \in Nat
      /\ step \in Nat
  BY BoundsAssumption DEF ControlType
<1> USE DEF ControlType, Streams
<1>e. ASSUME EndTurn, UNCHANGED <<turns, step, handle, turnHandle>>
      PROVE  ControlType'
  <2>1. /\ stream' = "idle" /\ text' = 0 /\ calls' = {} /\ pendingUsage' = 0
        /\ early' = FALSE
    BY <1>e DEF EndTurn
  <2>2. 0 \in 0..step
    BY <1>t
  <2> QED
    BY <1>t, <1>e, <2>1, <2>2
<1>s. ASSUME step' = step + 1, step < MaxSteps, pendingUsage' = pendingUsage
      PROVE  step' \in 0..MaxSteps /\ pendingUsage' \in 0..step'
  <2>1. pendingUsage \in 0..step
    OBVIOUS
  <2> QED
    BY <1>t, <1>s, <2>1
<1>1. CASE StartTurn
  <2>1. /\ step' = step + 1 /\ step < MaxSteps /\ pendingUsage' = pendingUsage
        /\ turns' = turns + 1 /\ turns < MaxTurns
        /\ stream' = "open" /\ turnHandle' = handle
        /\ UNCHANGED <<text, calls, early, handle>>
    BY <1>1 DEF StartTurn
  <2>2. turns' \in 0..MaxTurns
    BY <1>t, <2>1
  <2> QED
    BY <1>s, <2>1, <2>2
<1>2. CASE Crash \/ SyntheticEnds
  BY <1>e, <1>2 DEF Crash, SyntheticEnds
<1>3. CASE OnTextDelta
  BY <1>t, <1>3 DEF OnTextDelta
<1>4. CASE OnStreamFinish
  BY <1>t, <1>4 DEF OnStreamFinish, ReportedUsage
<1>5. ASSUME NEW h \in Handles, SetModel(h) PROVE ControlType'
  BY <1>5 DEF SetModel
<1>6. ASSUME NEW c \in Calls, OnToolInputEnd(c) \/ OnToolCall(c)
      PROVE  ControlType'
  BY <1>6 DEF OnToolInputEnd, OnToolCall
<1>7. ASSUME NEW c \in Calls, ToolStep(c) PROVE ControlType'
  BY <1>7 DEF ToolStep, ToolStart, ToolFindsMessage, ToolEntersAppend,
              ToolStoresAssistant, ToolTouches, ToolReturns, OnToolResult
<1>8. CASE FinishStep
  <2>1. CASE FinishEntersAppend \/ FailureFindsMessage \/ FailureEntersAppend
    BY <2>1 DEF FinishEntersAppend, FailureFindsMessage, FailureEntersAppend,
                BeginSynthetic
  <2>2. CASE FinishStoresAssistant \/ FailureStoresAssistant
    BY <1>e, <2>2 DEF FinishStoresAssistant, FailureStoresAssistant,
                      BeginSynthetic
  <2>3. CASE FinishWithCalls
    <3>1. /\ step' = step + 1 /\ pendingUsage' = pendingUsage
          /\ text' = 0 /\ calls' = {} /\ stream' = "open" /\ early' = FALSE
          /\ UNCHANGED <<turns, handle, turnHandle>>
      BY <2>3 DEF FinishWithCalls
    <3>2. step < MaxSteps
      BY <2>3 DEF FinishWithCalls, ToolInv
    <3> QED
      BY <1>t, <1>s, <3>1, <3>2
  <2>4. CASE AppendSyntheticToolResult
    BY <2>4 DEF AppendSyntheticToolResult
  <2> QED
    BY <1>8, <2>1, <2>2, <2>3, <2>4 DEF FinishStep
<1>9. CASE StreamFails
  BY <1>e, <1>9 DEF StreamFails
<1>10. CASE Annotate \/ UNCHANGED vars
  BY <1>10 DEF Annotate, vars
<1> QED
  BY <1>1, <1>2, <1>3, <1>4, <1>5, <1>6, <1>7, <1>8, <1>9, <1>10, NextCases

-----------------------------------------------------------------------------
(* What a step does to the log, and with it to the step's message: it is   *)
(* stored, or it is not and nothing is billed.                             *)
Storing ==
  /\ \E a \in Appenders : AppendMessage(a)
  /\ stream # "idle" /\ currentID = NoMessage /\ step' = step
  /\ \/ currentID' = Len(log) + 1 /\ final' = Len(log) + 1
     \/ stream' = "idle" /\ currentID' = NoMessage
LogsNoMessage ==
  /\ log' = log \/ \E m \in Messages : m.role # "assistant" /\ log' = Append(log, m)
  /\ billed' = billed
CarriesOn ==
  \/ UNCHANGED <<step, currentID, final>> /\ (stream = "idle" => stream' = "idle")
  \/ step' = step /\ stream' = "idle" /\ currentID' = NoMessage
  \/ step' = step + 1 /\ currentID' = NoMessage

(* Each step is one or the other.                                          *)
LEMMA StoringOrNot ==
  TurnInv /\ [Next]_vars => Storing \/ (LogsNoMessage /\ CarriesOn)
<1> SUFFICES ASSUME TurnInv, [Next]_vars
             PROVE  Storing \/ (LogsNoMessage /\ CarriesOn)
  OBVIOUS
<1>t. /\ AppendInv /\ ToolInv
      /\ snapshot \in [Appenders -> Snapshots]
      /\ StreamThread \in Appenders /\ Calls \subseteq Appenders
  BY DEF TurnInv, TypeOK, Appenders, Snapshots
<1>u. ASSUME log' = log, billed' = billed PROVE LogsNoMessage
  BY <1>u DEF LogsNoMessage
<1>v. ASSUME UNCHANGED <<step, currentID, final>>, stream # "idle" \/ stream' = stream
      PROVE  CarriesOn
  BY <1>v DEF CarriesOn
<1>e. ASSUME EndTurn, step' = step PROVE CarriesOn
  BY <1>e DEF EndTurn, CarriesOn
<1>1. CASE StartTurn
  <2>1. LogsNoMessage
    BY <1>1, Roles DEF StartTurn, LogsNoMessage
  <2>2. stream = "idle" /\ step' = step + 1 /\ currentID' = currentID
    BY <1>1 DEF StartTurn
  <2>3. CarriesOn
    BY <1>t, <2>2 DEF ToolInv, CarriesOn
  <2> QED
    BY <2>1, <2>3
<1>2. CASE Crash \/ SyntheticEnds
  BY <1>e, <1>u, <1>2 DEF Crash, SyntheticEnds
<1>3. CASE \/ OnTextDelta \/ OnStreamFinish
           \/ \E h \in Handles : SetModel(h)
           \/ \E c \in Calls : OnToolInputEnd(c) \/ OnToolCall(c)
           \/ UNCHANGED vars
  <2>1. /\ UNCHANGED <<log, billed, step, currentID, final>>
        /\ stream # "idle" \/ stream' = stream
    BY <1>3 DEF OnTextDelta, SetModel, OnStreamFinish, Streaming,
                OnToolInputEnd, OnToolCall, vars
  <2> QED
    BY <1>u, <1>v, <2>1
<1>4. CASE Annotate
  <2>1. LogsNoMessage
    BY <1>4, Roles DEF Annotate, LogsNoMessage
  <2> QED
    BY <1>4, <1>v, <2>1 DEF Annotate
<1>5. ASSUME NEW c \in Calls, ToolStep(c)
      PROVE  Storing \/ (LogsNoMessage /\ CarriesOn)
  <2>1. CASE ToolStoresAssistant(c)
    <3>1. tool[c] = "storing" /\ step' = step /\ stream' = stream
      BY <2>1 DEF ToolStoresAssistant
    <3>2. currentID = NoMessage /\ c \in calls
      BY <1>t, <3>1 DEF AppendInv, Appending, ToolInv
    <3>3. stream # "idle"
      BY <1>t, <3>2 DEF ToolInv
    <3>4. CASE StoresAssistant(c)
      BY <1>t, <3>1, <3>2, <3>3, <3>4 DEF Storing, StoresAssistant
    <3>5. CASE StoreAssistantFails
      BY <1>u, <1>v, <3>1, <3>5 DEF StoreAssistantFails
    <3> QED
      BY <2>1, <3>4, <3>5 DEF ToolStoresAssistant
  <2>2. CASE OnToolResult(c)
    <3>1. LogsNoMessage
      BY <2>2, Roles DEF OnToolResult, LogsNoMessage
    <3> QED
      BY <1>v, <2>2, <3>1 DEF OnToolResult
  <2>3. CASE \/ ToolStart(c) \/ ToolFindsMessage(c) \/ ToolEntersAppend(c)
             \/ ToolTouches(c) \/ ToolReturns(c)
    <3>1. UNCHANGED <<log, billed, step, currentID, final, stream>>
      BY <2>3 DEF ToolStart, ToolFindsMessage, ToolEntersAppend, ToolTouches,
                  ToolReturns
    <3> QED
      BY <1>u, <1>v, <3>1
  <2> QED
    BY <1>5, <2>1, <2>2, <2>3 DEF ToolStep
<1>6. CASE FinishStep
  <2>1. CASE FinishEntersAppend \/ FailureEntersAppend \/ FailureFindsMessage
    <3>1. UNCHANGED <<log, billed, step, currentID, final>> /\ stream # "idle"
      BY <2>1 DEF FinishEntersAppend, FailureEntersAppend, FailureFindsMessage
    <3> QED
      BY <1>u, <1>v, <3>1
  <2>2. CASE FinishWithCalls
    BY <1>u, <2>2 DEF FinishWithCalls, CurrentIDAfterStep, CarriesOn
  <2>3. CASE AppendSyntheticToolResult
    <3>1. PICK c \in snapshot[StreamThread].calls :
            log' = Append(log, ToolMessage(c, TRUE))
      BY <2>3 DEF AppendSyntheticToolResult
    <3>2. c \in Calls
      BY <1>t, <3>1 DEF Snapshots
    <3>3. LogsNoMessage
      BY <2>3, <3>1, <3>2, Roles DEF AppendSyntheticToolResult, LogsNoMessage
    <3> QED
      BY <1>v, <2>3, <3>3 DEF AppendSyntheticToolResult
  <2>4. CASE FinishStoresAssistant
    <3>1. stream = "storing" /\ step' = step
      BY <2>4 DEF FinishStoresAssistant
    <3>2. currentID = NoMessage
      BY <1>t, <3>1 DEF AppendInv, StreamAppends
    <3>3. CASE AppendMessage(StreamThread) /\ EndTurn
      BY <1>t, <3>1, <3>2, <3>3 DEF Storing, EndTurn
    <3>4. CASE StoreAssistantFails
      BY <1>u, <1>v, <3>1, <3>4 DEF StoreAssistantFails
    <3> QED
      BY <2>4, <3>3, <3>4 DEF FinishStoresAssistant
  <2>5. CASE FailureStoresAssistant
    <3>1. stream = "failstoring" /\ step' = step
      BY <2>5 DEF FailureStoresAssistant
    <3>2. currentID = NoMessage
      BY <1>t, <3>1 DEF AppendInv, StreamAppends
    <3>3. CASE EndTurn /\ UNCHANGED storeVars
      BY <1>u, <1>e, <3>1, <3>3
    <3>4. CASE /\ AppendMessage(StreamThread)
               /\ currentID' = Len(log) + 1 /\ final' = Len(log) + 1
      BY <1>t, <3>1, <3>2, <3>4 DEF Storing
    <3> QED
      BY <2>5, <3>3, <3>4 DEF FailureStoresAssistant
  <2> QED
    BY <1>6, <2>1, <2>2, <2>3, <2>4, <2>5 DEF FinishStep
<1>7. CASE StreamFails
  <2>1. CASE EndTurn
    BY <1>u, <1>e, <1>7, <2>1 DEF StreamFails
  <2>2. CASE ~EndTurn
    BY <1>u, <1>v, <1>7, <2>2 DEF StreamFails
  <2> QED
    BY <2>1, <2>2
<1> QED
  BY <1>1, <1>2, <1>3, <1>4, <1>5, <1>6, <1>7, NextCases

(* The rows stay rows; those that are there do not change.                 *)
LEMMA LogTypeStep ==
  ASSUME TurnInv, [Next]_vars
  PROVE  /\ LogType'
         /\ Len(log) \in Nat /\ Len(log') \in {Len(log), Len(log) + 1}
         /\ DOMAIN log = 1..Len(log) /\ DOMAIN log' = 1..Len(log')
         /\ \A i \in DOMAIN log : log'[i] = log[i]
<1>t. LogType /\ ControlType /\ AppendType /\ ToolInv
  BY TypeParts DEF TurnInv
<1>1. CASE log' = log
  BY <1>t, <1>1 DEF LogType
<1>2. ASSUME NEW m \in Messages, log' = Append(log, m)
      PROVE  /\ LogType'
             /\ Len(log) \in Nat /\ Len(log') \in {Len(log), Len(log) + 1}
             /\ DOMAIN log = 1..Len(log) /\ DOMAIN log' = 1..Len(log')
             /\ \A i \in DOMAIN log : log'[i] = log[i]
  BY <1>t, <1>2, AppendOne DEF LogType
<1>3. CASE Storing
  <2>1. PICK a \in Appenders : AppendMessage(a)
    BY <1>3 DEF Storing
  <2>2. step > 0
    BY <1>t, <1>3 DEF Storing, ToolInv
  <2>3. AssistantMessage(snapshot[a]) \in Messages
    BY <1>t, <2>2, MessageType DEF AppendType
  <2> QED
    BY <1>2, <2>1, <2>3 DEF AppendMessage
<1> QED
  BY <1>1, <1>2, <1>3, StoringOrNot DEF LogsNoMessage

(* What appendAssistant keeps of the turn has its types.                   *)
LEMMA AppendTypeStep ==
  ASSUME TurnInv, LogType, ControlType, ToolType, AppendType, ToolInv,
         MessageInv, [Next]_vars
  PROVE  AppendType'
<1>t. /\ Len(log) \in Nat /\ Len(log') \in {Len(log), Len(log) + 1}
      /\ currentID \in (1..Len(log)) \cup {NoMessage}
      /\ final \in 0..Len(log) /\ appending \in BOOLEAN
      /\ snapshot \in [Appenders -> Snapshots]
  BY LogTypeStep DEF AppendType
<1>g. 1..Len(log) \subseteq 1..Len(log') /\ 0..Len(log) \subseteq 0..Len(log')
  BY <1>t
<1>b. /\ \A u \in 0..MaxSteps : Buffered(u) \in Snapshots
      /\ Nothing \in Snapshots
      /\ \A x \in SUBSET Calls : [Nothing EXCEPT !.calls = x] \in Snapshots
  BY BufferedType
<1>k. ASSUME \/ UNCHANGED <<currentID, final>>
             \/ /\ log' = Append(log, AssistantMessage(snapshot[StreamThread]))
                /\ currentID' = Len(log) + 1 /\ final' = Len(log) + 1
             \/ \E a \in Calls :
                  /\ log' = Append(log, AssistantMessage(snapshot[a]))
                  /\ currentID' = Len(log) + 1 /\ final' = Len(log) + 1
             \/ currentID' = NoMessage /\ final' \in {0, final},
             appending' \in BOOLEAN,
             \/ snapshot' = snapshot
             \/ \E a \in Appenders : \E x \in Snapshots :
                  snapshot' = [snapshot EXCEPT ![a] = x]
             \/ snapshot' = [a \in Appenders |-> Nothing],
             ToolInv, step > 0 \/ log' = log
      PROVE  AppendType'
  <2>1. snapshot' \in [Appenders -> Snapshots]
    BY <1>t, <1>b, <1>k
  <2>2. CASE UNCHANGED <<currentID, final>>
    BY <1>t, <1>g, <1>k, <2>1, <2>2 DEF AppendType
  <2>3. ASSUME NEW a \in Appenders,
               log' = Append(log, AssistantMessage(snapshot[a])),
               currentID' = Len(log) + 1, final' = Len(log) + 1
        PROVE  AppendType'
    <3>1. Len(log') = Len(log) + 1
      BY <2>3 DEF LogType
    <3> QED
      BY <1>t, <1>k, <2>1, <2>3, <3>1 DEF AppendType
  <2>4. CASE currentID' = NoMessage /\ final' \in {0, final}
    BY <1>t, <1>g, <1>k, <2>1, <2>4 DEF AppendType
  <2> QED
    BY <1>k, <2>2, <2>3, <2>4 DEF Appenders
<1>e. ASSUME EndTurn, step > 0 \/ log' = log PROVE AppendType'
  <2>1. /\ currentID' = NoMessage /\ final' = 0 /\ appending' = FALSE
        /\ snapshot' = [a \in Appenders |-> Nothing]
    BY <1>e DEF EndTurn
  <2> QED
    BY <1>e, <1>k, <2>1
<1>p. stream # "idle" => step > 0
  BY DEF ToolInv
<1>1. CASE \/ StartTurn \/ OnTextDelta \/ OnStreamFinish \/ Annotate
           \/ \E h \in Handles : SetModel(h)
           \/ \E c \in Calls : OnToolInputEnd(c) \/ OnToolCall(c)
           \/ UNCHANGED vars
  <2>1. UNCHANGED appendVars
    BY <1>1 DEF StartTurn, OnTextDelta, OnStreamFinish, Annotate, SetModel,
                OnToolInputEnd, OnToolCall, vars
  <2> QED
    BY <1>t, <1>g, <2>1 DEF AppendType
<1>2. CASE Crash \/ SyntheticEnds
  BY <1>e, <1>p, <1>2 DEF Crash, SyntheticEnds
<1>3. ASSUME NEW c \in Calls, ToolStep(c) PROVE AppendType'
  <2>1. CASE \/ ToolStart(c) \/ ToolFindsMessage(c) \/ ToolTouches(c)
             \/ ToolReturns(c) \/ OnToolResult(c)
    <3>1. UNCHANGED appendVars
      BY <2>1 DEF ToolStart, ToolFindsMessage, ToolTouches, ToolReturns,
                  OnToolResult
    <3> QED
      BY <1>t, <1>g, <3>1 DEF AppendType
  <2>2. CASE ToolEntersAppend(c)
    <3>1. /\ UNCHANGED <<currentID, final>> /\ appending' = TRUE
          /\ snapshot' = [snapshot EXCEPT ![c] = Buffered(usageArg[c])]
      BY <2>2 DEF ToolEntersAppend, Enters
    <3>2. Buffered(usageArg[c]) \in Snapshots
      BY <1>b DEF ToolType
    <3> QED
      BY <1>t, <1>g, <3>1, <3>2 DEF AppendType
  <2>3. CASE ToolStoresAssistant(c)
    <3>1. step > 0
      BY <2>3 DEF ToolStoresAssistant, ToolInv
    <3>2. CASE StoresAssistant(c)
      BY <1>k, <1>b, <3>1, <3>2 DEF StoresAssistant, AppendMessage, Appenders
    <3>3. CASE StoreAssistantFails
      BY <1>k, <3>1, <3>3 DEF StoreAssistantFails, AppendingAfterFailure
    <3> QED
      BY <2>3, <3>2, <3>3 DEF ToolStoresAssistant
  <2> QED
    BY <1>3, <2>1, <2>2, <2>3 DEF ToolStep
<1>4. CASE FinishStep
  <2>s. StreamThread \in Appenders
    BY DEF Appenders
  <2>1. CASE FinishEntersAppend \/ FailureEntersAppend
    <3>1. /\ UNCHANGED <<currentID, final>> /\ appending' = TRUE
          /\ \/ snapshot' = [snapshot EXCEPT ![StreamThread] = Buffered(step)]
             \/ snapshot' = [snapshot EXCEPT ![StreamThread] = Buffered(pendingUsage)]
      BY <2>1 DEF FinishEntersAppend, FailureEntersAppend, Enters
    <3>2. step \in 0..MaxSteps /\ pendingUsage \in 0..MaxSteps
      BY BoundsAssumption DEF ControlType
    <3>3. Buffered(step) \in Snapshots /\ Buffered(pendingUsage) \in Snapshots
      BY <1>b, <3>2
    <3> QED
      BY <1>t, <1>g, <2>s, <3>1, <3>3 DEF AppendType
  <2>2. CASE FailureFindsMessage
    <3>1. /\ UNCHANGED <<log, currentID, final, appending>>
          /\ snapshot' = [snapshot EXCEPT ![StreamThread] =
                            [Nothing EXCEPT !.calls = log[final].calls]]
          /\ currentID # NoMessage
      BY <2>2 DEF FailureFindsMessage, BeginSynthetic
    <3>2. final \in DOMAIN log /\ log[final].role = "assistant"
      BY <3>1 DEF MessageInv, IsMessageOf
    <3>3. log[final] \in AssistantMessages
      BY <3>2, Roles DEF LogType
    <3>4. log[final].calls \subseteq Calls
      BY <3>3 DEF AssistantMessages
    <3> QED
      BY <1>t, <1>b, <2>s, <3>1, <3>4 DEF AppendType
  <2>3. CASE FinishWithCalls
    <3>1. /\ UNCHANGED <<log, final, appending, snapshot>>
          /\ currentID' = NoMessage
      BY <2>3 DEF FinishWithCalls, CurrentIDAfterStep
    <3> QED
      BY <1>t, <3>1 DEF AppendType
  <2>4. CASE FinishStoresAssistant
    <3>1. step > 0
      BY <1>p, <2>4 DEF FinishStoresAssistant
    <3>2. CASE EndTurn
      BY <1>e, <3>1, <3>2
    <3>3. CASE StoreAssistantFails
      BY <1>k, <3>1, <3>3 DEF StoreAssistantFails, AppendingAfterFailure
    <3> QED
      BY <2>4, <3>2, <3>3 DEF FinishStoresAssistant
  <2>5. CASE FailureStoresAssistant
    <3>1. step > 0
      BY <1>p, <2>5 DEF FailureStoresAssistant
    <3>2. CASE EndTurn
      BY <1>e, <3>1, <3>2
    <3>3. CASE ~EndTurn
      <4>1. /\ AppendMessage(StreamThread)
            /\ currentID' = Len(log) + 1 /\ final' = Len(log) + 1
            /\ appending' = FALSE
            /\ BeginSynthetic(snapshot[StreamThread].calls)
        BY <2>5, <3>3 DEF FailureStoresAssistant
      <4>2. snapshot[StreamThread].calls \subseteq Calls
        BY <1>t, <2>s DEF Snapshots
      <4>3. [Nothing EXCEPT !.calls = snapshot[StreamThread].calls] \in Snapshots
        BY <1>b, <4>2
      <4> QED
        BY <1>k, <2>s, <3>1, <4>1, <4>3 DEF BeginSynthetic, AppendMessage
    <3> QED
      BY <3>2, <3>3
  <2>6. CASE AppendSyntheticToolResult
    <3>1. PICK c \in snapshot[StreamThread].calls :
            snapshot' = [snapshot EXCEPT ![StreamThread].calls = @ \ {c}]
      BY <2>6 DEF AppendSyntheticToolResult
    <3>2. /\ UNCHANGED <<currentID, final, appending>> /\ step > 0
      BY <1>p, <2>6 DEF AppendSyntheticToolResult
    <3>3. \A y \in Snapshots : [y EXCEPT !.calls = @ \ {c}] \in Snapshots
      BY DEF Snapshots
    <3>4. snapshot' \in [Appenders -> Snapshots]
      <4>1. snapshot' = [snapshot EXCEPT ![StreamThread] =
                           [snapshot[StreamThread] EXCEPT !.calls = @ \ {c}]]
        BY <3>1
      <4>2. snapshot[StreamThread] \in Snapshots
        BY <1>t, <2>s
      <4> QED
        BY <1>t, <2>s, <3>3, <4>1, <4>2
    <3> QED
      BY <1>t, <1>g, <3>2, <3>4 DEF AppendType
  <2> QED
    BY <1>4, <2>1, <2>2, <2>3, <2>4, <2>5, <2>6 DEF FinishStep
<1>5. CASE StreamFails
  <2>1. CASE EndTurn
    BY <1>e, <1>5, <2>1 DEF StreamFails
  <2>2. CASE UNCHANGED localVars
    BY <1>t, <1>g, <2>2 DEF AppendType
  <2> QED
    BY <1>5, <2>1, <2>2 DEF StreamFails
<1> QED
  BY <1>1, <1>2, <1>3, <1>4, <1>5, NextCases

(* A tool's goroutine is somewhere, with a usage.                          *)
LEMMA ToolTypeStep ==
  ASSUME ControlType, ToolType, [Next]_vars
  PROVE  ToolType'
<1>t. /\ 0 \in 0..MaxSteps /\ pendingUsage \in 0..MaxSteps
      /\ tool \in [Calls -> Tools] /\ usageArg \in [Calls -> 0..MaxSteps]
  BY BoundsAssumption DEF ControlType, ToolType
<1>s. {"arriving", "called", "before", "storing", "touching", "running", "ran",
       "over", "broken", "idle"} \subseteq Tools
  BY DEF Tools
<1>k. ASSUME NEW c \in Calls, NEW s \in Tools,
             tool' = [tool EXCEPT ![c] = s],
             \/ usageArg' = usageArg
             \/ usageArg' = [usageArg EXCEPT ![c] = pendingUsage]
      PROVE  ToolType'
  BY <1>t, <1>k DEF ToolType
<1>u. ASSUME UNCHANGED <<tool, usageArg>> PROVE ToolType'
  BY <1>u DEF ToolType
<1>e. ASSUME EndTurn PROVE ToolType'
  BY <1>t, <1>s, <1>e DEF EndTurn, AbandonedTools, ToolType
<1>1. CASE \/ StartTurn \/ OnTextDelta \/ OnStreamFinish \/ Annotate
           \/ \E h \in Handles : SetModel(h)
           \/ UNCHANGED vars
  <2>1. UNCHANGED <<tool, usageArg>>
    BY <1>1 DEF StartTurn, OnTextDelta, OnStreamFinish, Annotate, SetModel, vars
  <2> QED
    BY <1>u, <2>1
<1>2. CASE Crash \/ SyntheticEnds
  BY <1>e, <1>2 DEF Crash, SyntheticEnds
<1>3. ASSUME NEW c \in Calls, OnToolInputEnd(c) \/ OnToolCall(c)
      PROVE  ToolType'
  BY <1>k, <1>s, <1>3 DEF OnToolInputEnd, OnToolCall
<1>4. ASSUME NEW c \in Calls, ToolStep(c) PROVE ToolType'
  <2>1. CASE ToolStart(c)
    BY <1>k, <1>s, <2>1 DEF ToolStart, UsageAtStart
  <2>2. CASE ToolFindsMessage(c) \/ ToolEntersAppend(c)
    BY <1>k, <1>s, <2>2 DEF ToolFindsMessage, ToolEntersAppend
  <2>3. CASE ToolStoresAssistant(c)
    BY <1>k, <1>s, <2>3 DEF ToolStoresAssistant
  <2>4. CASE ToolTouches(c) \/ ToolReturns(c) \/ OnToolResult(c)
    BY <1>k, <1>s, <2>4 DEF ToolTouches, ToolReturns, OnToolResult
  <2> QED
    BY <1>4, <2>1, <2>2, <2>3, <2>4 DEF ToolStep
<1>5. CASE FinishStep
  <2>1. CASE EndTurn
    BY <1>e, <2>1
  <2>2. CASE UNCHANGED <<tool, usageArg>>
    BY <1>u, <2>2
  <2> QED
    BY <1>5, <2>1, <2>2 DEF FinishStep, FinishEntersAppend,
       FinishStoresAssistant, FinishWithCalls, FailureFindsMessage,
       FailureEntersAppend, FailureStoresAssistant, AppendSyntheticToolResult
<1>6. CASE StreamFails
  BY <1>e, <1>u, <1>6 DEF StreamFails
<1> QED
  BY <1>1, <1>2, <1>3, <1>4, <1>5, <1>6, NextCases

(* Blocks are kept, and announced, of directories that are seen.           *)
LEMMA LazyTypeStep ==
  ASSUME LazyType, [Next]_vars
  PROVE  LazyType'
<1>t. ASSUME NEW cs, Touches(cs) PROVE LazyType'
  <2>1. PICK found \in Found(cs) :
          /\ seen' = seen \cup found
          /\ announced' = announced \cup found
          /\ pendingLazy' = pendingLazy \cup found
    BY <1>t DEF Touches
  <2>2. found \subseteq Paths
    BY <2>1 DEF Found
  <2> QED
    BY <2>1, <2>2 DEF LazyType
<1>u. ASSUME seen' \in {seen, {}},
             pendingLazy' = {} \/ UNCHANGED <<seen, pendingLazy>>,
             announced' = {}
               \/ (seen' = seen /\ \E x \in SUBSET announced : announced' = x)
      PROVE  LazyType'
  BY <1>u DEF LazyType
<1>v. ASSUME UNCHANGED lazyVars PROVE LazyType'
  BY <1>v DEF LazyType
<1>1. CASE \/ OnTextDelta \/ OnStreamFinish \/ StreamFails \/ SyntheticEnds
           \/ \E h \in Handles : SetModel(h)
           \/ UNCHANGED vars
  <2>1. UNCHANGED lazyVars
    BY <1>1 DEF OnTextDelta, OnStreamFinish, StreamFails, SyntheticEnds,
                SetModel, vars
  <2> QED
    BY <1>v, <2>1
<1>2. CASE StartTurn \/ FinishWithCalls
  <2>1. PrepareStep
    BY <1>2 DEF StartTurn, FinishWithCalls
  <2> QED
    BY <2>1 DEF PrepareStep, LazyType
<1>3. CASE Crash
  BY <1>3 DEF Crash, LazyType
<1>4. CASE Annotate
  <2>1. PICK c \in announced : announced' = announced \ {c}
    BY <1>4 DEF Annotate
  <2> QED
    BY <1>4, <2>1 DEF Annotate, LazyType
<1>5. ASSUME NEW c \in Calls, OnToolInputEnd(c) \/ OnToolCall(c)
      PROVE  LazyType'
  BY <1>t, <1>v, <1>5 DEF OnToolInputEnd, OnToolCall
<1>6. ASSUME NEW c \in Calls, ToolStep(c) PROVE LazyType'
  <2>1. CASE ToolTouches(c)
    BY <1>t, <2>1 DEF ToolTouches
  <2>2. CASE ~ToolTouches(c)
    <3>1. UNCHANGED lazyVars
      BY <1>6, <2>2 DEF ToolStep, ToolStart, ToolFindsMessage,
         ToolEntersAppend, ToolStoresAssistant, ToolReturns, OnToolResult
    <3> QED
      BY <1>v, <3>1
  <2> QED
    BY <2>1, <2>2
<1>7. CASE FinishStep
  <2>1. CASE ~FinishWithCalls
    <3>1. UNCHANGED lazyVars
      BY <1>7, <2>1 DEF FinishStep, FinishEntersAppend, FinishStoresAssistant,
         FailureFindsMessage, FailureEntersAppend, FailureStoresAssistant,
         AppendSyntheticToolResult
    <3> QED
      BY <1>v, <3>1
  <2> QED
    BY <1>2, <2>1
<1> QED
  BY <1>1, <1>2, <1>3, <1>4, <1>5, <1>6, <1>7, NextCases

(* A step's usage is recorded some number of times.                        *)
LEMMA BilledTypeStep ==
  ASSUME TurnInv, BilledType, [Next]_vars
  PROVE  BilledType'
<1>1. ASSUME NEW a \in Appenders, AppendMessage(a) PROVE BilledType'
  BY <1>1 DEF AppendMessage, BilledType
<1>2. CASE billed' = billed
  BY <1>2 DEF BilledType
<1> QED
  BY <1>1, <1>2, StoringOrNot DEF Storing, LogsNoMessage

(* All of it together.                                                     *)
LEMMA TypeStep == TurnInv /\ [Next]_vars => TypeOK' /\ LogType'
<1> SUFFICES ASSUME TurnInv, [Next]_vars PROVE TypeOK' /\ LogType'
  OBVIOUS
<1>1. /\ ControlType /\ ToolType /\ AppendType /\ LazyType /\ BilledType
      /\ LogType /\ ToolInv /\ MessageInv
  BY TypeParts DEF TurnInv
<1>2. LogType'
  BY <1>1, LogTypeStep
<1>3. ControlType' /\ ToolType'
  BY <1>1, ControlTypeStep, ToolTypeStep
<1>4. AppendType'
  BY <1>1, AppendTypeStep
<1>5. LazyType' /\ BilledType'
  BY <1>1, LazyTypeStep, BilledTypeStep
<1>6. (LogType => (TypeOK <=> /\ ControlType /\ ToolType /\ AppendType /\ LazyType
                              /\ BilledType))'
  BY TypeParts, PTL
<1> QED
  BY <1>2, <1>3, <1>4, <1>5, <1>6

-----------------------------------------------------------------------------
(* One goroutine at a time is in appendAssistant.                          *)
LEMMA AppendStep == TurnInv /\ [Next]_vars => AppendInv'
<1> SUFFICES ASSUME TurnInv, [Next]_vars PROVE AppendInv'
  OBVIOUS
<1>t. AppendInv /\ tool \in [Calls -> Tools]
  BY DEF TurnInv, TypeOK
<1>k. ASSUME NEW c \in Calls, NEW s,
             tool' = [tool EXCEPT ![c] = s], s # "storing",
             UNCHANGED <<stream, appending, currentID>>
      PROVE  AppendInv'
  BY <1>t, <1>k DEF AppendInv, Appending, StreamAppends
<1>u. ASSUME tool' = tool, UNCHANGED <<appending, currentID>>,
             stream' \notin {"storing", "failstoring"}
      PROVE  AppendInv'
  BY <1>t, <1>u DEF AppendInv, Appending, StreamAppends
<1>n. ASSUME \A c \in Calls : ~Appending(c)', ~StreamAppends' PROVE AppendInv'
  BY <1>n DEF AppendInv
<1>e. ASSUME EndTurn PROVE AppendInv'
  <2>1. \A c \in Calls : tool'[c] # "storing"
    BY <1>e DEF EndTurn, AbandonedTools
  <2>2. stream' = "idle"
    BY <1>e DEF EndTurn
  <2> QED
    BY <1>n, <2>1, <2>2 DEF Appending, StreamAppends
<1>1. CASE StartTurn
  BY <1>u, <1>1 DEF StartTurn
<1>2. CASE Crash \/ SyntheticEnds
  BY <1>e, <1>2 DEF Crash, SyntheticEnds
<1>3. CASE \/ OnTextDelta \/ Annotate
           \/ \E h \in Handles : SetModel(h)
           \/ UNCHANGED vars
  <2>1. UNCHANGED <<tool, appending, currentID, stream>>
    BY <1>3 DEF OnTextDelta, Annotate, SetModel, vars
  <2> QED
    BY <1>t, <2>1 DEF AppendInv, Appending, StreamAppends
<1>4. CASE OnStreamFinish
  BY <1>u, <1>4 DEF OnStreamFinish
<1>5. ASSUME NEW c \in Calls, OnToolInputEnd(c) \/ OnToolCall(c)
      PROVE  AppendInv'
  BY <1>k, <1>5 DEF OnToolInputEnd, OnToolCall
<1>6. ASSUME NEW c \in Calls, ToolStep(c) PROVE AppendInv'
  <2>1. CASE ToolStart(c) \/ ToolFindsMessage(c)
    BY <1>k, <2>1 DEF ToolStart, ToolFindsMessage
  <2>2. CASE ToolEntersAppend(c)
    <3>1. /\ ~appending /\ currentID = NoMessage
          /\ appending' = TRUE /\ currentID' = currentID /\ stream' = stream
          /\ tool' = [tool EXCEPT ![c] = "storing"]
      BY <2>2 DEF ToolEntersAppend, Enters, GuardOpen
    <3>2. ~StreamAppends /\ \A d \in Calls : tool[d] # "storing"
      BY <1>t, <3>1 DEF AppendInv, Appending
    <3> QED
      BY <1>t, <3>1, <3>2 DEF AppendInv, Appending, StreamAppends
  <2>3. CASE ToolStoresAssistant(c)
    <3>1. /\ tool[c] = "storing" /\ stream' = stream
          /\ \/ tool' = [tool EXCEPT ![c] = "touching"]
             \/ tool' = [tool EXCEPT ![c] = "broken"]
      BY <2>3 DEF ToolStoresAssistant
    <3>2. \A d \in Calls : tool[d] = "storing" => d = c
      BY <1>t, <3>1 DEF AppendInv, Appending
    <3>3. \A d \in Calls : tool'[d] # "storing"
      BY <1>t, <3>1, <3>2
    <3>4. ~StreamAppends
      BY <1>t, <3>1 DEF AppendInv, Appending
    <3> QED
      BY <1>n, <3>1, <3>3, <3>4 DEF Appending, StreamAppends
  <2>4. CASE ToolTouches(c) \/ ToolReturns(c) \/ OnToolResult(c)
    BY <1>k, <2>4 DEF ToolTouches, ToolReturns, OnToolResult
  <2> QED
    BY <1>6, <2>1, <2>2, <2>3, <2>4 DEF ToolStep
<1>7. CASE FinishStep
  <2>1. CASE FinishEntersAppend \/ FailureEntersAppend
    <3>1. /\ ~appending /\ currentID = NoMessage
          /\ appending' = TRUE /\ currentID' = currentID /\ tool' = tool
      BY <2>1 DEF FinishEntersAppend, FailureEntersAppend, Enters, GuardOpen
    <3>2. \A d \in Calls : tool[d] # "storing"
      BY <1>t, <3>1 DEF AppendInv, Appending
    <3> QED
      BY <3>1, <3>2 DEF AppendInv, Appending
  <2>2. CASE FailureFindsMessage
    BY <1>u, <2>2 DEF FailureFindsMessage, BeginSynthetic
  <2>3. CASE AppendSyntheticToolResult
    BY <1>u, <2>3 DEF AppendSyntheticToolResult
  <2>4. CASE FinishWithCalls
    <3>1. /\ stream = "finished" /\ stream' = "open" /\ tool' = tool
          /\ \A c \in calls : tool[c] = "over"
      BY <2>4 DEF FinishWithCalls, AllAnswered
    <3>2. \A c \in Calls : tool[c] # "storing"
      BY <3>1 DEF TurnInv, ToolInv
    <3> QED
      BY <1>n, <3>1, <3>2 DEF Appending, StreamAppends
  <2>5. CASE FinishStoresAssistant \/ FailureStoresAssistant
    <3>1. CASE EndTurn
      BY <1>e, <3>1
    <3>2. CASE ~EndTurn
      <4>1. /\ stream \in {"storing", "failstoring"} /\ tool' = tool
            /\ stream' \in {"failed", "synthesise"}
        BY <2>5, <3>2 DEF FinishStoresAssistant, FailureStoresAssistant,
                          BeginSynthetic
      <4>2. \A c \in Calls : tool[c] # "storing"
        BY <1>t, <4>1 DEF AppendInv, Appending, StreamAppends
      <4> QED
        BY <1>n, <4>1, <4>2 DEF Appending, StreamAppends
    <3> QED
      BY <3>1, <3>2
  <2> QED
    BY <1>7, <2>1, <2>2, <2>3, <2>4, <2>5 DEF FinishStep
<1>8. CASE StreamFails
  <2>1. CASE EndTurn
    BY <1>e, <2>1
  <2>2. CASE ~EndTurn
    BY <1>u, <1>8, <2>2 DEF StreamFails
  <2> QED
    BY <2>1, <2>2
<1> QED
  BY <1>1, <1>2, <1>3, <1>4, <1>5, <1>6, <1>7, <1>8, NextCases

(* A tool past beforeRun has a message; an idle stream has nothing.        *)
LEMMA ToolStepInv == TurnInv /\ [Next]_vars => ToolInv'
<1> SUFFICES ASSUME TurnInv, [Next]_vars PROVE ToolInv'
  OBVIOUS
<1>t. /\ ToolInv /\ tool \in [Calls -> Tools] /\ calls \subseteq Calls
      /\ step \in Nat /\ Len(log) \in Nat
      /\ stream \in Streams
      /\ currentID \in (1..Len(log)) \cup {NoMessage}
  BY BoundsAssumption DEF TurnInv, TypeOK, LogType
<1>m. Len(log) + 1 # NoMessage
  BY <1>t, NoMessageAssumption
<1>u. ASSUME UNCHANGED <<tool, calls, step>>,
             currentID' = currentID \/ currentID' # NoMessage,
             stream # "idle", stream' # "idle"
      PROVE  ToolInv'
  BY <1>t, <1>u DEF ToolInv
<1>k. ASSUME NEW c \in Calls, NEW s, c \in calls, s # "idle",
             s \in {"touching", "running", "ran", "over"} => currentID' # NoMessage,
             tool' = [tool EXCEPT ![c] = s],
             currentID' = currentID \/ currentID' # NoMessage,
             UNCHANGED <<calls, step, stream>>
      PROVE  ToolInv'
  <2>1. stream # "idle"
    BY <1>t, <1>k DEF ToolInv
  <2> QED
    BY <1>t, <1>k, <2>1 DEF ToolInv
<1>e. ASSUME EndTurn, step' = step PROVE ToolInv'
  <2>1. /\ stream' = "idle" /\ calls' = {} /\ currentID' = NoMessage
        /\ \A c \in Calls : tool'[c] \in {"idle", "over"}
    BY <1>e DEF EndTurn, AbandonedTools
  <2> QED
    BY <2>1 DEF ToolInv
<1>1. CASE StartTurn
  <2>1. /\ step' = step + 1 /\ stream = "idle" /\ stream' = "open"
        /\ UNCHANGED <<tool, calls, currentID>>
    BY <1>1 DEF StartTurn
  <2>2. calls = {} /\ step' > 0
    BY <1>t, <2>1 DEF ToolInv
  <2> QED
    BY <1>t, <2>1, <2>2 DEF ToolInv
<1>2. CASE Crash \/ SyntheticEnds
  BY <1>e, <1>2 DEF Crash, SyntheticEnds
<1>3. CASE \/ OnTextDelta \/ Annotate
           \/ \E h \in Handles : SetModel(h)
           \/ UNCHANGED vars
  <2>1. UNCHANGED <<tool, calls, currentID, step, stream>>
    BY <1>3 DEF OnTextDelta, Annotate, SetModel, vars
  <2> QED
    BY <1>t, <2>1 DEF ToolInv
<1>4. CASE OnStreamFinish
  BY <1>u, <1>4 DEF OnStreamFinish, Streaming
<1>5. ASSUME NEW c \in Calls, OnToolInputEnd(c) \/ OnToolCall(c)
      PROVE  ToolInv'
  <2>1. /\ \E s \in {"arriving", "called"} : tool' = [tool EXCEPT ![c] = s]
        /\ calls' = calls \cup {c} /\ UNCHANGED <<step, stream, currentID>>
        /\ tool[c] = "arriving" \/ (stream = "open" /\ step < MaxSteps)
    BY <1>5 DEF OnToolInputEnd, OnToolCall, NewCall, Streaming
  <2>2. tool[c] = "arriving" => c \in calls
    BY <1>t DEF ToolInv
  <2>3. stream # "idle" /\ step < MaxSteps
    BY <1>t, <2>1, <2>2 DEF ToolInv
  <2> QED
    BY <1>t, <2>1, <2>3 DEF ToolInv
<1>6. ASSUME NEW c \in Calls, ToolStep(c) PROVE ToolInv'
  <2>c. tool[c] \notin {"idle", "over"} => c \in calls
    BY <1>t DEF ToolInv
  <2>1. CASE ToolStart(c) \/ ToolFindsMessage(c)
    BY <1>k, <2>c, <2>1 DEF ToolStart, ToolFindsMessage, Startable, MessageIsStored
  <2>2. CASE ToolEntersAppend(c)
    BY <1>k, <2>c, <2>2 DEF ToolEntersAppend, Enters
  <2>3. CASE ToolStoresAssistant(c)
    BY <1>k, <1>m, <2>c, <2>3 DEF ToolStoresAssistant, StoresAssistant,
                                  StoreAssistantFails
  <2>4. CASE ToolTouches(c) \/ ToolReturns(c) \/ OnToolResult(c)
    <3>1. tool[c] \in {"touching", "running", "ran"}
      BY <2>4 DEF ToolTouches, ToolReturns, OnToolResult
    <3>2. c \in calls /\ currentID # NoMessage
      BY <1>t, <2>c, <3>1 DEF ToolInv
    <3> QED
      BY <1>k, <2>4, <3>2 DEF ToolTouches, ToolReturns, OnToolResult
  <2> QED
    BY <1>6, <2>1, <2>2, <2>3, <2>4 DEF ToolStep
<1>7. CASE FinishStep
  <2>1. CASE FinishEntersAppend \/ FailureEntersAppend
    BY <1>u, <2>1 DEF FinishEntersAppend, FailureEntersAppend
  <2>2. CASE FailureFindsMessage \/ AppendSyntheticToolResult
    BY <1>u, <2>2 DEF FailureFindsMessage, AppendSyntheticToolResult,
                      BeginSynthetic
  <2>3. CASE FinishWithCalls
    <3>1. /\ stream = "finished" /\ stream' = "open" /\ tool' = tool
          /\ step' = step + 1 /\ calls' = {}
          /\ \A c \in calls : tool[c] = "over"
      BY <2>3 DEF FinishWithCalls, AllAnswered
    <3>2. step' > 0
      BY <1>t, <3>1
    <3>3. \A c \in Calls : tool'[c] \in {"idle", "over"}
      BY <1>t, <3>1 DEF ToolInv
    <3> QED
      BY <3>1, <3>2, <3>3 DEF ToolInv
  <2>4. CASE FinishStoresAssistant \/ FailureStoresAssistant
    <3>1. CASE EndTurn
      BY <1>e, <2>4, <3>1 DEF FinishStoresAssistant, FailureStoresAssistant
    <3>2. CASE ~EndTurn
      BY <1>u, <1>m, <2>4, <3>2 DEF FinishStoresAssistant,
         FailureStoresAssistant, BeginSynthetic, StoreAssistantFails
    <3> QED
      BY <3>1, <3>2
  <2> QED
    BY <1>7, <2>1, <2>2, <2>3, <2>4 DEF FinishStep
<1>8. CASE StreamFails
  <2>1. CASE EndTurn
    BY <1>e, <1>8, <2>1 DEF StreamFails
  <2>2. CASE ~EndTurn
    BY <1>u, <1>8, <2>2 DEF StreamFails
  <2> QED
    BY <2>1, <2>2
<1> QED
  BY <1>1, <1>2, <1>3, <1>4, <1>5, <1>6, <1>7, <1>8, NextCases

-----------------------------------------------------------------------------
(* The step has at most one message, and currentID is where it is.         *)
LEMMA MessageStep == TurnInv /\ [Next]_vars => MessageInv'
<1> SUFFICES ASSUME TurnInv, [Next]_vars PROVE MessageInv'
  OBVIOUS
<1>t. /\ MessageInv /\ ToolInv /\ LogType /\ ControlType
      /\ snapshot \in [Appenders -> Snapshots]
      /\ step \in Nat /\ Len(log) + 1 # NoMessage
  BY BoundsAssumption, NoMessageAssumption, TypeParts
     DEF TurnInv, LogType, ControlType, AppendType
<1>l. /\ Len(log) \in Nat
      /\ DOMAIN log = 1..Len(log) /\ DOMAIN log' = 1..Len(log')
      /\ Len(log') \in {Len(log), Len(log) + 1}
      /\ \A i \in DOMAIN log : log'[i] = log[i]
  BY LogTypeStep
<1> DEFINE Old(i, k) == i \in DOMAIN log /\ log[i].role = "assistant" /\ log[i].step = k
           New(i, k) == i \in DOMAIN log' /\ log'[i].role = "assistant" /\ log'[i].step = k
<1>o. /\ \A i \in DOMAIN log : log[i].role = "assistant" => log[i].step \in 1..step
      /\ \A i, j \in DOMAIN log : \A k \in 1..step : Old(i, k) /\ Old(j, k) => i = j
      /\ stream # "idle" /\ currentID = NoMessage =>
           \A i \in DOMAIN log : ~Old(i, step)
      /\ currentID # NoMessage => final = currentID /\ Old(currentID, step)
  BY <1>t DEF MessageInv, IsMessageOf
<1>q. ASSUME \A i \in DOMAIN log' : log'[i].role = "assistant" => log'[i].step \in 1..step',
             \A i, j \in DOMAIN log' : \A k \in 1..step' : New(i, k) /\ New(j, k) => i = j,
             stream' # "idle" /\ currentID' = NoMessage =>
               \A i \in DOMAIN log' : ~New(i, step'),
             currentID' # NoMessage => final' = currentID' /\ New(currentID', step')
      PROVE  MessageInv'
  BY <1>q DEF MessageInv, IsMessageOf
<1>1. CASE LogsNoMessage /\ CarriesOn
  <2>1. \A i \in DOMAIN log' : log'[i].role = "assistant" => i \in DOMAIN log
    <3>1. ASSUME NEW m \in Messages, m.role # "assistant", log' = Append(log, m)
          PROVE  \A i \in DOMAIN log' :
                   log'[i].role = "assistant" => i \in DOMAIN log
      BY <1>o, <1>t, <1>l, <3>1, AppendOne DEF LogType
    <3> QED
      BY <1>1, <3>1 DEF LogsNoMessage
  <2>2. \A i, k : New(i, k) <=> Old(i, k)
    <3> SUFFICES ASSUME NEW i, NEW k PROVE New(i, k) <=> Old(i, k)
      OBVIOUS
    <3>1. i \in DOMAIN log => i \in DOMAIN log' /\ log'[i] = log[i]
      <4>1. 1..Len(log) \subseteq 1..Len(log')
        <5>1. Len(log) \in Nat /\ Len(log') \in {Len(log), Len(log) + 1}
          BY <1>l
        <5> QED
          BY <5>1
      <4>2. DOMAIN log \subseteq DOMAIN log'
        BY <1>l, <4>1
      <4>3. \A j \in DOMAIN log : log'[j] = log[j]
        BY <1>l
      <4> QED
        BY <4>2, <4>3
    <3>2. i \in DOMAIN log' /\ log'[i].role = "assistant" => i \in DOMAIN log
      BY <2>1
    <3> QED
      BY <3>1, <3>2
  <2>3. \A i, k : Old(i, k) => k \in 1..step
    BY <1>o, <1>t
  <2>4. step' \in {step, step + 1}
    BY <1>1 DEF CarriesOn
  <2>5. \A i \in DOMAIN log' :
          log'[i].role = "assistant" => log'[i].step \in 1..step'
    <3>1. \A i \in DOMAIN log' : log'[i].role = "assistant" => log'[i].step \in 1..step
      BY <1>o, <1>t, <1>l, <2>1
    <3> QED
      BY <1>o, <1>t, <2>4, <3>1
  <2>6. \A i, j \in DOMAIN log' : \A k \in 1..step' :
          New(i, k) /\ New(j, k) => i = j
    <3> SUFFICES ASSUME NEW i, NEW j, NEW k, Old(i, k), Old(j, k)
                 PROVE  i = j
      BY <2>2
    <3> QED
      BY <1>o, <1>t, <2>3
  <2>7. stream' # "idle" /\ currentID' = NoMessage =>
          \A i \in DOMAIN log' : ~New(i, step')
    <3>1. CASE UNCHANGED <<step, currentID, final>> /\ (stream = "idle" => stream' = "idle")
      BY <1>o, <1>t, <2>2, <3>1
    <3>2. CASE step' = step + 1
      <4>1. ~(step' \in 1..step)
        BY <1>o, <1>t, <3>2
      <4> QED
        BY <2>2, <2>3, <4>1
    <3> QED
      BY <1>1, <3>1, <3>2 DEF CarriesOn
  <2>8. currentID' # NoMessage =>
          final' = currentID' /\ New(currentID', step')
    BY <1>1, <1>o, <1>t, <2>2 DEF CarriesOn
  <2> QED
    BY <1>q, <2>5, <2>6, <2>7, <2>8
<1>2. CASE Storing
  <2>1. PICK a \in Appenders : log' = Append(log, AssistantMessage(snapshot[a]))
    BY <1>2 DEF Storing, AppendMessage
  <2> DEFINE m == AssistantMessage(snapshot[a])
             n == Len(log) + 1
  <2>2. /\ step > 0 /\ step' = step /\ step \in 1..step
        /\ \A i \in DOMAIN log : ~Old(i, step)
    BY <1>2, <1>o, <1>t DEF Storing, ToolInv
  <2>3. m \in Messages /\ m.role = "assistant" /\ m.step = step
    BY <1>o, <1>t, <2>2, MessageType
  <2>4. /\ DOMAIN log' = DOMAIN log \cup {n} /\ n \notin DOMAIN log
        /\ log'[n] = m
    BY <1>o, <1>t, <1>l, <2>1, <2>3, AppendOne DEF LogType
  <2>5. \A i \in DOMAIN log' : log'[i].role = "assistant" => log'[i].step \in 1..step'
    BY <1>o, <1>t, <1>l, <2>2, <2>3, <2>4
  <2>6. \A i, k : New(i, k) <=> Old(i, k) \/ (i = n /\ k = step)
    BY <1>l, <2>3, <2>4
  <2>7. \A i, j \in DOMAIN log' : \A k \in 1..step' :
          New(i, k) /\ New(j, k) => i = j
    BY <1>o, <1>t, <2>2, <2>6
  <2>8. ~(stream' # "idle" /\ currentID' = NoMessage)
    BY <1>2, <1>o, <1>t DEF Storing
  <2>9. currentID' # NoMessage => final' = currentID' /\ New(currentID', step')
    BY <1>2, <1>o, <1>t, <1>l, <2>2, <2>3, <2>4 DEF Storing
  <2> QED
    BY <1>q, <2>5, <2>7, <2>8, <2>9
<1> QED
  BY <1>1, <1>2, StoringOrNot

(* What is billed is the usage of a step that has begun.                   *)
LEMMA BilledStep == TurnInv /\ [Next]_vars => BilledInv'
<1> SUFFICES ASSUME TurnInv, [Next]_vars PROVE BilledInv'
  OBVIOUS
<1>t. /\ BilledInv /\ ToolInv /\ step \in 0..MaxSteps /\ step \in Nat
      /\ MaxSteps \in Nat
      /\ billed \in [1..MaxSteps -> Nat]
      /\ snapshot \in [Appenders -> Snapshots]
      /\ usageArg \in [Calls -> 0..MaxSteps]
      /\ pendingUsage \in 0..step
      /\ StreamThread \in Appenders /\ Calls \subseteq Appenders
      /\ Len(log) + 1 # NoMessage
  BY BoundsAssumption, NoMessageAssumption
     DEF TurnInv, TypeOK, LogType, Snapshots, Appenders
<1>s. step' \in {step, step + 1}
  BY StoringOrNot DEF Storing, CarriesOn
<1>1. /\ \A k \in 1..MaxSteps : k > step' => billed'[k] = 0
      /\ stream' # "idle" /\ currentID' = NoMessage => billed'[step'] = 0
  <2>1. CASE LogsNoMessage /\ CarriesOn
    <3>1. billed' = billed
      BY <2>1 DEF LogsNoMessage
    <3>2. \A k \in 1..MaxSteps : k > step' => k > step
      BY <1>t, <1>s
    <3>3. step' \in 0..MaxSteps
      BY TypeStep DEF TypeOK
    <3>4. CASE step' = step + 1
      <4>1. step' \in 1..MaxSteps /\ step' > step
        BY <1>t, <3>3, <3>4
      <4> QED
        BY <1>t, <3>1, <3>2, <4>1 DEF BilledInv
    <3>5. CASE UNCHANGED <<step, currentID, final>> /\ (stream = "idle" => stream' = "idle")
      BY <1>t, <3>1, <3>2, <3>5 DEF BilledInv
    <3>6. CASE step' = step /\ stream' = "idle"
      BY <1>t, <3>1, <3>2, <3>6 DEF BilledInv
    <3> QED
      BY <2>1, <3>4, <3>5, <3>6 DEF CarriesOn
  <2>2. CASE Storing
    <3>1. PICK a \in Appenders :
            billed' = [k \in 1..MaxSteps |->
                         IF k = snapshot[a].usage THEN billed[k] + 1 ELSE billed[k]]
      BY <2>2 DEF Storing, AppendMessage
    <3>2. snapshot[a].usage \in 0..step /\ step' = step
      BY <1>t, <2>2 DEF BilledInv, Storing
    <3>3. \A k \in 1..MaxSteps : k > step => k # snapshot[a].usage
      BY <1>t, <3>2
    <3>4. ~(stream' # "idle" /\ currentID' = NoMessage)
      BY <1>t, <2>2 DEF Storing
    <3> QED
      BY <1>t, <3>1, <3>2, <3>3, <3>4 DEF BilledInv
  <2> QED
    BY <2>1, <2>2, StoringOrNot
<1>2. \A a \in Appenders : snapshot'[a].usage \in 0..step'
  <2>g. 0..step \subseteq 0..step' /\ 0 \in 0..step' /\ step \in 0..step'
        /\ pendingUsage \in 0..step'
    BY <1>t, <1>s
  <2>u. ASSUME snapshot' = snapshot
        PROVE  \A a \in Appenders : snapshot'[a].usage \in 0..step'
    BY <1>t, <2>g, <2>u DEF BilledInv
  <2>k. ASSUME NEW a \in Appenders, NEW x, snapshot' = [snapshot EXCEPT ![a] = x],
               x.usage \in 0..step'
        PROVE  \A b \in Appenders : snapshot'[b].usage \in 0..step'
    BY <1>t, <2>g, <2>k DEF BilledInv
  <2>n. /\ Nothing.usage \in 0..step'
        /\ \A x : [Nothing EXCEPT !.calls = x].usage \in 0..step'
        /\ \A u : Buffered(u).usage = u
    BY <2>g DEF Nothing, Buffered
  <2>e. ASSUME EndTurn
        PROVE  \A a \in Appenders : snapshot'[a].usage \in 0..step'
    BY <2>e, <2>n DEF EndTurn
  <2>1. CASE \/ StartTurn \/ OnTextDelta \/ OnStreamFinish \/ Annotate
             \/ \E h \in Handles : SetModel(h)
             \/ \E c \in Calls : OnToolInputEnd(c) \/ OnToolCall(c)
             \/ UNCHANGED vars
    <3>1. snapshot' = snapshot
      BY <2>1 DEF StartTurn, OnTextDelta, OnStreamFinish, Annotate, SetModel,
                  OnToolInputEnd, OnToolCall, vars
    <3> QED
      BY <2>u, <3>1
  <2>2. CASE Crash \/ SyntheticEnds
    BY <2>e, <2>2 DEF Crash, SyntheticEnds
  <2>3. CASE StreamFails
    BY <2>e, <2>u, <2>3 DEF StreamFails
  <2>4. ASSUME NEW c \in Calls, ToolStep(c)
        PROVE  \A a \in Appenders : snapshot'[a].usage \in 0..step'
    <3>1. CASE \/ ToolStart(c) \/ ToolFindsMessage(c) \/ ToolTouches(c)
               \/ ToolReturns(c) \/ OnToolResult(c)
      <4>1. snapshot' = snapshot
        BY <3>1 DEF ToolStart, ToolFindsMessage, ToolTouches, ToolReturns,
                    OnToolResult
      <4> QED
        BY <2>u, <4>1
    <3>2. CASE ToolEntersAppend(c)
      <4>1. snapshot' = [snapshot EXCEPT ![c] = Buffered(usageArg[c])]
        BY <3>2 DEF ToolEntersAppend, Enters
      <4>2. usageArg[c] \in 0..step'
        BY <1>t, <2>g DEF BilledInv
      <4> QED
        BY <1>t, <2>k, <2>n, <4>1, <4>2
    <3>3. CASE ToolStoresAssistant(c)
      BY <1>t, <2>k, <2>n, <2>u, <3>3
         DEF ToolStoresAssistant, StoresAssistant, StoreAssistantFails
    <3> QED
      BY <2>4, <3>1, <3>2, <3>3 DEF ToolStep
  <2>5. CASE FinishStep
    <3>1. CASE FinishEntersAppend \/ FailureEntersAppend
      <4>1. PICK u \in {step, pendingUsage} :
              snapshot' = [snapshot EXCEPT ![StreamThread] = Buffered(u)]
        BY <3>1 DEF FinishEntersAppend, FailureEntersAppend, Enters
      <4>2. Buffered(u).usage \in 0..step'
        BY <2>g, <2>n, <4>1
      <4> QED
        BY <1>t, <2>k, <4>1, <4>2
    <3>2. CASE FailureFindsMessage
      BY <1>t, <2>k, <2>n, <3>2 DEF FailureFindsMessage, BeginSynthetic
    <3>3. CASE FinishWithCalls
      BY <2>u, <3>3 DEF FinishWithCalls
    <3>4. CASE AppendSyntheticToolResult
      <4>1. PICK c \in snapshot[StreamThread].calls :
              snapshot' = [snapshot EXCEPT ![StreamThread].calls = @ \ {c}]
        BY <3>4 DEF AppendSyntheticToolResult
      <4>2. snapshot' = [snapshot EXCEPT ![StreamThread] =
                           [snapshot[StreamThread] EXCEPT !.calls = @ \ {c}]]
        BY <4>1
      <4>3. snapshot[StreamThread] \in Snapshots
        BY <1>t
      <4>4. [snapshot[StreamThread] EXCEPT !.calls = @ \ {c}].usage \in 0..step'
        BY <1>t, <2>g, <4>3 DEF Snapshots, BilledInv
      <4> QED
        BY <1>t, <2>k, <4>2, <4>4
    <3>5. CASE FinishStoresAssistant
      BY <2>e, <2>u, <3>5 DEF FinishStoresAssistant, StoreAssistantFails
    <3>6. CASE FailureStoresAssistant
      BY <1>t, <2>e, <2>k, <2>n, <3>6 DEF FailureStoresAssistant, BeginSynthetic
    <3> QED
      BY <2>5, <3>1, <3>2, <3>3, <3>4, <3>5, <3>6 DEF FinishStep
  <2> QED
    BY <2>1, <2>2, <2>3, <2>4, <2>5, NextCases
<1>3. \A c \in Calls : usageArg'[c] \in 0..step'
  <2>g. 0..step \subseteq 0..step' /\ 0 \in 0..step' /\ pendingUsage \in 0..step'
    BY <1>t, <1>s
  <2>1. CASE usageArg' = usageArg
    BY <1>t, <2>g, <2>1 DEF BilledInv
  <2>2. CASE EndTurn
    BY <2>g, <2>2 DEF EndTurn
  <2>3. ASSUME NEW c \in Calls, ToolStart(c)
        PROVE  \A d \in Calls : usageArg'[d] \in 0..step'
    BY <1>t, <2>g, <2>3 DEF ToolStart, UsageAtStart, BilledInv
  <2>4. ASSUME NEW c \in Calls, ToolStep(c)
        PROVE  usageArg' = usageArg \/ ToolStart(c)
    BY <2>4 DEF ToolStep, ToolFindsMessage, ToolEntersAppend,
       ToolStoresAssistant, ToolTouches, ToolReturns, OnToolResult
  <2>5. CASE FinishStep
    <3>1. usageArg' = usageArg \/ EndTurn
      BY <2>5 DEF FinishStep, FinishEntersAppend, FinishStoresAssistant,
         FinishWithCalls, FailureFindsMessage, FailureEntersAppend,
         FailureStoresAssistant, AppendSyntheticToolResult
    <3> QED
      BY <2>1, <2>2, <3>1
  <2>6. CASE \/ StartTurn \/ OnTextDelta \/ OnStreamFinish \/ Annotate
             \/ Crash \/ SyntheticEnds \/ StreamFails
             \/ \E h \in Handles : SetModel(h)
             \/ \E c \in Calls : OnToolInputEnd(c) \/ OnToolCall(c)
             \/ UNCHANGED vars
    <3>1. usageArg' = usageArg \/ EndTurn
      BY <2>6 DEF StartTurn, OnTextDelta, OnStreamFinish, Annotate, Crash,
         SyntheticEnds, StreamFails, SetModel, OnToolInputEnd, OnToolCall, vars
    <3> QED
      BY <2>1, <2>2, <3>1
  <2> QED
    BY <2>1, <2>3, <2>4, <2>5, <2>6, NextCases
<1> QED
  BY <1>1, <1>2, <1>3 DEF BilledInv, Appenders

-----------------------------------------------------------------------------
(* What the step streamed is what is, or is about to be, stored.           *)
LEMMA KeptStep == TurnInv /\ [Next]_vars => KeptInv'
<1> SUFFICES ASSUME TurnInv, [Next]_vars PROVE KeptInv'
  OBVIOUS
<1>t. /\ KeptInv /\ BilledInv /\ ToolInv /\ MessageInv
      /\ tool \in [Calls -> Tools] /\ calls \subseteq Calls
      /\ snapshot \in [Appenders -> Snapshots]
      /\ usageArg \in [Calls -> 0..MaxSteps]
      /\ billed \in [1..MaxSteps -> Nat]
      /\ Calls \subseteq Appenders
      /\ Len(log) + 1 # NoMessage
      /\ early \in BOOLEAN
  BY NoMessageAssumption DEF TurnInv, TypeOK, LogType, Snapshots, Appenders
<1>l. /\ LogType /\ DOMAIN log = 1..Len(log) /\ Len(log) \in Nat
      /\ \A i \in DOMAIN log : log'[i] = log[i]
  BY LogTypeStep DEF TurnInv
<1>i. ASSUME stream' \notin {"open", "finished"} PROVE KeptInv'
  BY <1>i DEF KeptInv
<1>e. ASSUME EndTurn PROVE KeptInv'
  BY <1>e, <1>i DEF EndTurn
<1>u. ASSUME UNCHANGED <<stream, early, pendingUsage, step, text, calls, currentID,
                         tool, usageArg, snapshot, billed>>
      PROVE  KeptInv'
  <2>1. currentID # NoMessage => log'[currentID] = log[currentID]
    BY <1>t, <1>l DEF MessageInv, IsMessageOf
  <2> QED
    BY <1>t, <1>u, <2>1 DEF KeptInv, Appending, Buffered
<1>1. CASE StartTurn
  <2>1. /\ stream = "idle" /\ stream' = "open"
        /\ UNCHANGED <<calls, currentID>>
    BY <1>1 DEF StartTurn
  <2>2. calls' = {} /\ currentID' = NoMessage
    BY <1>t, <2>1 DEF ToolInv
  <2> QED
    BY <2>1, <2>2 DEF KeptInv
<1>2. CASE Crash \/ SyntheticEnds
  BY <1>e, <1>2 DEF Crash, SyntheticEnds
<1>3. CASE \/ Annotate
           \/ \E h \in Handles : SetModel(h)
           \/ UNCHANGED vars
  BY <1>u, <1>3 DEF Annotate, SetModel, vars
<1>4. CASE OnTextDelta
  BY <1>t, <1>4 DEF OnTextDelta, Streaming, KeptInv
<1>5. CASE OnStreamFinish
  <2>1. /\ stream = "open" /\ stream' = "finished" /\ pendingUsage' = step
        /\ UNCHANGED <<step, early, currentID, calls, tool>>
    BY <1>5 DEF OnStreamFinish, Streaming, ReportedUsage
  <2> QED
    BY <1>t, <2>1 DEF KeptInv, Appending
<1>6. ASSUME NEW c \in Calls, OnToolInputEnd(c) \/ OnToolCall(c)
      PROVE  KeptInv'
  <2>1. PICK s \in {"arriving", "called"} :
          /\ tool' = [tool EXCEPT ![c] = s]
          /\ calls' = calls \cup {c}
          /\ UNCHANGED <<stream, early, step, currentID, pendingUsage>>
          /\ tool[c] = "arriving" \/ stream = "open"
    BY <1>6 DEF OnToolInputEnd, OnToolCall, NewCall, Streaming
  <2>2. CASE stream = "open"
    BY <1>t, <2>1, <2>2 DEF KeptInv
  <2>3. CASE stream # "open"
    <3>1. tool[c] = "arriving" /\ c \in calls /\ calls' = calls
      BY <1>t, <2>1, <2>3 DEF ToolInv
    <3>2. /\ tool' = [tool EXCEPT ![c] = "called"]
          /\ UNCHANGED <<usageArg, snapshot, billed, text, log>>
      BY <1>6, <2>3, <3>1 DEF OnToolInputEnd, OnToolCall, NewCall, Streaming
    <3> QED
      BY <1>t, <2>1, <2>3, <3>1, <3>2 DEF KeptInv, Appending, Buffered
  <2> QED
    BY <2>2, <2>3
<1>7. ASSUME NEW c \in Calls, ToolStep(c) PROVE KeptInv'
  <2>c. tool[c] \notin {"idle", "over"} => c \in calls
    BY <1>t DEF ToolInv
  <2>b. ASSUME UNCHANGED <<stream, early, text, calls, step, pendingUsage>>,
               stream = "open" => tool[c] \notin {"arriving", "called"},
               tool[c] \notin {"idle", "over"},
               stream = "finished" /\ ~early =>
                 /\ \A d \in calls : tool'[d] = "before" => usageArg'[d] = step
                 /\ \A d \in calls : tool'[d] = "storing" => snapshot'[d] = Buffered(step)
                 /\ currentID' # NoMessage =>
                      /\ log'[currentID'].text = text /\ log'[currentID'].calls = calls
                      /\ billed'[step] = 1
        PROVE  KeptInv'
    <3>1. ~(stream = "open" /\ ~early)
      BY <1>t, <2>b, <2>c DEF KeptInv
    <3>2. Buffered(step)' = Buffered(step)
      BY <2>b DEF Buffered
    <3>3. \A d \in calls : Appending(d)' <=> tool'[d] = "storing"
      BY DEF Appending
    <3> QED
      BY <1>t, <2>b, <3>1, <3>2, <3>3 DEF KeptInv
  <2>k. /\ stream = "finished" => pendingUsage = step
        /\ stream = "finished" /\ ~early =>
             /\ \A d \in calls : tool[d] = "before" => usageArg[d] = step
             /\ \A d \in calls : tool[d] = "storing" => snapshot[d] = Buffered(step)
             /\ currentID # NoMessage =>
                  /\ log[currentID].text = text /\ log[currentID].calls = calls
                  /\ billed[step] = 1
    BY <1>t DEF KeptInv, Appending
  <2>1. CASE ToolStart(c)
    <3>1. /\ tool[c] = "called" /\ stream \in {"open", "finished"}
          /\ early' = (early \/ stream = "open")
          /\ tool' = [tool EXCEPT ![c] = "before"]
          /\ usageArg' = [usageArg EXCEPT ![c] = pendingUsage]
          /\ UNCHANGED <<stream, text, calls, step, pendingUsage, currentID,
                         snapshot, log, billed>>
      BY <2>1 DEF ToolStart, Startable, UsageAtStart
    <3>2. CASE stream = "open"
      BY <1>t, <3>1, <3>2 DEF KeptInv
    <3>3. CASE stream = "finished"
      <4>1. early' = early
        BY <1>t, <3>1, <3>3
      <4> QED
        BY <1>t, <2>b, <2>k, <3>1, <3>3, <4>1
    <3> QED
      BY <3>1, <3>2, <3>3
  <2>2. CASE ToolFindsMessage(c)
    <3>1. /\ tool[c] = "before" /\ tool' = [tool EXCEPT ![c] = "touching"]
          /\ UNCHANGED <<stream, early, text, calls, step, pendingUsage,
                         currentID, snapshot, usageArg, log, billed>>
      BY <2>2 DEF ToolFindsMessage
    <3> QED
      BY <1>t, <2>b, <2>k, <3>1
  <2>3. CASE ToolEntersAppend(c)
    <3>1. /\ tool[c] = "before" /\ tool' = [tool EXCEPT ![c] = "storing"]
          /\ snapshot' = [snapshot EXCEPT ![c] = Buffered(usageArg[c])]
          /\ UNCHANGED <<stream, early, text, calls, step, pendingUsage,
                         currentID, usageArg, log, billed>>
      BY <2>3 DEF ToolEntersAppend, Enters
    <3> QED
      BY <1>t, <2>b, <2>c, <2>k, <3>1
  <2>4. CASE ToolStoresAssistant(c)
    <3>1. /\ tool[c] = "storing" /\ c \in calls
          /\ UNCHANGED <<stream, early, text, calls, step, pendingUsage, usageArg>>
      BY <2>4, <2>c DEF ToolStoresAssistant
    <3>2. CASE StoreAssistantFails /\ tool' = [tool EXCEPT ![c] = "broken"]
      <4>1. UNCHANGED <<currentID, snapshot, log, billed>>
        BY <3>2 DEF StoreAssistantFails
      <4> QED
        BY <1>t, <2>b, <2>k, <3>1, <3>2, <4>1
    <3>3. CASE StoresAssistant(c) /\ tool' = [tool EXCEPT ![c] = "touching"]
      <4>1. /\ log' = Append(log, AssistantMessage(snapshot[c]))
            /\ billed' = [k \in 1..MaxSteps |->
                 IF k = snapshot[c].usage THEN billed[k] + 1 ELSE billed[k]]
            /\ snapshot' = [snapshot EXCEPT ![c] = Nothing]
            /\ currentID' = Len(log) + 1
        BY <3>3 DEF StoresAssistant, AppendMessage
      <4>2. /\ currentID = NoMessage /\ stream # "idle"
            /\ \A d \in Calls : tool[d] = "storing" => d = c
        BY <1>t, <3>1 DEF TurnInv, AppendInv, Appending, ToolInv
      <4>3. step > 0 /\ billed[step] = 0 /\ step \in 1..MaxSteps
        BY <1>t, <4>2, BoundsAssumption DEF ToolInv, BilledInv, TurnInv, TypeOK
      <4>4. /\ AssistantMessage(snapshot[c]) \in Messages
            /\ AssistantMessage(snapshot[c]).text = snapshot[c].text
            /\ AssistantMessage(snapshot[c]).calls = snapshot[c].calls
        BY <1>t, <1>l, <4>3, MessageType, TypeParts DEF TurnInv
      <4>5. log'[currentID'] = AssistantMessage(snapshot[c])
        BY <1>l, <4>1, <4>4, AppendOne DEF LogType
      <4>6. ASSUME stream = "finished", ~early
            PROVE  /\ log'[currentID'].text = text /\ log'[currentID'].calls = calls
                   /\ billed'[step] = 1
        <5>1. snapshot[c] = Buffered(step)
          BY <2>k, <3>1, <4>6
        <5>2. /\ snapshot[c].text = text /\ snapshot[c].calls = calls
              /\ snapshot[c].usage = step
          BY <5>1 DEF Buffered
        <5> QED
          BY <1>t, <4>1, <4>3, <4>4, <4>5, <5>2
      <4>7. \A d \in calls : tool'[d] \in {tool[d], "touching"} /\ (tool'[d] # "storing")
        BY <1>t, <3>3, <4>2
      <4> QED
        BY <1>t, <2>b, <2>k, <3>1, <4>6, <4>7
    <3> QED
      BY <2>4, <3>2, <3>3 DEF ToolStoresAssistant
  <2>5. CASE ToolTouches(c) \/ ToolReturns(c) \/ OnToolResult(c)
    <3>1. /\ tool[c] \in {"touching", "running", "ran"}
          /\ \E s \in {"running", "ran", "over", "broken"} : tool' = [tool EXCEPT ![c] = s]
          /\ UNCHANGED <<stream, early, text, calls, step, pendingUsage,
                         currentID, snapshot, usageArg, billed>>
      BY <2>5 DEF ToolTouches, ToolReturns, OnToolResult
    <3>2. currentID # NoMessage => log'[currentID] = log[currentID]
      BY <1>t, <1>l DEF MessageInv, IsMessageOf
    <3> QED
      BY <1>t, <2>b, <2>k, <3>1, <3>2
  <2> QED
    BY <1>7, <2>1, <2>2, <2>3, <2>4, <2>5 DEF ToolStep
<1>8. CASE FinishStep
  <2>1. CASE FinishWithCalls
    <3>1. stream' = "open" /\ calls' = {} /\ currentID' = NoMessage
      BY <2>1 DEF FinishWithCalls, CurrentIDAfterStep
    <3> QED
      BY <3>1 DEF KeptInv
  <2>2. CASE ~FinishWithCalls
    <3>1. stream' \in {"storing", "failed", "failstoring", "synthesise", "idle"}
      BY <1>8, <2>2 DEF FinishStep, FinishEntersAppend, FinishStoresAssistant,
         FailureFindsMessage, FailureEntersAppend, FailureStoresAssistant,
         AppendSyntheticToolResult, BeginSynthetic, EndTurn
    <3> QED
      BY <1>i, <3>1
  <2> QED
    BY <2>1, <2>2
<1>9. CASE StreamFails
  BY <1>e, <1>i, <1>9 DEF StreamFails
<1> QED
  BY <1>1, <1>2, <1>3, <1>4, <1>5, <1>6, <1>7, <1>8, <1>9, NextCases

-----------------------------------------------------------------------------
(* The session starts without a turn and without rows.                     *)
LEMMA InitTurn == Init => TurnInv
<1> SUFFICES ASSUME Init PROVE TurnInv
  OBVIOUS
<1>t. /\ MaxText \in Nat /\ MaxSteps \in Nat /\ MaxTurns \in Nat
      /\ 0 \in 0..MaxText /\ 0 \in 0..MaxSteps /\ 0 \in 0..MaxTurns /\ 0 \in 0..0
      /\ 0 \in Nat
  BY BoundsAssumption
<1>1. LogType /\ Len(log) = 0 /\ DOMAIN log = {}
  BY DEF Init, LogType
<1>2. Nothing \in Snapshots
  BY <1>t DEF Nothing, Snapshots
<1>3. ControlType
  BY <1>t DEF Init, ControlType, Streams
<1>4. ToolType
  BY <1>t DEF Init, ToolType, Tools
<1>5. AppendType
  <2>1. final \in 0..Len(log) /\ appending \in BOOLEAN /\ currentID = NoMessage
    BY <1>t, <1>1 DEF Init
  <2>2. snapshot \in [Appenders -> Snapshots]
    BY <1>2 DEF Init
  <2> QED
    BY <2>1, <2>2 DEF AppendType
<1>6. LazyType /\ BilledType
  BY <1>t DEF Init, LazyType, BilledType
<1>7. TypeOK
  BY <1>1, <1>3, <1>4, <1>5, <1>6, TypeParts
<1>8. AppendInv /\ ToolInv
  BY DEF Init, AppendInv, Appending, StreamAppends, ToolInv
<1>9. MessageInv
  BY <1>1 DEF Init, MessageInv
<1>10. BilledInv
  BY <1>t DEF Init, BilledInv, Nothing, Appenders
<1>11. KeptInv
  BY DEF Init, KeptInv
<1> QED
  BY <1>1, <1>7, <1>8, <1>9, <1>10, <1>11 DEF TurnInv

(* The inductive invariant holds in every state of every run.              *)
THEOREM TurnInvariant == Spec => []TurnInv
<1>1. TurnInv /\ [Next]_vars => TurnInv'
  BY TypeStep, AppendStep, ToolStepInv, MessageStep, BilledStep, KeptStep
     DEF TurnInv
<1> QED
  BY InitTurn, <1>1, PTL DEF Spec

(* Every row of the session, every buffer and every goroutine has its type *)
(* (runFantasyLoop, src/internal/agent/fantasy_loop.go).                   *)
THEOREM TypeCorrect == Spec => []TypeOK
<1>1. TurnInv => TypeOK
  BY DEF TurnInv
<1> QED
  BY <1>1, TurnInvariant, PTL

(* However many tools of a step reach appendAssistant together, and        *)
(* whatever fails on the way, the step has one assistant message at most,  *)
(* and no tool runs before it is stored.                                   *)
THEOREM OneMessagePerStep == Spec => []OneAssistantPerStep
<1>1. TurnInv => OneAssistantPerStep
  <2> SUFFICES ASSUME TurnInv PROVE OneAssistantPerStep
    OBVIOUS
  <2>1. MessageInv /\ ToolInv
    BY DEF TurnInv
  <2>2. ASSUME NEW i \in DOMAIN log, NEW j \in DOMAIN log,
               log[i].role = "assistant", log[j].role = "assistant",
               log[i].step = log[j].step
        PROVE  i = j
    <3>1. log[i].step \in 1..step
      BY <2>1, <2>2 DEF MessageInv
    <3> QED
      BY <2>1, <2>2, <3>1 DEF MessageInv, IsMessageOf
  <2>3. ASSUME NEW c \in Calls, tool[c] \in {"running", "ran"}
        PROVE  AssistantsOf(step) # {}
    <3>1. currentID # NoMessage
      BY <2>1, <2>3 DEF ToolInv
    <3>2. currentID \in AssistantsOf(step)
      BY <2>1, <3>1 DEF MessageInv, IsMessageOf, AssistantsOf
    <3> QED
      BY <3>2
  <2> QED
    BY <2>2, <2>3 DEF OneAssistantPerStep
<1> QED
  BY <1>1, TurnInvariant, PTL

(* A step none of whose tools began before its stream was over goes on to  *)
(* the next with all its text and calls in one stored message, and its     *)
(* usage recorded exactly once.                                            *)
THEOREM StepsAreStoredWhole == Spec => NothingDropped
<1>1. ASSUME TurnInv, FinishWithCalls, ~early
      PROVE  /\ \E i \in AssistantsOf(step) :
                  log[i].text = text /\ log[i].calls = calls
             /\ billed[step] = 1
  <2>1. /\ stream = "finished" /\ calls # {}
        /\ \A c \in calls : tool[c] = "over"
    BY <1>1 DEF FinishWithCalls, AllAnswered
  <2>2. currentID # NoMessage
    BY <1>1, <2>1 DEF TurnInv, ToolInv
  <2>3. currentID \in AssistantsOf(step)
    BY <1>1, <2>2 DEF TurnInv, MessageInv, IsMessageOf, AssistantsOf
  <2> QED
    BY <1>1, <2>1, <2>2, <2>3 DEF TurnInv, KeptInv
<1>2. TurnInv /\ [Next]_vars =>
        [FinishWithCalls /\ ~early =>
           /\ \E i \in AssistantsOf(step) :
                log[i].text = text /\ log[i].calls = calls
           /\ billed[step] = 1]_vars
  BY <1>1
<1> QED
  BY <1>2, TurnInvariant, PTL DEF Spec, NothingDropped

-----------------------------------------------------------------------------
(* The conversation.  ReplayInv says what the rows hold of calls and their *)
(* results, and how that is kept while goroutines store them.              *)

(* The calls and the results of the rows.                                  *)
Asks(i, c) == log[i].role = "assistant" /\ c \in log[i].calls
Answers(i, c) == log[i].role = "tool" /\ log[i].call = c
OnlyResults(i, j) ==
  \A k \in (i + 1)..(j - 1) : log[k].role \in {"tool", "system"}

(* A call is stored once, and its results later, with nothing of another   *)
(* step in between.                                                        *)
PairsInv ==
  \A c \in Calls : \A i, j \in DOMAIN log :
    /\ Asks(i, c) /\ Asks(j, c) => i = j
    /\ Asks(i, c) /\ Answers(j, c) => i < j /\ OnlyResults(i, j)

(* What the step's calls and message have to do with the rows.             *)
CallsInv ==
  /\ \A c \in Calls : \A i \in DOMAIN log :
       /\ Asks(i, c) \/ Answers(i, c) => tool[c] # "idle"
       /\ c \in calls /\ Asks(i, c) => log[i].step = step
       /\ c \in calls /\ Answers(i, c) => currentID # NoMessage
  /\ currentID # NoMessage => OnlyResults(currentID, Len(log) + 1)

(* What an appender holds are calls of the step, and what is left to be    *)
(* answered is of its message.                                             *)
HeldInv ==
  /\ \A c \in Calls : Appending(c) => snapshot[c].calls \subseteq calls
  /\ StreamAppends => snapshot[StreamThread].calls \subseteq calls
  /\ stream = "synthesise" =>
       /\ currentID # NoMessage
       /\ snapshot[StreamThread].calls \subseteq log[currentID].calls

(* A step has finitely many calls.                                         *)
FinitelyMany ==
  /\ IsFiniteSet(calls)
  /\ \A i \in DOMAIN log : log[i].role = "assistant" => IsFiniteSet(log[i].calls)

ReplayInv == PairsInv /\ CallsInv /\ HeldInv /\ FinitelyMany

-----------------------------------------------------------------------------
(* What a step adds to the log: the calls of an appender ...               *)
LogsCalls ==
  /\ \E x \in Snapshots :
       x.calls \subseteq calls /\ log' = Append(log, AssistantMessage(x))
  /\ currentID = NoMessage /\ stream # "idle" /\ step' = step
  /\ \/ currentID' = Len(log) + 1 /\ calls' = calls
     \/ currentID' = NoMessage /\ calls' = {}

(* ... a result of a call of the step or of its message ...                *)
LogsResult ==
  /\ \E c \in Calls : \E b \in BOOLEAN :
       /\ log' = Append(log, ToolMessage(c, b))
       /\ c \in calls \/ c \in log[currentID].calls
  /\ currentID # NoMessage
  /\ UNCHANGED <<calls, currentID, step>>

(* ... or neither, where calls are new or the step is left behind.         *)
LogsNeither ==
  \/ /\ log' = log \/ log' = Append(log, ContextMessage)
     /\ UNCHANGED <<currentID, step>>
     /\ calls' = calls \/ \E c \in Calls : tool[c] = "idle" /\ calls' = calls \cup {c}
  \/ /\ log' = log \/ log' = Append(log, UserMessage)
     /\ calls' = {} /\ currentID' = NoMessage

(* Each step is one of them, and no tool is idle again.                    *)
LEMMA LogGrowth ==
  ASSUME TurnInv, HeldInv, [Next]_vars
  PROVE  /\ LogsCalls \/ LogsResult \/ LogsNeither
         /\ \A c \in Calls : tool'[c] = "idle" => tool[c] = "idle"
<1> DEFINE Goal == /\ LogsCalls \/ LogsResult \/ LogsNeither
                   /\ \A c \in Calls : tool'[c] = "idle" => tool[c] = "idle"
<1>t. /\ AppendInv /\ ToolInv /\ tool \in [Calls -> Tools] /\ calls \subseteq Calls
      /\ snapshot \in [Appenders -> Snapshots]
      /\ StreamThread \in Appenders /\ Calls \subseteq Appenders
  BY DEF TurnInv, TypeOK, Appenders, Snapshots
<1>i. stream = "idle" => calls = {} /\ currentID = NoMessage
  BY <1>t DEF ToolInv
<1>u. ASSUME UNCHANGED <<log, currentID, step, calls, tool>> PROVE Goal
  BY <1>u DEF LogsNeither
<1>k. ASSUME NEW c \in Calls, NEW s, tool' = [tool EXCEPT ![c] = s], s # "idle"
      PROVE  \A d \in Calls : tool'[d] = "idle" => tool[d] = "idle"
  BY <1>t, <1>k
<1>e. ASSUME EndTurn, log' = log PROVE Goal
  <2>1. /\ calls' = {} /\ currentID' = NoMessage
        /\ \A c \in Calls : tool'[c] = "idle" => tool[c] = "idle"
    BY <1>e DEF EndTurn, AbandonedTools
  <2> QED
    BY <1>e, <2>1 DEF LogsNeither
<1>1. CASE StartTurn
  <2>1. /\ stream = "idle" /\ log' = Append(log, UserMessage)
        /\ UNCHANGED <<calls, currentID, tool>>
    BY <1>1 DEF StartTurn
  <2> QED
    BY <1>i, <2>1 DEF LogsNeither
<1>2. CASE Crash \/ SyntheticEnds
  BY <1>e, <1>2 DEF Crash, SyntheticEnds
<1>3. CASE \/ OnTextDelta \/ OnStreamFinish \/ \E h \in Handles : SetModel(h)
           \/ UNCHANGED vars
  BY <1>u, <1>3 DEF OnTextDelta, OnStreamFinish, SetModel, vars
<1>4. CASE Annotate
  BY <1>4 DEF Annotate, LogsNeither
<1>5. ASSUME NEW c \in Calls, OnToolInputEnd(c) \/ OnToolCall(c) PROVE Goal
  <2>1. /\ calls' = calls \cup {c} /\ UNCHANGED <<log, currentID, step>>
        /\ tool[c] \in {"arriving", "idle"}
        /\ \E s \in {"arriving", "called"} : tool' = [tool EXCEPT ![c] = s]
    BY <1>5 DEF OnToolInputEnd, OnToolCall, NewCall
  <2>2. tool[c] = "arriving" => calls' = calls
    BY <1>t, <2>1 DEF ToolInv
  <2> QED
    BY <1>k, <2>1, <2>2 DEF LogsNeither
<1>6. ASSUME NEW c \in Calls, ToolStep(c) PROVE Goal
  <2>c. tool[c] \notin {"idle", "over"} => c \in calls
    BY <1>t DEF ToolInv
  <2>1. CASE ToolStart(c) \/ ToolFindsMessage(c) \/ ToolEntersAppend(c)
             \/ ToolTouches(c) \/ ToolReturns(c)
    <3>1. UNCHANGED <<log, currentID, step, calls>>
      BY <2>1 DEF ToolStart, ToolFindsMessage, ToolEntersAppend, ToolTouches,
                  ToolReturns
    <3>2. \E s \in {"before", "touching", "storing", "running", "ran"} :
            tool' = [tool EXCEPT ![c] = s]
      BY <2>1 DEF ToolStart, ToolFindsMessage, ToolEntersAppend, ToolTouches,
                  ToolReturns
    <3> QED
      BY <1>k, <3>1, <3>2 DEF LogsNeither
  <2>2. CASE ToolStoresAssistant(c)
    <3>1. /\ tool[c] = "storing" /\ UNCHANGED <<step, calls>>
          /\ \E s \in {"touching", "broken"} : tool' = [tool EXCEPT ![c] = s]
      BY <2>2 DEF ToolStoresAssistant
    <3>2. /\ currentID = NoMessage /\ stream # "idle"
          /\ snapshot[c].calls \subseteq calls /\ snapshot[c] \in Snapshots
      BY <1>t, <1>i, <2>c, <3>1 DEF AppendInv, Appending, HeldInv
    <3>3. CASE StoresAssistant(c)
      <4>1. /\ log' = Append(log, AssistantMessage(snapshot[c]))
            /\ currentID' = Len(log) + 1
        BY <3>3 DEF StoresAssistant, AppendMessage
      <4> QED
        BY <1>k, <3>1, <3>2, <4>1 DEF LogsCalls
    <3>4. CASE StoreAssistantFails
      BY <1>k, <3>1, <3>4 DEF StoreAssistantFails, LogsNeither
    <3> QED
      BY <2>2, <3>3, <3>4 DEF ToolStoresAssistant
  <2>3. CASE OnToolResult(c)
    <3>1. /\ tool[c] = "ran" /\ UNCHANGED <<step, calls, currentID>>
          /\ log' = log \/ log' = Append(log, ToolMessage(c, FALSE))
          /\ \E s \in {"over", "broken"} : tool' = [tool EXCEPT ![c] = s]
      BY <2>3 DEF OnToolResult
    <3>2. c \in calls /\ currentID # NoMessage
      BY <1>t, <2>c, <3>1 DEF ToolInv
    <3>3. CASE log' = log
      BY <1>k, <3>1, <3>3 DEF LogsNeither
    <3>4. CASE log' = Append(log, ToolMessage(c, FALSE))
      BY <1>k, <3>1, <3>2, <3>4 DEF LogsResult
    <3> QED
      BY <3>1, <3>3, <3>4
  <2> QED
    BY <1>6, <2>1, <2>2, <2>3 DEF ToolStep
<1>7. CASE FinishStep
  <2>1. CASE FinishEntersAppend \/ FailureEntersAppend \/ FailureFindsMessage
    BY <1>u, <2>1 DEF FinishEntersAppend, FailureEntersAppend, FailureFindsMessage
  <2>2. CASE FinishWithCalls
    BY <2>2 DEF FinishWithCalls, CurrentIDAfterStep, LogsNeither
  <2>3. CASE AppendSyntheticToolResult
    <3>1. PICK c \in snapshot[StreamThread].calls :
            log' = Append(log, ToolMessage(c, TRUE))
      BY <2>3 DEF AppendSyntheticToolResult
    <3>2. /\ stream = "synthesise"
          /\ UNCHANGED <<step, calls, currentID, tool>>
      BY <2>3 DEF AppendSyntheticToolResult
    <3>3. c \in Calls /\ currentID # NoMessage /\ c \in log[currentID].calls
      BY <1>t, <3>1, <3>2 DEF HeldInv, Snapshots
    <3> QED
      BY <3>1, <3>2, <3>3 DEF LogsResult
  <2>4. CASE FinishStoresAssistant \/ FailureStoresAssistant
    <3>1. StreamAppends /\ step' = step
      BY <2>4 DEF FinishStoresAssistant, FailureStoresAssistant, StreamAppends
    <3>2. /\ currentID = NoMessage /\ stream # "idle"
          /\ snapshot[StreamThread].calls \subseteq calls
          /\ snapshot[StreamThread] \in Snapshots
      BY <1>t, <3>1 DEF AppendInv, HeldInv, StreamAppends
    <3>3. CASE AppendMessage(StreamThread)
      <4>1. log' = Append(log, AssistantMessage(snapshot[StreamThread]))
        BY <3>3 DEF AppendMessage
      <4>2. CASE EndTurn
        <5>1. /\ calls' = {} /\ currentID' = NoMessage
              /\ \A c \in Calls : tool'[c] = "idle" => tool[c] = "idle"
          BY <4>2 DEF EndTurn, AbandonedTools
        <5> QED
          BY <3>1, <3>2, <4>1, <5>1 DEF LogsCalls
      <4>3. CASE ~EndTurn
        <5>1. \/ currentID' = Len(log) + 1 /\ UNCHANGED <<calls, tool>>
              \/ log' = log
          BY <2>4, <4>3 DEF FinishStoresAssistant, FailureStoresAssistant,
                            StoreAssistantFails
        <5>2. log' # log
          <6>1. log \in Seq(Messages)
            BY DEF TurnInv, LogType
          <6> QED
            BY <4>1, <6>1
        <5> QED
          BY <3>1, <3>2, <4>1, <5>1, <5>2 DEF LogsCalls
      <4> QED
        BY <4>2, <4>3
    <3>4. CASE ~AppendMessage(StreamThread)
      <4>1. \/ EndTurn /\ log' = log
            \/ UNCHANGED <<log, currentID, step, calls, tool>>
        BY <2>4, <3>4 DEF FinishStoresAssistant, FailureStoresAssistant,
                          StoreAssistantFails
      <4> QED
        BY <1>e, <1>u, <4>1
    <3> QED
      BY <3>3, <3>4
  <2> QED
    BY <1>7, <2>1, <2>2, <2>3, <2>4 DEF FinishStep
<1>8. CASE StreamFails
  <2>1. CASE EndTurn
    BY <1>e, <1>8, <2>1 DEF StreamFails
  <2>2. CASE ~EndTurn
    BY <1>u, <1>8, <2>2 DEF StreamFails
  <2> QED
    BY <2>1, <2>2
<1> QED
  BY <1>1, <1>2, <1>3, <1>4, <1>5, <1>6, <1>7, <1>8, NextCases

(* What the predicates say once a row has been added at n.                 *)
LEMMA RowAdded ==
  ASSUME LogType, NEW m \in Messages, log' = Append(log, m),
         NEW CONSTANT n, n = Len(log) + 1
  PROVE  /\ n \in Nat /\ Len(log') = n
         /\ DOMAIN log' = DOMAIN log \cup {n} /\ DOMAIN log = 1..(n - 1)
         /\ \A i \in DOMAIN log : i \in Nat /\ i < n /\ log'[i] = log[i]
         /\ log'[n] = m
         /\ \A i \in DOMAIN log : \A c :
              (Asks(i, c)' <=> Asks(i, c)) /\ (Answers(i, c)' <=> Answers(i, c))
         /\ \A c : /\ Asks(n, c)' <=> m.role = "assistant" /\ c \in m.calls
                   /\ Answers(n, c)' <=> m.role = "tool" /\ m.call = c
         /\ \A i, j \in DOMAIN log : OnlyResults(i, j)' <=> OnlyResults(i, j)
         /\ \A i \in DOMAIN log :
              /\ OnlyResults(i, n)' <=> OnlyResults(i, n)
              /\ OnlyResults(i, n + 1)' <=>
                   OnlyResults(i, n) /\ m.role \in {"tool", "system"}
         /\ OnlyResults(n, n + 1)'
<1>1. /\ Len(log) \in Nat /\ n \in Nat /\ Len(log') = n
      /\ DOMAIN log = 1..Len(log) /\ DOMAIN log' = 1..n
      /\ \A i \in DOMAIN log : log'[i] = log[i]
      /\ log'[n] = m
  BY AppendOne DEF LogType
<1>2. /\ DOMAIN log' = DOMAIN log \cup {n} /\ DOMAIN log = 1..(n - 1)
      /\ \A i \in DOMAIN log : i \in Nat /\ i < n
  BY <1>1
<1>3. \A i \in DOMAIN log : \A c :
        (Asks(i, c)' <=> Asks(i, c)) /\ (Answers(i, c)' <=> Answers(i, c))
  BY <1>1 DEF Asks, Answers
<1>4. \A c : /\ Asks(n, c)' <=> m.role = "assistant" /\ c \in m.calls
             /\ Answers(n, c)' <=> m.role = "tool" /\ m.call = c
  BY <1>1 DEF Asks, Answers
<1>5. \A i, j \in DOMAIN log : OnlyResults(i, j)' <=> OnlyResults(i, j)
  <2>1. \A i, j \in DOMAIN log : (i + 1)..(j - 1) \subseteq DOMAIN log
    BY <1>1, <1>2
  <2> QED
    BY <1>1, <2>1 DEF OnlyResults
<1>6. ASSUME NEW i \in DOMAIN log
      PROVE  /\ OnlyResults(i, n)' <=> OnlyResults(i, n)
             /\ OnlyResults(i, n + 1)' <=>
                  OnlyResults(i, n) /\ m.role \in {"tool", "system"}
  <2>1. (i + 1)..(n - 1) \subseteq DOMAIN log
    BY <1>1, <1>2
  <2>2. (i + 1)..((n + 1) - 1) = ((i + 1)..(n - 1)) \cup {n}
    BY <1>1, <1>2
  <2>3. OnlyResults(i, n)' <=> OnlyResults(i, n)
    BY <1>1, <2>1 DEF OnlyResults
  <2>4. OnlyResults(i, n + 1)' <=>
          \A k \in (i + 1)..((n + 1) - 1) : log'[k].role \in {"tool", "system"}
    BY DEF OnlyResults
  <2>5. OnlyResults(i, n)' <=>
          \A k \in (i + 1)..(n - 1) : log'[k].role \in {"tool", "system"}
    BY DEF OnlyResults
  <2> QED
    BY <1>1, <2>2, <2>3, <2>4, <2>5
<1>7. OnlyResults(n, n + 1)'
  <2>1. (n + 1)..((n + 1) - 1) = {}
    BY <1>1
  <2> QED
    BY <2>1 DEF OnlyResults
<1> QED
  BY <1>1, <1>2, <1>3, <1>4, <1>5, <1>6, <1>7

(* The message that is stored, when a call is among its calls, is the one  *)
(* of currentID.                                                           *)
LEMMA CurrentAsks ==
  ASSUME MessageInv, PairsInv, CallsInv, NEW c \in Calls,
         NEW i \in DOMAIN log, Asks(i, c), currentID # NoMessage,
         c \in calls \/ c \in log[currentID].calls,
         ControlType, step > 0
  PROVE  i = currentID
<1>1. IsMessageOf(currentID, step)
  BY DEF MessageInv
<1>2. CASE c \in log[currentID].calls
  <2>1. Asks(currentID, c) /\ currentID \in DOMAIN log
    BY <1>1, <1>2 DEF IsMessageOf, Asks
  <2> QED
    BY <2>1 DEF PairsInv
<1>3. CASE c \in calls
  <2>1. log[i].step = step /\ log[i].role = "assistant"
    BY <1>3 DEF CallsInv, Asks
  <2>2. IsMessageOf(i, step) /\ step \in 1..step
    BY <2>1, BoundsAssumption DEF IsMessageOf, ControlType
  <2> QED
    BY <1>1, <2>2 DEF MessageInv, IsMessageOf
<1> QED
  BY <1>2, <1>3

(* Calls and results stay paired.                                          *)
LEMMA PairsStep ==
  ASSUME TurnInv, ReplayInv, [Next]_vars
  PROVE  PairsInv'
<1>t. /\ LogType /\ MessageInv /\ ToolInv /\ ControlType
      /\ PairsInv /\ CallsInv /\ HeldInv
      /\ step \in Nat
  BY TypeParts, BoundsAssumption DEF TurnInv, ReplayInv, ControlType
<1>1. CASE log' = log
  BY <1>t, <1>1 DEF PairsInv, Asks, Answers, OnlyResults
<1>p. ASSUME NEW m \in Messages, log' = Append(log, m),
             NEW CONSTANT n, n = Len(log) + 1,
             NEW c \in Calls,
             \A i \in DOMAIN log :
               /\ m.role = "assistant" /\ c \in m.calls =>
                    ~Asks(i, c) /\ ~Answers(i, c)
               /\ m.role = "tool" /\ m.call = c /\ Asks(i, c) => OnlyResults(i, n)
      PROVE  \A i, j \in DOMAIN log' :
               /\ Asks(i, c)' /\ Asks(j, c)' => i = j
               /\ Asks(i, c)' /\ Answers(j, c)' => i < j /\ OnlyResults(i, j)'
  <2> SUFFICES ASSUME NEW i \in DOMAIN log', NEW j \in DOMAIN log'
               PROVE  /\ Asks(i, c)' /\ Asks(j, c)' => i = j
                      /\ Asks(i, c)' /\ Answers(j, c)' =>
                           i < j /\ OnlyResults(i, j)'
    OBVIOUS
  <2>0. /\ i \in DOMAIN log \/ i = n
        /\ j \in DOMAIN log \/ j = n
    BY <1>t, <1>p, RowAdded
  <2>1. CASE i \in DOMAIN log /\ j \in DOMAIN log
    <3>1. /\ Asks(i, c)' <=> Asks(i, c)
          /\ Asks(j, c)' <=> Asks(j, c)
          /\ Answers(j, c)' <=> Answers(j, c)
          /\ OnlyResults(i, j)' <=> OnlyResults(i, j)
      BY <1>t, <1>p, <2>1, RowAdded
    <3> QED
      BY <1>t, <2>1, <3>1 DEF PairsInv
  <2>2. CASE i = n
    <3>1. Asks(i, c)' <=> m.role = "assistant" /\ c \in m.calls
      BY <1>t, <1>p, <2>2, RowAdded
    <3>2. Answers(n, c)' <=> m.role = "tool" /\ m.call = c
      BY <1>t, <1>p, RowAdded
    <3>3. j \in DOMAIN log => /\ Asks(j, c)' <=> Asks(j, c)
                              /\ Answers(j, c)' <=> Answers(j, c)
      BY <1>t, <1>p, RowAdded
    <3> QED
      BY <1>p, <2>0, <2>2, <3>1, <3>2, <3>3
  <2>3. CASE i \in DOMAIN log /\ j = n
    <3>1. /\ Asks(i, c)' <=> Asks(i, c)
          /\ Asks(n, c)' <=> m.role = "assistant" /\ c \in m.calls
          /\ Answers(n, c)' <=> m.role = "tool" /\ m.call = c
          /\ OnlyResults(i, n)' <=> OnlyResults(i, n)
          /\ i < n
      BY <1>t, <1>p, <2>3, RowAdded
    <3> QED
      BY <1>p, <2>3, <3>1
  <2> QED
    BY <2>0, <2>1, <2>2, <2>3
<1>q. ASSUME NEW m \in Messages, log' = Append(log, m),
             \A c \in Calls : \A i \in DOMAIN log :
               /\ m.role = "assistant" /\ c \in m.calls =>
                    ~Asks(i, c) /\ ~Answers(i, c)
               /\ m.role = "tool" /\ m.call = c /\ Asks(i, c) =>
                    OnlyResults(i, Len(log) + 1)
      PROVE  PairsInv'
  <2> DEFINE n == Len(log) + 1
  <2>1. \E k : k = n
    OBVIOUS
  <2>2. PICK k : k = n
    BY <2>1
  <2> HIDE DEF n
  <2>3. ASSUME NEW c \in Calls
        PROVE  \A i, j \in DOMAIN log' :
               /\ Asks(i, c)' /\ Asks(j, c)' => i = j
               /\ Asks(i, c)' /\ Answers(j, c)' => i < j /\ OnlyResults(i, j)'
    BY <1>p, <1>q, <2>2 DEF n
  <2> QED
    BY <2>3 DEF PairsInv
<1>2. CASE LogsCalls
  <2>1. PICK x \in Snapshots :
          x.calls \subseteq calls /\ log' = Append(log, AssistantMessage(x))
    BY <1>2 DEF LogsCalls
  <2>2. currentID = NoMessage /\ stream # "idle" /\ step > 0
    BY <1>t, <1>2 DEF LogsCalls, ToolInv
  <2>3. /\ AssistantMessage(x) \in Messages
        /\ AssistantMessage(x).role = "assistant"
        /\ AssistantMessage(x).calls = x.calls
    BY <1>t, <2>2, MessageType
  <2>4. ASSUME NEW c \in x.calls, NEW i \in DOMAIN log
        PROVE  ~Asks(i, c) /\ ~Answers(i, c)
    <3>1. c \in calls /\ c \in Calls
      BY <1>t, <2>1 DEF ControlType
    <3>2. ~Answers(i, c)
      BY <1>t, <2>2, <3>1 DEF CallsInv
    <3>3. Asks(i, c) => IsMessageOf(i, step)
      BY <1>t, <3>1 DEF CallsInv, IsMessageOf, Asks
    <3> QED
      BY <1>t, <2>2, <3>2, <3>3 DEF MessageInv
  <2> QED
    BY <1>q, <2>1, <2>3, <2>4
<1>3. CASE LogsResult
  <2>1. PICK d \in Calls, b \in BOOLEAN :
          /\ log' = Append(log, ToolMessage(d, b))
          /\ d \in calls \/ d \in log[currentID].calls
    BY <1>3 DEF LogsResult
  <2>2. currentID # NoMessage
    BY <1>3 DEF LogsResult
  <2>3. /\ ToolMessage(d, b) \in Messages
        /\ ToolMessage(d, b).role = "tool" /\ ToolMessage(d, b).call = d
    BY Roles DEF ToolMessage
  <2>4. step > 0
    BY <1>t, <2>2 DEF ToolInv
  <2>5. ASSUME NEW i \in DOMAIN log, Asks(i, d)
        PROVE  OnlyResults(i, Len(log) + 1)
    <3>1. i = currentID
      BY <1>t, <2>1, <2>2, <2>4, <2>5, CurrentAsks
    <3> QED
      BY <1>t, <2>2, <3>1 DEF CallsInv
  <2> QED
    BY <1>q, <2>1, <2>3, <2>5
<1>4. CASE LogsNeither
  <2>1. ASSUME NEW m \in {UserMessage, ContextMessage}, log' = Append(log, m)
        PROVE  PairsInv'
    <3>1. m \in Messages /\ m.role \notin {"assistant", "tool"}
      BY <2>1, Roles DEF UserMessage, ContextMessage
    <3> QED
      BY <1>q, <2>1, <3>1
  <2> QED
    BY <1>1, <1>4, <2>1 DEF LogsNeither
<1> QED
  BY <1>t, <1>2, <1>3, <1>4, LogGrowth

(* The step's calls and its message stay where the rows have them.         *)
LEMMA CallsStep ==
  ASSUME TurnInv, ReplayInv, [Next]_vars
  PROVE  CallsInv'
<1>t. /\ LogType /\ MessageInv /\ ToolInv /\ ControlType
      /\ PairsInv /\ CallsInv /\ HeldInv
      /\ step \in Nat /\ Len(log) + 1 # NoMessage
      /\ currentID # NoMessage => currentID \in DOMAIN log
      /\ \A c \in Calls : tool'[c] = "idle" => tool[c] = "idle"
  BY TypeParts, BoundsAssumption, NoMessageAssumption, LogGrowth
     DEF TurnInv, ReplayInv, ControlType, LogType, MessageInv, IsMessageOf
<1> DEFINE N == Len(log) + 1
<1>n. PICK n : n = N
  OBVIOUS
<1> HIDE DEF N
<1>a. ASSUME NEW m \in Messages, log' = Append(log, m),
             currentID' # NoMessage =>
               \/ currentID' = n
               \/ currentID' = currentID /\ m.role \in {"tool", "system"},
             \A c \in Calls :
               /\ m.role = "assistant" /\ c \in m.calls => tool[c] # "idle"
               /\ m.role = "tool" /\ m.call = c => tool[c] # "idle"
               /\ c \in calls' /\ m.role = "assistant" /\ c \in m.calls =>
                    m.step = step'
               /\ c \in calls' /\ m.role = "tool" /\ m.call = c =>
                    currentID' # NoMessage,
             \A c \in Calls : \A i \in DOMAIN log : c \in calls' =>
               /\ Asks(i, c) => log[i].step = step'
               /\ Answers(i, c) => currentID' # NoMessage
      PROVE  CallsInv'
  <2>n. n = Len(log) + 1
    BY <1>n DEF N
  <2>1. ASSUME NEW c \in Calls, NEW i \in DOMAIN log'
        PROVE  /\ Asks(i, c)' \/ Answers(i, c)' => tool'[c] # "idle"
               /\ c \in calls' /\ Asks(i, c)' => log'[i].step = step'
               /\ c \in calls' /\ Answers(i, c)' => currentID' # NoMessage
    <3>0. i \in DOMAIN log \/ i = n
      BY <1>t, <1>a, <2>n, RowAdded
    <3>1. CASE i \in DOMAIN log
      <4>1. /\ Asks(i, c)' <=> Asks(i, c)
            /\ Answers(i, c)' <=> Answers(i, c)
            /\ log'[i] = log[i]
        BY <1>t, <1>a, <2>n, <3>1, RowAdded
      <4>2. Asks(i, c) \/ Answers(i, c) => tool[c] # "idle"
        BY <1>t, <3>1 DEF CallsInv
      <4> QED
        BY <1>t, <1>a, <3>1, <4>1, <4>2
    <3>2. CASE i = n
      <4>1. /\ Asks(i, c)' <=> m.role = "assistant" /\ c \in m.calls
            /\ Answers(i, c)' <=> m.role = "tool" /\ m.call = c
            /\ log'[i] = m
        BY <1>t, <1>a, <2>n, <3>2, RowAdded
      <4> QED
        BY <1>t, <1>a, <4>1
    <3> QED
      BY <3>0, <3>1, <3>2
  <2>2. ASSUME currentID' # NoMessage
        PROVE  OnlyResults(currentID, Len(log) + 1)'
    <3>0. Len(log') + 1 = n + 1
      BY <1>t, <1>a, <2>n, RowAdded
    <3>1. CASE currentID' = n
      <4>1. OnlyResults(n, n + 1)'
        BY <1>t, <1>a, <2>n, RowAdded
      <4> QED
        BY <3>0, <3>1, <4>1 DEF OnlyResults
    <3>2. CASE currentID' = currentID /\ m.role \in {"tool", "system"}
      <4>1. PICK i : i = currentID
        OBVIOUS
      <4>2. i \in DOMAIN log /\ OnlyResults(i, n)
        BY <1>t, <2>2, <2>n, <3>2, <4>1 DEF CallsInv
      <4>3. OnlyResults(i, n + 1)'
        BY <1>t, <1>a, <2>n, <3>2, <4>2, RowAdded
      <4> QED
        BY <3>0, <3>2, <4>1, <4>3 DEF OnlyResults
    <3> QED
      BY <1>a, <2>2, <3>1, <3>2
  <2> QED
    BY <2>1, <2>2 DEF CallsInv
<1>b. ASSUME log' = log, currentID' = currentID \/ currentID' = NoMessage,
             \A c \in Calls : \A i \in DOMAIN log : c \in calls' =>
               /\ Asks(i, c) => log[i].step = step'
               /\ Answers(i, c) => currentID' # NoMessage
      PROVE  CallsInv'
  <2>1. /\ \A i, c : (Asks(i, c)' <=> Asks(i, c)) /\ (Answers(i, c)' <=> Answers(i, c))
        /\ currentID' # NoMessage => OnlyResults(currentID, Len(log) + 1)'
    BY <1>t, <1>b DEF CallsInv, Asks, Answers, OnlyResults
  <2>2. ASSUME NEW c \in Calls, NEW i \in DOMAIN log'
        PROVE  Asks(i, c)' \/ Answers(i, c)' => tool'[c] # "idle"
    BY <1>t, <1>b, <2>1 DEF CallsInv
  <2>3. ASSUME NEW c \in Calls, NEW i \in DOMAIN log'
        PROVE  /\ c \in calls' /\ Asks(i, c)' => log'[i].step = step'
               /\ c \in calls' /\ Answers(i, c)' => currentID' # NoMessage
    BY <1>b, <2>1
  <2> QED
    BY <2>1, <2>2, <2>3 DEF CallsInv
<1>1. CASE LogsCalls
  <2>1. PICK x \in Snapshots :
          x.calls \subseteq calls /\ log' = Append(log, AssistantMessage(x))
    BY <1>1 DEF LogsCalls
  <2>2. /\ currentID = NoMessage /\ step > 0 /\ step' = step
        /\ currentID' = n \/ currentID' = NoMessage
        /\ calls' \subseteq calls
    BY <1>n, <1>t, <1>1 DEF LogsCalls, ToolInv, N
  <2>3. /\ AssistantMessage(x) \in Messages
        /\ AssistantMessage(x).role = "assistant"
        /\ AssistantMessage(x).step = step
        /\ AssistantMessage(x).calls = x.calls
    BY <1>t, <2>2, MessageType
  <2>4. \A c \in x.calls : tool[c] # "idle"
    BY <1>t, <2>1 DEF ToolInv
  <2>5. \A c \in Calls : \A i \in DOMAIN log : c \in calls' =>
          (Asks(i, c) => log[i].step = step') /\ ~Answers(i, c)
    BY <1>t, <2>2 DEF CallsInv
  <2> QED
    BY <1>a, <2>1, <2>2, <2>3, <2>4, <2>5
<1>2. CASE LogsResult
  <2>1. PICK d \in Calls, b \in BOOLEAN :
          /\ log' = Append(log, ToolMessage(d, b))
          /\ d \in calls \/ d \in log[currentID].calls
    BY <1>2 DEF LogsResult
  <2>2. currentID # NoMessage /\ UNCHANGED <<calls, currentID, step>>
    BY <1>2 DEF LogsResult
  <2>3. /\ ToolMessage(d, b) \in Messages
        /\ ToolMessage(d, b).role = "tool" /\ ToolMessage(d, b).call = d
    BY Roles DEF ToolMessage
  <2>4. tool[d] # "idle"
    <3>1. CASE d \in calls
      BY <1>t, <3>1 DEF ToolInv
    <3>2. CASE d \in log[currentID].calls
      <4>1. Asks(currentID, d) /\ currentID \in DOMAIN log
        BY <1>t, <2>2, <3>2 DEF MessageInv, IsMessageOf, Asks
      <4> QED
        BY <1>t, <4>1 DEF CallsInv
    <3> QED
      BY <2>1, <3>1, <3>2
  <2>5. \A c \in Calls : \A i \in DOMAIN log : c \in calls' =>
          (Asks(i, c) => log[i].step = step')
    BY <1>t, <2>2 DEF CallsInv
  <2> QED
    BY <1>a, <2>1, <2>2, <2>3, <2>4, <2>5
<1>3. CASE LogsNeither
  <2>1. /\ currentID' = currentID \/ currentID' = NoMessage
        /\ \A c \in Calls : \A i \in DOMAIN log : c \in calls' =>
             /\ Asks(i, c) => log[i].step = step'
             /\ Answers(i, c) => currentID' # NoMessage
        /\ \/ log' = log
           \/ log' = Append(log, ContextMessage)
           \/ log' = Append(log, UserMessage) /\ currentID' = NoMessage
    <3>1. CASE calls' = {} /\ currentID' = NoMessage /\ LogsNeither
      BY <3>1 DEF LogsNeither
    <3>2. CASE /\ log' = log \/ log' = Append(log, ContextMessage)
               /\ UNCHANGED <<currentID, step>>
               /\ \/ calls' = calls
                  \/ \E c \in Calls : tool[c] = "idle" /\ calls' = calls \cup {c}
      BY <1>t, <3>2 DEF CallsInv
    <3> QED
      BY <1>3, <3>1, <3>2 DEF LogsNeither
  <2>2. /\ ContextMessage \in Messages /\ ContextMessage.role = "system"
        /\ UserMessage \in Messages /\ UserMessage.role = "user"
    BY Roles DEF ContextMessage, UserMessage
  <2>3. CASE log' = log
    BY <1>b, <2>1, <2>3
  <2>4. CASE log' = Append(log, ContextMessage)
    BY <1>a, <2>1, <2>2, <2>4
  <2>5. CASE log' = Append(log, UserMessage) /\ currentID' = NoMessage
    BY <1>a, <2>1, <2>2, <2>5
  <2> QED
    BY <2>1, <2>3, <2>4, <2>5
<1> QED
  BY <1>t, <1>1, <1>2, <1>3, LogGrowth

(* An appender holds calls of the step.                                    *)
LEMMA HeldStep ==
  ASSUME TurnInv, ReplayInv, [Next]_vars
  PROVE  HeldInv'
<1>t. /\ LogType /\ MessageInv /\ ToolInv /\ AppendInv /\ HeldInv
      /\ tool \in [Calls -> Tools] /\ calls \subseteq Calls
      /\ snapshot \in [Appenders -> Snapshots]
      /\ StreamThread \in Appenders /\ Calls \subseteq Appenders
      /\ Len(log) + 1 # NoMessage
  BY NoMessageAssumption
     DEF TurnInv, ReplayInv, TypeOK, Appenders, Snapshots, LogType
<1>l. \A i \in DOMAIN log : log'[i] = log[i]
  BY LogTypeStep
<1>s. NoMessage # currentID => currentID \in DOMAIN log
  BY <1>t DEF MessageInv, IsMessageOf
<1>h. /\ \A c \in Calls : tool[c] = "storing" => snapshot[c].calls \subseteq calls
      /\ stream \in {"storing", "failstoring"} =>
           snapshot[StreamThread].calls \subseteq calls
      /\ stream = "synthesise" =>
           /\ currentID # NoMessage
           /\ snapshot[StreamThread].calls \subseteq log[currentID].calls
  BY <1>t DEF HeldInv, Appending, StreamAppends
<1>g. ASSUME \A c \in Calls :
               tool'[c] = "storing" => snapshot'[c].calls \subseteq calls',
             stream' \in {"storing", "failstoring"} =>
               snapshot'[StreamThread].calls \subseteq calls',
             stream' = "synthesise" =>
               /\ currentID' # NoMessage
               /\ snapshot'[StreamThread].calls \subseteq log'[currentID'].calls
      PROVE  HeldInv'
  BY <1>g DEF HeldInv, Appending, StreamAppends
<1>e. ASSUME EndTurn PROVE HeldInv'
  <2>1. stream' = "idle" /\ \A c \in Calls : tool'[c] # "storing"
    BY <1>e DEF EndTurn, AbandonedTools
  <2> QED
    BY <1>g, <2>1
<1>u. ASSUME UNCHANGED <<snapshot, currentID>>, calls \subseteq calls',
             stream' \in {stream, "open", "finished", "failed"},
             \A c \in Calls : tool'[c] = "storing" => tool[c] = "storing"
      PROVE  HeldInv'
  BY <1>g, <1>h, <1>l, <1>s, <1>u
<1>1. CASE StartTurn
  BY <1>u, <1>1 DEF StartTurn
<1>2. CASE Crash \/ SyntheticEnds
  BY <1>e, <1>2 DEF Crash, SyntheticEnds
<1>3. CASE \/ OnTextDelta \/ OnStreamFinish \/ Annotate
           \/ \E h \in Handles : SetModel(h)
           \/ UNCHANGED vars
  <2>1. /\ UNCHANGED <<snapshot, currentID, tool, calls>>
        /\ stream' \in {stream, "finished"}
    BY <1>3 DEF OnTextDelta, OnStreamFinish, SetModel, Annotate, vars
  <2> QED
    BY <1>u, <2>1
<1>5. ASSUME NEW c \in Calls, OnToolInputEnd(c) \/ OnToolCall(c) PROVE HeldInv'
  BY <1>t, <1>u, <1>5 DEF OnToolInputEnd, OnToolCall
<1>6. ASSUME NEW c \in Calls, ToolStep(c) PROVE HeldInv'
  <2>1. CASE ToolStart(c) \/ ToolFindsMessage(c) \/ ToolTouches(c)
             \/ ToolReturns(c) \/ OnToolResult(c)
    <3>1. /\ UNCHANGED <<snapshot, currentID, calls, stream>>
          /\ \E s \in {"before", "touching", "running", "ran", "over", "broken"} :
               tool' = [tool EXCEPT ![c] = s]
      BY <2>1 DEF ToolStart, ToolFindsMessage, ToolTouches, ToolReturns,
                  OnToolResult
    <3> QED
      BY <1>t, <1>u, <3>1
  <2>2. CASE ToolEntersAppend(c)
    <3>1. /\ snapshot' = [snapshot EXCEPT ![c] = Buffered(usageArg[c])]
          /\ tool' = [tool EXCEPT ![c] = "storing"]
          /\ UNCHANGED <<calls, stream>>
          /\ currentID = NoMessage /\ ~appending
      BY <2>2 DEF ToolEntersAppend, Enters, GuardOpen
    <3>2. /\ ~StreamAppends /\ stream # "synthesise"
          /\ \A d \in Calls : tool[d] # "storing"
      BY <1>t, <1>h, <3>1 DEF AppendInv, Appending
    <3>3. Buffered(usageArg[c]).calls = calls
      BY DEF Buffered
    <3>4. \A d \in Calls : tool'[d] = "storing" => d = c
      BY <1>t, <3>1, <3>2
    <3>5. snapshot'[c].calls \subseteq calls'
      BY <1>t, <3>1, <3>3
    <3> QED
      BY <1>g, <3>1, <3>2, <3>4, <3>5 DEF StreamAppends
  <2>3. CASE ToolStoresAssistant(c)
    <3>1. /\ tool[c] = "storing"
          /\ \E s \in {"touching", "broken"} : tool' = [tool EXCEPT ![c] = s]
          /\ UNCHANGED <<calls, stream>>
      BY <2>3 DEF ToolStoresAssistant
    <3>2. /\ ~StreamAppends /\ stream # "synthesise"
          /\ \A d \in Calls : tool[d] = "storing" => d = c
      BY <1>t, <1>h, <3>1 DEF AppendInv, Appending
    <3>3. \A d \in Calls : tool'[d] # "storing"
      BY <1>t, <3>1, <3>2
    <3> QED
      BY <1>g, <3>1, <3>2, <3>3 DEF StreamAppends
  <2> QED
    BY <1>6, <2>1, <2>2, <2>3 DEF ToolStep
<1>7. CASE FinishStep
  <2>1. CASE FinishEntersAppend \/ FailureEntersAppend
    <3>1. /\ \E u : snapshot' = [snapshot EXCEPT ![StreamThread] = Buffered(u)]
          /\ UNCHANGED <<calls, tool>> /\ ~appending
          /\ stream' \in {"storing", "failstoring"}
          /\ currentID = NoMessage
      BY <2>1 DEF FinishEntersAppend, FailureEntersAppend, Enters, GuardOpen
    <3>2. \A d \in Calls : tool'[d] # "storing"
      BY <1>t, <3>1 DEF AppendInv, Appending
    <3>3. \A u : Buffered(u).calls = calls
      BY DEF Buffered
    <3>4. snapshot'[StreamThread].calls \subseteq calls'
      BY <1>t, <3>1, <3>3
    <3> QED
      BY <1>g, <3>1, <3>2, <3>4
  <2>2. CASE FailureFindsMessage
    <3>1. /\ stream = "failed" /\ currentID # NoMessage
          /\ UNCHANGED <<tool, calls, currentID, log>> /\ stream' = "synthesise"
          /\ snapshot' = [snapshot EXCEPT ![StreamThread] =
                            [Nothing EXCEPT !.calls = log[final].calls]]
      BY <2>2 DEF FailureFindsMessage, BeginSynthetic
    <3>2. final = currentID
      BY <1>t, <3>1 DEF MessageInv
    <3>3. snapshot'[StreamThread].calls = log[currentID].calls
      BY <1>t, <3>1, <3>2 DEF Nothing
    <3>4. \A c \in Calls : tool'[c] = "storing" => FALSE
      BY <1>t, <3>1 DEF AppendInv, Appending
    <3> QED
      BY <1>g, <3>1, <3>3, <3>4
  <2>3. CASE FinishWithCalls
    <3>1. /\ stream' = "open" /\ tool' = tool
          /\ \A c \in calls : tool[c] = "over"
      BY <2>3 DEF FinishWithCalls, AllAnswered
    <3>2. \A c \in Calls : tool'[c] # "storing"
      BY <1>t, <3>1 DEF ToolInv
    <3> QED
      BY <1>g, <3>1, <3>2
  <2>4. CASE AppendSyntheticToolResult
    <3>1. PICK c \in snapshot[StreamThread].calls :
            snapshot' = [snapshot EXCEPT ![StreamThread].calls = @ \ {c}]
      BY <2>4 DEF AppendSyntheticToolResult
    <3>2. stream = "synthesise" /\ UNCHANGED <<stream, calls, tool, currentID>>
      BY <2>4 DEF AppendSyntheticToolResult
    <3>3. snapshot'[StreamThread].calls \subseteq snapshot[StreamThread].calls
      BY <1>t, <3>1 DEF Snapshots
    <3>4. \A d \in Calls : tool'[d] # "storing"
      BY <1>t, <1>h, <3>2 DEF AppendInv, Appending
    <3> QED
      BY <1>g, <1>h, <1>l, <1>s, <3>2, <3>3, <3>4
  <2>5. CASE FinishStoresAssistant \/ FailureStoresAssistant
    <3>1. /\ StreamAppends
          /\ \/ EndTurn
             \/ stream' = "failed" /\ tool' = tool
             \/ /\ stream' = "synthesise" /\ tool' = tool
                /\ log' = Append(log, AssistantMessage(snapshot[StreamThread]))
                /\ currentID' = Len(log) + 1
                /\ snapshot' = [snapshot EXCEPT ![StreamThread] =
                     [Nothing EXCEPT !.calls = snapshot[StreamThread].calls]]
      BY <2>5 DEF FinishStoresAssistant, FailureStoresAssistant, StreamAppends,
                  BeginSynthetic, AppendMessage, StoreAssistantFails
    <3>2. \A c \in Calls : tool[c] # "storing"
      BY <1>t, <3>1 DEF AppendInv, Appending
    <3>3. CASE stream' = "failed" /\ tool' = tool
      BY <1>g, <3>2, <3>3
    <3>4. CASE /\ stream' = "synthesise" /\ tool' = tool
               /\ log' = Append(log, AssistantMessage(snapshot[StreamThread]))
               /\ currentID' = Len(log) + 1
               /\ snapshot' = [snapshot EXCEPT ![StreamThread] =
                     [Nothing EXCEPT !.calls = snapshot[StreamThread].calls]]
      <4>1. step > 0 /\ ControlType /\ snapshot[StreamThread] \in Snapshots
        BY <1>t, <3>1, TypeParts DEF TurnInv, ToolInv, StreamAppends
      <4>2. /\ AssistantMessage(snapshot[StreamThread]) \in Messages
            /\ AssistantMessage(snapshot[StreamThread]).calls =
                 snapshot[StreamThread].calls
        BY <4>1, MessageType
      <4>3. log'[currentID'] = AssistantMessage(snapshot[StreamThread])
        BY <1>t, <3>4, <4>2, AppendOne DEF LogType
      <4>4. snapshot'[StreamThread].calls = snapshot[StreamThread].calls
        BY <1>t, <3>4 DEF Nothing
      <4> QED
        BY <1>g, <1>t, <3>2, <3>4, <4>2, <4>3, <4>4
    <3> QED
      BY <1>e, <3>1, <3>3, <3>4
  <2> QED
    BY <1>7, <2>1, <2>2, <2>3, <2>4, <2>5 DEF FinishStep
<1>8. CASE StreamFails
  <2>1. CASE EndTurn
    BY <1>e, <2>1
  <2>2. CASE ~EndTurn
    BY <1>u, <1>8, <2>2 DEF StreamFails
  <2> QED
    BY <2>1, <2>2
<1> QED
  BY <1>1, <1>2, <1>3, <1>5, <1>6, <1>7, <1>8, NextCases

(* The calls of a step come one by one.                                    *)
LEMMA FiniteStep ==
  ASSUME TurnInv, ReplayInv, [Next]_vars
  PROVE  FinitelyMany'
<1>t. LogType /\ ToolInv /\ ControlType /\ HeldInv /\ FinitelyMany
  BY TypeParts DEF TurnInv, ReplayInv
<1>1. IsFiniteSet(calls')
  <2>1. ASSUME NEW c \in Calls PROVE IsFiniteSet(calls \cup {c})
    BY <1>t, FS_AddElement DEF FinitelyMany
  <2>2. \/ calls' = calls \/ calls' = {}
        \/ \E c \in Calls : calls' = calls \cup {c}
    BY <1>t, LogGrowth DEF LogsCalls, LogsResult, LogsNeither
  <2> QED
    BY <1>t, <2>1, <2>2, FS_EmptySet DEF FinitelyMany
<1>2. ASSUME NEW i \in DOMAIN log', log'[i].role = "assistant"
      PROVE  IsFiniteSet(log'[i].calls)
  <2>k. ASSUME NEW m \in Messages, log' = Append(log, m),
               m.role = "assistant" => IsFiniteSet(m.calls)
        PROVE  IsFiniteSet(log'[i].calls)
    <3>1. \/ i \in DOMAIN log /\ log'[i] = log[i]
          \/ log'[i] = m
      BY <1>t, <2>k, AppendOne DEF LogType
    <3> QED
      BY <1>t, <1>2, <2>k, <3>1 DEF FinitelyMany
  <2>1. CASE LogsCalls
    <3>1. PICK x \in Snapshots :
            x.calls \subseteq calls /\ log' = Append(log, AssistantMessage(x))
      BY <2>1 DEF LogsCalls
    <3>2. step > 0
      BY <1>t, <2>1 DEF LogsCalls, ToolInv
    <3>3. /\ AssistantMessage(x) \in Messages
          /\ AssistantMessage(x).calls = x.calls
      BY <1>t, <3>2, MessageType
    <3>4. IsFiniteSet(x.calls)
      BY <1>t, <3>1, FS_Subset DEF FinitelyMany
    <3> QED
      BY <2>k, <3>1, <3>3, <3>4
  <2>2. CASE LogsResult
    BY <2>k, <2>2, Roles DEF LogsResult
  <2>3. CASE log' = log
    BY <1>t, <1>2, <2>3 DEF FinitelyMany
  <2>4. CASE LogsNeither /\ log' # log
    BY <2>k, <2>4, Roles DEF LogsNeither
  <2> QED
    BY <1>t, <2>1, <2>2, <2>3, <2>4, LogGrowth
<1> QED
  BY <1>1, <1>2 DEF FinitelyMany

(* It holds in every state of every run.                                   *)
LEMMA ReplayInvariant == Spec => []ReplayInv
<1>1. Init => ReplayInv
  <2> SUFFICES ASSUME Init PROVE ReplayInv
    OBVIOUS
  <2>1. DOMAIN log = {} /\ calls = {} /\ currentID = NoMessage
    BY DEF Init
  <2>2. stream = "idle" /\ \A c \in Calls : tool[c] = "idle"
    BY DEF Init
  <2>3. PairsInv /\ CallsInv
    BY <2>1 DEF PairsInv, CallsInv
  <2>4. HeldInv
    BY <2>2 DEF HeldInv, Appending, StreamAppends
  <2>5. FinitelyMany
    BY <2>1, FS_EmptySet DEF FinitelyMany
  <2> QED
    BY <2>3, <2>4, <2>5 DEF ReplayInv
<1>2. TurnInv /\ ReplayInv /\ [Next]_vars => ReplayInv'
  <2> SUFFICES ASSUME TurnInv, ReplayInv, [Next]_vars PROVE ReplayInv'
    OBVIOUS
  <2>1. PairsInv' /\ CallsInv' /\ HeldInv' /\ FinitelyMany'
    BY PairsStep, CallsStep, HeldStep, FiniteStep
  <2> QED
    BY <2>1 DEF ReplayInv
<1> QED
  BY <1>1, <1>2, TurnInvariant, PTL DEF Spec

-----------------------------------------------------------------------------
(* The messages that one row becomes.                                      *)
Replayed(i) ==
  CASE log[i].role = "assistant" -> WithSyntheticResults(log[i], log)
    [] log[i].role = "tool" /\ log[i].call \notin CallsIn(log) -> <<>>
    [] OTHER -> <<log[i]>>

(* An assistant message is followed by a result for each of its calls that *)
(* has none; other rows are themselves, or dropped.                        *)
LEMMA ReplayedRow ==
  ASSUME LogType, FinitelyMany, NEW i \in DOMAIN log
  PROVE  /\ Replayed(i) \in Seq(Messages)
         /\ log[i].role = "assistant" =>
              /\ 1 \in DOMAIN Replayed(i) /\ Replayed(i)[1] = log[i]
              /\ \A j \in DOMAIN Replayed(i) : j # 1 =>
                   /\ Replayed(i)[j].role = "tool"
                   /\ Replayed(i)[j].call \in log[i].calls
              /\ \A c \in log[i].calls \ ResultsIn(log) :
                   \E j \in DOMAIN Replayed(i) :
                     j # 1 /\ Replayed(i)[j].role = "tool" /\ Replayed(i)[j].call = c
         /\ log[i].role # "assistant" =>
              Replayed(i) = IF log[i].role = "tool" /\ log[i].call \notin CallsIn(log)
                            THEN <<>> ELSE <<log[i]>>
<1>1. log[i] \in Messages
  BY DEF LogType
<1>2. CASE log[i].role # "assistant"
  <2>1. Replayed(i) = IF log[i].role = "tool" /\ log[i].call \notin CallsIn(log)
                      THEN <<>> ELSE <<log[i]>>
    BY <1>2 DEF Replayed
  <2>2. << >> \in Seq(Messages) /\ <<log[i]>> \in Seq(Messages)
    BY <1>1
  <2> QED
    BY <1>2, <2>1, <2>2
<1>3. CASE log[i].role = "assistant"
  <2> DEFINE C == log[i].calls \ ResultsIn(log)
             T == {ToolMessage(c, TRUE) : c \in C}
             s == SetToSeq(T)
  <2>1. log[i] \in AssistantMessages
    BY <1>1, <1>3, Roles
  <2>2. log[i].calls \subseteq Calls /\ IsFiniteSet(log[i].calls)
    BY <1>3, <2>1 DEF AssistantMessages, FinitelyMany
  <2>3. IsFiniteSet(T)
    <3>1. IsFiniteSet(C)
      BY <2>2, FS_Subset
    <3> DEFINE f == [c \in C |-> ToolMessage(c, TRUE)]
    <3>2. f \in Surjection(C, T)
      BY DEF Surjection
    <3> HIDE DEF f, C, T
    <3> QED
      BY <3>1, <3>2, FS_Surjection
  <2>4. T \subseteq Messages
    BY <2>2, Roles
  <2>5. \A t \in T : t.role = "tool" /\ t.call \in C
    BY DEF ToolMessage
  <2>6. \A c \in C : ToolMessage(c, TRUE) \in T /\ ToolMessage(c, TRUE).call = c
                     /\ ToolMessage(c, TRUE).role = "tool"
    BY DEF ToolMessage
  <2>7. Replayed(i) = <<log[i]>> \o s
    BY <1>3 DEF Replayed, WithSyntheticResults
  <2>8. C \subseteq log[i].calls
    OBVIOUS
  <2> HIDE DEF C, T, s
  <2>9. /\ s \in Seq(T) /\ \A t \in T : \E j \in DOMAIN s : s[j] = t
    BY <2>3, SetToSeqIs DEF s
  <2>10. s \in Seq(Messages) /\ DOMAIN s = 1..Len(s) /\ Len(s) \in Nat
         /\ \A j \in DOMAIN s : s[j] \in T
    BY <2>4, <2>9
  <2>11. /\ Replayed(i) \in Seq(Messages)
         /\ DOMAIN Replayed(i) = 1..(1 + Len(s))
         /\ Replayed(i)[1] = log[i]
         /\ \A j \in DOMAIN s : Replayed(i)[1 + j] = s[j]
    <3>1. <<log[i]>> \in Seq(Messages) /\ Len(<<log[i]>>) = 1 /\ <<log[i]>>[1] = log[i]
          /\ 1 \in DOMAIN <<log[i]>>
      BY <1>1
    <3>2. /\ <<log[i]>> \o s \in Seq(Messages)
          /\ DOMAIN (<<log[i]>> \o s) = 1..(Len(<<log[i]>>) + Len(s))
          /\ \A k \in DOMAIN <<log[i]>> : (<<log[i]>> \o s)[k] = <<log[i]>>[k]
          /\ \A j \in DOMAIN s : (<<log[i]>> \o s)[Len(<<log[i]>>) + j] = s[j]
      BY <2>10, <3>1, Concatenated
    <3> QED
      BY <2>7, <3>1, <3>2
  <2> DEFINE R == Replayed(i)
  <2>12. 1 \in DOMAIN R
    BY <2>10, <2>11
  <2>13. ASSUME NEW j \in DOMAIN R, j # 1
         PROVE  R[j].role = "tool" /\ R[j].call \in log[i].calls
    <3>1. j - 1 \in DOMAIN s /\ j = 1 + (j - 1)
      BY <2>10, <2>11, <2>13
    <3>2. R[j] = s[j - 1] /\ s[j - 1] \in T
      BY <2>10, <2>11, <3>1
    <3> HIDE DEF R
    <3> QED
      BY <2>5, <2>8, <3>2
  <2>14. ASSUME NEW c \in C
         PROVE  \E j \in DOMAIN R : j # 1 /\ R[j].role = "tool" /\ R[j].call = c
    <3>1. PICK j \in DOMAIN s : s[j] = ToolMessage(c, TRUE)
      BY <2>6, <2>9
    <3>2. 1 + j \in DOMAIN R /\ 1 + j # 1 /\ R[1 + j] = s[j]
      BY <2>10, <2>11
    <3> HIDE DEF R
    <3> QED
      BY <2>6, <3>1, <3>2
  <2> QED
    BY <1>3, <2>11, <2>12, <2>13, <2>14 DEF C
<1> QED
  BY <1>2, <1>3

(* Whatever the store holds of calls and results, what is sent to the      *)
(* model pairs each call with a result that follows it, and each result    *)
(* with its call.                                                          *)
LEMMA ReplayPairs ==
  ASSUME LogType, PairsInv, FinitelyMany
  PROVE  ReplayIsWellFormed
<1> DEFINE seqs == [i \in DOMAIN log |-> Replayed(i)]
           out == ToFantasyMessages(log)
<1>1. /\ DOMAIN log = 1..Len(log) /\ Len(log) \in Nat
      /\ \A i \in DOMAIN log : Replayed(i) \in Seq(Messages)
  BY ReplayedRow DEF LogType
<1>2. seqs \in Seq(Seq(Messages)) /\ DOMAIN seqs = DOMAIN log
  BY <1>1
<1>3. out = FlattenSeq(seqs)
  BY DEF ToFantasyMessages, Replayed
<1> HIDE DEF out
<1>4. /\ out \in Seq(Messages)
      /\ \E start : Laid(start, seqs, out)
  BY <1>2, <1>3, Flattened
<1>5. PICK start : Laid(start, seqs, out)
  BY <1>4
<1>6. /\ \A i \in DOMAIN log : start[i] \in Nat
      /\ \A i \in DOMAIN log : \A j \in DOMAIN Replayed(i) :
           /\ start[i] + j \in DOMAIN out
           /\ out[start[i] + j] = Replayed(i)[j]
      /\ \A k \in DOMAIN out : \E i \in DOMAIN log : \E j \in DOMAIN Replayed(i) :
           k = start[i] + j
      /\ \A i, h \in DOMAIN log :
           i < h => start[i] + Len(Replayed(i)) <= start[h]
  BY <1>2, <1>5 DEF Laid
<1>7. DOMAIN out = 1..Len(out) /\ Len(out) \in Nat
  BY <1>4
<1>8. \A i \in DOMAIN log : /\ Len(Replayed(i)) \in Nat
                            /\ DOMAIN Replayed(i) = 1..Len(Replayed(i))
                            /\ i \in Nat
  BY <1>1
<1> HIDE DEF seqs
<1> DEFINE Joined(p, q) ==
             \A k \in (p + 1)..(q - 1) : out[k].role \in {"tool", "system"}
\* From an assistant message to a message of its own or of a later row,
\* when the rows in between are results, there are only results.
<1>9. ASSUME NEW a \in DOMAIN log, log[a].role = "assistant",
             NEW b \in DOMAIN log, NEW j \in DOMAIN Replayed(b),
             \/ b = a /\ j # 1
             \/ a < b /\ j = 1 /\ OnlyResults(a, b)
      PROVE  Joined(start[a] + 1, start[b] + j)
  <2> SUFFICES ASSUME NEW k \in ((start[a] + 1) + 1)..((start[b] + j) - 1)
               PROVE  out[k].role \in {"tool", "system"}
    OBVIOUS
  <2>1. /\ start[a] \in Nat /\ start[b] \in Nat /\ j \in Nat
        /\ start[b] + j \in DOMAIN out
    BY <1>6, <1>8
  <2>2. k \in DOMAIN out /\ k > start[a] + 1 /\ k < start[b] + j /\ k \in Nat
    BY <1>7, <2>1
  <2>3a. PICK h \in DOMAIN log : \E e \in DOMAIN Replayed(h) : k = start[h] + e
    BY <1>6, <2>2
  <2>3. PICK e \in DOMAIN Replayed(h) : k = start[h] + e
    BY <2>3a
  <2>4. e \in 1..Len(Replayed(h)) /\ start[h] \in Nat /\ Len(Replayed(h)) \in Nat
        /\ h \in Nat /\ a \in Nat /\ b \in Nat
    BY <1>6, <1>8
  <2>5. a <= h
    <3>1. h < a => start[h] + Len(Replayed(h)) <= start[a]
      BY <1>6
    <3> QED
      BY <2>1, <2>2, <2>3, <2>4, <3>1
  <2>6. h <= b
    <3>1. b < h => start[b] + Len(Replayed(b)) <= start[h]
      BY <1>6
    <3>2. j <= Len(Replayed(b)) /\ Len(Replayed(b)) \in Nat
      BY <1>8
    <3> QED
      BY <2>1, <2>2, <2>3, <2>4, <3>1, <3>2
  <2>7. out[k] = Replayed(h)[e]
    BY <1>6, <2>3
  <2>8. CASE h = a
    <3>1. e # 1
      BY <2>1, <2>2, <2>3, <2>4, <2>8
    <3> QED
      BY <1>9, <2>7, <2>8, <3>1, ReplayedRow
  <2>9. CASE h # a
    <3>1. b # a => h # b
      <4>1. h = b /\ b # a => k = start[b] + e /\ j = 1
        BY <1>9, <2>3
      <4> QED
        BY <2>1, <2>2, <2>4, <4>1
    <3>2. h \in (a + 1)..(b - 1) /\ OnlyResults(a, b)
      BY <1>9, <2>4, <2>5, <2>6, <2>9, <3>1
    <3>3. log[h].role \in {"tool", "system"}
      BY <3>2 DEF OnlyResults
    <3>4. Replayed(h) = <<log[h]>> \/ Replayed(h) = << >>
      BY <3>3, ReplayedRow
    <3>5. Replayed(h)[e] = log[h]
      BY <3>4
    <3> QED
      BY <2>7, <3>3, <3>5
  <2> QED
    BY <2>8, <2>9
\* Where an assistant message is.
<1>10. ASSUME NEW p \in DOMAIN out, NEW c \in Calls,
              out[p].role = "assistant", c \in out[p].calls
       PROVE  \E q \in (p + 1)..Len(out) :
                /\ out[q].role = "tool" /\ out[q].call = c
                /\ Joined(p, q)
  <2>1a. PICK a \in DOMAIN log : \E e \in DOMAIN Replayed(a) : p = start[a] + e
    BY <1>6
  <2>1. PICK e \in DOMAIN Replayed(a) : p = start[a] + e
    BY <2>1a
  <2>2. out[p] = Replayed(a)[e]
    BY <1>6, <2>1
  <2>3. log[a].role = "assistant"
    <3>1. CASE log[a].role # "assistant"
      <4>1. Replayed(a) = << >> \/ Replayed(a) = <<log[a]>>
        BY <3>1, ReplayedRow
      <4>2. Replayed(a)[e] = log[a]
        BY <4>1
      <4> QED
        BY <1>10, <2>2, <3>1, <4>2
    <3> QED
      BY <3>1
  <2>4. e = 1 /\ out[p] = log[a]
    BY <1>10, <2>2, <2>3, ReplayedRow
  <2>5. c \in log[a].calls /\ p = start[a] + 1 /\ start[a] \in Nat
    BY <1>6, <1>10, <2>1, <2>4
  <2>k. ASSUME NEW b \in DOMAIN log, NEW j \in DOMAIN Replayed(b),
               \/ b = a /\ j # 1
               \/ a < b /\ j = 1 /\ OnlyResults(a, b),
               Replayed(b)[j].role = "tool", Replayed(b)[j].call = c
        PROVE  \E q \in (p + 1)..Len(out) :
                 /\ out[q].role = "tool" /\ out[q].call = c
                 /\ Joined(p, q)
    <3>1. Joined(p, start[b] + j)
      BY <1>9, <2>3, <2>5, <2>k
    <3>2. start[b] + j \in DOMAIN out /\ out[start[b] + j] = Replayed(b)[j]
      BY <1>6
    <3>3. p < start[b] + j
      <4>1. j \in Nat /\ j > 0 /\ start[b] \in Nat
        <5>1. j \in 1..Len(Replayed(b)) /\ Len(Replayed(b)) \in Nat
          BY <1>8
        <5> QED
          BY <1>6, <5>1
      <4>2. CASE b = a /\ j # 1
        BY <2>5, <4>1, <4>2
      <4>3. CASE a < b
        <5>1. start[a] + Len(Replayed(a)) <= start[b] /\ Len(Replayed(a)) \in Nat
              /\ Len(Replayed(a)) >= 1
          BY <1>6, <1>8, <2>1, <4>3
        <5> QED
          BY <2>5, <4>1, <5>1
      <4> QED
        BY <2>k, <4>2, <4>3
    <3>4. start[b] + j \in (p + 1)..Len(out)
      <4>1. start[b] + j \in 1..Len(out) /\ p \in Nat
        BY <1>7, <3>2
      <4> QED
        BY <1>7, <3>3, <4>1
    <3> HIDE DEF Joined
    <3> QED
      BY <2>k, <3>1, <3>2, <3>4
  <2>6. CASE c \notin ResultsIn(log)
    <3>1. \E j \in DOMAIN Replayed(a) :
            j # 1 /\ Replayed(a)[j].role = "tool" /\ Replayed(a)[j].call = c
      BY <2>3, <2>5, <2>6, ReplayedRow
    <3> QED
      BY <2>k, <3>1
  <2>7. CASE c \in ResultsIn(log)
    <3>1. PICK b \in DOMAIN log : log[b].role = "tool" /\ log[b].call = c
      BY <2>7 DEF ResultsIn
    <3>2. a < b /\ OnlyResults(a, b)
      BY <2>3, <2>5, <3>1 DEF PairsInv, Asks, Answers
    <3>3. c \in CallsIn(log)
      BY <2>3, <2>5 DEF CallsIn
    <3>4. Replayed(b) = <<log[b]>>
      BY <3>1, <3>3, ReplayedRow
    <3>5. 1 \in DOMAIN Replayed(b) /\ Replayed(b)[1] = log[b]
      BY <3>4
    <3> QED
      BY <2>k, <3>1, <3>2, <3>5
  <2> QED
    BY <2>6, <2>7
<1>11. ASSUME NEW p \in DOMAIN out, NEW c \in Calls,
              out[p].role = "tool", out[p].call = c
       PROVE  \E q \in 1..(p - 1) :
                /\ out[q].role = "assistant" /\ c \in out[q].calls
                /\ Joined(q, p)
  <2>1a. PICK b \in DOMAIN log : \E j \in DOMAIN Replayed(b) : p = start[b] + j
    BY <1>6
  <2>1. PICK j \in DOMAIN Replayed(b) : p = start[b] + j
    BY <2>1a
  <2>2. out[p] = Replayed(b)[j]
    BY <1>6, <2>1
  <2>k. ASSUME NEW a \in DOMAIN log, log[a].role = "assistant", c \in log[a].calls,
               \/ b = a /\ j # 1
               \/ a < b /\ j = 1 /\ OnlyResults(a, b)
        PROVE  \E q \in 1..(p - 1) :
                 /\ out[q].role = "assistant" /\ c \in out[q].calls
                 /\ Joined(q, p)
    <3>1. Joined(start[a] + 1, p)
      BY <1>9, <2>1, <2>k
    <3>2. 1 \in DOMAIN Replayed(a) /\ Replayed(a)[1] = log[a]
      BY <2>k, ReplayedRow
    <3>3. start[a] + 1 \in DOMAIN out /\ out[start[a] + 1] = log[a]
      BY <1>6, <3>2
    <3>4. start[a] + 1 < p /\ start[a] + 1 \in 1..Len(out) /\ p \in 1..Len(out)
      <4>1. j \in Nat /\ j > 0 /\ start[b] \in Nat /\ start[a] \in Nat
        <5>1. j \in 1..Len(Replayed(b)) /\ Len(Replayed(b)) \in Nat
          BY <1>8
        <5> QED
          BY <1>6, <5>1
      <4>2. CASE b = a /\ j # 1
        BY <1>7, <2>1, <3>3, <4>1, <4>2
      <4>3. CASE a < b
        <5>1. start[a] + Len(Replayed(a)) <= start[b] /\ Len(Replayed(a)) \in Nat
              /\ Len(Replayed(a)) >= 1
          BY <1>6, <1>8, <3>2, <4>3
        <5> QED
          BY <1>7, <2>1, <3>3, <4>1, <5>1
      <4> QED
        BY <2>k, <4>2, <4>3
    <3>5. start[a] + 1 \in 1..(p - 1)
      BY <1>7, <3>4
    <3> HIDE DEF Joined
    <3> QED
      BY <2>k, <3>1, <3>3, <3>5
  <2>3. CASE log[b].role = "assistant"
    <3>1. j # 1
      BY <1>11, <2>2, <2>3, ReplayedRow
    <3>2. c \in log[b].calls
      BY <1>11, <2>2, <2>3, <3>1, ReplayedRow
    <3> QED
      BY <2>k, <2>3, <3>1, <3>2
  <2>4. CASE log[b].role # "assistant"
    <3>1. Replayed(b) = IF log[b].role = "tool" /\ log[b].call \notin CallsIn(log)
                        THEN << >> ELSE <<log[b]>>
      BY <2>4, ReplayedRow
    <3>2. Replayed(b) = <<log[b]>> /\ j = 1 /\ out[p] = log[b]
      BY <2>2, <3>1
    <3>3. log[b].role = "tool" /\ log[b].call = c /\ c \in CallsIn(log)
      BY <1>11, <3>1, <3>2
    <3>4. PICK a \in DOMAIN log : log[a].role = "assistant" /\ c \in log[a].calls
      BY <3>3 DEF CallsIn
    <3>5. a < b /\ OnlyResults(a, b)
      BY <3>3, <3>4 DEF PairsInv, Asks, Answers
    <3> QED
      BY <2>k, <3>2, <3>4, <3>5
  <2> QED
    BY <2>3, <2>4
<1> QED
  BY <1>10, <1>11 DEF ReplayIsWellFormed, RepliesAmong, out

(* Whatever a failure, a cancellation or a crash left in the store, the    *)
(* next request has a result after each call, a call before each result,   *)
(* and between the two nothing but results and the UI's rows               *)
(* (toFantasyMessages, src/internal/agent/fantasy_loop.go).                *)
THEOREM ReplayIsAlwaysWellFormed == Spec => []ReplayIsWellFormed
<1>1. TurnInv /\ ReplayInv => ReplayIsWellFormed
  BY ReplayPairs DEF TurnInv, ReplayInv
<1> QED
  BY <1>1, TurnInvariant, ReplayInvariant, PTL
=============================================================================
