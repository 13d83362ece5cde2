# Hygge: models, checks and proofs

This directory holds TLA+ models of the concurrent and persistent core of
hygge, a coding agent for the terminal written in Go: the event bus, the
agent's turn slot and prompt queue, one streamed turn with its tools, the
permission engine and its modal, the files rewritten as a whole, the session
store, the MCP client over its three transports, the UI's view of turns and its
transcript with sub-agents, the layered configuration, the cached model catalog
and the plugin host. TLC checks each model on a small instance; TLAPS proves
theorems about the bus, the turn slot and its queue, a turn, the permission
engine, the session store, the saved files, the MCP client, the UI's queue and
the catalog for every size. All source paths are relative to `src/`.

    tlc -config MCBus.cfg MCBus        # a run
    tlapm BusProofs.tla                # the proofs of a module

## 1. The system

Prompts enter through the terminal UI (`internal/ui`) or the command line
(`cmd/hygge`) and reach `Agent.Send`. The agent keeps one *turn* per session:
it stores the user message, lets the Fantasy library stream the model's answer
through callbacks, runs tools, stores messages and usage, and drains the next
queued prompt. Tools ask the permission engine, which asks the user over the
bus; some of them belong to plugins or to MCP servers. Everything that happens
is published on the bus and shown by the UI.

| Component | State | Operations | Shares or calls |
|---|---|---|---|
| Event bus `internal/bus/bus.go` | per type a slice of entries (bounded channel, RWMutex, drop counter), `closed` | Subscribe, Publish, Unsubscribe, Close, receive | everybody publishes; UI and Ask subscribe |
| Agent: slot and queue `internal/agent/agent.go`, `cost.go` | `activeRuns`, `queues`, `pendingSystemAdditions`, `pendingSteering`, `pluginInjects`, `locks`, `closed` | Send, Enqueue, ClearQueue, Steer, InjectMessage, RefreshHookSystemPromptAdditions, Compact, Close | store, hooks, turn loop, bus |
| Agent: a turn `internal/agent/fantasy_loop.go`, `loop.go`, `handle.go` | buffers of the step, `currentID`, `appendingAsst` and a condition variable, `pendingUsage`, the model handle | Fantasy's callbacks, `beforeRun`/`Run` of a tool, the failure path, SetModel | store, tools on their own goroutines |
| UI: turns, drafts, queue `internal/ui/app*.go` | `busy`, `activeTurns`, `queuedDrafts`, `queueCount`, `pendingQueueFlush`, `inflightCancel` | enter, esc, the bus bridge, Update's handlers, the reconcile tick | agent, bus |
| Permission engine `internal/permission` | `closed`, `yolo`, session cache, matcher | Ask, SetYolo, Close, New | bus round trip to the UI; `.hygge/permissions.json` |
| Permission modal `internal/ui/app_bus_events.go`, `app_keys.go` | `pendingPerms` | receive a request, answer a key, publish the reply | bus |
| State and credential files `internal/state`, `internal/auth` | a file, its `.tmp`, auth's process-wide mutex | AddAllowRule..., Set, Remove, each load-change-save | other processes, crashes |
| Session store `internal/store`, `internal/session/newids.go` | sessions (parent, fork message, totals), messages, compaction markers | CreateSession, ForkSession, AppendMessage, MessagesForSession, MessagesSinceLatestMarker, AddCompactionMarker, PropagateTotals | one SQLite connection |
| MCP client `internal/mcp/client.go` | `pending` calls, `closed`, `initialized` | Initialize, call, notify, readLoop, dispatch, failAll, Close | a transport |
| MCP transports `internal/mcp/sse.go`, `streamable.go`, `stdio.go` | the inbound channel, contexts, drain goroutines, reconnects | Start, Send, Recv, Close | a server process, HTTP |
| Plugins `internal/plugin` | loaded plugins, owned registrations, a Lua state under a mutex each | LoadAll, Install, Update, Remove, UnregisterAll, Close, calls of handlers | tool, hook, command and sub-agent registries, permission engine |
| Hooks `internal/hook` | registered hooks, a wait group and a cap for async ones | Register, Unregister, RunPre, RunPost, Close | agent, plugins |
| Catalog `internal/catalog` | snapshot under an RWMutex, refresh mutex, two goroutines | Load, Refresh, Lookup, Close | snapshot file, HTTP |
| Configuration `internal/config` | the merged tree and its provenance; the files | Load, the profile chain, merge, Write... | files, environment |
| Sub-agents `internal/subagent`, `internal/tool/subagent.go` | one nested agent and session per run | Execute, Run: create the session, publish, send, publish | agent, store, tools, bus |
| UI: transcript `internal/ui/app_messages.go`, `app_subagents.go`, `app_*hydration.go` | `messages`, `subagents` with their own messages, `lastAssistantFlushIdx`, `optimisticUserPending` | handlers of the events of a turn and of sub-agents, a switch of session | bus, store |
| Tools `internal/tool` | registry, read tracker, todo list | Register, Execute, markRead, set | permission, bus, file system |
| Lazy context files `internal/agentsmd` | directories seen, two caps | Touch | the turn, between steps |
| Memory `internal/memory` | one file per memory | save with a shared `.tmp` | other processes |
| Skills, cost, providers, rendering, CLI | none that others race on | parse, format, look up, draw | |

What makes each hard, and what makes it correct:

- **Bus.** Publish sends from a snapshot after it has let go of the map's
  mutex, so Close and Unsubscribe race with sends. Correct: no send on a closed
  channel, no channel closed twice, no subscriber left behind, order per
  publisher, a publisher that never waits for a slow subscriber.
- **Slot and queue.** The slot is freed and the head popped in one critical
  section, and the popped prompt is sent again by a new goroutine, which
  competes with callers. Correct: one turn per session, no prompt lost, doubled
  or left behind, guidance that stays in its turn.
- **Turn.** Several tools and the stream's goroutine may all come to store the
  same assistant message; any of it may fail or be cut off. Correct: one
  message per step; a history the model can be sent again whatever was cut off;
  usage that is not forgotten.
- **UI.** Events of different types overtake each other, full buffers drop
  them, and results of the UI's own goroutines come in any order. Correct: what
  the user entered is handed over once, and what the user cleared never is.
- **Transcript.** It is built twice: from events, in the order they happen to
  arrive, and from the store when a session is opened, possibly while events are
  on their way. Sub-agents run side by side and are hung on rows found by search.
  Correct: no message twice, and live and stored transcript agree.
- **Permissions.** Every waiting Ask sees every reply, requests can be dropped,
  approvals are cached in two places with two lifetimes. Correct: only one's own
  reply decides, nothing is allowed without a cause, hard denials always win.
- **Files.** Shared temporary names, failures and crashes between any two system
  calls. Correct: the file is whole and is the last completed save.
- **Store.** Ids are taken before rows are inserted; cut-offs compare ids and
  listings sort by time; forks nest. Correct: a fork sees a prefix, a
  compaction forgets and repeats nothing, totals add up.
- **MCP.** A timeout, the answer, the end of the read loop and Close all remove
  a pending call; frames come from two sides into one channel that two sides
  close. Correct: one owner per reply channel, nobody waits without a waker, a
  call returns once and with its own answer.
- **Plugins.** A script fails after it has registered half of what it wanted;
  handlers keep a mutex while they wait for the user. Correct: the host holds
  what loaded plugins own and nothing else; calls return and shutdown ends.
- **Catalog.** Slow answers, three refreshers, a file other processes write.
  Correct: a snapshot never gets older, Close returns.
- **Configuration.** Six layers of nested tables, arrays merged by key,
  sentinels that remove settings. Correct: precedence as documented, provenance
  that names the layer a value came from, a saved setting that is then read.

## 2. Modules

| Module | Models | Main state and what it stands for |
|---|---|---|
| `Bus` | `bus/bus.go` | `subs`, `isClosed`, `chan`, `readers`/`writer` (the RWMutex of an entry), `pc`/`snapshot` of publishers, `closing` of closers |
| `TurnSlot` | what Send and Enqueue promise | `fresh`, `waiting`, `running`, `ended` prompts |
| `AgentQueue` | `agent/agent.go`, the lock of `cost.go` | the maps of `Agent`, and the `phase` of each prompt inside Send |
| `Turn` | `agent/fantasy_loop.go`, `loop.go`, `agentsmd/lazy.go`, the UI's row about context files | the locals `runFantasyLoop`'s closures share, `tool` (each tool's goroutine), `log` (stored rows), `billed`, `seen`/`pendingLazy` (the tracker and the blocks kept for the next step) |
| `UiTurns` | `ui/app.go`, `app_send.go`, `app_bus.go`, `app_bus_events.go`, `app_keys.go`, `app_messages.go` | the fields of `App` that concern turns, `events` (per type: subscription, forwarder and what waits for Update), `messages` (results of the UI's goroutines), the agent's slot and queue |
| `SubagentRuns` | `subagent/runtime.go`, `tool/subagent.go`, what `agent/fantasy_loop.go` publishes | `stored` (messages per session), `phase` of each session's turn, `at` (each call), `events` |
| `Transcript` | `ui/app_messages.go`, `app_bus_events.go`, `app_subagents.go`, `app_send.go`, `app_hydration.go`, `app_subagent_hydration.go`, `app_sessions.go` | `rows` (`App.messages`), `subRows` and `ended` (`App.subagents`), `flushIdx`, `optimistic`; `clean` is a history variable |
| `StateFile` | `state/state.go`, `mutators.go`, `project_permissions.go`, `auth/auth.go` | two names, inodes, contents, each writer's descriptor |
| `Permission` | `permission/*.go`, the UI's modal | the engine, each Ask's `pc`, the channels, `pendingPerms`, `outbox` |
| `SessionStore` | `store/messages.go`, `markers.go`, `sessions.go`, `agent/cost.go` | the three tables, each writer's row in hand, each compactor's loaded messages |
| `Rpc` | what `Client.call` promises | `fresh`, `open`, `succeeded`, `failed` calls, what was `answered`, `shut` |
| `McpTransport` | what `mcp/sse.go`, `streamable.go` and `stdio.go` share | `inbound` (a channel, or the pipe of stdio), the GET goroutine's or the process's `getPc`, a `postPc` per POST body, the `closer` goroutine |
| `McpSse`, `McpHttp`, `McpStdio` | the three transports | their own actions over `McpTransport`'s state |
| `McpClient` | `mcp/client.go` over any of them | `pending`, each call's `pc` and `reply` channel, the read loop, Close |
| `ConfigMerge` | `config/merge.go` | no state: a tree is a leaf, a table or a keyed array; `Merge` returns the tree and the paths it touched |
| `Config` | `config/loader.go`, `config.go`, `writer.go` | `disk` (the files), `chain`, `sources`, `merged`, `prov` |
| `Catalog` | `catalog/catalog.go`, `fetcher.go`, `snapshot.go` | `snapshot` and `file` as versions, `mutex` (`refreshing`), each refresher's `pc` |
| `Plugins` | `plugin/registry.go`, `lua.go`, `hook/registry.go`, `ui/app_slash.go`, the start and end of `cli/common.go` | `host` (four registries), `owned`, `loaded`, `mu` of each Lua state, `ui` (the UI's goroutine), `closer` |
| `SeqLemmas` | lemmas: Append and Tail, RemoveAt and InsertAt, FlattenSeq, SetToSeq, the least number of a set and the greatest | |
| `BusProofs`, `AgentQueueProofs`, `TurnProofs`, `PermissionProofs` | theorems about `Bus`, `AgentQueue`, `Turn`, `Permission` | |
| `UiTurnsProofs` | theorems about `UiTurns`, and about `Transcript` as an instance | |
| `StorageProofs` | theorems about `SessionStore`, and about `StateFile` and `Catalog` as instances | |
| `ExtensionProofs` | theorems about `McpClient`, and about `Plugins` as an instance | |
| `MC...` | instances for TLC | assignments of prompts to sessions, of asks to targets, trees of files, symmetry |

**Grain.** One action is one critical section, one channel operation, one
statement or transaction of the store, one system call, one call of Update, or
one merge of a source; what lies between two of them is local. The exceptions
are stated where they occur: in `Bus` the isClosed test and the read of the drop
counter are one step with taking the read lock, since both are stable or
re-read under it. In `Turn` storing the assistant message and recording its
usage are one step (nothing of the turn looks between the two); `SessionStore`
separates them, with a crash between.

**How they compose.** `AgentQueue` implements `TurnSlot` and `McpClient`
implements `Rpc` (`INSTANCE ... WITH` a refinement mapping; both checked and
both proved). `Turn` is what happens between `DoSendLoad` and
`DoSendReturns` of `AgentQueue`. `SessionStore` is what `Turn`'s appends and
`AgentQueue`'s Compact do to the tables. `McpClient` EXTENDS the
three transports, of which Init picks one: the client's steps and the
transport's share the inbound channel. `Transcript` EXTENDS `SubagentRuns`: the
agents store messages and publish, the UI reads both; what a turn does inside is
`Turn`'s, and a message is stored whole. `UiTurns` contains
`AgentQueue`'s slot and queue, kept to what they publish, and uses the bus by
what `Bus` establishes: per type and subscriber a bounded channel in the order
of publication, which drops when it is full. So does `Permission`. The rules file is in
`Permission` at the grain load/save; `StateFile` opens up the save. `Plugins`
joins the plugin registry with the UI's goroutine, the permission ask and the
order of shutdown, because the waiting between them is what can go wrong.

**Correspondence.** Definitions carry the names of the source where TLA+
allows it (`SendQueued`, `SendStarts`, `SendFinishes` for the parts of `Send`;
`AskSubscribe`, `AskPublish`, `AskReceives` for those of `askUser`;
`Dispatch`, `FailAll`, `RemovePending` of the MCP client). Operators marked
`mutant` are plausible bugs, never used by the specification: replacing a
definition by its mutant makes the property it is listed with fail.

**External behaviour assumed.** *Fantasy* drives a turn by callbacks, starts
non-parallel tools one at a time, and returns from Stream only after the tools
it started have returned; whether it may start a tool before the stream has
finished is the constant `Eager`. *SQLite* with one connection: a statement or
transaction is atomic. *The file system*: O_CREATE|O_TRUNC empties the inode
others have open, rename is atomic, a torn write leaves a text that does not
parse. *sync.RWMutex*: a waiting writer keeps new readers out. *An MCP server*
answers a request at most once, at any time after it has received it, on the
GET stream or on the POST's own body; ids are never reused, so a call stands
for its id. A server process may exit at any time, and cmd.Wait then closes the
pipe, with or without the answers that were not read yet. *The catalog service* publishes versions in order and answers with
the current one, or with 304 when that is the client's.

## 3. Runs

A run's properties are the INVARIANTs and PROPERTYs of its configuration.

| run | instance | what it checks |
|---|---|---|
| `bus` | 1 type, 2 subscribers, 1 publisher of 3 events, 1 closer, buffer 2, fairness | no send on or close of a closed channel (`NoPanic`), nobody waits on a channel nobody will close, order per publisher, Publish and Close return |
| `agent_queue` | 1 session, 3 prompts (1 through EnqueuePrompt), 1 steering text, 1 compactor, 1 plugin with cap 1, fairness | one turn per session, no prompt stuck, injected additions stay in the turn that took them, refinement of `TurnSlot`, a queued prompt is settled |
| `turn` | 2 parallel tools, one naming a path with a context file, `Eager`, 3 steps in 2 turns, tool and provider failures, crashes, fairness | one assistant row per step, in the history replayed to the provider every call is followed by its result with only results and the UI's rows between, a step that ends well drops nothing of what was streamed and is billed once, the turn ends |
| `state_file` | 2 writers of 1 process under its mutex, 2 items | the file holds what the last save wrote, whole |
| `permission` | 3 asks, 2 in flight, modal buffer 1, failing disk, 1 restart, attentive user | a reply decides its own ask, an allowed ask has a cause, a covered ask is not put to the user, an ask is answered |
| `session_store` | 3 sessions, forks 2 deep and at any message the parent shows, 2 writers, 2 compactors, 3 messages (at most 5 rows of sessions and messages), clock 0..1, 2 markers, statement failures and crashes, symmetry | a fork sees what its parent saw up to the fork and nothing later but rows that came late, totals add up, a message that did not come late is summarised or sent, both only where ids and times disagree, the cursor never goes back |
| `mcp` | each of 3 transports, Initialize and 2 calls, one answered on the POST's own stream, inbound cap 1, 1 reconnect, fairness | one owner per reply, every waiting call has somebody to wake it, refinement of `Rpc`, Close stops the read loop, a call returns |
| `ui` | 3 prompts, one of them streamed, event buffer 1, at most 3 events behind, symmetry | a draft is handed over once, a cleared bubble stays cleared |
| `config` | user file, 3 profiles to depth 2, project file, environment, 3 of the writers (theme, provider key, plugin sources) | provenance names the source of the value, the highest source wins, a write takes effect or is reported |
| `catalog` | 3 versions, 2 starts, with interval, fairness | the snapshot in use never goes back, Close returns |
| `plugins` | 2 plugins, 4 handler calls, async cap 1, attentive user | the host's tables are those of the loaded plugins, calls return, Close completes |
| `transcript` | root with 2 calls of the sub-agent tool, 1 sub-agent at a time (one answers, the other calls a tool and fails), 1 turn, 2 events behind, opened again once at any time | no stored message is in two rows, in any order of events; after a turn whose events came in order the rows are those the store gives, each sub-agent on its own call |

**Bounds.** The code uses its numbers by comparison only, so the buffers of
256, 64 and 32 become 1 or 2, `maxPluginInjectsPerTurn` 10 becomes 1,
`MaxForkDepth` 8 becomes 2, the compaction minimum of 4 messages becomes 1,
`maxProfileDepth` becomes 2 and the MCP inbound buffer 1: each limit is reached
and passed. Three prompts in `ui` are the least with a draft, a queued prompt and
a turn at the same time; two compactors the least for an overlap over the
cursor, and two writers for rows that come in another order than their ids; two parallel tools the least for answers out of order. Two
publishers of the bus are covered by the proofs only. `ui` and `session_store`
use symmetry, and check safety only. In `session_store` the sessions' rows count against
the same bound as the messages: three sessions leave room for two messages, two
sessions for three. In `transcript`
`MaxText` lets the last message of the root and of the first sub-agent have
text, `MaxStored` holds a step with calls and an answer after it, `Failing` is
the second sub-agent, and any turn fails once it is cancelled. By hand the two
properties were also checked, with no error, with text in every message of the
root and of that sub-agent (1.7 million states), with two turns, with two turns
and two openings where the root fails, with three events behind, and with two
sub-agents at once. Deadlock checking is off where a run may
simply end (all prompts entered, all calls made).

**Fairness.** `Bus`: a goroutine inside Publish, Unsubscribe or Close goes on; a
subscriber need not read. `AgentQueue`: the drain goroutine is scheduled and a
turn that runs ends (which `Turn` shows). `Turn`: goroutines run, tools return,
the provider finishes or fails (its stream has an idle timeout). `Permission`:
the user answers a modal that is shown; requests the full modal channel dropped
are excluded by name (`Dropped`), their ask ends by its context. `McpClient`: a
goroutine that can go on does; a stream ends only when it is cancelled, and the
server need not answer; a call ends with its context (the request timeout
bounds it), a process once Close has begun (SIGKILL is the last resort). `Catalog`: a request has a deadline; strong
fairness on taking the mutex (sync.Mutex hands over to the longest waiter) and
on seeing the stop channel (select chooses at random, so it cannot prefer the
timer for ever). `Plugins`: strong fairness on the hand-over of the plugin's
mutex, an attentive user, and handlers that end. Nothing is assumed of the
environment's choice to make a call, to fail or to crash.

## 4. What is proved

TLAPS checks the following for every value of the constants that satisfies the
named assumptions.

**AgentQueueProofs** (`SessOfAssumption`, `EnqueuedAssumption`,
`NoneAssumption`, `MaxInjectsAssumption`: types of the constants).
`TypeCorrect`; `SlotIsExclusive`: at most one turn per session and no prompt in
two places; `PromptStoredOnce`; `QueueIsFetched`: a non-empty queue has a turn or
a drain that will look at it; `ClosedStartsNothing`; `QueueImplementsSlot`: the
queue implements `TurnSlot`; `AdditionsNeverLeak`: what a hook adds for a prompt
reaches no other prompt's turn. `OneTurnPerSession` is not inductive by itself: a
session marked running must be so for exactly one caller, and a prompt that
starts must not be elsewhere as well, so `SlotInv` is its conjunction with
`NoLostPrompt` (a prompt waits in one place of its own queue, if and only if it
is queued; it is proved and no run's) and the types. `AdditionsInv` adds that what
is pending for a session was added by a refresh, or for a prompt whose message is
stored and whose turn has not returned. What appending to and removing from a queue does to
the set of its elements is in `SeqLemmas`.

**BusProofs** (`TypesAssumption`, `TypeOfAssumption`, `BufferAssumption`,
`BoundAssumption`). `BusTypeCorrect`; `SendsAreSafe`: nobody is about to send on
a closed channel; `ClosesOnce`; `ChannelsNeverPanic`: the two together, the
property of the run; `NobodyStranded`; `CountIsLowerBound`: with any number of
publishers the drop counter is never above the drops; `EventsStayInOrder`. The
invariant has four parts: `LockInv` (readers and the writer exclude one another),
`HolderInv` (a channel in a registry the holder of the lock looks at is open; the
swap-remove of Unsubscribe keeps that), `SnapInv` (what Close has taken out of the
registry is out of it, and each channel in one snapshot) and `CountInv`.
`OrderInv`, on top of it, is what the order needs: a snapshot names an entry once,
and what a publisher has still to send to an entry is newer than all it has sent
there, received or not.

**TurnProofs** (`ParallelAssumption`, `PathsAssumption`, `BoundsAssumption`,
`NoMessageAssumption`). `TypeCorrect`; `OneMessagePerStep`; `StepsAreStoredWhole`.
`TurnInv` is what `appendAssistant`'s condition variable is for: one goroutine is
about to store the message, and none once `currentID` is set (`AppendInv`); a tool
past `beforeRun` has a message (`ToolInv`), which is the only one of its step
(`MessageInv`) and whose usage goes to the store with it (`BilledInv`). That the
message is whole needs `KeptInv`: once the stream of a step has ended, whoever
appends took the buffers after their last change, unless a tool started early,
the case the property leaves out.

`ReplayIsAlwaysWellFormed`: what `toFantasyMessages` replays is well formed at any
moment, whatever the interleaving of tools and context rows and wherever a turn
stopped: a call is followed by a result, a result is preceded by its
call, and between the two are only results and the rows of the UI. It rests on `ReplayInv`: each call and each result is in one row, the
result behind its call (`PairsInv`); a message's calls are of its own step, and all
that the step has asked for (`CallsInv`); a result in the log, or in the hands of a
tool about to store it, is of a tool that has a message (`HeldInv`); and a row has
finitely many of them, so that it can be laid out in a sequence. The replay itself
flattens a sequence per row; `SeqLemmas!Flattened` says which element of the result
came from where, and with it order and number in the replay are those of the log.

**PermissionProofs** (the types of the constants). `TypeCorrect`;
`OnlyOwnReplyDecides`; `NothingAllowedWithoutCause`; `CoveredNeverAsked`. In
`PermInv` a request is in the modal's channel or its queue once, and not once it
is answered (`ShownInv`), so that the user answers it once; a reply on its way says
what was said (`ReplyInv`), although it goes to every Ask; and each pattern in the
cache, the rules, the file, or between a load and a save stems from an approval of
a scope and a process that may put it there (`GrantInv`), over restarts too.
`CacheInv` says that an approval in effect is in the cache of an open engine.

**ExtensionProofs** (`TransportsAssumption`, `StreamedAssumption`, `CapAssumption`,
`ReconnectsAssumption`, `HelloAssumption`; any subset of the transports).
`TypeCorrect`; `ReplyHasOneOwner`; `WaiterIsWoken`; `RefinesRpc`: the client
implements `Rpc` step by step. `McpInv`: the map, the dispatcher, failAll and
Close never hold the same channel (`OwnerInv`), a frame in any buffer was sent by
the server (`AnswersInv`, which the refinement needs), nothing begins before
Initialize (`StartInv`), and, when no frame is unreadable, a registered call whose
channel is open has an owner, and the loop ends only when its stream has
(`WakerInv`, `EndInv`). `WaiterIsWoken` assumes `~BadFrames`, as the run does:
with a line longer than the limit it is false, as section 5 tells.

Of the plugin host, an instance there with the hypothesis `Extensible` (its
assumptions, finitely many calls, each of a plugin): `PluginTypes` and
`PluginsLeaveNothing`, the property of the run. A removal goes by kind and name,
so `PluginInv` must say that a plugin's registration shares both with nothing else
(`NameInv`); that the owner list is what was accepted, all of it of plugins that
are present (`OwnInv`); that a registration under way belongs to a loaded plugin
(`RequestInv`); and that plugins come and go only while no handler runs
(`PhaseInv`), or a removal would miss what a handler has registered and not yet
recorded. Tools, commands and sub-agents are refused when their name is taken;
hooks are not, so both theorems assume `HookNamesApart`. The names lua.go gives by
default do that (`plugin:<plugin>:<event>`); a plugin that passes `name` need not,
and then the property is false (section 5).

**StorageProofs** (`RootAssumption`, `FiniteAssumption`, `DepthAssumption`,
`FlagsAssumption`, `BoundsAssumption`), of the session store, for any numbers of
sessions, writers, messages, compactors and markers and any `MaxForkDepth`.
`TypeCorrect`, `TotalsNeverOvercount` and `ContextMovesForward` need nothing else.
`StoreInv` is what they rest on: ids are given once and a row in hand is in the
table from its insert on (`RowInv`); a compactor alone holds its session's lock and
has only loaded what is after the cut-off, and a marker's id breaks the tie when
the clock has not moved (`CursorInv`); and the total of a session with the usage
still in hand is at most what it and its descendants have stored (`TotalInv`), where
the lineage of a session is the same whoever is created below it.

`NothingForgottenOrRepeated` and `ForksKeepTheirPrefix` need no more either: any
number of goroutines append to one session, as a turn's parallel tools do, and
forks are made at any message their parent shows. Ids are then not the order of the
rows, and what the code's comments promise is false as it stands (section 5). The
properties say how far from it one can get, with a history variable: `late` has,
per session, the messages that came into it when it already showed one of a greater
id. `SentInv` says why nothing else is forgotten: a marker's message was
the latest when it was loaded, so that what is up to the cursor and in no summary
was inserted below an id that was already shown, and is late; and what is summarised
and still beyond the cursor sorts before a smaller id, whose time is greater.
`ForkInv` says why nothing else is inherited: the message of a cut-off is itself
shown, by the session or by one it comes from, so that a row that appears below
the cut-off comes late; the messages of a session's own are newer than its cut-off;
and the chain of forks ends within the number of sessions there are (within
`MaxForkDepth` it is read to its end).

The chains of parents and forks are recursive functions of a depth. Statements
about every depth are proved by the least depth at which they fail
(`SeqLemmas!Least`, from the well-foundedness of the naturals, which needs no
operator parameter), and two functions that climb by the same step are equal
(`IterationUnique`). The lemmas about `FlattenSeq` and `SetToSeq` are found the same
way.

Of the saved files, which are an instance there with their assumptions as the
hypothesis `FileConstants`: `FileTypesCorrect`, which rests on there always being an
inode that no name and no descriptor refers to; and, assuming `OneSaver` (any two
writers are of one process and take its mutex), `FileHoldsLastSaveAlways`: with
failures and crashes at every step. `OneSaver` is what auth's Set and Remove have
within a process; without it the property is false (section 5). Of the catalog,
an instance too, with the hypothesis `Bounds`:
`CatalogTypes`, and `SnapshotMonotone`: whatever refreshes overlap, with crashes
and 304 answers, the snapshot in use never goes back. Its invariant says why:
while the mutex is held the ETag that was sent is the one of the snapshot in use,
so an answer is at least as new.

**UiTurnsProofs** (`NoneAssumption` and the types of the constants).
`PromptsAreInOnePlace` and `ClearedIsNeverRun`. The property of the run is not
inductive: a popped prompt must be announced by one goroutine only and be in no
queue (`PopsInv`), and a Send that has still to report while its prompt is queued
has its own announcement to make first (`ReportsInv`); only then is a report that
arrives late about no draft. The bounds that `TypeOK` puts on counts are TLC's.

Of the transcript, an instance there with its assumptions as the hypothesis
`Transcribed`, which adds that there are finitely many calls (a message's calls are
a slice): `EveryMessageHasOneRow`, for any number of sessions, openings and events
behind. `Transcript!OneRowPerMessage` is not inductive: a handler gives a row the
name of the event's message, so what was said before about the rows must rule out
that another row has it. `TranscriptInv` says of the events that each stored
message is pending at most once, on its way or with the goroutine that has stored
it and still has to announce it (`AnnouncedInv`, which is what a step of the agent
keeps). Of the rows it says that each message is named once, by a row of its own
role (`Good`), and that a row that a delta may still extend, because it streams or
because `lastAssistantFlushIdx` points at it, is of no message that is pending
(`Settled`). A message that is pending may well have a row, when the session was
opened after it was stored; what it cannot have is a row that streams, and so
flushAssistantStream's guard finds it. That opening a session names each message
once follows from `SeqLemmas!Flattened`: a row built from the store is of the
message it was flattened from.

**Only model-checked**: all liveness properties (liveness and ENABLED are out of
the prover's reach); `Config`, whose merge folds over trees and profiles, and what
such a fold computes for every input needs induction over data, whose theorems
take an operator the installed provers cannot instantiate (a depth or the length
of a sequence, as above, can do without them); and `Transcript!LiveMatchesStore`,
which says of two sequences built in different ways that they are the same: its
invariant would have to say, at every point between an answer and the end of the
turn, which rows are still missing and which of the events on their way will bring
them, for the root and for each sub-agent at once.

## 5. Where the code and what is said of it differ

The following statements are operators of the modules and hold no run of
their own. TLC refutes each under the constants given, in the run of its module.

| statement | said at (below src/internal) | refuted with |
|---|---|---|
| `Turn!BilledAtMostOnce` | agent/fantasy_loop.go:379-380 | as in the run |
| `StateFile!FileHoldsLastSave` | state/state.go:18-21 | `Locked = FALSE` (two processes) |
| `SessionStore!ForkIsExactPrefix` | store/sessions.go:419-421 | as in the run (one writer is enough) |
| `SessionStore!EachMessageOnce` | store/messages.go:336-338 | as in the run (with one writer it holds) |
| `SessionStore!TooDeepMeansDeeper` | store/messages.go:308-310 | `MaxForkDepth = 1` |
| `Bus!ExactCount` | bus/bus.go:217-218 | two publishers |
| `AgentQueue!CompactNeverRacesSend` | agent/agent.go:31-32, agent/cost.go:183-184 | `Prompts = {m1, m2}` |
| `AgentQueue!SteeringStaysInTurn` | agent/agent.go:905 | `Prompts = {m1, m2}`, `Texts = {x1}` |
| `AgentQueue!InjectCapIsPerTurn` | agent/agent.go:1166-1168 | `MaxInjects = 2` |
| `AgentQueue!EnqueuedSettles` | agent/agent.go:928 | `Enqueued = {m2}`, FairSpec |
| `Turn!SequentialTools` | agent/agent.go:20-21 | `Parallel = {a, b}` |
| `Turn!SyntheticMeansUnanswered` | agent/fantasy_loop.go:594 | `Parallel = {}` |
| `Turn!PricedByTurnHandle` | agent/fantasy_loop.go:160-166 | `Handles = {h1, h2}` |
| `Turn!NothingBetween` | ui/app_bus_events.go:445 | as in the run |
| `Turn!TouchIsSerialised` | agentsmd/lazy.go:42-43 | `Paths = {a, b}` |
| `Permission!AlwaysIsPersisted` | permission/permission.go:543-545 | `Asks = {a1, a2}`, `UIBuffer = 2` |
| `Permission!CloseCancelsAsks` | permission/permission.go:36-37 | `Asks = {a1}`, FairSpec |
| `McpClient!NoSendOnClosedInbound` | mcp/sse.go:569-570 | `Transports = {"sse"}`, `Streamed = {hello, c1}` |
| the same | mcp/streamable.go:540-541 | `Transports = {"http"}`, `Streamed = {c1}`, Spec |
| `McpClient!TimeoutEndsCall` | mcp/client.go:282-284 | `Transports = {"stdio"}` |
| `Plugins!HostMatchesPlugins` | plugin/registry.go:300-302 | both scripts declare the hook `hookA` |
| `UiTurns!TurnCanBeStopped` | ui/app.go:1166-1171 | as in the run |
| `Transcript!AnchoredToOwnCall` | ui/app_subagents.go:474-476 | as in the run |
| `Transcript!ResultOnOwnRow` | bus/events.go:63-66 | as in the run |
| `Transcript!OneRowPerCall` | ui/app_messages.go:419 | as in the run |
| `Transcript!BubblesAreFinal` | ui/app_messages.go:213-215 | as in the run |
| `Transcript!EndedIsMarked` | ui/app_subagents.go:519-520 | as in the run |

`NoSendOnClosedInbound` over streamable HTTP: Close gives the readers ten
milliseconds and closes the inbound channel, so that they "see EOF"; the caller
that reads a POST's body (streamable.go:544) does not look at the closed flag and
may be in its send, which then panics. The SSE transport does wait for those
readers, but closes the channel without waiting when the GET reader has given up
(sse.go:331), with the same end.

Of the transcript: all five need an event that overtakes another or an opening
of the session meanwhile. A sub-agent whose start comes before its call's row
takes another call's row; a result that comes first, or that belongs to the
other of two parallel calls of one tool, is shown on the wrong row or on one
made up for it, beside the call's own; a delta that comes after the end of its
turn leaves a bubble that streams for ever; a completion that comes before its
start is dropped, and the sub-agent seems to run for ever.

Observed while modelling, and part of the models:

- *UI.* Send's error can reach Update before the message that says the send has
  started, and leaves the UI busy until the next turn; a turn that ends
  in an error leaves drafts unsent until the next one completes; the queue count
  shown can be an older one (QueueChanged is published outside the lock).
- *Transcript.* The event of an assistant message is published after the lock is
  given up, so a parallel call may be requested, and its sub-agent fail, first; the
  "continuing" placeholder is then taken for the message's bubble and the message
  has two (why `clean` asks for `AnnouncedFirst`). A cancelled turn stores nothing
  of what it had streamed: the failure path writes with the cancelled context
  (fantasy_loop.go:416). A sub-agent that fails reports a cost of zero, which
  onSubagentCompleted takes as authoritative. Hydration marks every sub-agent as
  ended, running ones too.
- *MCP.* sse.go:76, streamable.go:37 and stdio.go:23 say that the Client's
  internal write mutex serialises sends; the Client has none. Over stdio a line
  longer than the frame limit ends the read loop while the process lives on, and
  later calls wait for their timeouts (`WaiterHasAWaker` fails with
  `BadFrames = TRUE`). The streamable transport gives its GET stream up without
  telling anybody, so a call answered with 202 then waits for its timeout too.
- *Plugins.* A slash command of a plugin runs on the UI's goroutine
  (app_slash.go:42-44 "Synchronous: built-in commands never block"): if its
  handler asks for permission, the modal that could answer is never drawn. A
  hygge.exec at a script's top level asks before the UI exists. Plugins are
  closed first at shutdown, when only the bus's Close would end an ask.
- *Context files.* The row that the UI stores about a context file is replayed
  as a message of the user's (toFantasyRole) and may lie between a call and its
  result; two goroutines may be in Touch, which changes maps without a lock.
- *Configuration.* An unset sentinel under a table that lower sources lack stays
  as a literal value (merge.go:12-13); an empty array does not clear a keyed one;
  `HYGGE_a` and `HYGGE_a__b` together depend on the order of the environment;
  writer.go:89 reads, changes and writes the file without a lock.
- *Catalog.* Concurrent Refresh calls are serialised, not collapsed; a 304 does
  not renew FetchedAt; the mutex is not given up when the context ends.

## 6. Abstractions

Texts, paths, commands, token counts and prices are model values or counts. A
permission target is a category and a path; glob and command parsing are not
modelled, and `promoteTarget` is a nondeterministic widening; the rules file always
parses, so that a restart succeeds. The recursive
query over forks is the set of ancestors. Ids are numbers in the order taken, not
the order of the rows.
The clock may stand still between readings and moves only when it is read. A
snapshot of the catalog is its version. A configuration is a tree of leaves,
tables and keyed arrays; a prompt of the UI is entered once; the finalising of a
bubble is a nondeterministic event where no property depends on its time. An MCP
id is its call, Close comes after Initialize has returned (as the bootstrap
does it), and which calls are answered on the POST is a constant. A
synchronous hook is a tool call without the permission gate. A path that a call
names is below a directory of its own, with a context file in it; a block is
kept until the next step takes it, and is then no longer followed; the Touch at the end of a step, of paths
its tools have touched already, is left out. A bubble shows
the ids of the messages whose deltas it holds; whether the UI is busy, and which
screen the user has followed a sub-agent to, are nondeterministic in `Transcript`;
a tool's result is in the store when its call has completed, a switch of session
reads the store in one step, and the error of a failed Send is handled before the
next prompt is stored.

What a part leaves out is in its note in `PROJECT.json`.

## 7. Not modelled

Parsers, renderers and conversions without state: the markdown of skills and
commands, prompts, cost arithmetic, provider adapters, themes, layout,
notifications, git. The wizard and the subcommands of the command line are
straight-line I/O, except for what bootstrap and shutdown order (in `Plugins`).
Event payloads beyond the type are the bus's cargo. Migrations are SQL run
once.

Stateful, and left for later: the OAuth refresh of MCP
servers (bootstrap_mcp.go:101-143 loads, changes and saves tokens without a
lock), the tools' own state, memories.

## 8. Plan

Done, in this order: `Bus`; `AgentQueue` over `TurnSlot`; `Turn`; `StateFile`;
`Permission`; `SessionStore`; `McpClient` and its transports over `Rpc`; `UiTurns`;
`Config`; `Catalog`; `Plugins`; `Transcript` over `SubagentRuns`.

Next: the record of files the tools have read; memories and MCP tokens as instances
of `StateFile`; sub-agents' totals in `SessionStore`.

Proved so far: section 4. `StateFile`, `Catalog`, `Plugins` and `Transcript` are
instances in a module that holds theorems on a related component, so that lemmas
are shared and the number of modules to check stays small. Theorems next:
`LiveMatchesStore`, whose rows `TranscriptInv` already describes.
