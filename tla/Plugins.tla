------------------------------- MODULE Plugins -------------------------------
(***************************************************************************)
(* The plugin host (src/internal/plugin): what loading, updating and       *)
(* removing plugins does to the host's registries of tools, hooks, slash   *)
(* commands and sub-agents, and how the handlers a Lua plugin registered   *)
(* run afterwards, called by the agent's goroutines, by asynchronous hooks *)
(* and by the UI, until the process closes everything.                     *)
(*                                                                         *)
(* A Lua plugin has one interpreter under one mutex.  A handler keeps the  *)
(* mutex while it calls back into the host: hygge.exec asks for permission *)
(* and waits for the user without a deadline, hygge.register_* takes the   *)
(* mutex of the plugin registry.  The user answers through the UI, whose   *)
(* only goroutine also runs slash commands, synchronously.                 *)
(***************************************************************************)
EXTENDS Naturals, FiniteSets

CONSTANTS
  Plugins,      \* plugin names
  Configured,   \* those named in [plugins].sources
  MayDeclare,   \* [Plugins -> sets of [kind, name]]: what its script may register
  Builtins,     \* what the host registered before any plugin
  Host,         \* owner of the builtins
  Calls,        \* calls of handlers that may be made, each once
  CallOf,       \* [Calls -> [plugin, by]], by "tool", "hook", "async", "command"
  None,         \* nobody
  AsyncCap      \* hook.maxAsyncInflight

Kinds == {"tool", "hook", "command", "subagent"}
Declarations == UNION {MayDeclare[p] : p \in Plugins}

ASSUME ConfiguredAssumption == Configured \subseteq Plugins
ASSUME OwnersAssumption == {Host, None} \cap (Plugins \cup Calls) = {}
ASSUME BuiltinsAssumption == \A r \in Builtins : r.owner = Host
ASSUME CapAssumption == AsyncCap \in Nat \ {0}

VARIABLES
  phase,       \* "startup", then "running" (the TUI) or "admin" (a `plugins`
               \* command), "quitting", "closed"; or "hung" at start-up
  todo,        \* sources LoadAll has not come to
  script,      \* the plugin whose script loadOne is running
  loaded,      \* Registry.plugins
  host,        \* the registrations in the four host registries
  owned,       \* Registry.owned
  accepted,    \* history: the registrations whose call returned without error
  mu,          \* luaPlugin.mu: the call that holds it
  registryMu,  \* Registry.mu is held by Registry.Close
  pc,          \* where each call is
  request,     \* the declaration a handler is registering
  ui,          \* the command call the UI goroutine is in, or "gone"
  sem,         \* hook.Registry.sem: asynchronous hooks in flight
  closer,      \* where appRuntime.Close is
  closing,     \* the plugin Registry.Close has come to
  shut         \* plugins whose interpreter is closed

loadVars == <<todo, script, loaded>>
regVars == <<host, owned, accepted>>
callVars == <<mu, pc, request, ui, sem>>
closeVars == <<registryMu, closer, closing, shut>>
vars == <<phase, loadVars, regVars, callVars, closeVars>>

Init ==
  /\ phase = "startup"
  /\ todo = Configured
  /\ script = None
  /\ loaded = {}
  /\ host = Builtins
  /\ owned = {}
  /\ accepted = [p \in Plugins |-> {}]
  /\ mu = [p \in Plugins |-> None]
  /\ registryMu = FALSE
  /\ pc = [c \in Calls |-> "idle"]
  /\ request = [c \in Calls |-> None]
  /\ ui = None
  /\ sem = 0
  /\ closer = "none"
  /\ closing = None
  /\ shut = {}

-----------------------------------------------------------------------------
(* Registration.  Tools, commands and sub-agents have unique names, hooks  *)
(* need not have; an owner is recorded once the host registry has accepted.*)

Registration(p, d) == [kind |-> d.kind, name |-> d.name, owner |-> p]
Refused(d) ==
  /\ d.kind # "hook"
  /\ \E r \in host : r.kind = d.kind /\ r.name = d.name

RecordedAlways(d) == TRUE            \* mutant: recorded before it is accepted
Recorded(d) == ~Refused(d)

(* UnregisterAll removes by kind and name what the plugin owns.            *)
HostWithout(p) ==
  {r \in host : \A o \in owned :
     o.owner = p => o.kind # r.kind \/ o.name # r.name}

UnregisterAll(p) ==
  /\ host' = HostWithout(p)
  /\ owned' = {o \in owned : o.owner # p}
  /\ accepted' = [accepted EXCEPT ![p] = {}]

-----------------------------------------------------------------------------
(* LoadAll, Install, Update, Remove                                        *)

Idle == script = None /\ phase \in {"startup", "admin"}

(* loadOne: it may fail before the script runs (no source, no manifest);   *)
(* a name that is taken is skipped.                                        *)
LoadOne(p) ==
  /\ Idle
  /\ phase = "startup" => p \in todo
  /\ todo' = todo \ {p}
  /\ \/ script' = p /\ p \notin loaded
     \/ UNCHANGED script
  /\ UNCHANGED <<phase, loaded, regVars, callVars, closeVars>>

InScript(p) == script = p /\ phase # "hung"

(* The script registers something; a refusal is an error it may catch.     *)
Declare(p, d) ==
  /\ InScript(p)
  /\ d \in MayDeclare[p]
  /\ owned' = IF Recorded(d) THEN owned \cup {Registration(p, d)} ELSE owned
  /\ \/ /\ Refused(d)
        /\ UNCHANGED <<host, accepted>>
     \/ /\ ~Refused(d)
        /\ host' = host \cup {Registration(p, d)}
        /\ accepted' = [accepted EXCEPT ![p] = @ \cup {Registration(p, d)}]
  /\ UNCHANGED <<phase, loadVars, callVars, closeVars>>

(* hygge.exec in the script needs an answer, and there is no UI yet.       *)
ScriptAsks ==
  /\ \E p \in Plugins : InScript(p)
  /\ phase' = "hung"
  /\ UNCHANGED <<loadVars, regVars, callVars, closeVars>>

ScriptFails(p) ==
  /\ InScript(p)
  /\ UnregisterAll(p)
  /\ script' = None
  /\ UNCHANGED <<phase, todo, loaded, callVars, closeVars>>

ScriptEnds(p) ==
  /\ InScript(p)
  /\ loaded' = loaded \cup {p}
  /\ script' = None
  /\ UNCHANGED <<phase, todo, regVars, callVars, closeVars>>

(* Update reloads, unless it fails before the script runs.                 *)
Update(p) ==
  /\ Idle /\ phase = "admin"
  /\ p \in loaded
  /\ UnregisterAll(p)
  /\ loaded' = loaded \ {p}
  /\ script' \in {p, None}
  /\ UNCHANGED <<phase, todo, callVars, closeVars>>

Remove(p) ==
  /\ Idle /\ phase = "admin"
  /\ p \in loaded
  /\ UnregisterAll(p)
  /\ loaded' = loaded \ {p}
  /\ UNCHANGED <<phase, todo, script, callVars, closeVars>>

Started ==
  /\ Idle /\ phase = "startup"
  /\ todo = {}
  /\ phase' \in {"running", "admin"}
  /\ UNCHANGED <<loadVars, regVars, callVars, closeVars>>

-----------------------------------------------------------------------------
(* Handlers.  A tool first asks for the plugin category, outside of the    *)
(* mutex; the policy may answer both questions without the user.           *)

PluginOf(c) == CallOf[c].plugin
By(c) == CallOf[c].by
Registered(c) ==
  \E r \in host : /\ r.owner = PluginOf(c)
                  /\ r.kind = (IF By(c) = "async" THEN "hook" ELSE By(c))
Goes(c, place) == pc' = [pc EXCEPT ![c] = place]

(* The agent's goroutines may still be running when the TUI has quit.      *)
Serving == phase = "running" \/ (phase = "quitting" /\ ui = "gone")

Start(c) ==
  /\ pc[c] = "idle"
  /\ Registered(c)
  /\ Serving
  /\ \/ By(c) = "tool" /\ Goes(c, "gate") /\ UNCHANGED <<ui, sem>>
     \/ By(c) \in {"tool", "hook"} /\ Goes(c, "enter") /\ UNCHANGED <<ui, sem>>
     \/ /\ By(c) = "async"
        /\ IF sem < AsyncCap THEN Goes(c, "enter") /\ sem' = sem + 1
                             ELSE Goes(c, "done") /\ UNCHANGED sem
        /\ UNCHANGED ui
     \/ /\ By(c) = "command"
        /\ phase = "running" /\ ui = None
        /\ Goes(c, "enter")
        /\ ui' = c
        /\ UNCHANGED sem
  /\ UNCHANGED <<phase, loadVars, regVars, mu, request, closeVars>>

(* What a returning call leaves: the semaphore, or the UI's goroutine.     *)
Leaves(c) ==
  /\ Goes(c, "done")
  /\ ui' = IF ui = c THEN None ELSE ui
  /\ sem' = IF By(c) = "async" THEN sem - 1 ELSE sem

Enter(c) ==
  LET p == PluginOf(c) IN
  /\ pc[c] = "enter"
  /\ mu[p] = None
  /\ \/ /\ p \in shut                      \* "plugin is closed"
        /\ Leaves(c)
        /\ UNCHANGED mu
     \/ /\ p \notin shut
        /\ mu' = [mu EXCEPT ![p] = c]
        /\ Goes(c, "run")
        /\ UNCHANGED <<ui, sem>>
  /\ UNCHANGED <<phase, loadVars, regVars, request, closeVars>>

(* hygge.exec, for a command the policy neither allows nor denies.         *)
Exec(c) ==
  /\ pc[c] = "run"
  /\ Goes(c, "ask")
  /\ UNCHANGED <<phase, loadVars, regVars, mu, request, ui, sem, closeVars>>

(* hygge.register_* in a handler: the host registry first, then owned.     *)
Register(c, d) ==
  /\ pc[c] = "run"
  /\ d \in MayDeclare[PluginOf(c)]
  /\ ~Refused(d)
  /\ host' = host \cup {Registration(PluginOf(c), d)}
  /\ request' = [request EXCEPT ![c] = d]
  /\ Goes(c, "register")
  /\ UNCHANGED <<phase, loadVars, owned, accepted, mu, ui, sem, closeVars>>

RecordOwned(c) ==
  LET r == Registration(PluginOf(c), request[c]) IN
  /\ pc[c] = "register"
  /\ ~registryMu
  /\ owned' = owned \cup {r}
  /\ accepted' = [accepted EXCEPT ![PluginOf(c)] = @ \cup {r}]
  /\ request' = [request EXCEPT ![c] = None]
  /\ Goes(c, "ran")
  /\ UNCHANGED <<phase, loadVars, host, mu, ui, sem, closeVars>>

MutexKept(c) == IF pc[c] = "ran" THEN mu        \* mutant: an early return
                ELSE [mu EXCEPT ![PluginOf(c)] = None]
MutexReleased(c) == [mu EXCEPT ![PluginOf(c)] = None]

Return(c) ==
  /\ pc[c] \in {"run", "ran"}
  /\ mu' = MutexReleased(c)
  /\ Leaves(c)
  /\ UNCHANGED <<phase, loadVars, regVars, request, closeVars>>

(* An attentive user answers whatever the UI can show; the answer ends a   *)
(* tool at its gate (denied) or lets it in, and ends an Exec either way.   *)
Answer(c) ==
  /\ ui = None
  /\ \/ pc[c] = "gate" /\ (Goes(c, "enter") \/ Goes(c, "done"))
     \/ pc[c] = "ask" /\ Goes(c, "ran")
  /\ UNCHANGED <<phase, loadVars, regVars, mu, request, ui, sem, closeVars>>

(* The gate's context is the turn's, which quitting cancels; Exec's is the *)
(* background's, and only the closed bus ends its Ask.                     *)
AskEnds(c) ==
  /\ \/ pc[c] = "gate" /\ phase \in {"quitting", "closed"} /\ Goes(c, "done")
     \/ pc[c] = "ask" /\ closer = "done" /\ Goes(c, "ran")
  /\ UNCHANGED <<phase, loadVars, regVars, mu, request, ui, sem, closeVars>>

-----------------------------------------------------------------------------
(* appRuntime.Close: the plugins, then the agent with its hooks, then the  *)
(* permission engine and the bus.                                          *)

Quit ==
  /\ \/ phase = "running" /\ ui = None /\ ui' = "gone"
     \/ phase = "admin" /\ script = None /\ UNCHANGED ui
  /\ phase' = "quitting"
  /\ closer' = "plugins"
  /\ registryMu' = TRUE
  /\ UNCHANGED <<loadVars, regVars, mu, pc, request, sem, closing, shut>>

(* Registry.Close walks a map, under its own mutex.                        *)
CloseNext ==
  /\ closer = "plugins" /\ closing = None
  /\ \/ \E p \in loaded \ shut : closing' = p /\ UNCHANGED <<closer, registryMu>>
     \/ /\ loaded \subseteq shut
        /\ closer' = "agent"
        /\ registryMu' = FALSE
        /\ UNCHANGED closing
  /\ UNCHANGED <<phase, loadVars, regVars, callVars, shut>>

ClosePlugin ==
  /\ closing # None
  /\ mu[closing] = None
  /\ shut' = shut \cup {closing}
  /\ closing' = None
  /\ UNCHANGED <<phase, loadVars, regVars, callVars, registryMu, closer>>

(* Hooks.Close waits two seconds at most for the asynchronous hooks.       *)
CloseAgent ==
  /\ closer = "agent"
  /\ closer' = "bus"
  /\ UNCHANGED <<phase, loadVars, regVars, callVars, registryMu, closing, shut>>

CloseBus ==
  /\ closer = "bus"
  /\ closer' = "done"
  /\ phase' = "closed"
  /\ UNCHANGED <<loadVars, regVars, callVars, registryMu, closing, shut>>

-----------------------------------------------------------------------------
LoadStep ==
  \/ \E p \in Plugins :
       \/ LoadOne(p) \/ ScriptFails(p) \/ ScriptEnds(p) \/ Update(p) \/ Remove(p)
       \/ \E d \in MayDeclare[p] : Declare(p, d)
  \/ ScriptAsks
  \/ Started

CallStep(c) == Enter(c) \/ RecordOwned(c) \/ Return(c) \/ AskEnds(c)
CloseStep == CloseNext \/ ClosePlugin \/ CloseAgent \/ CloseBus

Next ==
  \/ LoadStep
  \/ \E c \in Calls : Start(c) \/ CallStep(c) \/ Answer(c)
  \/ \E c \in Calls, d \in Declarations : Register(c, d)
  \/ \E c \in Calls : Exec(c)
  \/ Quit
  \/ CloseStep

Spec == Init /\ [][Next]_vars

(* Goroutines run, handlers end, the user answers, and a mutex is handed   *)
(* over: a waiting goroutine that finds it free again and again gets it.   *)
AttentiveSpec ==
  /\ Spec
  /\ \A c \in Calls : SF_vars(Enter(c)) /\ WF_vars(CallStep(c)) /\ WF_vars(Answer(c))
  /\ SF_vars(ClosePlugin) /\ WF_vars(CloseStep)

-----------------------------------------------------------------------------
(* The types of the state.                                                 *)
TypeOK ==
  /\ phase \in {"startup", "hung", "running", "admin", "quitting", "closed"}
  /\ todo \subseteq Plugins /\ loaded \subseteq Plugins /\ shut \subseteq loaded
  /\ script \in Plugins \cup {None}
  /\ \A r \in host \cup owned : r.kind \in Kinds
  /\ accepted \in [Plugins -> SUBSET (host \cup owned)]
  /\ mu \in [Plugins -> Calls \cup {None}]
  /\ registryMu \in BOOLEAN
  /\ pc \in [Calls -> {"idle", "gate", "enter", "run", "ask", "register",
                       "ran", "done"}]
  /\ request \in [Calls -> Declarations \cup {None}]
  /\ ui \in Calls \cup {None, "gone"}
  /\ sem \in 0..AsyncCap
  /\ closer \in {"none", "plugins", "agent", "bus", "done"}
  /\ closing \in Plugins \cup {None}

(* The host's registries hold its own registrations and those of the       *)
(* plugins that are loaded or being loaded: a load that fails half-way, an *)
(* update or a removal leaves nothing of the plugin behind and takes       *)
(* nothing that another one registered.                                    *)
HostMatchesPlugins ==
  LET registering == {Registration(PluginOf(c), request[c]) :
                        c \in {x \in Calls : request[x] # None}}
      present == loaded \cup ({script} \ {None})
  IN host = Builtins \cup registering \cup UNION {accepted[p] : p \in present}

(* The UI is inside a command that waits for an answer only it could take, *)
(* itself or behind a handler of the same plugin that does.                *)
UIWaitsForItself ==
  /\ ui \in Calls
  /\ \/ pc[ui] = "ask"
     \/ \E c \in Calls : /\ pc[ui] = "enter" /\ mu[PluginOf(ui)] = c
                         /\ pc[c] = "ask"

(* Registry.Close waits for a handler that waits for the user, who has     *)
(* quit, or for the mutex Registry.Close holds.                            *)
CloseWaitsForItself ==
  \E c \in Calls : /\ closing # None /\ mu[closing] = c
                   /\ pc[c] \in {"ask", "register"}

(* With an attentive user every call of a handler returns, but for the two *)
(* knots above: no other waiting of the agent, its hooks, the UI and the   *)
(* shutdown for each other's mutexes and answers lasts.                    *)
CallsReturn ==
  \A c \in Calls :
    pc[c] \notin {"idle", "done"}
      ~> pc[c] = "done" \/ UIWaitsForItself \/ CloseWaitsForItself

(* The process ends once the user has quit, but for the second knot.       *)
CloseCompletes == phase = "quitting" ~> phase = "closed" \/ CloseWaitsForItself
=============================================================================
