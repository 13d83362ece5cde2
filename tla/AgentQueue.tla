----------------------------- MODULE AgentQueue -----------------------------
(***************************************************************************)
(* The agent's turn slot and prompt queue per session                      *)
(* (src/internal/agent/agent.go, src/internal/agent/cost.go for the lock   *)
(* of Compact).                                                            *)
(*                                                                         *)
(* Every submitted prompt is one call of Send or Enqueue and follows       *)
(*                                                                         *)
(*   new -> [queued ->] hook -> append -> load -> loop -> finish -> over   *)
(*                                                                         *)
(* A finishing Send frees the slot and pops the head of the queue in one   *)
(* critical section of Agent.mu, and only then starts a goroutine that     *)
(* calls Send again: between the two the popped prompt is in "handoff",    *)
(* neither queued nor active, and any other Send may take the slot first.  *)
(*                                                                         *)
(* A critical section of Agent.mu is one step; hooks, the store and the    *)
(* model run outside it, one step each.                                    *)
(***************************************************************************)
EXTENDS Integers, Sequences, FiniteSets, SequencesExt

CONSTANTS
  Sessions,    \* session ids
  Prompts,     \* prompts submitted in a run: one call of Send or Enqueue each
  SessOf,      \* [Prompts -> Sessions]
  Enqueued,    \* the prompts submitted with Enqueue instead of Send
  Texts,       \* steering texts, one call of Steer each
  Compactors,  \* goroutines that call Compact
  Plugins,     \* plugins that call InjectMessage
  MaxInjects,  \* maxPluginInjectsPerTurn
  None         \* not a prompt, not a session, not a compactor

ASSUME SessOfAssumption == SessOf \in [Prompts -> Sessions]
ASSUME EnqueuedAssumption == Enqueued \subseteq Prompts
ASSUME NoneAssumption == None \notin Prompts \cup Sessions \cup Compactors
ASSUME MaxInjectsAssumption == MaxInjects \in Nat \ {0}

VARIABLES
  closed,      \* Agent.closed
  activeRuns,  \* Agent.activeRuns: sessions with a Send in flight
  queues,      \* Agent.queues
  phase,       \* where each prompt is
  additions,   \* Agent.pendingSystemAdditions, by the prompt whose hook asked
  steering,    \* Agent.pendingSteering
  steerFor,    \* history: the prompt whose turn was active when Steer was
               \* accepted (None: not called yet)
  applied,     \* history: the prompt whose turn a steering text went into
  transcript,  \* the user messages persisted, per session
  locks,       \* Agent.locks: the holder of a session's mutex
  compacting,  \* the session each compactor works on
  injects,     \* Agent.pluginInjects
  injected     \* history: injections of each plugin in the current turn

promptVars == <<closed, activeRuns, queues, phase, transcript>>
guideVars == <<additions, steering, steerFor, applied>>
compactVars == <<locks, compacting>>
injectVars == <<injects, injected>>
vars == <<promptVars, guideVars, compactVars, injectVars>>

Phases == {"new", "queued", "hook", "append", "load", "loop", "finish",
           "handoff", "over", "cleared", "refused"}

(* The phases between taking the slot and freeing it.                      *)
InSlot == {"hook", "append", "load", "loop", "finish"}

Active(p) == phase[p] \in InSlot
PromptsOf(s) == {p \in Prompts : SessOf[p] = s}

Init ==
  /\ closed = FALSE
  /\ activeRuns = {}
  /\ queues = [s \in Sessions |-> <<>>]
  /\ phase = [p \in Prompts |-> "new"]
  /\ additions = [s \in Sessions |-> {}]
  /\ steering = [s \in Sessions |-> {}]
  /\ steerFor = [x \in Texts |-> None]
  /\ applied = [x \in Texts |-> None]
  /\ transcript = [s \in Sessions |-> <<>>]
  /\ locks = [s \in Sessions |-> None]
  /\ compacting = [k \in Compactors |-> None]
  /\ injects = [g \in Plugins |-> [s \in Sessions |-> 0]]
  /\ injected = [g \in Plugins |-> [s \in Sessions |-> 0]]

-----------------------------------------------------------------------------
(* Send, up to the release of Agent.mu.  A prompt popped from the queue    *)
(* comes here a second time, from its own goroutine.                       *)

Submitted(p) ==
  \/ phase[p] = "handoff"
  \/ phase[p] = "new" /\ p \notin Enqueued

SlotAlwaysFree(s) == TRUE                      \* mutant: no busy test
SlotFree(s) == s \notin activeRuns

Open == ~closed

SendRefused(p) ==
  /\ Submitted(p)
  /\ ~Open
  /\ phase' = [phase EXCEPT ![p] = "refused"]
  /\ UNCHANGED <<closed, activeRuns, queues, transcript, guideVars,
                 compactVars, injectVars>>

SendQueued(p) ==
  /\ Submitted(p)
  /\ Open
  /\ ~SlotFree(SessOf[p])
  /\ queues' = [queues EXCEPT ![SessOf[p]] = Append(@, p)]
  /\ phase' = [phase EXCEPT ![p] = "queued"]
  /\ UNCHANGED <<closed, activeRuns, transcript, guideVars, compactVars,
                 injectVars>>

(* The Send that takes the slot; the count of injections starts afresh for *)
(* its turn in the history variable only, the code's counter is kept.      *)
SendStarts(p) ==
  /\ Submitted(p)
  /\ Open
  /\ SlotFree(SessOf[p])
  /\ activeRuns' = activeRuns \cup {SessOf[p]}
  /\ phase' = [phase EXCEPT ![p] = "hook"]
  /\ injected' = [g \in Plugins |-> [injected[g] EXCEPT ![SessOf[p]] = 0]]
  /\ UNCHANGED <<closed, queues, transcript, guideVars, compactVars, injects>>

-----------------------------------------------------------------------------
(* doSend.  The hook's additions travel with the call until the user       *)
(* message is stored, so they are chosen when they are queued.             *)

DoSendHook(p) ==
  /\ phase[p] = "hook"
  /\ \/ phase' = [phase EXCEPT ![p] = "finish"]       \* closed, or denied
     \/ ~closed /\ phase' = [phase EXCEPT ![p] = "append"]
  /\ UNCHANGED <<closed, activeRuns, queues, transcript, guideVars,
                 compactVars, injectVars>>

AppendPendingSystemAdditions(p) ==
  \/ UNCHANGED additions
  \/ additions' = [additions EXCEPT ![SessOf[p]] = @ \cup {p}]

DoSendAppend(p) ==
  /\ phase[p] = "append"
  /\ \/ /\ phase' = [phase EXCEPT ![p] = "finish"]    \* the store failed
        /\ UNCHANGED <<transcript, additions>>
     \/ /\ phase' = [phase EXCEPT ![p] = "load"]
        /\ transcript' = [transcript EXCEPT ![SessOf[p]] = Append(@, p)]
        /\ AppendPendingSystemAdditions(p)
  /\ UNCHANGED <<closed, activeRuns, queues, steering, steerFor, applied,
                 compactVars, injectVars>>

AdditionsKept(s) == additions                         \* mutant: no defer
ClearPendingSystemAdditions(s) == [additions EXCEPT ![s] = {}]

(* GetSession fails (the deferred clear runs), or the turn starts.         *)
DoSendLoad(p) ==
  /\ phase[p] = "load"
  /\ \/ /\ phase' = [phase EXCEPT ![p] = "finish"]
        /\ additions' = ClearPendingSystemAdditions(SessOf[p])
     \/ /\ phase' = [phase EXCEPT ![p] = "loop"]
        /\ UNCHANGED additions
  /\ UNCHANGED <<closed, activeRuns, queues, transcript, steering, steerFor,
                 applied, compactVars, injectVars>>

(* prepareFantasyStep: the additions and the steering go into the step.    *)
PrepareFantasyStep(p) ==
  LET s == SessOf[p] IN
  /\ phase[p] = "loop"
  /\ additions[s] # {} \/ steering[s] # {}
  /\ additions' = [additions EXCEPT ![s] = {}]
  /\ steering' = [steering EXCEPT ![s] = {}]
  /\ applied' = [x \in Texts |-> IF x \in steering[s] THEN p ELSE applied[x]]
  /\ UNCHANGED <<promptVars, steerFor, compactVars, injectVars>>

(* runLoop returns, with an answer or with an error, after any number of   *)
(* steps; nothing looks at the steering that has not been drained.         *)
DoSendReturns(p) ==
  /\ phase[p] = "loop"
  /\ phase' = [phase EXCEPT ![p] = "finish"]
  /\ additions' = ClearPendingSystemAdditions(SessOf[p])
  /\ UNCHANGED <<closed, activeRuns, queues, transcript, steering, steerFor,
                 applied, compactVars, injectVars>>

(* Back in Send: free the slot and pop the next prompt.                    *)
NothingPopped(s) == <<>>                              \* mutant: no drain
HeadStays(s) == queues[s]                             \* mutant: q[1:] is lost
QueueAfterPop(s) == Tail(queues[s])
Drained(s) == queues[s]

SendFinishes(p) ==
  LET s == SessOf[p]
      next == IF Drained(s) = <<>> THEN None ELSE Head(Drained(s))
  IN
  /\ phase[p] = "finish"
  /\ activeRuns' = activeRuns \ {s}
  /\ \/ /\ next = None
        /\ phase' = [phase EXCEPT ![p] = "over"]
        /\ UNCHANGED queues
     \/ /\ next # None
        /\ phase' = [phase EXCEPT ![p] = "over", ![next] = "handoff"]
        /\ queues' = [queues EXCEPT ![s] = QueueAfterPop(s)]
  /\ UNCHANGED <<closed, transcript, guideVars, compactVars, injectVars>>

-----------------------------------------------------------------------------
(* Enqueue, ClearQueue, Steer, the hook refresh and Close.                 *)

Enqueue(p) ==
  /\ p \in Enqueued
  /\ phase[p] = "new"
  /\ \/ /\ closed
        /\ phase' = [phase EXCEPT ![p] = "refused"]
        /\ UNCHANGED queues
     \/ /\ ~closed
        /\ phase' = [phase EXCEPT ![p] = "queued"]
        /\ queues' = [queues EXCEPT ![SessOf[p]] = Append(@, p)]
  /\ UNCHANGED <<closed, activeRuns, transcript, guideVars, compactVars,
                 injectVars>>

ClearQueue(s) ==
  /\ queues[s] # <<>>
  /\ phase' = [p \in Prompts |-> IF p \in ToSet(queues[s])
                                 THEN "cleared" ELSE phase[p]]
  /\ queues' = [queues EXCEPT ![s] = <<>>]
  /\ UNCHANGED <<closed, activeRuns, transcript, guideVars, compactVars,
                 injectVars>>

(* Accepted only while the session has an active turn, which is then the   *)
(* turn of the one prompt that holds the slot.                             *)
Steer(x, p) ==
  /\ steerFor[x] = None
  /\ ~closed
  /\ SessOf[p] \in activeRuns
  /\ Active(p)
  /\ steering' = [steering EXCEPT ![SessOf[p]] = @ \cup {x}]
  /\ steerFor' = [steerFor EXCEPT ![x] = p]
  /\ UNCHANGED <<promptVars, additions, applied, compactVars, injectVars>>

(* RefreshHookSystemPromptAdditions replaces what is queued; None stands   *)
(* for additions that no prompt's hook asked for.  The test of closed is   *)
(* made before the hooks run, so that Close may come before this step.     *)
RefreshHookSystemPromptAdditions(s) ==
  /\ \E new \in {{}, {None}} : additions' = [additions EXCEPT ![s] = new]
  /\ UNCHANGED <<promptVars, steering, steerFor, applied, compactVars,
                 injectVars>>

Close ==
  /\ ~closed
  /\ closed' = TRUE
  /\ UNCHANGED <<activeRuns, queues, phase, transcript, guideVars,
                 compactVars, injectVars>>

-----------------------------------------------------------------------------
(* Compact takes the session's mutex and looks neither at activeRuns nor   *)
(* at the queue; Send does not take the mutex.                             *)

LockFree(s) == locks[s] = None

CompactLocks(k, s) ==
  /\ compacting[k] = None
  /\ ~closed
  /\ LockFree(s)
  /\ locks' = [locks EXCEPT ![s] = k]
  /\ compacting' = [compacting EXCEPT ![k] = s]
  /\ UNCHANGED <<promptVars, guideVars, injectVars>>

CompactReturns(k) ==
  /\ compacting[k] # None
  /\ locks' = [locks EXCEPT ![compacting[k]] = None]
  /\ compacting' = [compacting EXCEPT ![k] = None]
  /\ UNCHANGED <<promptVars, guideVars, injectVars>>

-----------------------------------------------------------------------------
(* InjectMessage: the counter is raised before the message is stored and   *)
(* stays raised when storing fails.  Here too the test of closed has been  *)
(* made earlier, under another hold of Agent.mu.                           *)

BelowCap(g, s) == injects[g][s] < MaxInjects

InjectMessage(g, s) ==
  /\ BelowCap(g, s)
  /\ injects' = [injects EXCEPT ![g][s] = @ + 1]
  /\ injected' = [injected EXCEPT ![g][s] = @ + 1]
  /\ UNCHANGED <<promptVars, guideVars, compactVars>>

-----------------------------------------------------------------------------
SendStep(p) == SendRefused(p) \/ SendQueued(p) \/ SendStarts(p)

TurnStep(p) ==
  \/ DoSendHook(p)
  \/ DoSendAppend(p)
  \/ DoSendLoad(p)
  \/ PrepareFantasyStep(p)
  \/ DoSendReturns(p)
  \/ SendFinishes(p)

Next ==
  \/ \E p \in Prompts : SendStep(p) \/ TurnStep(p) \/ Enqueue(p)
  \/ \E s \in Sessions : ClearQueue(s) \/ RefreshHookSystemPromptAdditions(s)
  \/ \E x \in Texts, p \in Prompts : Steer(x, p)
  \/ Close
  \/ \E k \in Compactors, s \in Sessions : CompactLocks(k, s)
  \/ \E k \in Compactors : CompactReturns(k)
  \/ \E g \in Plugins, s \in Sessions : InjectMessage(g, s)

Spec == Init /\ [][Next]_vars

(* Fairness: the goroutine started for a popped prompt runs, and every     *)
(* turn comes to an end: the hook, the store and the model answer or fail  *)
(* (a turn's steps are not capped by the code; a model that calls tools    *)
(* for ever is not assumed away anywhere else).  Callers owe nothing.      *)
Fairness ==
  \A p \in Prompts :
    /\ WF_vars(phase[p] = "handoff" /\ SendStep(p))
    /\ WF_vars(DoSendHook(p) \/ DoSendAppend(p) \/ DoSendLoad(p))
    /\ WF_vars(DoSendReturns(p))
    /\ WF_vars(SendFinishes(p))

FairSpec == Spec /\ Fairness

-----------------------------------------------------------------------------
(* The types of the state; no plugin exceeds its cap of injections.        *)
TypeOK ==
  /\ closed \in BOOLEAN
  /\ activeRuns \subseteq Sessions
  /\ queues \in [Sessions -> Seq(Prompts)]
  /\ phase \in [Prompts -> Phases]
  /\ additions \in [Sessions -> SUBSET (Prompts \cup {None})]
  /\ steering \in [Sessions -> SUBSET Texts]
  /\ steerFor \in [Texts -> Prompts \cup {None}]
  /\ applied \in [Texts -> Prompts \cup {None}]
  /\ transcript \in [Sessions -> Seq(Prompts)]
  /\ locks \in [Sessions -> Compactors \cup {None}]
  /\ compacting \in [Compactors -> Sessions \cup {None}]
  /\ injects \in [Plugins -> [Sessions -> 0..MaxInjects]]
  /\ injected \in [Plugins -> [Sessions -> Nat]]

(* At most one Send is in flight per session, and the session is marked    *)
(* active exactly while one is: a turn never starts beside another one,    *)
(* whichever of a caller and a drain goroutine reaches the slot first.     *)
OneTurnPerSession ==
  /\ \A p, q \in Prompts :
       Active(p) /\ Active(q) /\ SessOf[p] = SessOf[q] => p = q
  /\ \A s \in Sessions : s \in activeRuns <=> \E p \in PromptsOf(s) : Active(p)

(* A prompt is accounted for exactly once: it is in the queue of its own   *)
(* session, in one place only, if and only if it waits there.              *)
NoLostPrompt ==
  /\ \A p \in Prompts :
       phase[p] = "queued" <=> p \in ToSet(queues[SessOf[p]])
  /\ \A s \in Sessions :
       /\ ToSet(queues[s]) \subseteq PromptsOf(s)
       /\ IsInjective(queues[s])

(* A prompt's user message is stored at most once, however often the       *)
(* prompt was queued, popped and queued again.                             *)
StoredOnce == \A s \in Sessions : IsInjective(transcript[s])

(* A prompt that Send queued behind a turn is not left in the queue of an  *)
(* idle session: somebody will come back for it (a turn in flight, or a    *)
(* drain goroutine on its way), unless the agent has been closed.          *)
NoStuckQueue ==
  \A s \in Sessions :
    \/ closed
    \/ ToSet(queues[s]) \subseteq Enqueued
    \/ s \in activeRuns
    \/ \E p \in PromptsOf(s) : phase[p] = "handoff"

(* System-prompt additions a pre_message hook made for one prompt never    *)
(* reach the model in the turn of another one.                             *)
AdditionsStayInTurn ==
  [][\A p \in Prompts :
       PrepareFantasyStep(p) => additions[SessOf[p]] \subseteq {p, None}]_vars

(* Once Close has returned no prompt takes a slot: neither a caller nor    *)
(* the drain goroutine of a turn that was in flight starts another turn.   *)
NoStartAfterClose ==
  [][closed => \A p \in Prompts : Active(p)' => Active(p)]_vars

(* A prompt that Send queued settles: its turn runs, or it is cleared, or  *)
(* the agent closes.                                                       *)
QueuedSettles ==
  \A p \in Prompts \ Enqueued :
    phase[p] = "queued" ~>
      closed \/ phase[p] \in {"over", "cleared", "refused"}

(* Steering reaches the turn that was active when Steer accepted it, which *)
(* the text given to the model calls "the active turn".                    *)
SteeringStaysInTurn ==
  \A x \in Texts : applied[x] # None => applied[x] = steerFor[x]

(* Compact holds the per-session lock, which the package comment says Send *)
(* holds too: no compaction of a session runs while it has a turn.         *)
CompactNeverRacesSend ==
  \A k \in Compactors : compacting[k] \notin activeRuns

(* The injection cap counts the messages of the current turn only.         *)
InjectCapIsPerTurn ==
  \A g \in Plugins : \A s \in Sessions :
    injects[g][s] = MaxInjects => injected[g][s] = MaxInjects

(* A prompt handed to Enqueue is executed later, as its comment says,      *)
(* unless it is cleared or the agent closes.                               *)
EnqueuedSettles ==
  \A p \in Enqueued :
    phase[p] = "queued" ~>
      closed \/ phase[p] \in {"over", "cleared", "refused"}

-----------------------------------------------------------------------------
(* The queue implements the turn slot.                                     *)

Fresh == {p \in Prompts : phase[p] = "new"}
Waiting == {p \in Prompts : phase[p] \in {"queued", "handoff"}}
Running == {p \in Prompts : Active(p)}
Ended == {p \in Prompts : phase[p] \in {"over", "cleared", "refused"}}

Slot == INSTANCE TurnSlot WITH
          fresh <- Fresh, waiting <- Waiting, running <- Running, ended <- Ended

(* Every behaviour of the agent's queue is one of the turn slot: a prompt  *)
(* is run at most once or dropped, and turns of a session never overlap.   *)
ImplementsTurnSlot == Slot!Spec
=============================================================================
