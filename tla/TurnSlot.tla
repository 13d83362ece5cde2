------------------------------ MODULE TurnSlot ------------------------------
(***************************************************************************)
(* What the agent promises about prompts, without its queues, goroutines   *)
(* and handoffs (Agent.Send and Agent.Enqueue, src/internal/agent):        *)
(*   - a prompt is run at most once, or dropped, never both;               *)
(*   - a session runs at most one prompt at a time.                        *)
(***************************************************************************)
CONSTANTS
  Prompts,   \* the prompts submitted in a run, one per call
  Sessions,  \* session ids
  SessOf     \* [Prompts -> Sessions]

VARIABLES
  fresh,     \* not submitted yet
  waiting,   \* accepted, to be run later
  running,   \* the prompts of the turns in flight
  ended      \* turn over, cleared from the queue, or refused

slotVars == <<fresh, waiting, running, ended>>

Init ==
  /\ fresh = Prompts
  /\ waiting = {}
  /\ running = {}
  /\ ended = {}

Accept(p) ==
  /\ p \in fresh
  /\ fresh' = fresh \ {p}
  /\ waiting' = waiting \cup {p}
  /\ UNCHANGED <<running, ended>>

Idle(s) == \A p \in running : SessOf[p] # s

Start(p) ==
  /\ p \in fresh \cup waiting
  /\ Idle(SessOf[p])
  /\ fresh' = fresh \ {p}
  /\ waiting' = waiting \ {p}
  /\ running' = running \cup {p}
  /\ UNCHANGED ended

End(p) ==
  /\ p \in running
  /\ running' = running \ {p}
  /\ ended' = ended \cup {p}
  /\ UNCHANGED <<fresh, waiting>>

Drop(P) ==
  /\ P \subseteq fresh \cup waiting
  /\ fresh' = fresh \ P
  /\ waiting' = waiting \ P
  /\ ended' = ended \cup P
  /\ UNCHANGED running

Next ==
  \/ \E p \in Prompts : Accept(p) \/ Start(p) \/ End(p)
  \/ \E P \in SUBSET Prompts : Drop(P)

Spec == Init /\ [][Next]_slotVars
=============================================================================
