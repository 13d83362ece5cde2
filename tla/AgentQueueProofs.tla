-------------------------- MODULE AgentQueueProofs --------------------------
(***************************************************************************)
(* Proofs about AgentQueue, for any number of prompts, sessions, callers,  *)
(* plugins and compactors.                                                 *)
(*                                                                         *)
(* SlotInv (types, one turn per session, every queued prompt in its queue  *)
(* once) is inductive.  On it rest that a prompt is stored at most once,   *)
(* that nobody leaves a prompt behind in an idle session, that a closed    *)
(* agent starts nothing, and that the queue implements TurnSlot.           *)
(***************************************************************************)
EXTENDS AgentQueue, SeqLemmas, TLAPS

(* The variables have their types at the start.                            *)
LEMMA TypeInit == Init => TypeOK
<1> USE SessOfAssumption, NoneAssumption, MaxInjectsAssumption
<1> SUFFICES ASSUME Init PROVE TypeOK
  OBVIOUS
<1>1. /\ queues \in [Sessions -> Seq(Prompts)]
      /\ transcript \in [Sessions -> Seq(Prompts)]
  <2>1. << >> \in Seq(Prompts)
    OBVIOUS
  <2> QED
    BY <2>1 DEF Init
<1>2. /\ injects \in [Plugins -> [Sessions -> 0..MaxInjects]]
      /\ injected \in [Plugins -> [Sessions -> Nat]]
  BY DEF Init
<1>3. /\ steerFor \in [Texts -> Prompts \cup {None}]
      /\ applied \in [Texts -> Prompts \cup {None}]
      /\ locks \in [Sessions -> Compactors \cup {None}]
      /\ compacting \in [Compactors -> Sessions \cup {None}]
  BY DEF Init
<1> QED
  BY <1>1, <1>2, <1>3 DEF Init, TypeOK, Phases

(* Every step keeps the variables' types.                                  *)
LEMMA TypeStep == TypeOK /\ [Next]_vars => TypeOK'
<1> USE SessOfAssumption, EnqueuedAssumption, NoneAssumption,
        MaxInjectsAssumption
<1> SUFFICES ASSUME TypeOK, [Next]_vars PROVE TypeOK'
  OBVIOUS
<1> USE DEF TypeOK, Phases, promptVars, guideVars, compactVars, injectVars
<1>1. ASSUME NEW p \in Prompts, SendRefused(p) PROVE TypeOK'
  BY <1>1 DEF SendRefused
<1>2. ASSUME NEW p \in Prompts, SendQueued(p) PROVE TypeOK'
  BY <1>2 DEF SendQueued
<1>3. ASSUME NEW p \in Prompts, SendStarts(p) PROVE TypeOK'
  BY <1>3 DEF SendStarts
<1>4. ASSUME NEW p \in Prompts, DoSendHook(p) PROVE TypeOK'
  BY <1>4 DEF DoSendHook
<1>5. ASSUME NEW p \in Prompts, DoSendAppend(p) PROVE TypeOK'
  <2>1. CASE phase' = [phase EXCEPT ![p] = "finish"]
    BY <1>5, <2>1 DEF DoSendAppend
  <2>2. CASE /\ phase' = [phase EXCEPT ![p] = "load"]
             /\ transcript' = [transcript EXCEPT ![SessOf[p]] = Append(@, p)]
             /\ AppendPendingSystemAdditions(p)
    <3>1. additions' \in [Sessions -> SUBSET (Prompts \cup {None})]
      <4>1. CASE UNCHANGED additions
        BY <4>1
      <4>2. CASE additions' = [additions EXCEPT ![SessOf[p]] = @ \cup {p}]
        <5>1. additions[SessOf[p]] \cup {p} \in SUBSET (Prompts \cup {None})
          OBVIOUS
        <5> QED
          BY <4>2, <5>1
      <4> QED
        BY <2>2, <4>1, <4>2 DEF AppendPendingSystemAdditions
    <3>2. phase' \in [Prompts -> Phases]
      BY <2>2
    <3>3. transcript' \in [Sessions -> Seq(Prompts)]
      BY <2>2
    <3>4. UNCHANGED <<closed, activeRuns, queues, steering, steerFor,
                      applied, locks, compacting, injects, injected>>
      BY <1>5 DEF DoSendAppend
    <3> QED
      BY <3>1, <3>2, <3>3, <3>4
  <2> QED
    BY <1>5, <2>1, <2>2 DEF DoSendAppend
<1>6. ASSUME NEW p \in Prompts, DoSendLoad(p) PROVE TypeOK'
  BY <1>6 DEF DoSendLoad, ClearPendingSystemAdditions
<1>7. ASSUME NEW p \in Prompts, PrepareFantasyStep(p) PROVE TypeOK'
  BY <1>7 DEF PrepareFantasyStep
<1>8. ASSUME NEW p \in Prompts, DoSendReturns(p) PROVE TypeOK'
  BY <1>8 DEF DoSendReturns, ClearPendingSystemAdditions
<1>9. ASSUME NEW p \in Prompts, SendFinishes(p) PROVE TypeOK'
  <2> DEFINE s == SessOf[p]
  <2>1. CASE queues[s] = << >>
    <3>1. phase' = [phase EXCEPT ![p] = "over"] /\ UNCHANGED queues
      BY <1>9, <2>1 DEF SendFinishes, Drained, QueueAfterPop
    <3> QED
      BY <1>9, <3>1 DEF SendFinishes
  <2>2. CASE queues[s] # << >>
    <3>1. Head(queues[s]) \in Prompts /\ Tail(queues[s]) \in Seq(Prompts)
      BY <2>2
    <3>2. /\ phase' = [phase EXCEPT ![p] = "over",
                                   ![Head(queues[s])] = "handoff"]
          /\ queues' = [queues EXCEPT ![s] = Tail(queues[s])]
      BY <1>9, <2>2, <3>1 DEF SendFinishes, Drained, QueueAfterPop
    <3> QED
      BY <1>9, <3>1, <3>2 DEF SendFinishes
  <2> QED
    BY <2>1, <2>2
<1>10. ASSUME NEW p \in Prompts, Enqueue(p) PROVE TypeOK'
  <2>1. CASE phase' = [phase EXCEPT ![p] = "refused"] /\ UNCHANGED queues
    BY <1>10, <2>1 DEF Enqueue
  <2>2. CASE /\ phase' = [phase EXCEPT ![p] = "queued"]
             /\ queues' = [queues EXCEPT ![SessOf[p]] = Append(@, p)]
    BY <1>10, <2>2 DEF Enqueue
  <2> QED
    BY <1>10, <2>1, <2>2 DEF Enqueue
<1>11. ASSUME NEW s \in Sessions, ClearQueue(s) PROVE TypeOK'
  BY <1>11 DEF ClearQueue
<1>12. ASSUME NEW s \in Sessions, RefreshHookSystemPromptAdditions(s)
       PROVE TypeOK'
  BY <1>12 DEF RefreshHookSystemPromptAdditions
<1>13. ASSUME NEW x \in Texts, NEW p \in Prompts, Steer(x, p) PROVE TypeOK'
  BY <1>13 DEF Steer
<1>14. CASE Close
  BY <1>14 DEF Close
<1>15. ASSUME NEW k \in Compactors, NEW s \in Sessions, CompactLocks(k, s)
       PROVE TypeOK'
  BY <1>15 DEF CompactLocks
<1>16. ASSUME NEW k \in Compactors, CompactReturns(k) PROVE TypeOK'
  BY <1>16 DEF CompactReturns
<1>17. ASSUME NEW g \in Plugins, NEW s \in Sessions, InjectMessage(g, s)
       PROVE TypeOK'
  <2>1. /\ injects[g][s] \in 0..MaxInjects
        /\ injects[g][s] < MaxInjects
        /\ injected[g][s] \in Nat
    BY <1>17 DEF InjectMessage, BelowCap
  <2>2. /\ injects[g][s] + 1 \in 0..MaxInjects
        /\ injected[g][s] + 1 \in Nat
    BY <2>1
  <2>3. injects' \in [Plugins -> [Sessions -> 0..MaxInjects]]
    BY <1>17, <2>2 DEF InjectMessage
  <2>4. injected' \in [Plugins -> [Sessions -> Nat]]
    BY <1>17, <2>2 DEF InjectMessage
  <2> QED
    BY <1>17, <2>3, <2>4 DEF InjectMessage
<1>18. CASE UNCHANGED vars
  BY <1>18 DEF vars
<1> QED
  BY <1>1, <1>2, <1>3, <1>4, <1>5, <1>6, <1>7, <1>8, <1>9, <1>10, <1>11,
     <1>12, <1>13, <1>14, <1>15, <1>16, <1>17, <1>18
     DEF Next, SendStep, TurnStep

(* Every variable keeps its type, whatever is submitted, steered, cleared, *)
(* compacted or closed.                                                    *)
THEOREM TypeCorrect == Spec => []TypeOK
  BY TypeInit, TypeStep, PTL DEF Spec

-----------------------------------------------------------------------------
(* The turn slot and the queue.                                            *)

(* The inductive invariant: a session's slot and its queue depend on each  *)
(* other.  The prompt a finishing turn pops must not hold a slot already,  *)
(* which follows from its being accounted for by the queue.                *)
SlotInv ==
  /\ TypeOK
  /\ OneTurnPerSession
  /\ NoLostPrompt

(* Every step either leaves slot, queue and phases alone or is one of the  *)
(* steps of a prompt or a ClearQueue; none of them reopens the agent.      *)
LEMMA PromptSteps ==
  ASSUME [Next]_vars
  PROVE  \/ UNCHANGED <<activeRuns, queues, phase, transcript>> /\ (closed => closed')
         \/ \E p \in Prompts :
              \/ SendStep(p)
              \/ DoSendHook(p)
              \/ DoSendAppend(p)
              \/ DoSendLoad(p)
              \/ DoSendReturns(p)
              \/ SendFinishes(p)
              \/ Enqueue(p)
         \/ \E s \in Sessions : ClearQueue(s)
<1> USE DEF promptVars, guideVars, compactVars, injectVars
<1> DEFINE Frame == UNCHANGED <<activeRuns, queues, phase, transcript>> /\ (closed => closed')
<1>1. ASSUME NEW p \in Prompts, PrepareFantasyStep(p) PROVE Frame
  BY <1>1 DEF PrepareFantasyStep
<1>2. ASSUME NEW s \in Sessions, RefreshHookSystemPromptAdditions(s)
      PROVE Frame
  BY <1>2 DEF RefreshHookSystemPromptAdditions
<1>3. ASSUME NEW x \in Texts, NEW p \in Prompts, Steer(x, p) PROVE Frame
  BY <1>3 DEF Steer
<1>4. CASE Close
  BY <1>4 DEF Close
<1>5. ASSUME NEW k \in Compactors, NEW s \in Sessions, CompactLocks(k, s)
      PROVE Frame
  BY <1>5 DEF CompactLocks
<1>6. ASSUME NEW k \in Compactors, CompactReturns(k) PROVE Frame
  BY <1>6 DEF CompactReturns
<1>7. ASSUME NEW g \in Plugins, NEW s \in Sessions, InjectMessage(g, s)
      PROVE Frame
  BY <1>7 DEF InjectMessage
<1>8. CASE UNCHANGED vars
  BY <1>8 DEF vars
<1> QED
  BY <1>1, <1>2, <1>3, <1>4, <1>5, <1>6, <1>7, <1>8 DEF Next, TurnStep

(* What a finishing turn does to the slot, by whether a prompt waits; the  *)
(* prompt it pops is one of the same session and holds no slot.            *)
LEMMA FinishCases ==
  ASSUME SlotInv, NEW p \in Prompts, SendFinishes(p)
  PROVE  /\ phase[p] = "finish"
         /\ activeRuns' = activeRuns \ {SessOf[p]}
         /\ UNCHANGED <<closed, transcript>>
         /\ \/ /\ queues[SessOf[p]] = << >>
               /\ phase' = [phase EXCEPT ![p] = "over"]
               /\ UNCHANGED queues
            \/ \E h \in Prompts :
                 /\ queues[SessOf[p]] # << >>
                 /\ h = Head(queues[SessOf[p]])
                 /\ phase[h] = "queued"
                 /\ SessOf[h] = SessOf[p]
                 /\ phase' = [phase EXCEPT ![p] = "over", ![h] = "handoff"]
                 /\ queues' = [queues EXCEPT ![SessOf[p]] = Tail(@)]
<1> DEFINE s == SessOf[p]
           h == Head(queues[s])
<1>1. s \in Sessions /\ queues[s] \in Seq(Prompts)
  BY SessOfAssumption DEF SlotInv, TypeOK
<1>2. CASE queues[s] = << >>
  BY <1>2 DEF SendFinishes, Drained
<1>3. CASE queues[s] # << >>
  <2>1. h \in ToSet(queues[s]) /\ h \in Prompts
    BY <1>1, <1>3, ToSetOfTail DEF SlotInv, NoLostPrompt
  <2>2. SessOf[h] = s
    BY <1>1, <2>1 DEF SlotInv, NoLostPrompt, PromptsOf
  <2>3. phase[h] = "queued"
    BY <2>1, <2>2 DEF SlotInv, NoLostPrompt
  <2>4. h # None
    BY <2>1, NoneAssumption
  <2>5. /\ phase' = [phase EXCEPT ![p] = "over", ![h] = "handoff"]
        /\ queues' = [queues EXCEPT ![s] = Tail(@)]
    BY <1>3, <2>4 DEF SendFinishes, Drained, QueueAfterPop
  <2> QED
    BY <1>3, <2>1, <2>2, <2>3, <2>5 DEF SendFinishes
<1> QED
  BY <1>2, <1>3

(* No step lets a second turn into a session or loses track of the slot.   *)
LEMMA OneTurnStep == SlotInv /\ [Next]_vars => OneTurnPerSession'
<1> SUFFICES ASSUME SlotInv, [Next]_vars PROVE OneTurnPerSession'
  OBVIOUS
<1> USE SessOfAssumption
<1> USE DEF SlotInv, TypeOK, Phases
<1>1. ASSUME UNCHANGED activeRuns, \A q \in Prompts : Active(q)' <=> Active(q)
      PROVE  OneTurnPerSession'
  BY <1>1 DEF OneTurnPerSession, PromptsOf
<1>2. CASE UNCHANGED <<activeRuns, queues, phase, transcript>>
  BY <1>1, <1>2 DEF Active
<1>3. ASSUME NEW p \in Prompts,
             SendRefused(p) \/ SendQueued(p) \/ DoSendHook(p)
               \/ DoSendAppend(p) \/ DoSendLoad(p) \/ DoSendReturns(p)
               \/ Enqueue(p)
      PROVE  OneTurnPerSession'
  <2>1. UNCHANGED activeRuns
    BY <1>3 DEF SendRefused, SendQueued, DoSendHook, DoSendAppend, DoSendLoad,
                DoSendReturns, Enqueue
  <2>2. PICK x \in Phases : /\ phase' = [phase EXCEPT ![p] = x]
                            /\ x \in InSlot <=> phase[p] \in InSlot
    BY <1>3 DEF SendRefused, SendQueued, DoSendHook, DoSendAppend, DoSendLoad,
                DoSendReturns, Enqueue, Submitted, InSlot
  <2>3. \A q \in Prompts : Active(q)' <=> Active(q)
    BY <2>2 DEF Active
  <2> QED
    BY <1>1, <2>1, <2>3
<1>4. ASSUME NEW p \in Prompts, SendStarts(p) PROVE OneTurnPerSession'
  <2>1. /\ SessOf[p] \notin activeRuns
        /\ activeRuns' = activeRuns \cup {SessOf[p]}
        /\ phase' = [phase EXCEPT ![p] = "hook"]
    BY <1>4 DEF SendStarts, SlotFree
  <2>2. \A q \in Prompts : Active(q)' <=> Active(q) \/ q = p
    BY <2>1 DEF Active, InSlot
  <2>3. \A q \in Prompts : Active(q) => SessOf[q] # SessOf[p]
    BY <2>1 DEF OneTurnPerSession, PromptsOf
  <2> QED
    BY <2>1, <2>2, <2>3 DEF OneTurnPerSession, PromptsOf
<1>5. ASSUME NEW p \in Prompts, SendFinishes(p) PROVE OneTurnPerSession'
  <2>1. \A q \in Prompts : Active(q)' <=> Active(q) /\ q # p
    BY <1>5, FinishCases DEF Active, InSlot
  <2>2. Active(p) /\ activeRuns' = activeRuns \ {SessOf[p]}
    BY <1>5, FinishCases DEF Active, InSlot
  <2>3. \A q \in Prompts : Active(q) /\ SessOf[q] = SessOf[p] => q = p
    BY <2>2 DEF OneTurnPerSession
  <2> QED
    BY <2>1, <2>2, <2>3 DEF OneTurnPerSession, PromptsOf
<1>6. ASSUME NEW s \in Sessions, ClearQueue(s) PROVE OneTurnPerSession'
  <2>1. UNCHANGED activeRuns
    BY <1>6 DEF ClearQueue
  <2>2. \A q \in ToSet(queues[s]) : q \in Prompts /\ phase[q] = "queued"
    BY DEF NoLostPrompt, PromptsOf
  <2>3. \A q \in Prompts : Active(q)' <=> Active(q)
    BY <1>6, <2>2 DEF ClearQueue, Active, InSlot
  <2> QED
    BY <1>1, <2>1, <2>3
<1> QED
  BY <1>2, <1>3, <1>4, <1>5, <1>6, PromptSteps DEF SendStep

(* No step loses, repeats or misplaces a queued prompt.                    *)
LEMMA NoLostStep == SlotInv /\ [Next]_vars => NoLostPrompt'
<1> SUFFICES ASSUME SlotInv, [Next]_vars PROVE NoLostPrompt'
  OBVIOUS
<1> USE SessOfAssumption
<1> USE DEF SlotInv, TypeOK, Phases
<1>1. CASE UNCHANGED <<activeRuns, queues, phase, transcript>>
  BY <1>1 DEF NoLostPrompt, PromptsOf
<1>2. ASSUME NEW p \in Prompts, NEW x \in Phases \ {"queued"},
             phase[p] # "queued", phase' = [phase EXCEPT ![p] = x],
             UNCHANGED queues
      PROVE  NoLostPrompt'
  BY <1>2 DEF NoLostPrompt, PromptsOf
<1>3. ASSUME NEW p \in Prompts,
             SendRefused(p) \/ SendStarts(p) \/ DoSendHook(p)
               \/ DoSendAppend(p) \/ DoSendLoad(p) \/ DoSendReturns(p)
      PROVE  NoLostPrompt'
  BY <1>2, <1>3 DEF SendRefused, SendStarts, DoSendHook, DoSendAppend,
                    DoSendLoad, DoSendReturns, Submitted
<1>4. ASSUME NEW p \in Prompts, phase[p] \in {"new", "handoff"},
             phase' = [phase EXCEPT ![p] = "queued"],
             queues' = [queues EXCEPT ![SessOf[p]] = Append(@, p)]
      PROVE  NoLostPrompt'
  <2> DEFINE s == SessOf[p]
  <2>1. s \in Sessions /\ queues[s] \in Seq(Prompts)
    OBVIOUS
  <2>2. p \notin ToSet(queues[s])
    BY <1>4 DEF NoLostPrompt
  <2>3. /\ ToSet(queues'[s]) = ToSet(queues[s]) \cup {p}
        /\ IsInjective(queues'[s])
        /\ \A r \in Sessions : r # s => queues'[r] = queues[r]
    BY <1>4, <2>1, <2>2, ToSetOfAppend, InjectiveAppend DEF NoLostPrompt
  <2>4. \A q \in Prompts : phase'[q] = "queued" <=> phase[q] = "queued" \/ q = p
    BY <1>4
  <2>5. ASSUME NEW q \in Prompts
        PROVE  phase'[q] = "queued" <=> q \in ToSet(queues'[SessOf[q]])
    BY <2>3, <2>4 DEF NoLostPrompt
  <2>6. ASSUME NEW r \in Sessions
        PROVE  ToSet(queues'[r]) \subseteq PromptsOf(r) /\ IsInjective(queues'[r])
    <3>1. CASE r = s
      BY <2>3, <3>1 DEF NoLostPrompt, PromptsOf
    <3>2. CASE r # s
      BY <2>3, <3>2 DEF NoLostPrompt
    <3> QED
      BY <3>1, <3>2
  <2> QED
    BY <2>5, <2>6 DEF NoLostPrompt, PromptsOf
<1>5. ASSUME NEW p \in Prompts, SendQueued(p) PROVE NoLostPrompt'
  BY <1>4, <1>5 DEF SendQueued, Submitted
<1>6. ASSUME NEW p \in Prompts, Enqueue(p) PROVE NoLostPrompt'
  BY <1>2, <1>4, <1>6 DEF Enqueue
<1>7. ASSUME NEW p \in Prompts, SendFinishes(p) PROVE NoLostPrompt'
  <2> DEFINE s == SessOf[p]
  <2>1. CASE UNCHANGED queues /\ phase' = [phase EXCEPT ![p] = "over"]
    BY <1>2, <1>7, <2>1, FinishCases
  <2>2. ASSUME NEW h \in Prompts, queues[s] # << >>, h = Head(queues[s]),
               phase[h] = "queued", SessOf[h] = s,
               phase' = [phase EXCEPT ![p] = "over", ![h] = "handoff"],
               queues' = [queues EXCEPT ![s] = Tail(@)]
        PROVE  NoLostPrompt'
    <3>1. s \in Sessions /\ queues[s] \in Seq(Prompts) /\ phase[p] = "finish"
      BY <1>7, FinishCases
    <3>2. /\ ToSet(queues'[s]) = ToSet(queues[s]) \ {h}
          /\ IsInjective(queues'[s])
          /\ \A r \in Sessions : r # s => queues'[r] = queues[r]
      BY <2>2, <3>1, ToSetOfTail DEF NoLostPrompt
    <3>3. \A q \in Prompts : phase'[q] = "queued" <=> phase[q] = "queued" /\ q # h
      BY <2>2, <3>1
    <3>4. ASSUME NEW q \in Prompts
          PROVE  phase'[q] = "queued" <=> q \in ToSet(queues'[SessOf[q]])
      BY <2>2, <3>2, <3>3 DEF NoLostPrompt
    <3>5. ASSUME NEW r \in Sessions
          PROVE  /\ ToSet(queues'[r]) \subseteq PromptsOf(r)
                 /\ IsInjective(queues'[r])
      BY <3>2 DEF NoLostPrompt, PromptsOf
    <3> QED
      BY <3>4, <3>5 DEF NoLostPrompt, PromptsOf
  <2> QED
    BY <1>7, <2>1, <2>2, FinishCases
<1>8. ASSUME NEW s \in Sessions, ClearQueue(s) PROVE NoLostPrompt'
  <2>1. ToSet(<< >>) = {} /\ IsInjective(<< >>)
    BY DEF ToSet, IsInjective
  <2>2. /\ queues'[s] = << >>
        /\ \A r \in Sessions : r # s => queues'[r] = queues[r]
    BY <1>8 DEF ClearQueue
  <2>3. \A q \in Prompts :
          phase'[q] = "queued" <=> phase[q] = "queued" /\ q \notin ToSet(queues[s])
    BY <1>8 DEF ClearQueue
  <2>4. ASSUME NEW q \in Prompts
        PROVE  phase'[q] = "queued" <=> q \in ToSet(queues'[SessOf[q]])
    <3>1. CASE SessOf[q] = s
      BY <2>1, <2>2, <2>3, <3>1 DEF NoLostPrompt
    <3>2. CASE SessOf[q] # s
      <4>1. q \notin ToSet(queues[s])
        BY <3>2 DEF NoLostPrompt, PromptsOf
      <4> QED
        BY <2>2, <2>3, <3>2, <4>1 DEF NoLostPrompt
    <3> QED
      BY <3>1, <3>2
  <2>5. ASSUME NEW r \in Sessions
        PROVE  /\ ToSet(queues'[r]) \subseteq PromptsOf(r)
               /\ IsInjective(queues'[r])
    <3>1. CASE r = s
      BY <2>1, <2>2, <3>1
    <3>2. CASE r # s
      BY <2>2, <3>2 DEF NoLostPrompt
    <3> QED
      BY <3>1, <3>2
  <2> QED
    BY <2>4, <2>5 DEF NoLostPrompt, PromptsOf
<1> QED
  BY <1>1, <1>3, <1>5, <1>6, <1>7, <1>8, PromptSteps DEF SendStep

(* The slot and the queue fit together in every reachable state.           *)
LEMMA SlotInvariant == Spec => []SlotInv
<1>1. Init => SlotInv
  <2> SUFFICES ASSUME Init PROVE OneTurnPerSession /\ NoLostPrompt
    BY TypeInit DEF SlotInv
  <2>1. ToSet(<< >>) = {} /\ IsInjective(<< >>)
    BY DEF ToSet, IsInjective
  <2>2. \A p \in Prompts : ~Active(p) /\ phase[p] = "new"
    BY DEF Init, Active, InSlot
  <2>3. OneTurnPerSession
    BY <2>2 DEF Init, OneTurnPerSession, PromptsOf
  <2>4. NoLostPrompt
    BY <2>1, <2>2, SessOfAssumption DEF Init, NoLostPrompt
  <2> QED
    BY <2>3, <2>4
<1>2. SlotInv /\ [Next]_vars => SlotInv'
  BY TypeStep, OneTurnStep, NoLostStep DEF SlotInv
<1> QED
  BY <1>1, <1>2, PTL DEF Spec


(* A session has at most one turn in flight and is marked active exactly   *)
(* while it has one, whichever of a caller and a drain goroutine reaches   *)
(* the slot first; and every queued prompt is in its session's queue,      *)
(* once.                                                                   *)
THEOREM SlotIsExclusive == Spec => [](OneTurnPerSession /\ NoLostPrompt)
<1>1. SlotInv => OneTurnPerSession /\ NoLostPrompt
  BY DEF SlotInv
<1> QED
  BY SlotInvariant, <1>1, PTL

-----------------------------------------------------------------------------
(* What follows from the slot's invariant.                                 *)

(* A prompt in a transcript is past its append for good: it will not go    *)
(* through the hook and the append again.                                  *)
StoredInv ==
  /\ StoredOnce
  /\ \A s \in Sessions : \A p \in ToSet(transcript[s]) :
       SessOf[p] = s /\ phase[p] \in {"load", "loop", "finish", "over"}

(* A step that stores nothing and moves no stored prompt backwards keeps   *)
(* the invariant; only DoSendAppend stores, from the one phase before it.  *)
LEMMA StoredStep == SlotInv /\ StoredInv /\ [Next]_vars => StoredInv'
<1> SUFFICES ASSUME SlotInv, StoredInv, [Next]_vars PROVE StoredInv'
  OBVIOUS
<1> USE SessOfAssumption
<1> USE DEF SlotInv, TypeOK, Phases
<1> DEFINE Stored == {"load", "loop", "finish", "over"}
<1>1. \A s \in Sessions : ToSet(transcript[s]) \subseteq Prompts
  BY DEF ToSet
<1>2. ASSUME UNCHANGED transcript,
             \A q \in Prompts : phase[q] \in Stored => phase'[q] \in Stored
      PROVE  StoredInv'
  BY <1>1, <1>2 DEF StoredInv, StoredOnce
<1>3. CASE UNCHANGED <<activeRuns, queues, phase, transcript>>
  BY <1>2, <1>3
<1>4. ASSUME NEW p \in Prompts,
             SendStep(p) \/ DoSendHook(p) \/ DoSendLoad(p)
               \/ DoSendReturns(p) \/ Enqueue(p)
      PROVE  StoredInv'
  <2>1. UNCHANGED transcript
    BY <1>4 DEF SendStep, SendRefused, SendQueued, SendStarts, DoSendHook,
                DoSendLoad, DoSendReturns, Enqueue
  <2>2. PICK x \in Phases : /\ phase' = [phase EXCEPT ![p] = x]
                            /\ phase[p] \in Stored => x \in Stored
    BY <1>4 DEF SendStep, SendRefused, SendQueued, SendStarts, DoSendHook,
                DoSendLoad, DoSendReturns, Enqueue, Submitted
  <2> QED
    BY <1>2, <2>1, <2>2
<1>5. ASSUME NEW p \in Prompts, DoSendAppend(p) PROVE StoredInv'
  <2>1. CASE phase' = [phase EXCEPT ![p] = "finish"] /\ UNCHANGED transcript
    BY <1>2, <2>1
  <2>2. CASE /\ phase' = [phase EXCEPT ![p] = "load"]
             /\ transcript' = [transcript EXCEPT ![SessOf[p]] = Append(@, p)]
    <3> DEFINE s == SessOf[p]
    <3>1. s \in Sessions /\ transcript[s] \in Seq(Prompts)
      OBVIOUS
    <3>2. p \notin ToSet(transcript[s])
      BY <1>5, <3>1 DEF DoSendAppend, StoredInv
    <3>3. /\ ToSet(transcript'[s]) = ToSet(transcript[s]) \cup {p}
          /\ IsInjective(transcript'[s])
          /\ \A r \in Sessions : r # s => transcript'[r] = transcript[r]
      BY <2>2, <3>1, <3>2, ToSetOfAppend, InjectiveAppend
         DEF StoredInv, StoredOnce
    <3>4. /\ phase'[p] = "load"
          /\ \A q \in Prompts : phase[q] \in Stored => phase'[q] \in Stored
      BY <2>2
    <3>5. ASSUME NEW r \in Sessions, NEW q \in ToSet(transcript'[r])
          PROVE  SessOf[q] = r /\ phase'[q] \in Stored
      <4>1. CASE q \in ToSet(transcript[r])
        BY <1>1, <3>4, <4>1 DEF StoredInv
      <4>2. CASE q \notin ToSet(transcript[r])
        <5>1. r = s /\ q = p
          BY <3>3, <4>2
        <5> QED
          BY <3>4, <5>1
      <4> QED
        BY <4>1, <4>2
    <3>6. ASSUME NEW r \in Sessions PROVE IsInjective(transcript'[r])
      <4>1. CASE r = s
        BY <3>3, <4>1
      <4>2. CASE r # s
        BY <3>3, <4>2 DEF StoredInv, StoredOnce
      <4> QED
        BY <4>1, <4>2
    <3> QED
      BY <3>5, <3>6 DEF StoredInv, StoredOnce
  <2> QED
    BY <1>5, <2>1, <2>2 DEF DoSendAppend
<1>6. ASSUME NEW p \in Prompts, SendFinishes(p) PROVE StoredInv'
  <2>1. UNCHANGED transcript
    BY <1>6, FinishCases
  <2>2. ASSUME NEW q \in Prompts, phase[q] \in Stored PROVE phase'[q] \in Stored
    <3>1. CASE phase' = [phase EXCEPT ![p] = "over"]
      BY <2>2, <3>1
    <3>2. ASSUME NEW h \in Prompts, phase[h] = "queued",
                 phase' = [phase EXCEPT ![p] = "over", ![h] = "handoff"]
          PROVE  phase'[q] \in Stored
      BY <2>2, <3>2
    <3> QED
      BY <1>6, <3>1, <3>2, FinishCases
  <2> QED
    BY <1>2, <2>1, <2>2
<1>7. ASSUME NEW s \in Sessions, ClearQueue(s) PROVE StoredInv'
  <2>1. \A q \in ToSet(queues[s]) : phase[q] = "queued"
    BY DEF NoLostPrompt, PromptsOf
  <2>2. UNCHANGED transcript
    BY <1>7 DEF ClearQueue
  <2>3. \A q \in Prompts : phase[q] \in Stored => phase'[q] \in Stored
    BY <1>7, <2>1 DEF ClearQueue
  <2> QED
    BY <1>2, <2>2, <2>3
<1> QED
  BY <1>3, <1>4, <1>5, <1>6, <1>7, PromptSteps

(* However often a prompt is queued, popped and queued again, its user     *)
(* message is stored at most once.                                         *)
THEOREM PromptStoredOnce == Spec => []StoredOnce
<1>1. Init => StoredInv
  <2>1. ToSet(<< >>) = {} /\ IsInjective(<< >>)
    BY DEF ToSet, IsInjective
  <2> QED
    BY <2>1 DEF Init, StoredInv, StoredOnce
<1>2. StoredInv => StoredOnce
  BY DEF StoredInv
<1> QED
  BY <1>1, <1>2, SlotInvariant, StoredStep, PTL DEF Spec

(* Whoever leaves a prompt behind in a queue leaves somebody to fetch it.  *)
LEMMA NoStuckStep == SlotInv /\ NoStuckQueue /\ [Next]_vars => NoStuckQueue'
<1> SUFFICES ASSUME SlotInv, NoStuckQueue, [Next]_vars,
                    NEW s \in Sessions, ~closed'
             PROVE  \/ ToSet(queues'[s]) \subseteq Enqueued
                    \/ s \in activeRuns'
                    \/ \E p \in PromptsOf(s) : phase'[p] = "handoff"
  BY DEF NoStuckQueue, PromptsOf
<1> DEFINE Fetched == \/ ToSet(queues'[s]) \subseteq Enqueued
                      \/ s \in activeRuns'
                      \/ \E p \in PromptsOf(s) : phase'[p] = "handoff"
<1> USE SessOfAssumption
<1> USE DEF SlotInv, TypeOK, Phases
<1>1. ASSUME closed => closed',
             ToSet(queues'[s]) \subseteq ToSet(queues[s]) \cup Enqueued,
             s \in activeRuns => s \in activeRuns',
             \A q \in Prompts :
               SessOf[q] = s /\ phase[q] = "handoff" => phase'[q] = "handoff"
      PROVE  Fetched
  <2>1. CASE ToSet(queues[s]) \subseteq Enqueued
    BY <1>1, <2>1
  <2>2. CASE s \in activeRuns
    BY <1>1, <2>2
  <2>3. ASSUME NEW q \in PromptsOf(s), phase[q] = "handoff" PROVE Fetched
    BY <1>1, <2>3 DEF PromptsOf
  <2> QED
    BY <1>1, <2>1, <2>2, <2>3 DEF NoStuckQueue
<1>2. CASE UNCHANGED <<activeRuns, queues, phase, transcript>> /\ (closed => closed')
  BY <1>2, <1>1
<1>3. ASSUME NEW p \in Prompts, SendQueued(p) PROVE Fetched
  <2>1. CASE SessOf[p] = s
    BY <1>3, <2>1 DEF SendQueued, SlotFree
  <2>2. CASE SessOf[p] # s
    <3>1. /\ UNCHANGED <<closed, activeRuns>>
          /\ queues'[s] = queues[s]
          /\ \A q \in Prompts : SessOf[q] = s => phase'[q] = phase[q]
      BY <1>3, <2>2 DEF SendQueued
    <3> QED
      BY <1>1, <3>1
  <2> QED
    BY <2>1, <2>2
<1>4. ASSUME NEW p \in Prompts, SendStarts(p) PROVE Fetched
  <2>1. CASE SessOf[p] = s
    BY <1>4, <2>1 DEF SendStarts
  <2>2. CASE SessOf[p] # s
    <3>1. /\ UNCHANGED <<closed, queues>>
          /\ s \in activeRuns => s \in activeRuns'
          /\ \A q \in Prompts : SessOf[q] = s => phase'[q] = phase[q]
      BY <1>4, <2>2 DEF SendStarts
    <3> QED
      BY <1>1, <3>1
  <2> QED
    BY <2>1, <2>2
<1>5. ASSUME NEW p \in Prompts, SendRefused(p) PROVE Fetched
  BY <1>5 DEF SendRefused, Open
<1>6. ASSUME NEW p \in Prompts,
             DoSendHook(p) \/ DoSendAppend(p) \/ DoSendLoad(p)
               \/ DoSendReturns(p)
      PROVE  Fetched
  <2>1. UNCHANGED <<closed, activeRuns, queues>>
    BY <1>6 DEF DoSendHook, DoSendAppend, DoSendLoad, DoSendReturns
  <2>2. \A q \in Prompts : phase[q] = "handoff" => phase'[q] = "handoff"
    BY <1>6 DEF DoSendHook, DoSendAppend, DoSendLoad, DoSendReturns
  <2> QED
    BY <1>1, <2>1, <2>2
<1>7. ASSUME NEW p \in Prompts, Enqueue(p) PROVE Fetched
  <2>1. UNCHANGED <<closed, activeRuns>> /\ p \in Enqueued
    BY <1>7 DEF Enqueue
  <2>2. \A q \in Prompts : phase[q] = "handoff" => phase'[q] = "handoff"
    BY <1>7 DEF Enqueue
  <2>3. ToSet(queues'[s]) \subseteq ToSet(queues[s]) \cup Enqueued
    <3>1. CASE UNCHANGED queues
      BY <3>1
    <3>2. CASE queues' = [queues EXCEPT ![SessOf[p]] = Append(@, p)]
      <4>1. CASE SessOf[p] = s
        BY <2>1, <3>2, <4>1, ToSetOfAppend
      <4>2. CASE SessOf[p] # s
        BY <3>2, <4>2
      <4> QED
        BY <4>1, <4>2
    <3> QED
      BY <1>7, <3>1, <3>2 DEF Enqueue
  <2> QED
    BY <1>1, <2>1, <2>2, <2>3
<1>8. ASSUME NEW p \in Prompts, SendFinishes(p) PROVE Fetched
  <2>1. CASE SessOf[p] = s
    <3>1. CASE queues[s] = << >> /\ UNCHANGED queues
      BY <3>1 DEF ToSet
    <3>2. ASSUME NEW h \in Prompts, SessOf[h] = s,
                 phase' = [phase EXCEPT ![p] = "over", ![h] = "handoff"]
          PROVE  Fetched
      BY <3>2 DEF PromptsOf
    <3> QED
      BY <1>8, <2>1, <3>1, <3>2, FinishCases
  <2>2. CASE SessOf[p] # s
    <3>1. UNCHANGED closed /\ activeRuns' = activeRuns \ {SessOf[p]}
      BY <1>8, FinishCases
    <3>2. queues'[s] = queues[s]
      BY <1>8, <2>2, FinishCases
    <3>3. \A q \in Prompts : SessOf[q] = s => phase'[q] = phase[q]
      <4>1. ASSUME NEW h \in Prompts, SessOf[h] = SessOf[p],
                   phase' = [phase EXCEPT ![p] = "over", ![h] = "handoff"]
            PROVE  \A q \in Prompts : SessOf[q] = s => phase'[q] = phase[q]
        BY <2>2, <4>1 DEF PromptsOf
      <4>2. CASE phase' = [phase EXCEPT ![p] = "over"]
        BY <2>2, <4>2 DEF PromptsOf
      <4> QED
        BY <1>8, <4>1, <4>2, FinishCases
    <3> QED
      BY <1>1, <2>2, <3>1, <3>2, <3>3
  <2> QED
    BY <2>1, <2>2
<1>9. ASSUME NEW r \in Sessions, ClearQueue(r) PROVE Fetched
  <2>1. UNCHANGED <<closed, activeRuns>>
    BY <1>9 DEF ClearQueue
  <2>2. ToSet(queues'[s]) \subseteq ToSet(queues[s])
    BY <1>9 DEF ClearQueue, ToSet
  <2>3. \A q \in ToSet(queues[r]) : phase[q] = "queued"
    BY DEF NoLostPrompt, PromptsOf
  <2>4. \A q \in Prompts : phase[q] = "handoff" => phase'[q] = "handoff"
    BY <1>9, <2>3 DEF ClearQueue
  <2> QED
    BY <1>1, <2>1, <2>2, <2>4
<1> QED
  BY <1>2, <1>3, <1>4, <1>5, <1>6, <1>7, <1>8, <1>9, PromptSteps DEF SendStep

(* A prompt that Send queued behind a turn never sits in the queue of an   *)
(* idle session of an open agent with no goroutine on its way to fetch it. *)
THEOREM QueueIsFetched == Spec => []NoStuckQueue
<1>1. Init => NoStuckQueue
  BY DEF Init, NoStuckQueue, ToSet
<1> QED
  BY <1>1, SlotInvariant, NoStuckStep, PTL DEF Spec

(* Once Close has returned no prompt takes a slot, not even the one that   *)
(* the turn in flight pops when it ends.                                   *)
THEOREM ClosedStartsNothing == Spec => NoStartAfterClose
<1>1. SlotInv /\ [Next]_vars =>
        [closed => \A p \in Prompts : Active(p)' => Active(p)]_vars
  <2> SUFFICES ASSUME SlotInv, [Next]_vars, closed, NEW q \in Prompts, Active(q)'
               PROVE  Active(q)
    OBVIOUS
  <2> USE SessOfAssumption
  <2> USE DEF SlotInv, TypeOK, Active, InSlot
  <2>1. CASE UNCHANGED <<activeRuns, queues, phase, transcript>>
    BY <2>1
  <2>2. ASSUME NEW p \in Prompts, SendStep(p) PROVE Active(q)
    BY <2>2 DEF SendStep, SendRefused, SendQueued, SendStarts, Open
  <2>3. ASSUME NEW p \in Prompts,
               DoSendHook(p) \/ DoSendAppend(p) \/ DoSendLoad(p)
                 \/ DoSendReturns(p) \/ Enqueue(p)
        PROVE  Active(q)
    BY <2>3 DEF DoSendHook, DoSendAppend, DoSendLoad, DoSendReturns, Enqueue
  <2>4. ASSUME NEW p \in Prompts, SendFinishes(p) PROVE Active(q)
    <3>1. CASE phase' = [phase EXCEPT ![p] = "over"]
      BY <3>1
    <3>2. ASSUME NEW h \in Prompts,
                 phase' = [phase EXCEPT ![p] = "over", ![h] = "handoff"]
          PROVE  Active(q)
      BY <3>2
    <3> QED
      BY <2>4, <3>1, <3>2, FinishCases
  <2>5. ASSUME NEW s \in Sessions, ClearQueue(s) PROVE Active(q)
    BY <2>5 DEF ClearQueue
  <2> QED
    BY <2>1, <2>2, <2>3, <2>4, <2>5, PromptSteps
<1> QED
  BY <1>1, SlotInvariant, PTL DEF Spec, NoStartAfterClose

-----------------------------------------------------------------------------
(* Where a hook's system-prompt additions can be.                          *)

(* Queued additions are those of a refresh, or of a prompt of that session *)
(* whose message is stored and whose turn has not returned.                *)
AdditionsInv ==
  \A s \in Sessions : \A q \in additions[s] :
    q # None => q \in Prompts /\ SessOf[q] = s /\ phase[q] \in {"load", "loop"}

(* A step that adds no addition and leaves the prompts between load and    *)
(* loop where they are keeps the invariant.                                *)
LEMMA AdditionsKeptOr ==
  ASSUME AdditionsInv,
         \A s \in Sessions : additions'[s] \subseteq additions[s] \cup {None},
         \A q \in Prompts : phase[q] \in {"load", "loop"} => phase'[q] = phase[q]
  PROVE  AdditionsInv'
BY DEF AdditionsInv

(* Every step keeps it; a turn that ends early or returns clears what it   *)
(* leaves behind, whichever way it goes.                                   *)
LEMMA AdditionsStep == SlotInv /\ AdditionsInv /\ [Next]_vars => AdditionsInv'
<1> SUFFICES ASSUME SlotInv, AdditionsInv, [Next]_vars PROVE AdditionsInv'
  OBVIOUS
<1> USE SessOfAssumption, NoneAssumption
<1> USE DEF SlotInv, TypeOK, Phases, promptVars, guideVars, compactVars, injectVars
<1>1. ASSUME NEW p \in Prompts, SendStep(p) \/ Enqueue(p) PROVE AdditionsInv'
  <2>1. /\ phase[p] \in {"new", "handoff"}
        /\ additions' = additions
        /\ \A q \in Prompts : q # p => phase'[q] = phase[q]
    BY <1>1 DEF SendStep, SendRefused, SendQueued, SendStarts, Submitted, Enqueue
  <2> QED
    BY <2>1, AdditionsKeptOr
<1>2. ASSUME NEW p \in Prompts, DoSendHook(p) PROVE AdditionsInv'
  BY <1>2, AdditionsKeptOr DEF DoSendHook
<1>3. ASSUME NEW p \in Prompts, DoSendAppend(p) PROVE AdditionsInv'
  <2>1. \A q \in Prompts : q # p => phase'[q] = phase[q]
    BY <1>3 DEF DoSendAppend
  <2>2. CASE UNCHANGED additions
    BY <1>3, <2>1, <2>2, AdditionsKeptOr DEF DoSendAppend
  <2>3. CASE /\ phase' = [phase EXCEPT ![p] = "load"]
             /\ additions' = [additions EXCEPT ![SessOf[p]] = @ \cup {p}]
    BY <1>3, <2>3 DEF DoSendAppend, AdditionsInv
  <2> QED
    BY <1>3, <2>2, <2>3 DEF DoSendAppend, AppendPendingSystemAdditions
<1>4. ASSUME NEW p \in Prompts, DoSendLoad(p) \/ DoSendReturns(p)
      PROVE  AdditionsInv'
  <2>1. CASE /\ phase' = [phase EXCEPT ![p] = "finish"]
             /\ additions' = ClearPendingSystemAdditions(SessOf[p])
    BY <2>1 DEF ClearPendingSystemAdditions, AdditionsInv
  <2>2. CASE phase' = [phase EXCEPT ![p] = "loop"] /\ UNCHANGED additions
    BY <2>2 DEF AdditionsInv
  <2> QED
    BY <1>4, <2>1, <2>2 DEF DoSendLoad, DoSendReturns
<1>5. ASSUME NEW p \in Prompts, PrepareFantasyStep(p) PROVE AdditionsInv'
  BY <1>5, AdditionsKeptOr DEF PrepareFantasyStep
<1>6. ASSUME NEW p \in Prompts, SendFinishes(p) PROVE AdditionsInv'
  <2>1. /\ phase[p] = "finish"
        /\ additions' = additions
    BY <1>6 DEF SendFinishes
  <2>2. \A q \in Prompts : phase[q] \in {"load", "loop"} => phase'[q] = phase[q]
    <3>1. CASE phase' = [phase EXCEPT ![p] = "over"]
      BY <2>1, <3>1
    <3>2. ASSUME NEW h \in Prompts, phase[h] = "queued",
                 phase' = [phase EXCEPT ![p] = "over", ![h] = "handoff"]
          PROVE  \A q \in Prompts :
                   phase[q] \in {"load", "loop"} => phase'[q] = phase[q]
      BY <2>1, <3>2
    <3> QED
      BY <1>6, <3>1, <3>2, FinishCases
  <2> QED
    BY <2>1, <2>2, AdditionsKeptOr
<1>7. ASSUME NEW s \in Sessions, ClearQueue(s) PROVE AdditionsInv'
  <2>1. \A q \in ToSet(queues[s]) : q \in Prompts => phase[q] = "queued"
    BY DEF NoLostPrompt, PromptsOf
  <2> QED
    BY <1>7, <2>1, AdditionsKeptOr DEF ClearQueue
<1>8. ASSUME NEW s \in Sessions, RefreshHookSystemPromptAdditions(s)
      PROVE  AdditionsInv'
  BY <1>8, AdditionsKeptOr DEF RefreshHookSystemPromptAdditions
<1>9. ASSUME UNCHANGED <<phase, additions>> PROVE AdditionsInv'
  BY <1>9 DEF AdditionsInv
<1>10. ASSUME NEW x \in Texts, NEW p \in Prompts, Steer(x, p)
       PROVE  UNCHANGED <<phase, additions>>
  BY <1>10 DEF Steer
<1>11. ASSUME Close PROVE UNCHANGED <<phase, additions>>
  BY <1>11 DEF Close
<1>12. ASSUME NEW k \in Compactors, NEW s \in Sessions,
              CompactLocks(k, s)
       PROVE  UNCHANGED <<phase, additions>>
  BY <1>12 DEF CompactLocks
<1>13. ASSUME NEW k \in Compactors, CompactReturns(k)
       PROVE  UNCHANGED <<phase, additions>>
  BY <1>13 DEF CompactReturns
<1>14. ASSUME NEW g \in Plugins, NEW s \in Sessions, InjectMessage(g, s)
       PROVE  UNCHANGED <<phase, additions>>
  BY <1>14 DEF InjectMessage
<1>15. CASE UNCHANGED vars
  BY <1>9, <1>15 DEF vars
<1> QED
  BY <1>1, <1>2, <1>3, <1>4, <1>5, <1>6, <1>7, <1>8, <1>9, <1>10, <1>11,
     <1>12, <1>13, <1>14, <1>15 DEF Next, TurnStep

(* What a pre_message hook adds for one prompt never reaches the model in  *)
(* the turn of another one: the only turn that could drain it is the one   *)
(* whose deferred clear it has to survive.                                 *)
THEOREM AdditionsNeverLeak == Spec => AdditionsStayInTurn
<1>1. Init => AdditionsInv
  BY DEF Init, AdditionsInv
<1>2. SlotInv /\ AdditionsInv /\ [Next]_vars => AdditionsInv'
  BY AdditionsStep
<1>3. SlotInv /\ AdditionsInv =>
        \A p \in Prompts :
          PrepareFantasyStep(p) => additions[SessOf[p]] \subseteq {p, None}
  <2> SUFFICES ASSUME SlotInv, AdditionsInv, NEW p \in Prompts,
                      PrepareFantasyStep(p), NEW q \in additions[SessOf[p]],
                      q # None
               PROVE  q = p
    OBVIOUS
  <2>1. q \in Prompts /\ SessOf[q] = SessOf[p] /\ phase[q] \in {"load", "loop"}
    BY SessOfAssumption DEF AdditionsInv
  <2>2. Active(p) /\ Active(q)
    BY <2>1 DEF PrepareFantasyStep, Active, InSlot
  <2> QED
    BY <2>1, <2>2 DEF SlotInv, OneTurnPerSession
<1> QED
  BY <1>1, <1>2, <1>3, SlotInvariant, PTL DEF Spec, AdditionsStayInTurn

-----------------------------------------------------------------------------
(* The refinement of TurnSlot.                                             *)

(* Under the mapping, a step that moves one prompt p to phase x changes    *)
(* only the sets that p leaves and enters.                                 *)
LEMMA MoveOne ==
  ASSUME TypeOK, NEW p \in Prompts, NEW x \in Phases,
         phase' = [phase EXCEPT ![p] = x]
  PROVE  /\ Fresh' = IF x = "new" THEN Fresh \cup {p} ELSE Fresh \ {p}
         /\ Waiting' = IF x \in {"queued", "handoff"}
                       THEN Waiting \cup {p} ELSE Waiting \ {p}
         /\ Running' = IF x \in InSlot THEN Running \cup {p} ELSE Running \ {p}
         /\ Ended' = IF x \in {"over", "cleared", "refused"}
                     THEN Ended \cup {p} ELSE Ended \ {p}
<1> USE DEF TypeOK
<1>1. \A q \in Prompts : phase'[q] = IF q = p THEN x ELSE phase[q]
  OBVIOUS
<1>2. Fresh' = IF x = "new" THEN Fresh \cup {p} ELSE Fresh \ {p}
  BY <1>1 DEF Fresh
<1>3. Waiting' = IF x \in {"queued", "handoff"}
                 THEN Waiting \cup {p} ELSE Waiting \ {p}
  BY <1>1 DEF Waiting
<1>4. Running' = IF x \in InSlot THEN Running \cup {p} ELSE Running \ {p}
  BY <1>1 DEF Running, Active
<1>5. Ended' = IF x \in {"over", "cleared", "refused"}
               THEN Ended \cup {p} ELSE Ended \ {p}
  BY <1>1 DEF Ended
<1> QED
  BY <1>2, <1>3, <1>4, <1>5

(* Every step of the queue is a step of the slot, or leaves it alone: the  *)
(* four sets of prompts move as Accept, Start, End and Drop say.           *)
LEMMA SlotStep ==
  SlotInv /\ [Next]_vars => [Slot!Next]_<<Fresh, Waiting, Running, Ended>>
<1> SUFFICES ASSUME SlotInv, [Next]_vars
             PROVE  Slot!Next \/ UNCHANGED <<Fresh, Waiting, Running, Ended>>
  OBVIOUS
<1> DEFINE Goal == Slot!Next \/ UNCHANGED <<Fresh, Waiting, Running, Ended>>
<1> USE SessOfAssumption
<1> USE DEF SlotInv, TypeOK, Phases
<1>1. CASE UNCHANGED <<activeRuns, queues, phase, transcript>>
  BY <1>1 DEF Fresh, Waiting, Running, Ended, Active
<1>2. ASSUME NEW p \in Prompts,
             DoSendHook(p) \/ DoSendAppend(p) \/ DoSendLoad(p)
               \/ DoSendReturns(p)
      PROVE  Goal
  <2>1. PICK x \in InSlot : phase' = [phase EXCEPT ![p] = x]
    BY <1>2 DEF DoSendHook, DoSendAppend, DoSendLoad, DoSendReturns, InSlot
  <2>2. phase[p] \in InSlot
    BY <1>2 DEF DoSendHook, DoSendAppend, DoSendLoad, DoSendReturns, InSlot
  <2>3. \A q \in Prompts : phase'[q] = IF q = p THEN x ELSE phase[q]
    BY <2>1
  <2>4. Fresh' = Fresh /\ Waiting' = Waiting /\ Ended' = Ended
    BY <2>2, <2>3 DEF Fresh, Waiting, Ended, InSlot
  <2>5. Running' = Running
    BY <2>2, <2>3 DEF Running, Active
  <2> QED
    BY <2>4, <2>5
<1>3. ASSUME NEW p \in Prompts, p \in Fresh,
             phase' = [phase EXCEPT ![p] = "queued"]
      PROVE  Slot!Accept(p)
  BY <1>3, MoveOne DEF Slot!Accept, Fresh, Waiting, Running, Ended, Active,
                       InSlot
<1>4. ASSUME NEW p \in Prompts, p \in Fresh \cup Waiting,
             phase' = [phase EXCEPT ![p] = "refused"]
      PROVE  Slot!Drop({p})
  BY <1>4, MoveOne DEF Slot!Drop, Fresh, Waiting, Running, Ended, Active,
                       InSlot
<1>5. ASSUME NEW p \in Prompts, SendStep(p) PROVE Goal
  <2>1. p \in Fresh \cup Waiting
    BY <1>5 DEF SendStep, SendRefused, SendQueued, SendStarts, Submitted,
                Fresh, Waiting
  <2>2. CASE SendRefused(p)
    <3>1. Slot!Drop({p})
      BY <1>4, <2>1, <2>2 DEF SendRefused
    <3> QED
      BY <3>1 DEF Slot!Next
  <2>3. CASE SendQueued(p)
    <3>1. CASE p \in Fresh
      BY <1>3, <2>3, <3>1 DEF SendQueued, Slot!Next
    <3>2. CASE p \in Waiting
      BY <2>3, <3>2, MoveOne
         DEF SendQueued, Fresh, Waiting, Running, Ended, Active, InSlot
    <3> QED
      BY <2>1, <3>1, <3>2
  <2>4. CASE SendStarts(p)
    <3>1. \A q \in Running : SessOf[q] # SessOf[p]
      BY <2>4 DEF SendStarts, SlotFree, OneTurnPerSession, PromptsOf, Running
    <3>2. /\ Fresh' = Fresh \ {p}
          /\ Waiting' = Waiting \ {p}
          /\ Running' = Running \cup {p}
          /\ Ended' = Ended \ {p}
      BY <2>4, MoveOne DEF SendStarts, InSlot
    <3>3. p \notin Ended
      BY <2>1 DEF Fresh, Waiting, Ended
    <3>4. Slot!Start(p)
      BY <2>1, <3>1, <3>2, <3>3 DEF Slot!Start, Slot!Idle
    <3> QED
      BY <3>4 DEF Slot!Next
  <2> QED
    BY <1>5, <2>2, <2>3, <2>4 DEF SendStep
<1>6. ASSUME NEW p \in Prompts, Enqueue(p) PROVE Goal
  <2>1. p \in Fresh
    BY <1>6 DEF Enqueue, Fresh
  <2> QED
    BY <1>3, <1>4, <1>6, <2>1 DEF Enqueue, Slot!Next
<1>7. ASSUME NEW p \in Prompts, SendFinishes(p) PROVE Goal
  <2>1. p \in Running /\ phase[p] = "finish"
    BY <1>7, FinishCases DEF Running, Active, InSlot
  <2>2. /\ Fresh' = Fresh
        /\ Waiting' = Waiting
        /\ Running' = Running \ {p}
        /\ Ended' = Ended \cup {p}
    <3>1. CASE phase' = [phase EXCEPT ![p] = "over"]
      BY <2>1, <3>1, MoveOne DEF InSlot, Fresh, Waiting
    <3>2. ASSUME NEW h \in Prompts, phase[h] = "queued",
                 phase' = [phase EXCEPT ![p] = "over", ![h] = "handoff"]
          PROVE  <2>2
      <4>1. \A q \in Prompts :
              phase'[q] = IF q = h THEN "handoff"
                          ELSE IF q = p THEN "over" ELSE phase[q]
        BY <3>2
      <4>2. Fresh' = Fresh /\ Waiting' = Waiting
        BY <2>1, <3>2, <4>1 DEF Fresh, Waiting
      <4>3. Running' = Running \ {p} /\ Ended' = Ended \cup {p}
        BY <2>1, <3>2, <4>1 DEF Running, Ended, Active, InSlot
      <4> QED
        BY <4>2, <4>3
    <3> QED
      BY <1>7, <3>1, <3>2, FinishCases
  <2>3. Slot!End(p)
    BY <2>1, <2>2 DEF Slot!End
  <2> QED
    BY <2>3 DEF Slot!Next
<1>8. ASSUME NEW s \in Sessions, ClearQueue(s) PROVE Goal
  <2> DEFINE P == ToSet(queues[s])
  <2>1. P \in SUBSET Prompts /\ \A q \in P : phase[q] = "queued"
    BY DEF NoLostPrompt, PromptsOf
  <2>2. \A q \in Prompts : phase'[q] = IF q \in P THEN "cleared" ELSE phase[q]
    BY <1>8 DEF ClearQueue
  <2>3. P \subseteq Waiting
    BY <2>1 DEF Waiting
  <2>4. Fresh' = Fresh \ P /\ Waiting' = Waiting \ P
    BY <2>1, <2>2 DEF Fresh, Waiting
  <2>5. Running' = Running
    BY <2>1, <2>2 DEF Running, Active, InSlot
  <2>6. Ended' = Ended \cup P
    BY <2>1, <2>2 DEF Ended
  <2>7. Slot!Drop(P)
    BY <2>3, <2>4, <2>5, <2>6 DEF Slot!Drop
  <2> QED
    BY <2>1, <2>7 DEF Slot!Next
<1> QED
  BY <1>1, <1>2, <1>5, <1>6, <1>7, <1>8, PromptSteps

(* The queue, with its goroutines and handoffs, implements the turn slot:  *)
(* a prompt is run at most once or dropped, and turns of one session never *)
(* overlap.                                                                *)
THEOREM QueueImplementsSlot == Spec => ImplementsTurnSlot
<1>1. Init => Slot!Init
  BY DEF Init, Slot!Init, Fresh, Waiting, Running, Ended, Active, InSlot
<1>2. SlotInv /\ [Next]_vars => [Slot!Next]_(Slot!slotVars)
  BY SlotStep DEF Slot!slotVars
<1> QED
  BY <1>1, <1>2, SlotInvariant, PTL DEF Spec, ImplementsTurnSlot, Slot!Spec
=============================================================================
