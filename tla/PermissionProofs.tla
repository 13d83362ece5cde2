-------------------------- MODULE PermissionProofs --------------------------
(***************************************************************************)
(* Proofs about Permission, for any number of asks, targets and restarts,  *)
(* any promotion of targets to patterns, any policy and any buffers.       *)
(*                                                                         *)
(* PermInv is inductive: a request is shown once and answered once         *)
(* (ShownInv), every reply on its way is what the user said (ReplyInv), an *)
(* Ask past its wait has the answer its step goes by (PhaseInv), and every *)
(* pattern in the cache, the file or the matcher stems from an approval    *)
(* (GrantInv).                                                             *)
(***************************************************************************)
EXTENDS Permission, SeqLemmas, TLAPS

Unasked == {"new", "lookup", "subscribe", "publish"}

(* Past the receipt of the answer.                                         *)
Past(b) == pc[b] \notin Unasked \cup {"wait"}

(* A request is on its way to the user, or before the user, at most once,  *)
(* and not any more when it has been answered.                             *)
ShownInv ==
  /\ IsInjective(uiChan) /\ IsInjective(pendingPerms)
  /\ ToSet(uiChan) \cap ToSet(pendingPerms) = {}
  /\ \A a \in ToSet(uiChan) \cup ToSet(pendingPerms) :
       userSaid[a] = "none" /\ pc[a] \notin Unasked
  /\ \A a \in Asks : pc[a] \in Unasked => userSaid[a] = "none"

(* Every reply on its way says what the user said.                         *)
ReplyInv ==
  /\ \A r \in outbox : userSaid[r.id] = r.answer
  /\ \A a \in Asks : \A r \in ToSet(replies[a]) : userSaid[r.id] = r.answer

(* What is known of an Ask by where it is.                                 *)
PhaseInv ==
  \A a \in Asks :
    /\ pc[a] \in {"load", "save"} => userSaid[a] = "always"
    /\ pc[a] = "store" => userSaid[a] \in {"session", "always"}
    /\ InFlight(a) => born[a] = restarts /\ Target[a] \notin HardDenied
    /\ ~Past(a) => pattern[a] = {}
    /\ born[a] <= restarts

(* The pattern r is an approval's, of a scope and a process.               *)
ApprovedAlways(r, processes) ==
  \E b \in Asks : /\ pattern[b] = r
                  /\ Past(b)
                  /\ userSaid[b] = "always"
                  /\ born[b] \in processes
ApprovedHere(r) ==
  \E b \in Asks : /\ pattern[b] = r
                  /\ Past(b)
                  /\ userSaid[b] \in {"session", "always"}
                  /\ born[b] = restarts

GrantInv ==
  /\ \A r \in file : ApprovedAlways(r, 0..restarts)
  /\ \A a \in Asks : \A r \in base[a] : ApprovedAlways(r, 0..restarts)
  /\ \A r \in rules : ApprovedAlways(r, 0..(restarts - 1))
  /\ \A r \in sessionCache : ApprovedHere(r)

(* An approval whose Ask has returned is in the cache of an open engine,   *)
(* and an Ask that it covered will find it there.                          *)
CacheInv ==
  ~closed =>
    /\ \A b \in Approvals : pattern[b] \in sessionCache
    /\ \A a \in Asks :
         covered[a] /\ pc[a] = "lookup" => \E r \in sessionCache : Target[a] \in r

PermInv ==
  /\ TypeOK
  /\ ShownInv
  /\ ReplyInv
  /\ PhaseInv
  /\ GrantInv
  /\ CacheInv
  /\ OwnReplyDecides
  /\ AllowedForACause
  /\ CoveredIsNotAsked

-----------------------------------------------------------------------------
(* askUser subscribes, publishes and waits, in this order.                 *)
LEMMA AskOrder ==
  /\ AskUserSteps[1] = "subscribe"
  /\ After("subscribe") = "publish"
  /\ After("publish") = "wait"
<1>1. (CHOOSE i \in 1..2 : AskUserSteps[i] = "subscribe") = 1
  BY DEF AskUserSteps
<1>2. (CHOOSE i \in 1..2 : AskUserSteps[i] = "publish") = 2
  BY DEF AskUserSteps
<1> QED
  BY <1>1, <1>2 DEF After, AskUserSteps

(* An Ask that stores an approval has made a pattern of its target.        *)
Chosen ==
  \A a \in Asks : pc[a] \in {"load", "save", "store"} => pattern[a] \in Patterns

(* The types, one part of the state at a time.                             *)
EngineType ==
  /\ closed \in BOOLEAN
  /\ yolo \in BOOLEAN
  /\ sessionCache \subseteq Patterns
  /\ rules \subseteq Patterns
  /\ file \subseteq Patterns
AskType ==
  /\ pc \in [Asks -> {"new", "lookup", "subscribe", "publish", "wait", "load",
                      "save", "store"} \cup Returned]
  /\ reason \in [Asks -> {"none", "hard deny", "yolo mode", "rule", "cache",
                          "user reply"}]
  /\ pattern \in [Asks -> Patterns \cup {{}}]
  /\ base \in [Asks -> SUBSET Patterns]
  /\ Chosen
ReplyType ==
  /\ busClosed \in BOOLEAN
  /\ subscribed \subseteq {a \in Asks : pc[a] \in {"publish", "wait"}}
  /\ replies \in [Asks -> Seq([id : Asks, answer : Answers])]
  /\ \A a \in Asks : Len(replies[a]) <= ReplyBuffer
  /\ outbox \subseteq [id : Asks, answer : Answers]
UIType ==
  /\ uiChan \in Seq(Asks)
  /\ Len(uiChan) <= UIBuffer
  /\ pendingPerms \in Seq(Asks)
  /\ userSaid \in [Asks -> Answers \cup {"none"}]
HistoryType ==
  /\ covered \in [Asks -> BOOLEAN]
  /\ born \in [Asks -> 0..MaxRestarts]
  /\ restarts \in 0..MaxRestarts

(* The parts together say what TypeOK says.                                *)
LEMMA TypeParts ==
  TypeOK /\ Chosen <=>
    EngineType /\ AskType /\ ReplyType /\ UIType /\ HistoryType
BY DEF TypeOK, EngineType, AskType, ReplyType, UIType, HistoryType

(* The variables have their types at the start.                            *)
LEMMA TypeInit == Init => TypeOK /\ Chosen
<1> SUFFICES ASSUME Init PROVE TypeOK /\ Chosen
  OBVIOUS
<1> USE DEF Init
<1>1. EngineType
  BY DEF EngineType
<1>2. AskType
  BY DEF AskType, Chosen, Returned
<1>3. ReplyType
  <2>1. << >> \in Seq([id : Asks, answer : Answers]) /\ Len(<< >>) = 0
    OBVIOUS
  <2>2. 0 <= ReplyBuffer
    BY BufferAssumption
  <2>3. \A a \in Asks : Len(replies[a]) <= ReplyBuffer
    BY <2>1, <2>2
  <2> QED
    BY <2>1, <2>3 DEF ReplyType
<1>4. UIType
  BY BufferAssumption DEF UIType
<1>5. HistoryType
  BY LimitsAssumption DEF HistoryType
<1> QED
  BY <1>1, <1>2, <1>3, <1>4, <1>5, TypeParts

(* Steps that neither the engine nor an Ask takes.                         *)
OutsideStep ==
  \/ UIReceives
  \/ \E x \in Answers : HandleModalKey(x)
  \/ \E r \in outbox : PublishReply(r)
  \/ SetYolo
  \/ Close
  \/ CloseBus
  \/ UNCHANGED vars

(* The steps of Next, with Cancel and a closed channel as one.             *)
LEMMA NextCases ==
  ASSUME [Next]_vars
  PROVE  \/ OutsideStep
         \/ Restart
         \/ \E a \in Asks : \/ Ask(a) \/ LookupSession(a)
                            \/ AskSubscribe(a) \/ AskPublish(a)
                            \/ AskGivesUp(a) \/ AskSkipsReply(a) \/ AskReceives(a)
                            \/ LoadProjectAllowRules(a)
                            \/ SaveProjectPermissions(a) \/ StoreSession(a)
BY DEF Next, OutsideStep, AskStep, AskBusClosed, Cancel

USE DEF engineVars, decisionVars, busVars, uiVars, historyVars

(* What Ask promotes a target to is a pattern.                             *)
LEMMA PromotionIsPattern ==
  ASSUME NEW a \in Asks
  PROVE  Promotions[Target[a]] \subseteq Patterns
BY TargetAssumption, PromotionsAssumption DEF Patterns

(* Each ask: where it is, and what decided it.                             *)
LEMMA AskTypeStep == AskType /\ EngineType /\ [Next]_vars => AskType'
<1> SUFFICES ASSUME AskType, EngineType, [Next]_vars PROVE AskType'
  OBVIOUS
<1> USE DEF AskType, Chosen, Returned
<1>1. ASSUME NEW a \in Asks, NEW x, NEW y, Decide(a, x, y),
             x \in {"lookup", "subscribe", "allowed", "denied", "failed"},
             y \in {"none", "hard deny", "yolo mode", "rule", "cache", "user reply"},
             UNCHANGED <<pattern, base>>
      PROVE  AskType'
  BY <1>1 DEF Decide
<1>2. ASSUME NEW a \in Asks, Ask(a) PROVE AskType'
  BY <1>1, <1>2 DEF Ask
<1>3. ASSUME NEW a \in Asks, LookupSession(a) PROVE AskType'
  BY <1>1, <1>3, AskOrder DEF LookupSession
<1>4. ASSUME NEW a \in Asks,
             AskSubscribe(a) \/ AskPublish(a) \/ AskGivesUp(a)
      PROVE  AskType'
  BY <1>4, AskOrder DEF AskSubscribe, AskPublish, AskGivesUp
<1>5. ASSUME NEW a \in Asks, AskReceives(a) PROVE AskType'
  <2>1. CASE /\ Decide(a, "denied", "user reply") \/ Decide(a, "allowed", "user reply")
             /\ UNCHANGED pattern
    BY <1>1, <1>5, <2>1 DEF AskReceives
  <2>2. ASSUME NEW p \in Promotions[Target[a]],
               pattern' = [pattern EXCEPT ![a] = p],
               pc' = [pc EXCEPT ![a] = "load"] \/ pc' = [pc EXCEPT ![a] = "store"],
               UNCHANGED <<reason, base>>
        PROVE  AskType'
    <3>1. p \in Patterns
      BY PromotionIsPattern
    <3>2. /\ pattern' \in [Asks -> Patterns \cup {{}}]
          /\ pattern'[a] \in Patterns
          /\ \A b \in Asks : b # a => pattern'[b] = pattern[b]
      BY <2>2, <3>1
    <3>3. \A b \in Asks : b # a => pc'[b] = pc[b]
      BY <2>2
    <3>4. Chosen'
      BY <3>2, <3>3
    <3>5. pc'[a] \in {"load", "store"} /\ UNCHANGED <<reason, base>>
      BY <2>2
    <3>6. pc' \in [Asks -> {"new", "lookup", "subscribe", "publish", "wait",
                           "load", "save", "store"} \cup Returned]
      BY <2>2
    <3> QED
      BY <3>2, <3>4, <3>5, <3>6
  <2> QED
    BY <1>5, <2>1, <2>2 DEF AskReceives
<1>6. ASSUME NEW a \in Asks, LoadProjectAllowRules(a) PROVE AskType'
  BY <1>6 DEF LoadProjectAllowRules, EngineType
<1>7. ASSUME NEW a \in Asks, SaveProjectPermissions(a) PROVE AskType'
  BY <1>7 DEF SaveProjectPermissions
<1>8. ASSUME NEW a \in Asks, StoreSession(a) PROVE AskType'
  BY <1>1, <1>8 DEF StoreSession
<1>9. CASE Restart
  BY <1>9 DEF Restart
<1>10. ASSUME OutsideStep \/ \E a \in Asks : AskSkipsReply(a) PROVE AskType'
  <2>1. UNCHANGED <<pc, reason, pattern, base>>
    BY <1>10 DEF OutsideStep, UIReceives, HandleModalKey, PublishReply,
                 SetYolo, Close, CloseBus, AskSkipsReply, vars
  <2> QED
    BY <2>1
<1> QED
  BY <1>2, <1>3, <1>4, <1>5, <1>6, <1>7, <1>8, <1>9, <1>10, NextCases

(* The engine: its flags, its cache, and the rules and their file.         *)
LEMMA EngineTypeStep == EngineType /\ AskType /\ [Next]_vars => EngineType'
<1> SUFFICES ASSUME EngineType, AskType, [Next]_vars PROVE EngineType'
  OBVIOUS
<1> USE DEF EngineType
<1>2. ASSUME NEW a \in Asks, SaveProjectPermissions(a) PROVE EngineType'
  <2>1. RulesToSave(a) \subseteq Patterns
    BY <1>2 DEF SaveProjectPermissions, RulesToSave, AskType, Chosen
  <2> QED
    BY <1>2, <2>1 DEF SaveProjectPermissions
<1>3. ASSUME NEW a \in Asks, StoreSession(a) PROVE EngineType'
  <2>1. pattern[a] \in Patterns
    BY <1>3 DEF StoreSession, AskType, Chosen
  <2> QED
    BY <1>3, <2>1 DEF StoreSession, StoredPattern
<1>4. CASE Restart
  BY <1>4 DEF Restart
<1>5. ASSUME \/ OutsideStep
             \/ \E a \in Asks : \/ Ask(a) \/ LookupSession(a)
                                \/ AskSubscribe(a) \/ AskPublish(a)
                                \/ AskGivesUp(a) \/ AskSkipsReply(a)
                                \/ AskReceives(a) \/ LoadProjectAllowRules(a)
      PROVE  EngineType'
  BY <1>5 DEF OutsideStep, UIReceives, HandleModalKey, PublishReply,
              SetYolo, Close, CloseBus, vars, Ask, LookupSession,
              AskSubscribe, AskPublish, AskGivesUp, AskSkipsReply,
              AskReceives, LoadProjectAllowRules
<1> QED
  BY <1>2, <1>3, <1>4, <1>5, NextCases

(* The replies, on their way and in the asks' subscriptions.               *)
LEMMA ReplyTypeStep == ReplyType /\ UIType /\ AskType /\ [Next]_vars => ReplyType'
<1> SUFFICES ASSUME ReplyType, UIType, AskType, [Next]_vars PROVE ReplyType'
  OBVIOUS
<1> USE DEF ReplyType, Returned
<1> DEFINE Replies == [id : Asks, answer : Answers]
           Waits == {"publish", "wait"}
<1>e. << >> \in Seq(Replies) /\ Len(<< >>) = 0 /\ 0 <= ReplyBuffer
  BY BufferAssumption
<1>s. ASSUME subscribed' \subseteq subscribed,
             \A b \in subscribed' : pc'[b] = pc[b]
      PROVE  (subscribed \subseteq {a \in Asks : pc[a] \in {"publish", "wait"}})'
  BY <1>s
<1>u. ASSUME UNCHANGED <<busClosed, replies, outbox>>,
             (subscribed \subseteq {a \in Asks : pc[a] \in {"publish", "wait"}})'
      PROVE  ReplyType'
  BY <1>u
<1>1. ASSUME NEW a \in Asks,
             \/ Ask(a) \/ LookupSession(a) \/ LoadProjectAllowRules(a)
             \/ SaveProjectPermissions(a) \/ StoreSession(a)
      PROVE  ReplyType'
  <2>1. UNCHANGED busVars /\ UNCHANGED outbox /\ pc[a] \notin {"publish", "wait"}
    BY <1>1 DEF Ask, LookupSession, LoadProjectAllowRules,
                SaveProjectPermissions, StoreSession
  <2>2. \A b \in Asks : b # a => pc'[b] = pc[b]
    BY <1>1 DEF Ask, LookupSession, LoadProjectAllowRules,
                SaveProjectPermissions, StoreSession, Decide, AskType
  <2>3. a \notin subscribed
    BY <2>1
  <2>4. (subscribed \subseteq {b \in Asks : pc[b] \in {"publish", "wait"}})'
    BY <2>1, <2>2, <2>3
  <2> QED
    BY <1>u, <2>1, <2>4
<1>2. ASSUME NEW a \in Asks, AskSubscribe(a) \/ AskPublish(a) PROVE ReplyType'
  <2>1. /\ subscribed' \subseteq subscribed \cup {a}
        /\ pc'[a] \in {"publish", "wait"}
        /\ \A b \in Asks : b # a => pc'[b] = pc[b]
    BY <1>2, AskOrder DEF AskSubscribe, AskPublish, AskType
  <2>2. (subscribed \subseteq {b \in Asks : pc[b] \in {"publish", "wait"}})'
    BY <2>1
  <2> QED
    BY <1>2, <1>u, <2>2 DEF AskSubscribe, AskPublish
<1>3. ASSUME NEW a \in Asks, AskGivesUp(a) \/ AskReceives(a) PROVE ReplyType'
  <2>1. /\ subscribed' = subscribed \ {a}
        /\ \A b \in Asks : b # a => pc'[b] = pc[b]
    BY <1>3 DEF AskGivesUp, AskReceives, Unsubscribe, Decide, AskType
  <2>2. /\ replies' = [replies EXCEPT ![a] = << >>]
        /\ UNCHANGED <<busClosed, outbox>>
    BY <1>3 DEF AskGivesUp, AskReceives, Unsubscribe
  <2>3. (subscribed \subseteq {b \in Asks : pc[b] \in {"publish", "wait"}})'
    BY <2>1
  <2> QED
    BY <1>e, <2>2, <2>3
<1>4. ASSUME NEW a \in Asks, AskSkipsReply(a) PROVE ReplyType'
  <2>1. /\ Tail(replies[a]) \in Seq(Replies)
        /\ Len(Tail(replies[a])) = Len(replies[a]) - 1
        /\ Len(replies[a]) \in Nat
        /\ Len(replies[a]) <= ReplyBuffer
    <3>1. replies[a] \in Seq(Replies) /\ replies[a] # << >>
      BY <1>4 DEF AskSkipsReply
    <3> HIDE DEF Replies
    <3>2. /\ Tail(replies[a]) \in Seq(Replies)
          /\ Len(Tail(replies[a])) = Len(replies[a]) - 1
          /\ Len(replies[a]) \in Nat
      BY <3>1
    <3> QED
      BY <3>2
  <2>2. Len(Tail(replies[a])) <= ReplyBuffer
    BY <2>1, BufferAssumption
  <2>3. (subscribed \subseteq {b \in Asks : pc[b] \in {"publish", "wait"}})'
    BY <1>4, <1>s DEF AskSkipsReply
  <2> QED
    BY <1>4, <2>1, <2>2, <2>3 DEF AskSkipsReply
<1>5. ASSUME NEW x \in Answers, HandleModalKey(x) PROVE ReplyType'
  <2>1. Head(pendingPerms) \in Asks
    BY <1>5 DEF HandleModalKey, UIType
  <2>2. outbox' \subseteq Replies
    BY <1>5, <2>1 DEF HandleModalKey
  <2> QED
    BY <1>5, <2>2 DEF HandleModalKey
<1>6. ASSUME NEW r \in outbox, PublishReply(r) PROVE ReplyType'
  <2>1. r \in Replies /\ outbox' \subseteq Replies
    BY <1>6 DEF PublishReply
  <2>2. ASSUME NEW a \in Asks
        PROVE  /\ replies'[a] \in Seq(Replies)
               /\ Len(replies'[a]) <= ReplyBuffer
    <3>1. replies[a] \in Seq(Replies) /\ Len(replies[a]) <= ReplyBuffer
      OBVIOUS
    <3>2. CASE replies'[a] = Append(replies[a], r) /\ Len(replies[a]) < ReplyBuffer
      BY <2>1, <3>1, <3>2, BufferAssumption
    <3> QED
      BY <1>6, <3>1, <3>2 DEF PublishReply
  <2>3. replies' = [a \in Asks |-> replies'[a]]
    BY <1>6 DEF PublishReply
  <2>4. replies' \in [Asks -> Seq(Replies)]
    BY <2>2, <2>3
  <2> QED
    BY <1>6, <2>1, <2>2, <2>4 DEF PublishReply
<1>7. CASE Restart
  <2>1. /\ replies' \in [Asks -> Seq(Replies)]
        /\ \A a \in Asks : Len(replies'[a]) <= ReplyBuffer
    BY <1>7, <1>e DEF Restart
  <2> QED
    BY <1>7, <2>1 DEF Restart
<1>8. ASSUME UIReceives \/ SetYolo \/ Close \/ CloseBus \/ UNCHANGED vars
      PROVE  ReplyType'
  <2>1. /\ UNCHANGED <<subscribed, replies, outbox, pc>>
        /\ busClosed' \in BOOLEAN
    BY <1>8 DEF UIReceives, SetYolo, Close, CloseBus, vars
  <2> QED
    BY <2>1
<1> QED
  BY <1>1, <1>2, <1>3, <1>4, <1>5, <1>6, <1>7, <1>8, NextCases DEF OutsideStep

(* The modal, its subscription and its queue, and what the user said.      *)
LEMMA UITypeStep == UIType /\ [Next]_vars => UIType'
<1> SUFFICES ASSUME UIType, [Next]_vars PROVE UIType'
  OBVIOUS
<1> USE DEF UIType
<1>1. ASSUME NEW a \in Asks, AskPublish(a) PROVE UIType'
  BY <1>1, BufferAssumption DEF AskPublish
<1>2. CASE UIReceives
  BY <1>2, BufferAssumption DEF UIReceives
<1>3. ASSUME NEW x \in Answers, HandleModalKey(x) PROVE UIType'
  BY <1>3 DEF HandleModalKey
<1>4. CASE Restart
  BY <1>4, BufferAssumption DEF Restart
<1>5. ASSUME \/ SetYolo \/ Close \/ CloseBus \/ UNCHANGED vars
             \/ \E r \in outbox : PublishReply(r)
             \/ \E a \in Asks : \/ Ask(a) \/ LookupSession(a)
                                \/ AskSubscribe(a) \/ AskGivesUp(a)
                                \/ AskSkipsReply(a) \/ AskReceives(a)
                                \/ LoadProjectAllowRules(a)
                                \/ SaveProjectPermissions(a) \/ StoreSession(a)
      PROVE  UIType'
  <2>1. UNCHANGED <<uiChan, pendingPerms, userSaid>>
    BY <1>5 DEF SetYolo, Close, CloseBus, vars, PublishReply, Ask,
                LookupSession, AskSubscribe, AskGivesUp, AskSkipsReply,
                AskReceives, LoadProjectAllowRules, SaveProjectPermissions,
                StoreSession
  <2> QED
    BY <2>1
<1> QED
  BY <1>1, <1>2, <1>3, <1>4, <1>5, NextCases DEF OutsideStep

(* What only the properties read.                                          *)
LEMMA HistoryTypeStep == HistoryType /\ [Next]_vars => HistoryType'
<1> SUFFICES ASSUME HistoryType, [Next]_vars PROVE HistoryType'
  OBVIOUS
<1> USE DEF HistoryType
<1>1. ASSUME NEW a \in Asks, Ask(a) PROVE HistoryType'
  BY <1>1 DEF Ask
<1>2. CASE Restart
  BY <1>2, LimitsAssumption DEF Restart
<1>3. ASSUME \/ OutsideStep
             \/ \E a \in Asks : \/ LookupSession(a)
                                \/ AskSubscribe(a) \/ AskPublish(a)
                                \/ AskGivesUp(a) \/ AskSkipsReply(a)
                                \/ AskReceives(a) \/ LoadProjectAllowRules(a)
                                \/ SaveProjectPermissions(a) \/ StoreSession(a)
      PROVE  HistoryType'
  BY <1>3 DEF OutsideStep, UIReceives, HandleModalKey, PublishReply,
              SetYolo, Close, CloseBus, vars, LookupSession, AskSubscribe,
              AskPublish, AskGivesUp, AskSkipsReply, AskReceives,
              LoadProjectAllowRules, SaveProjectPermissions, StoreSession
<1> QED
  BY <1>1, <1>2, <1>3, NextCases

(* Every step keeps the variables' types.                                  *)
LEMMA TypeStep == TypeOK /\ Chosen /\ [Next]_vars => (TypeOK /\ Chosen)'
BY TypeParts, AskTypeStep, EngineTypeStep, ReplyTypeStep, UITypeStep,
   HistoryTypeStep, PTL

-----------------------------------------------------------------------------
(* What a step of one Ask leaves alone.                                    *)

AskMoves(a) ==
  \/ Ask(a) \/ LookupSession(a)
  \/ AskSubscribe(a) \/ AskPublish(a)
  \/ AskGivesUp(a) \/ AskSkipsReply(a) \/ AskReceives(a)
  \/ LoadProjectAllowRules(a) \/ SaveProjectPermissions(a) \/ StoreSession(a)

(* Every Ask but the one that moves stays as it is, and so does what only  *)
(* the engine's owner, the UI or a restart changes.                        *)
LEMMA AskFrame ==
  ASSUME TypeOK, NEW a \in Asks, AskMoves(a)
  PROVE  /\ \A b \in Asks : b # a =>
              /\ pc'[b] = pc[b] /\ reason'[b] = reason[b]
              /\ pattern'[b] = pattern[b] /\ base'[b] = base[b]
              /\ born'[b] = born[b] /\ covered'[b] = covered[b]
         /\ UNCHANGED <<closed, yolo, rules, restarts, outbox, pendingPerms, userSaid>>
<1>1. CASE Ask(a)
  <2>1. \E x, y : Decide(a, x, y)
    BY <1>1 DEF Ask
  <2>2. \A b \in Asks : b # a => pc'[b] = pc[b] /\ reason'[b] = reason[b]
    BY <2>1 DEF Decide, TypeOK
  <2>3. \A b \in Asks : b # a => covered'[b] = covered[b] /\ born'[b] = born[b]
    BY <1>1 DEF Ask, TypeOK
  <2>4. UNCHANGED <<closed, yolo, rules, pattern, base, outbox, pendingPerms,
                    userSaid, restarts>>
    BY <1>1 DEF Ask
  <2> QED
    BY <2>2, <2>3, <2>4
<1>2. CASE LookupSession(a)
  <2>1. \E x, y : Decide(a, x, y)
    BY <1>2 DEF LookupSession
  <2>2. \A b \in Asks : b # a => pc'[b] = pc[b] /\ reason'[b] = reason[b]
    BY <2>1 DEF Decide, TypeOK
  <2> QED
    BY <1>2, <2>2 DEF LookupSession
<1>3. CASE AskSubscribe(a) \/ AskPublish(a)
  BY <1>3 DEF AskSubscribe, AskPublish, TypeOK
<1>4. CASE AskGivesUp(a) \/ AskSkipsReply(a)
  BY <1>4 DEF AskGivesUp, AskSkipsReply, TypeOK
<1>5. CASE AskReceives(a)
  BY <1>5 DEF AskReceives, Decide, TypeOK
<1>6. CASE LoadProjectAllowRules(a) \/ SaveProjectPermissions(a)
  BY <1>6 DEF LoadProjectAllowRules, SaveProjectPermissions, TypeOK
<1>7. CASE StoreSession(a)
  BY <1>7 DEF StoreSession, Decide, TypeOK
<1> QED
  BY <1>1, <1>2, <1>3, <1>4, <1>5, <1>6, <1>7 DEF AskMoves

(* Where a step takes the Ask that makes it.                               *)
LEMMA AskPath ==
  ASSUME TypeOK, NEW a \in Asks, AskMoves(a)
  PROVE  /\ pc'[a] = "lookup" => pc[a] = "new"
         /\ pc'[a] = "subscribe" => pc[a] = "lookup"
         /\ pc'[a] = "publish" => pc[a] = "subscribe"
         /\ pc'[a] = "wait" => pc[a] \in {"publish", "wait"}
         /\ pc'[a] # "new"
         /\ pc[a] # "new" => born'[a] = born[a] /\ covered'[a] = covered[a]
         /\ pc[a] # "wait" => pattern'[a] = pattern[a]
<1>0. /\ pc \in [Asks -> {"new", "lookup", "subscribe", "publish", "wait",
                         "load", "save", "store"} \cup Returned]
      /\ pattern \in [Asks -> Patterns \cup {{}}]
      /\ covered \in [Asks -> BOOLEAN]
      /\ born \in [Asks -> 0..MaxRestarts]
  BY DEF TypeOK
<1> USE <1>0
<1>1. CASE Ask(a)
  BY <1>1 DEF Ask, Decide
<1>2. CASE LookupSession(a)
  BY <1>2, AskOrder DEF LookupSession, Decide
<1>3. CASE AskSubscribe(a) \/ AskPublish(a)
  BY <1>3, AskOrder DEF AskSubscribe, AskPublish
<1>4. CASE AskGivesUp(a) \/ AskSkipsReply(a)
  BY <1>4 DEF AskGivesUp, AskSkipsReply
<1>5. CASE AskReceives(a)
  BY <1>5 DEF AskReceives, Decide
<1>6. CASE LoadProjectAllowRules(a) \/ SaveProjectPermissions(a)
  BY <1>6 DEF LoadProjectAllowRules, SaveProjectPermissions
<1>7. CASE StoreSession(a)
  BY <1>7 DEF StoreSession, Decide
<1> QED
  BY <1>1, <1>2, <1>3, <1>4, <1>5, <1>6, <1>7 DEF AskMoves

(* Nor do the UI, the bus or the owner of the engine move an Ask.          *)
LEMMA OutsideFrame ==
  ASSUME OutsideStep
  PROVE  UNCHANGED <<pc, reason, pattern, base, born, covered, restarts,
                     rules, file>>
BY DEF OutsideStep, UIReceives, HandleModalKey, PublishReply, SetYolo, Close,
       CloseBus, vars

(* An Ask past its wait keeps pattern and process, and what the user has   *)
(* answered stays answered: a request is before the user at most once.     *)
LEMMA Stable ==
  ASSUME TypeOK, ShownInv, [Next]_vars
  PROVE  /\ \A b \in Asks :
              /\ Past(b) => Past(b)' /\ pattern'[b] = pattern[b] /\ born'[b] = born[b]
              /\ userSaid[b] # "none" => userSaid'[b] = userSaid[b]
         /\ restarts \in Nat /\ restarts' \in {restarts, restarts + 1}
<1>0. restarts \in Nat
  <2>1. restarts \in 0..MaxRestarts
    BY DEF TypeOK
  <2> QED
    BY <2>1, LimitsAssumption
<1>1. ASSUME NEW a \in Asks, AskMoves(a)
      PROVE  /\ \A b \in Asks :
                  Past(b) => Past(b)' /\ pattern'[b] = pattern[b] /\ born'[b] = born[b]
             /\ UNCHANGED <<restarts, userSaid>>
  BY <1>1, AskFrame, AskPath DEF Past, Unasked
<1>2. CASE OutsideStep
  <2>1. UNCHANGED <<pc, pattern, born, restarts>>
    BY <1>2, OutsideFrame
  <2>2. ASSUME NEW x \in Answers, HandleModalKey(x), NEW b \in Asks,
               userSaid[b] # "none"
        PROVE  userSaid'[b] = userSaid[b]
    <3>1. Head(pendingPerms) \in ToSet(pendingPerms)
      BY <2>2, TailAddsNothing DEF HandleModalKey, TypeOK
    <3>2. b # Head(pendingPerms)
      BY <2>2, <3>1 DEF ShownInv
    <3> QED
      BY <2>2, <3>2 DEF HandleModalKey, TypeOK
  <2>3. CASE UNCHANGED userSaid
    BY <1>0, <2>1, <2>3 DEF Past
  <2>4. UNCHANGED userSaid \/ \E x \in Answers : HandleModalKey(x)
    BY <1>2 DEF OutsideStep, UIReceives, PublishReply, SetYolo, Close,
                CloseBus, vars
  <2> QED
    BY <1>0, <2>1, <2>2, <2>3, <2>4 DEF Past
<1>3. CASE Restart
  <2>1. \A b \in Asks : Past(b) => Past(b)'
    BY <1>3 DEF Restart, Past, Unasked, InFlight, TypeOK
  <2>2. UNCHANGED <<pattern, born, userSaid>> /\ restarts' = restarts + 1
    BY <1>3 DEF Restart
  <2> QED
    BY <1>0, <2>1, <2>2
<1> QED
  BY <1>0, <1>1, <1>2, <1>3, NextCases DEF AskMoves

-----------------------------------------------------------------------------
(* The parts of the invariant, one by one.                                 *)

(* A request goes to the UI once, when its Ask publishes it, and leaves    *)
(* when it is answered.                                                    *)
LEMMA ShownStep == TypeOK /\ ShownInv /\ [Next]_vars => ShownInv'
<1> SUFFICES ASSUME TypeOK, ShownInv, [Next]_vars PROVE ShownInv'
  OBVIOUS
<1>1. ASSUME NEW a \in Asks, AskMoves(a)
      PROVE  \A b \in Asks : pc'[b] \in Unasked => pc[b] \in Unasked
  BY <1>1, AskFrame, AskPath DEF Unasked
<1>t. /\ uiChan \in Seq(Asks) /\ pendingPerms \in Seq(Asks)
      /\ ToSet(uiChan) \subseteq Asks /\ ToSet(pendingPerms) \subseteq Asks
      /\ userSaid \in [Asks -> Answers \cup {"none"}]
  <2>1. /\ uiChan \in Seq(Asks) /\ pendingPerms \in Seq(Asks)
        /\ userSaid \in [Asks -> Answers \cup {"none"}]
    BY DEF TypeOK
  <2> QED
    BY <2>1 DEF ToSet
<1>2. ASSUME NEW a \in Asks, AskMoves(a), UNCHANGED uiChan PROVE ShownInv'
  <2>1. UNCHANGED <<pendingPerms, userSaid>>
    BY <1>2, AskFrame
  <2>2. \A b \in Asks : pc[b] \notin Unasked => pc'[b] \notin Unasked
    BY <1>1, <1>2
  <2> QED
    BY <1>t, <1>1, <1>2, <2>1, <2>2 DEF ShownInv
<1>3. ASSUME NEW a \in Asks, AskPublish(a), uiChan' = Append(uiChan, a)
      PROVE  ShownInv'
  <2>1. /\ UNCHANGED <<pendingPerms, userSaid>>
        /\ \A b \in Asks : pc[b] \notin Unasked => pc'[b] \notin Unasked
        /\ \A b \in Asks : pc'[b] \in Unasked => pc[b] \in Unasked
    BY <1>1, <1>3, AskFrame DEF AskMoves
  <2>2. pc[a] \in Unasked /\ pc'[a] \notin Unasked
    BY <1>3, AskOrder DEF AskPublish, Unasked, TypeOK
  <2>3. /\ a \notin ToSet(uiChan) \cup ToSet(pendingPerms)
        /\ userSaid[a] = "none"
    BY <2>2 DEF ShownInv
  <2>4. ToSet(uiChan') = ToSet(uiChan) \cup {a} /\ IsInjective(uiChan')
    BY <1>t, <1>3, <2>3, ToSetOfAppend, InjectiveAppend DEF ShownInv
  <2> QED
    BY <1>t, <2>1, <2>2, <2>3, <2>4 DEF ShownInv
<1>4. ASSUME NEW a \in Asks, AskMoves(a) PROVE ShownInv'
  <2>1. UNCHANGED uiChan \/ (AskPublish(a) /\ uiChan' = Append(uiChan, a))
    BY <1>4 DEF AskMoves, Ask, LookupSession, AskSubscribe, AskPublish,
                AskGivesUp, AskSkipsReply, AskReceives, LoadProjectAllowRules,
                SaveProjectPermissions, StoreSession
  <2> QED
    BY <1>2, <1>3, <1>4, <2>1
<1>5. CASE UIReceives
  <2> DEFINE h == Head(uiChan)
  <2>1. /\ UNCHANGED <<pc, userSaid>>
        /\ uiChan # << >>
        /\ uiChan' = Tail(uiChan)
        /\ pendingPerms' = Append(pendingPerms, h)
    BY <1>5 DEF UIReceives
  <2>2. /\ h \in ToSet(uiChan) /\ h \in Asks
        /\ ToSet(uiChan') = ToSet(uiChan) \ {h} /\ IsInjective(uiChan')
    BY <1>t, <2>1, ToSetOfTail DEF ShownInv
  <2>3. h \notin ToSet(pendingPerms)
    BY <2>2 DEF ShownInv
  <2> HIDE DEF h
  <2>4. /\ ToSet(pendingPerms') = ToSet(pendingPerms) \cup {h}
        /\ IsInjective(pendingPerms')
    BY <1>t, <2>1, <2>2, <2>3, ToSetOfAppend, InjectiveAppend DEF ShownInv
  <2> QED
    BY <1>t, <2>1, <2>2, <2>3, <2>4 DEF ShownInv
<1>6. ASSUME NEW x \in Answers, HandleModalKey(x) PROVE ShownInv'
  <2> DEFINE h == Head(pendingPerms)
  <2>1. /\ UNCHANGED <<pc, uiChan>>
        /\ pendingPerms # << >>
        /\ pendingPerms' = Tail(pendingPerms)
        /\ userSaid' = [userSaid EXCEPT ![h] = x]
    BY <1>6 DEF HandleModalKey
  <2>2. /\ h \in ToSet(pendingPerms) /\ h \in Asks
        /\ ToSet(pendingPerms') = ToSet(pendingPerms) \ {h}
        /\ IsInjective(pendingPerms')
    BY <1>t, <2>1, ToSetOfTail DEF ShownInv
  <2>3. h \notin ToSet(uiChan) /\ pc[h] \notin Unasked
    BY <2>2 DEF ShownInv
  <2> HIDE DEF h
  <2>4. \A b \in Asks : b # h => userSaid'[b] = userSaid[b]
    BY <1>t, <2>1
  <2> QED
    BY <1>t, <2>1, <2>2, <2>3, <2>4 DEF ShownInv
<1>7. CASE Restart
  <2>1. /\ uiChan' = << >> /\ pendingPerms' = << >> /\ userSaid' = userSaid
        /\ \A b \in Asks : pc'[b] \in Unasked => pc[b] = pc'[b]
    BY <1>7 DEF Restart, Unasked
  <2> QED
    BY <2>1, EmptySequence DEF ShownInv
<1>8. CASE UNCHANGED <<uiChan, pendingPerms, userSaid, pc>>
  BY <1>8 DEF ShownInv
<1> QED
  BY <1>4, <1>5, <1>6, <1>7, <1>8, NextCases
     DEF AskMoves, OutsideStep, PublishReply, SetYolo, Close, CloseBus, vars

(* What is under way was said, and what was said is not taken back.        *)
LEMMA ReplyStep == TypeOK /\ ShownInv /\ ReplyInv /\ [Next]_vars => ReplyInv'
<1> SUFFICES ASSUME TypeOK, ShownInv, ReplyInv, [Next]_vars PROVE ReplyInv'
  OBVIOUS
<1> DEFINE Replies == [id : Asks, answer : Answers]
<1>t. /\ outbox \subseteq Replies
      /\ \A a \in Asks : replies[a] \in Seq(Replies)
      /\ \A a \in Asks : ToSet(replies[a]) \subseteq Replies
      /\ userSaid \in [Asks -> Answers \cup {"none"}]
      /\ DOMAIN replies = Asks
  <2>1. /\ outbox \subseteq Replies
        /\ replies \in [Asks -> Seq(Replies)]
        /\ userSaid \in [Asks -> Answers \cup {"none"}]
    BY DEF TypeOK
  <2> HIDE DEF Replies
  <2>2. \A a \in Asks : replies[a] \in Seq(Replies)
    BY <2>1
  <2>3. \A a \in Asks : ToSet(replies[a]) \subseteq Replies
    BY <2>2 DEF ToSet
  <2> QED
    BY <2>1, <2>2, <2>3
<1>s. \A r \in Replies : userSaid[r.id] = r.answer => userSaid'[r.id] = r.answer
  BY Stable DEF Answers
<1>k. ASSUME \A r \in outbox' : r \in outbox \/ userSaid'[r.id] = r.answer,
             \A a \in Asks : ToSet(replies'[a]) \subseteq ToSet(replies[a]) \cup outbox
      PROVE  ReplyInv'
  BY <1>t, <1>s, <1>k DEF ReplyInv
<1>1. ASSUME NEW a \in Asks, AskMoves(a) PROVE ReplyInv'
  <2>1. UNCHANGED outbox
    BY <1>1, AskFrame
  <2>2. CASE UNCHANGED replies
    BY <1>k, <2>1, <2>2
  <2>3. CASE replies' = [replies EXCEPT ![a] = << >>]
    BY <1>k, <1>t, <2>1, <2>3, EmptySequence
  <2>4. CASE replies[a] # << >> /\ replies' = [replies EXCEPT ![a] = Tail(@)]
    <3>1. ToSet(Tail(replies[a])) \subseteq ToSet(replies[a])
      BY <1>t, <2>4, TailAddsNothing
    <3> QED
      BY <1>k, <1>t, <2>1, <2>4, <3>1
  <2> QED
    BY <1>1, <2>2, <2>3, <2>4
       DEF AskMoves, Ask, LookupSession, AskSubscribe, AskPublish, AskGivesUp,
           AskSkipsReply, AskReceives, LoadProjectAllowRules,
           SaveProjectPermissions, StoreSession, Unsubscribe
<1>2. ASSUME NEW x \in Answers, HandleModalKey(x) PROVE ReplyInv'
  <2>1. Head(pendingPerms) \in Asks
    <3>1. pendingPerms \in Seq(Asks) /\ pendingPerms # << >>
      BY <1>2 DEF HandleModalKey, TypeOK
    <3> QED
      BY <3>1
  <2>2. /\ outbox' = outbox \cup {[id |-> Head(pendingPerms), answer |-> x]}
        /\ userSaid'[Head(pendingPerms)] = x
        /\ UNCHANGED replies
    BY <1>2, <1>t, <2>1 DEF HandleModalKey
  <2> QED
    BY <1>k, <2>2
<1>3. ASSUME NEW r \in outbox, PublishReply(r) PROVE ReplyInv'
  <2>1. outbox' \subseteq outbox
    BY <1>3 DEF PublishReply
  <2>2. ASSUME NEW a \in Asks
        PROVE  ToSet(replies'[a]) \subseteq ToSet(replies[a]) \cup outbox
    <3>1. replies'[a] = replies[a] \/ replies'[a] = Append(replies[a], r)
      BY <1>3 DEF PublishReply
    <3>2. ToSet(Append(replies[a], r)) = ToSet(replies[a]) \cup {r}
      <4>1. r \in Replies /\ replies[a] \in Seq(Replies)
        BY <1>t
      <4> HIDE DEF Replies
      <4> QED
        BY <4>1, ToSetOfAppend
    <3> QED
      BY <3>1, <3>2
  <2> QED
    BY <1>k, <2>1, <2>2
<1>4. CASE Restart
  <2>1. outbox' = {} /\ \A a \in Asks : replies'[a] = << >>
    BY <1>4 DEF Restart
  <2> QED
    BY <1>k, <2>1, EmptySequence
<1>5. CASE UNCHANGED <<outbox, replies>>
  BY <1>k, <1>5
<1> QED
  BY <1>1, <1>2, <1>3, <1>4, <1>5, NextCases
     DEF AskMoves, OutsideStep, UIReceives, SetYolo, Close, CloseBus, vars

(* The reply an Ask keeps is what the user said to its own request.        *)
LEMMA OwnReplyIsMine ==
  ASSUME TypeOK, ReplyInv, NEW a \in Asks, OwnReply(a)
  PROVE  Head(replies[a]).answer = userSaid[a] /\ userSaid[a] # "none"
<1> DEFINE Replies == [id : Asks, answer : Answers]
<1>1. replies[a] \in Seq(Replies) /\ replies[a] # << >>
  BY DEF TypeOK, OwnReply
<1>2. /\ Head(replies[a]) \in ToSet(replies[a])
      /\ Head(replies[a]) \in Replies
  <2> HIDE DEF Replies
  <2> QED
    BY <1>1, TailAddsNothing
<1> QED
  BY <1>2 DEF ReplyInv, OwnReply, Answers

(* How handleReply goes on, by what the user said.                         *)
LEMMA ReceiveCases ==
  ASSUME TypeOK, ReplyInv, NEW a \in Asks, AskReceives(a)
  PROVE  /\ pc[a] = "wait"
         /\ UNCHANGED <<sessionCache, file, base, born, covered, restarts>>
         /\ \/ /\ userSaid[a] = "deny" /\ pc'[a] = "denied"
               /\ reason'[a] = "user reply" /\ pattern' = pattern
            \/ /\ userSaid[a] = "once" /\ pc'[a] = "allowed"
               /\ reason'[a] = "user reply" /\ pattern' = pattern
            \/ /\ userSaid[a] = "session" /\ pc'[a] = "store"
               /\ reason'[a] = reason[a]
            \/ /\ userSaid[a] = "always" /\ pc'[a] = "load"
               /\ reason'[a] = reason[a]
<1>1. OwnReply(a)
  BY DEF AskReceives
<1>2. Head(replies[a]).answer = userSaid[a]
  BY <1>1, OwnReplyIsMine
<1> QED
  BY <1>2 DEF AskReceives, Decide, TypeOK

(* Each Ask is where the user's answer, the policy and its process put it. *)
LEMMA PhaseStep ==
  TypeOK /\ ShownInv /\ ReplyInv /\ PhaseInv /\ [Next]_vars => PhaseInv'
<1> SUFFICES ASSUME TypeOK, ShownInv, ReplyInv, PhaseInv, [Next]_vars
             PROVE  PhaseInv'
  OBVIOUS
<1>t. /\ pattern \in [Asks -> Patterns \cup {{}}]
      /\ pc \in [Asks -> {"new", "lookup", "subscribe", "publish", "wait",
                          "load", "save", "store"} \cup Returned]
      /\ \A a \in Asks : born[a] \in Nat
      /\ restarts \in Nat
  <2>1. /\ born \in [Asks -> 0..MaxRestarts]
        /\ pattern \in [Asks -> Patterns \cup {{}}]
        /\ pc \in [Asks -> {"new", "lookup", "subscribe", "publish", "wait",
                            "load", "save", "store"} \cup Returned]
    BY DEF TypeOK
  <2>2. restarts \in Nat
    BY Stable
  <2>3. \A a \in Asks : born[a] \in Nat
    BY <2>1, LimitsAssumption
  <2> QED
    BY <2>1, <2>2, <2>3
<1> DEFINE P(a) ==
      /\ pc[a] \in {"load", "save"} => userSaid[a] = "always"
      /\ pc[a] = "store" => userSaid[a] \in {"session", "always"}
      /\ InFlight(a) => born[a] = restarts /\ Target[a] \notin HardDenied
      /\ ~Past(a) => pattern[a] = {}
      /\ born[a] <= restarts
<1>p. \A a \in Asks : P(a)
  BY DEF PhaseInv
<1>1. ASSUME NEW a \in Asks, AskMoves(a) PROVE PhaseInv'
  <2>1. \A b \in Asks : b # a => P(b)'
    BY <1>1, <1>p, AskFrame DEF InFlight, Past
  <2>2. UNCHANGED <<restarts, userSaid>>
    BY <1>1, AskFrame
  <2>3. CASE Ask(a)
    <3>1. /\ pc'[a] \in {"lookup"} \cup Returned
          /\ pc'[a] = "lookup" => Target[a] \notin HardDenied
      BY <1>t, <2>3 DEF Ask, Decide, IsHardDenied, Returned
    <3>2. born'[a] = restarts /\ pattern' = pattern /\ pc[a] = "new"
      BY <2>3 DEF Ask, TypeOK
    <3>3. P(a)'
      BY <1>t, <1>p, <2>2, <3>1, <3>2 DEF InFlight, Past, Unasked, Returned
    <3> QED
      BY <2>1, <3>3 DEF PhaseInv
  <2>4. CASE AskReceives(a)
    <3>1. P(a)'
      BY <1>p, <2>2, <2>4, ReceiveCases DEF InFlight, Past, Unasked, Returned
    <3> QED
      BY <2>1, <3>1 DEF PhaseInv
  <2>5. CASE ~Ask(a) /\ ~AskReceives(a)
    <3>1. /\ pattern'[a] = pattern[a] /\ born'[a] = born[a]
          /\ pc'[a] \in {"load", "save"} => pc[a] \in {"load", "save"}
          /\ pc'[a] = "store" => pc[a] \in {"load", "save", "store"}
          /\ InFlight(a)
          /\ Past(a) => Past(a)'
      <4>1. CASE LookupSession(a)
        BY <1>t, <4>1, AskOrder
           DEF LookupSession, Decide, InFlight, Past, Unasked, Returned
      <4>2. CASE AskSubscribe(a) \/ AskPublish(a)
        BY <1>t, <4>2, AskOrder
           DEF AskSubscribe, AskPublish, InFlight, Past, Unasked, Returned
      <4>3. CASE AskGivesUp(a) \/ AskSkipsReply(a)
        BY <1>t, <4>3 DEF AskGivesUp, AskSkipsReply, InFlight, Past, Unasked, Returned
      <4>4. CASE \/ LoadProjectAllowRules(a)
                 \/ SaveProjectPermissions(a)
                 \/ StoreSession(a)
        BY <1>t, <4>4 DEF LoadProjectAllowRules, SaveProjectPermissions,
                          StoreSession, Decide, InFlight, Past, Unasked, Returned
      <4> QED
        BY <1>1, <2>5, <4>1, <4>2, <4>3, <4>4 DEF AskMoves
    <3>2. P(a)'
      BY <1>p, <2>2, <3>1
    <3> QED
      BY <2>1, <3>2 DEF PhaseInv
  <2> QED
    BY <2>3, <2>4, <2>5
<1>2. CASE OutsideStep
  <2>1. UNCHANGED <<pc, pattern, born, restarts>>
    BY <1>2, OutsideFrame
  <2>2. \A a \in Asks : userSaid[a] # "none" => userSaid'[a] = userSaid[a]
    BY Stable
  <2> QED
    BY <2>1, <2>2 DEF PhaseInv, InFlight, Past
<1>3. CASE Restart
  <2>1. /\ UNCHANGED <<pattern, born, userSaid>> /\ restarts' = restarts + 1
        /\ \A a \in Asks : pc'[a] = IF InFlight(a) THEN "failed" ELSE pc[a]
    BY <1>3 DEF Restart
  <2>2. \A a \in Asks : ~InFlight(a)' /\ pc'[a] \notin {"load", "save", "store"}
    BY <2>1 DEF InFlight, Returned
  <2>3. \A a \in Asks : ~Past(a)' => ~Past(a)
    BY <2>1 DEF Past, Unasked, InFlight, Returned
  <2>4. \A a \in Asks : born'[a] <= restarts'
    BY <1>t, <1>p, <2>1
  <2> QED
    BY <1>p, <2>1, <2>2, <2>3, <2>4 DEF PhaseInv
<1> QED
  BY <1>1, <1>2, <1>3, NextCases DEF AskMoves

(* Which step gives an Ask which reason.                                   *)
LEMMA AskReasons ==
  ASSUME TypeOK, NEW a \in Asks, AskMoves(a)
  PROVE  \/ Ask(a) \/ LookupSession(a) \/ AskReceives(a) \/ StoreSession(a)
         \/ /\ reason'[a] = reason[a]
            /\ InFlight(a)
            /\ pc[a] # "lookup"
            /\ pc'[a] \notin {"allowed", "denied"}
<1> USE DEF TypeOK, InFlight, Returned
<1>1. CASE AskSubscribe(a) \/ AskPublish(a)
  BY <1>1, AskOrder DEF AskSubscribe, AskPublish
<1>2. CASE AskGivesUp(a) \/ AskSkipsReply(a)
  BY <1>2 DEF AskGivesUp, AskSkipsReply
<1>3. CASE LoadProjectAllowRules(a) \/ SaveProjectPermissions(a)
  BY <1>3 DEF LoadProjectAllowRules, SaveProjectPermissions
<1> QED
  BY <1>1, <1>2, <1>3 DEF AskMoves

(* What Ask itself decides.                                                *)
LEMMA AskCases ==
  ASSUME TypeOK, NEW a \in Asks, Ask(a)
  PROVE  /\ pc[a] = "new" /\ born'[a] = restarts
         /\ covered'[a] = \E b \in Approvals : Target[a] \in pattern[b]
         /\ UNCHANGED <<closed, sessionCache, file, rules, pattern, base,
                        userSaid, restarts>>
         /\ \/ pc'[a] \in {"denied", "failed"} /\ reason'[a] # "user reply"
            \/ /\ Target[a] \notin HardDenied
               /\ \/ pc'[a] = "allowed" /\ reason'[a] = "yolo mode"
                  \/ /\ pc'[a] = "allowed" /\ reason'[a] = "rule"
                     /\ \/ Default[Target[a]] = "allow"
                        \/ \E r \in rules : Target[a] \in r
                  \/ pc'[a] = "lookup" /\ reason'[a] = "none"
<1>1. /\ pc[a] = "new"
      /\ UNCHANGED <<closed, sessionCache, file, rules, pattern, base,
                     userSaid, restarts>>
  BY DEF Ask
<1>2. /\ born'[a] = restarts
      /\ covered'[a] = \E b \in Approvals : Target[a] \in pattern[b]
  BY DEF Ask, TypeOK
<1>3. \/ Decide(a, "failed", "none")
      \/ Decide(a, "denied", "hard deny")
      \/ Decide(a, "denied", "rule")
      \/ /\ Target[a] \notin HardDenied
         /\ \/ Decide(a, "allowed", "yolo mode")
            \/ Decide(a, "allowed", "rule") /\ MatcherAction(Target[a]) = "allow"
            \/ Decide(a, "lookup", "none")
  BY DEF Ask, IsHardDenied
<1>4. MatcherAction(Target[a]) = "allow" =>
        \/ Default[Target[a]] = "allow"
        \/ \E r \in rules : Target[a] \in r
  BY DEF MatcherAction
<1>5. \/ pc'[a] \in {"denied", "failed"} /\ reason'[a] # "user reply"
      \/ /\ Target[a] \notin HardDenied
         /\ \/ pc'[a] = "allowed" /\ reason'[a] = "yolo mode"
            \/ /\ pc'[a] = "allowed" /\ reason'[a] = "rule"
               /\ MatcherAction(Target[a]) = "allow"
            \/ pc'[a] = "lookup" /\ reason'[a] = "none"
  BY <1>3 DEF Decide, TypeOK
<1> QED
  BY <1>1, <1>2, <1>4, <1>5, Zenon

(* What the session cache decides.                                         *)
LEMMA LookupCases ==
  ASSUME TypeOK, NEW a \in Asks, LookupSession(a)
  PROVE  /\ pc[a] = "lookup"
         /\ UNCHANGED <<closed, sessionCache, file, rules, pattern, base,
                        userSaid, born, covered, restarts>>
         /\ \/ /\ pc'[a] = "allowed" /\ reason'[a] = "cache"
               /\ \E r \in sessionCache : Target[a] \in r
            \/ /\ pc'[a] = "subscribe" /\ reason'[a] = "none"
               /\ ~ \E r \in sessionCache : Target[a] \in r
<1>1. /\ pc[a] = "lookup"
      /\ UNCHANGED <<closed, sessionCache, file, rules, pattern, base,
                     userSaid, born, covered, restarts>>
  BY DEF LookupSession
<1>2. \A x, y : Decide(a, x, y) => pc'[a] = x /\ reason'[a] = y
  BY DEF Decide, TypeOK
<1>3. \/ Decide(a, "allowed", "cache") /\ \E r \in sessionCache : Target[a] \in r
      \/ /\ Decide(a, AskUserSteps[1], "none")
         /\ ~ \E r \in sessionCache : Target[a] \in r
  BY DEF LookupSession
<1> QED
  BY <1>1, <1>2, <1>3, AskOrder

(* What storing an approval does.                                          *)
LEMMA StoreCases ==
  ASSUME TypeOK, NEW a \in Asks, StoreSession(a)
  PROVE  /\ pc[a] = "store" /\ pc'[a] = "allowed" /\ reason'[a] = "user reply"
         /\ UNCHANGED <<closed, file, rules, pattern, base, userSaid, born,
                        covered, restarts>>
         /\ sessionCache' = IF closed THEN sessionCache
                            ELSE sessionCache \cup {pattern[a]}
BY DEF StoreSession, StoresInCache, StoredPattern, Decide, TypeOK

(* An Ask that the user decided keeps the answer to its own request.       *)
LEMMA OwnReplyStep ==
  TypeOK /\ ShownInv /\ ReplyInv /\ PhaseInv /\ OwnReplyDecides /\ [Next]_vars
    => OwnReplyDecides'
<1> SUFFICES ASSUME TypeOK, ShownInv, ReplyInv, PhaseInv, OwnReplyDecides,
                    [Next]_vars
             PROVE  OwnReplyDecides'
  OBVIOUS
<1> USE DEF OwnReplyDecides
<1>1. ASSUME NEW a \in Asks, AskMoves(a) PROVE OwnReplyDecides'
  <2>1. \A b \in Asks : b # a => pc'[b] = pc[b] /\ reason'[b] = reason[b]
    BY <1>1, AskFrame
  <2>2. UNCHANGED userSaid
    BY <1>1, AskFrame
  <2>3. reason'[a] = "user reply" =>
          \/ pc'[a] = "denied" /\ userSaid[a] = "deny"
          \/ pc'[a] = "allowed" /\ userSaid[a] \in {"once", "session", "always"}
    <3>1. CASE Ask(a)
      BY <3>1, AskCases
    <3>2. CASE LookupSession(a)
      BY <3>2, LookupCases
    <3>3. CASE AskReceives(a)
      BY <3>3, ReceiveCases
    <3>4. CASE StoreSession(a)
      BY <3>4, StoreCases DEF PhaseInv
    <3>5. CASE InFlight(a) /\ reason'[a] = reason[a]
      BY <3>5 DEF InFlight, Returned
    <3> QED
      BY <1>1, <3>1, <3>2, <3>3, <3>4, <3>5, AskReasons
  <2> QED
    BY <2>1, <2>2, <2>3
<1>2. CASE OutsideStep
  BY <1>2, OutsideFrame, Stable
<1>3. CASE Restart
  BY <1>3 DEF Restart, InFlight, Returned
<1> QED
  BY <1>1, <1>2, <1>3, NextCases DEF AskMoves

(* An approval stays one, of its scope and its process.                    *)
LEMMA ApprovedStable ==
  ASSUME TypeOK, ShownInv, [Next]_vars, NEW r
  PROVE  /\ ApprovedAlways(r, 0..restarts) => ApprovedAlways(r, 0..restarts)'
         /\ restarts' = restarts =>
              /\ ApprovedAlways(r, 0..(restarts - 1))
                   => ApprovedAlways(r, 0..(restarts - 1))'
              /\ ApprovedHere(r) => ApprovedHere(r)'
         /\ restarts' = restarts + 1 /\ ApprovedAlways(r, 0..restarts)
              => ApprovedAlways(r, 0..(restarts - 1))'
<1>1. \A b \in Asks :
        /\ Past(b) => Past(b)' /\ pattern'[b] = pattern[b] /\ born'[b] = born[b]
        /\ userSaid[b] # "none" => userSaid'[b] = userSaid[b]
  BY Stable
<1>2. restarts \in Nat /\ restarts' \in {restarts, restarts + 1}
  BY Stable
<1>3. 0..restarts \subseteq 0..restarts'
  BY <1>2
<1>4. restarts' = restarts + 1 => 0..restarts = 0..(restarts' - 1)
  BY <1>2
<1> QED
  BY <1>1, <1>3, <1>4 DEF ApprovedAlways, ApprovedHere

(* Patterns come into the file and the cache with an approval, into the    *)
(* matcher only from the file of an earlier process.                       *)
LEMMA GrantStep ==
  TypeOK /\ ShownInv /\ PhaseInv /\ GrantInv /\ [Next]_vars => GrantInv'
<1> SUFFICES ASSUME TypeOK, ShownInv, PhaseInv, GrantInv, [Next]_vars
             PROVE  GrantInv'
  OBVIOUS
<1>t. /\ base \in [Asks -> SUBSET Patterns]
      /\ restarts \in Nat
      /\ \A a \in Asks : born[a] \in Nat
  <2>1. base \in [Asks -> SUBSET Patterns] /\ born \in [Asks -> 0..MaxRestarts]
    BY DEF TypeOK
  <2> QED
    BY <2>1, Stable, LimitsAssumption
<1>k. ASSUME UNCHANGED <<rules, restarts>>,
             \A r \in file' : r \in file \/ ApprovedAlways(r, 0..restarts)',
             \A a \in Asks : base'[a] = base[a] \/ base'[a] = file,
             \A r \in sessionCache' : r \in sessionCache \/ ApprovedHere(r)'
      PROVE  GrantInv'
  BY <1>k, ApprovedStable DEF GrantInv
<1>1. ASSUME NEW a \in Asks, SaveProjectPermissions(a) PROVE GrantInv'
  <2>1. /\ pc[a] = "save" /\ userSaid'[a] = "always" /\ born'[a] = restarts
        /\ pattern' = pattern /\ Past(a)' /\ restarts' = restarts
    <3>1. userSaid[a] = "always" /\ born[a] = restarts
      BY <1>1 DEF SaveProjectPermissions, PhaseInv, InFlight, Returned
    <3>2. Past(a)
      BY <1>1 DEF SaveProjectPermissions, Past, Unasked
    <3> QED
      BY <1>1, <3>1, <3>2, Stable DEF SaveProjectPermissions
  <2>2. ApprovedAlways(pattern[a], 0..restarts)'
    BY <1>t, <2>1 DEF ApprovedAlways
  <2>3. \A r \in base[a] : ApprovedAlways(r, 0..restarts)'
    BY ApprovedStable DEF GrantInv
  <2>4. \A r \in file' : r \in file \/ ApprovedAlways(r, 0..restarts)'
    BY <1>1, <2>2, <2>3 DEF SaveProjectPermissions, RulesToSave
  <2> QED
    BY <1>1, <1>k, <2>4 DEF SaveProjectPermissions
<1>2. ASSUME NEW a \in Asks, LoadProjectAllowRules(a) PROVE GrantInv'
  <2>1. \A b \in Asks : base'[b] = base[b] \/ base'[b] = file
    BY <1>2, <1>t DEF LoadProjectAllowRules
  <2> QED
    BY <1>2, <1>k, <2>1 DEF LoadProjectAllowRules
<1>3. ASSUME NEW a \in Asks, StoreSession(a) PROVE GrantInv'
  <2>1. /\ userSaid'[a] \in {"session", "always"} /\ born'[a] = restarts'
        /\ pattern' = pattern /\ Past(a)'
    <3>1. userSaid[a] \in {"session", "always"} /\ born[a] = restarts
      BY <1>3, StoreCases DEF PhaseInv, InFlight, Returned
    <3>2. Past(a)
      BY <1>3, StoreCases DEF Past, Unasked
    <3> QED
      BY <1>3, <3>1, <3>2, StoreCases, Stable
  <2>2. ApprovedHere(pattern[a])'
    BY <2>1 DEF ApprovedHere
  <2> QED
    BY <1>3, <1>k, <2>2, StoreCases
<1>4. CASE Restart
  <2>1. /\ restarts' = restarts + 1 /\ UNCHANGED <<file, base>>
        /\ rules' = file /\ sessionCache' = {}
    BY <1>4 DEF Restart
  <2> QED
    BY <2>1, ApprovedStable DEF GrantInv
<1>5. ASSUME UNCHANGED <<file, base, rules, restarts>>,
             sessionCache' \subseteq sessionCache
      PROVE  GrantInv'
  BY <1>5, <1>k
<1>6. ASSUME NEW a \in Asks,
             \/ Ask(a) \/ LookupSession(a) \/ AskSubscribe(a) \/ AskPublish(a)
             \/ AskGivesUp(a) \/ AskSkipsReply(a) \/ AskReceives(a)
      PROVE  UNCHANGED <<file, base, rules, restarts, sessionCache>>
  BY <1>6 DEF Ask, LookupSession, AskSubscribe, AskPublish, AskGivesUp,
              AskSkipsReply, AskReceives
<1>7. CASE OutsideStep
  <2>1. sessionCache' \subseteq sessionCache
    BY <1>7 DEF OutsideStep, UIReceives, HandleModalKey, PublishReply, SetYolo,
                Close, CloseBus, vars
  <2> QED
    BY <1>5, <1>7, <2>1, OutsideFrame
<1> QED
  BY <1>1, <1>2, <1>3, <1>4, <1>5, <1>6, <1>7, NextCases

(* An Ask that has returned does not move any more.                        *)
LEMMA AllowedStays ==
  ASSUME TypeOK, ShownInv, [Next]_vars, NEW b \in Asks, pc[b] = "allowed"
  PROVE  /\ pc'[b] = "allowed" /\ reason'[b] = reason[b]
         /\ born'[b] = born[b] /\ pattern'[b] = pattern[b]
<1>1. born'[b] = born[b] /\ pattern'[b] = pattern[b]
  BY Stable DEF Past, Unasked
<1>2. ASSUME NEW a \in Asks, AskMoves(a) PROVE a # b
  BY <1>2 DEF AskMoves, Ask, LookupSession, AskSubscribe, AskPublish,
              AskGivesUp, AskSkipsReply, AskReceives, LoadProjectAllowRules,
              SaveProjectPermissions, StoreSession
<1>3. ASSUME NEW a \in Asks, AskMoves(a)
      PROVE  pc'[b] = "allowed" /\ reason'[b] = reason[b]
  BY <1>2, <1>3, AskFrame
<1>4. CASE OutsideStep
  BY <1>4, OutsideFrame
<1>5. CASE Restart
  BY <1>5 DEF Restart, InFlight, Returned
<1> QED
  BY <1>1, <1>3, <1>4, <1>5, NextCases DEF AskMoves

(* A grant is not taken back: what was answered stays, and so does the     *)
(* pattern that was made of it.                                            *)
LEMMA GrantStays ==
  ASSUME TypeOK, ShownInv, PhaseInv, [Next]_vars, NEW b \in Asks, NEW a \in Asks,
         NEW scopes, "none" \notin scopes, Grants(b, a, scopes)
  PROVE  Grants(b, a, scopes)' /\ born'[b] = born[b]
<1>1. Past(b)
  BY DEF Grants, PhaseInv
<1> QED
  BY <1>1, Stable DEF Grants

(* What is allowed has a cause, and no cause lapses.                       *)
LEMMA CauseStep ==
  /\ TypeOK /\ ShownInv /\ ReplyInv /\ PhaseInv /\ GrantInv
  /\ OwnReplyDecides /\ AllowedForACause /\ [Next]_vars
  => AllowedForACause'
<1> SUFFICES ASSUME TypeOK, ShownInv, ReplyInv, PhaseInv, GrantInv,
                    OwnReplyDecides, AllowedForACause, [Next]_vars,
                    NEW a \in Asks, pc'[a] = "allowed"
             PROVE  Target[a] \notin HardDenied /\ Cause(a)'
  BY DEF AllowedForACause
<1>t. \A b \in Asks : born[b] \in Nat
  <2>1. born \in [Asks -> 0..MaxRestarts]
    BY DEF TypeOK
  <2> QED
    BY <2>1, LimitsAssumption
<1>n. restarts \in Nat
  BY Stable
<1>1. CASE pc[a] = "allowed"
  <2>1. Target[a] \notin HardDenied /\ Cause(a)
    BY <1>1 DEF AllowedForACause
  <2>2. reason'[a] = reason[a] /\ born'[a] = born[a]
    BY <1>1, AllowedStays
  <2>3. CASE reason[a] = "user reply" /\ userSaid[a] # "deny"
    <3>1. userSaid[a] # "none"
      BY <1>1, <2>3 DEF OwnReplyDecides
    <3>2. userSaid'[a] = userSaid[a]
      BY <3>1, Stable
    <3> QED
      BY <2>1, <2>2, <2>3, <3>2 DEF Cause
  <2>4. CASE /\ reason[a] = "cache"
             /\ \E b \in Asks :
                  born[b] = born[a] /\ Grants(b, a, {"session", "always"})
    <3>1. PICK b \in Asks :
            born[b] = born[a] /\ Grants(b, a, {"session", "always"})
      BY <2>4
    <3>2. Grants(b, a, {"session", "always"})' /\ born'[b] = born[b]
      BY <3>1, GrantStays
    <3> QED
      BY <2>1, <2>2, <2>4, <3>1, <3>2 DEF Cause
  <2>5. CASE /\ reason[a] = "rule"
             /\ \E b \in Asks : born[b] < born[a] /\ Grants(b, a, {"always"})
    <3>1. PICK b \in Asks : born[b] < born[a] /\ Grants(b, a, {"always"})
      BY <2>5
    <3>2. Grants(b, a, {"always"})' /\ born'[b] = born[b]
      BY <3>1, GrantStays
    <3> QED
      BY <2>1, <2>2, <2>5, <3>1, <3>2 DEF Cause
  <2>6. CASE \/ reason[a] = "yolo mode"
             \/ reason[a] = "rule" /\ Default[Target[a]] = "allow"
    BY <2>1, <2>2, <2>6 DEF Cause
  <2> QED
    BY <2>1, <2>3, <2>4, <2>5, <2>6, Zenon DEF Cause
<1>2. CASE pc[a] # "allowed"
  <2>1. AskMoves(a)
    <3>1. ~OutsideStep
      BY <1>2, OutsideFrame
    <3>2. ~Restart
      BY <1>2 DEF Restart, Returned
    <3>3. PICK b \in Asks : AskMoves(b)
      BY <3>1, <3>2, NextCases DEF AskMoves
    <3> QED
      BY <1>2, <3>3, AskFrame
  <2>2. UNCHANGED userSaid
    BY <2>1, AskFrame
  <2>3. CASE Ask(a)
    <3>1. /\ pc[a] = "new" /\ born'[a] = restarts /\ pattern' = pattern
          /\ Target[a] \notin HardDenied
          /\ \/ reason'[a] = "yolo mode"
             \/ /\ reason'[a] = "rule"
                /\ \/ Default[Target[a]] = "allow"
                   \/ \E r \in rules : Target[a] \in r
      BY <2>3, AskCases
    <3>2. ASSUME NEW r \in rules, Target[a] \in r, reason'[a] = "rule"
          PROVE  Cause(a)'
      <4>1. PICK b \in Asks : /\ pattern[b] = r /\ Past(b)
                              /\ userSaid[b] = "always"
                              /\ born[b] \in 0..(restarts - 1)
        BY <3>2 DEF GrantInv, ApprovedAlways
      <4>2. b # a
        BY <3>1, <4>1 DEF Past, Unasked
      <4>3. born'[b] < born'[a]
        <5>1. born'[b] = born[b]
          BY <4>1, Stable
        <5>2. born'[a] = restarts
          BY <3>1
        <5>3. born[b] \in 0..(restarts - 1)
          BY <4>1
        <5>4. \A i \in 0..(restarts - 1) : i < restarts
          BY <1>n
        <5> QED
          BY <5>1, <5>2, <5>3, <5>4
      <4>4. Grants(b, a, {"always"})'
        BY <2>2, <3>1, <3>2, <4>1 DEF Grants
      <4> QED
        BY <3>2, <4>3, <4>4 DEF Cause
    <3> QED
      BY <3>1, <3>2 DEF Cause
  <2>4. CASE LookupSession(a)
    <3>1. /\ reason'[a] = "cache" /\ pc[a] = "lookup"
          /\ UNCHANGED <<pattern, born>>
          /\ \E r \in sessionCache : Target[a] \in r
      BY <2>4, LookupCases
    <3>2. born[a] = restarts /\ Target[a] \notin HardDenied
      BY <3>1 DEF PhaseInv, InFlight, Returned
    <3>3. PICK b \in Asks : /\ Target[a] \in pattern[b]
                            /\ userSaid[b] \in {"session", "always"}
                            /\ born[b] = restarts
      BY <3>1 DEF GrantInv, ApprovedHere
    <3>4. Grants(b, a, {"session", "always"})'
      BY <2>2, <3>1, <3>3 DEF Grants
    <3> QED
      BY <3>1, <3>2, <3>3, <3>4 DEF Cause
  <2>5. CASE AskReceives(a)
    <3>1. pc[a] = "wait" /\ userSaid[a] = "once" /\ reason'[a] = "user reply"
      BY <2>5, ReceiveCases
    <3>2. Target[a] \notin HardDenied
      BY <3>1 DEF PhaseInv, InFlight, Returned
    <3> QED
      BY <2>2, <3>1, <3>2 DEF Cause
  <2>6. CASE StoreSession(a)
    <3>1. pc[a] = "store" /\ reason'[a] = "user reply"
      BY <2>6, StoreCases
    <3>2. Target[a] \notin HardDenied /\ userSaid[a] \in {"session", "always"}
      BY <3>1 DEF PhaseInv, InFlight, Returned
    <3> QED
      BY <2>2, <3>1, <3>2 DEF Cause
  <2> QED
    BY <2>1, <2>3, <2>4, <2>5, <2>6, AskReasons
<1> QED
  BY <1>1, <1>2

(* An approval takes effect by being stored, and only a restart ends it.   *)
LEMMA ApprovalsStep ==
  ASSUME TypeOK, ShownInv, ReplyInv, PhaseInv, OwnReplyDecides, [Next]_vars
  PROVE  /\ Restart => Approvals' = {}
         /\ \A b \in Approvals' :
              \/ b \in Approvals /\ pattern'[b] = pattern[b]
              \/ StoreSession(b)
<1>1. CASE Restart
  <2>1. restarts' = restarts + 1 /\ born' = born
    BY <1>1 DEF Restart
  <2>2. \A b \in Asks : born[b] <= restarts
    BY DEF PhaseInv
  <2>3. \A b \in Asks : born[b] \in Nat
    <3>1. born \in [Asks -> 0..MaxRestarts]
      BY DEF TypeOK
    <3> QED
      BY <3>1, LimitsAssumption
  <2>4. restarts \in Nat
    BY Stable
  <2>5. \A b \in Asks : born'[b] # restarts'
    BY <2>1, <2>2, <2>3, <2>4
  <2> QED
    BY <2>5 DEF Approvals
<1>2. ASSUME NEW b \in Approvals', ~Restart
      PROVE  (b \in Approvals /\ pattern'[b] = pattern[b]) \/ StoreSession(b)
  <2>1. /\ b \in Asks /\ pc'[b] = "allowed" /\ reason'[b] = "user reply"
        /\ userSaid'[b] \in {"session", "always"} /\ born'[b] = restarts'
    BY <1>2 DEF Approvals
  <2>2. CASE pc[b] = "allowed" /\ reason[b] = "user reply"
    <3>1. born'[b] = born[b] /\ pattern'[b] = pattern[b]
      BY <2>1, <2>2, AllowedStays
    <3>2. userSaid[b] # "none"
      BY <2>1, <2>2 DEF OwnReplyDecides
    <3>3. userSaid'[b] = userSaid[b]
      BY <2>1, <3>2, Stable
    <3>4. restarts' = restarts
      BY <1>2, NextCases, AskFrame, OutsideFrame DEF AskMoves
    <3> QED
      BY <2>1, <2>2, <3>1, <3>3, <3>4 DEF Approvals
  <2>3. CASE ~(pc[b] = "allowed" /\ reason[b] = "user reply")
    <3>1. ~OutsideStep
      BY <2>1, <2>3, OutsideFrame
    <3>2. PICK a \in Asks : AskMoves(a)
      BY <1>2, <3>1, NextCases DEF AskMoves
    <3>3. a = b
      BY <2>1, <2>3, <3>2, AskFrame
    <3>4. UNCHANGED userSaid
      BY <3>2, AskFrame
    <3>5. ~Ask(b)
      BY <2>1, AskCases
    <3>6. ~LookupSession(b)
      BY <2>1, LookupCases
    <3>7. ~AskReceives(b)
      BY <2>1, <3>4, ReceiveCases
    <3> QED
      BY <2>1, <3>2, <3>3, <3>5, <3>6, <3>7, AskReasons
  <2> QED
    BY <2>2, <2>3
<1> QED
  BY <1>1, <1>2

(* The cache holds every approval in force.                                *)
LEMMA CacheStep ==
  /\ TypeOK /\ ShownInv /\ ReplyInv /\ PhaseInv /\ OwnReplyDecides /\ CacheInv
  /\ [Next]_vars
  => CacheInv'
<1> SUFFICES ASSUME TypeOK, ShownInv, ReplyInv, PhaseInv, OwnReplyDecides,
                    CacheInv, [Next]_vars, ~closed'
             PROVE  /\ \A b \in Approvals' : pattern'[b] \in sessionCache'
                    /\ \A a \in Asks : covered'[a] /\ pc'[a] = "lookup" =>
                         \E r \in sessionCache' : Target[a] \in r
  BY DEF CacheInv
<1>1. ASSUME NEW a \in Asks, AskMoves(a)
      PROVE  /\ \A b \in Approvals' : pattern'[b] \in sessionCache'
             /\ \A b \in Asks : covered'[b] /\ pc'[b] = "lookup" =>
                  \E r \in sessionCache' : Target[b] \in r
  <2>1. ~closed
    BY <1>1, AskFrame
  <2>2. sessionCache \subseteq sessionCache'
    BY <1>1 DEF AskMoves, Ask, LookupSession, AskSubscribe, AskPublish,
                AskGivesUp, AskSkipsReply, AskReceives, LoadProjectAllowRules,
                SaveProjectPermissions, StoreSession
  <2>3. ASSUME NEW b \in Approvals' PROVE pattern'[b] \in sessionCache'
    <3>1. b \in Asks
      BY DEF Approvals
    <3>2. CASE b \in Approvals /\ pattern'[b] = pattern[b]
      BY <2>1, <2>2, <3>2 DEF CacheInv
    <3>3. CASE StoreSession(b)
      BY <2>1, <3>1, <3>3, StoreCases
    <3> QED
      BY <3>2, <3>3, ApprovalsStep
  <2>4. ASSUME NEW b \in Asks, covered'[b], pc'[b] = "lookup"
        PROVE  \E r \in sessionCache' : Target[b] \in r
    <3>1. CASE b # a
      BY <1>1, <2>1, <2>2, <2>4, <3>1, AskFrame DEF CacheInv
    <3>2. CASE b = a
      <4>1. pc[a] = "new"
        BY <1>1, <2>4, <3>2, AskPath
      <4>2. Ask(a)
        BY <1>1, <4>1 DEF AskMoves, LookupSession, AskSubscribe, AskPublish,
                          AskGivesUp, AskSkipsReply, AskReceives,
                          LoadProjectAllowRules, SaveProjectPermissions,
                          StoreSession
      <4>3. PICK c \in Approvals : Target[a] \in pattern[c]
        BY <2>4, <3>2, <4>2, AskCases
      <4> QED
        BY <2>1, <2>2, <3>2, <4>3 DEF CacheInv
    <3> QED
      BY <3>1, <3>2
  <2> QED
    BY <2>3, <2>4
<1>2. CASE OutsideStep
  <2>1. ~closed /\ sessionCache' = sessionCache
    BY <1>2 DEF OutsideStep, UIReceives, HandleModalKey, PublishReply, SetYolo,
                Close, CloseBus, vars
  <2>2. UNCHANGED <<pc, covered>>
    BY <1>2, OutsideFrame
  <2>3. \A b \in Approvals' : b \in Approvals /\ pattern'[b] = pattern[b]
    <3>1. \A b \in Asks : ~StoreSession(b)
      <4>1. ASSUME NEW b \in Asks, StoreSession(b) PROVE FALSE
        BY <2>2, <4>1, StoreCases
      <4> QED
        BY <4>1
    <3> QED
      BY <3>1, ApprovalsStep DEF Approvals
  <2> QED
    BY <2>1, <2>2, <2>3 DEF CacheInv
<1>3. CASE Restart
  <2>1. \A a \in Asks : pc'[a] # "lookup"
    BY <1>3 DEF Restart, InFlight, Returned
  <2> QED
    BY <1>3, <2>1, ApprovalsStep
<1> QED
  BY <1>1, <1>2, <1>3, NextCases DEF AskMoves

(* The cache answers for what an approval covers before the user would.    *)
LEMMA CoveredStep ==
  TypeOK /\ CacheInv /\ CoveredIsNotAsked /\ [Next]_vars => CoveredIsNotAsked'
<1> SUFFICES ASSUME TypeOK, CacheInv, CoveredIsNotAsked, [Next]_vars,
                    NEW b \in Asks, covered'[b], InFlight(b)', ~closed'
             PROVE  pc'[b] = "lookup"
  BY DEF CoveredIsNotAsked
<1>1. ASSUME NEW a \in Asks, AskMoves(a) PROVE pc'[b] = "lookup"
  <2>1. ~closed
    BY <1>1, AskFrame
  <2>2. CASE b # a
    BY <1>1, <2>1, <2>2, AskFrame DEF CoveredIsNotAsked, InFlight
  <2>3. CASE b = a /\ Ask(a)
    BY <2>3, AskCases DEF InFlight, Returned
  <2>4. CASE b = a /\ LookupSession(a)
    <3>1. pc[a] = "lookup" /\ covered[a]
      BY <2>4, LookupCases
    <3>2. \E r \in sessionCache : Target[a] \in r
      BY <2>1, <3>1 DEF CacheInv
    <3>3. pc'[a] = "allowed"
      BY <2>4, <3>2, LookupCases
    <3> QED
      BY <2>4, <3>3 DEF InFlight, Returned
  <2>5. CASE b = a /\ AskReceives(a)
    <3>1. pc[a] = "wait" /\ covered[a]
      BY <2>5 DEF AskReceives
    <3> QED
      BY <2>1, <2>5, <3>1 DEF CoveredIsNotAsked, InFlight, Returned
  <2>6. CASE b = a /\ StoreSession(a)
    BY <2>6, StoreCases DEF InFlight, Returned
  <2>7. CASE b = a /\ InFlight(a) /\ pc[a] # "lookup"
    <3>1. covered[a]
      BY <1>1, <2>7, AskPath DEF InFlight
    <3> QED
      BY <2>1, <2>7, <3>1 DEF CoveredIsNotAsked
  <2> QED
    BY <1>1, <2>2, <2>3, <2>4, <2>5, <2>6, <2>7, AskReasons
<1>2. CASE OutsideStep
  <2>1. ~closed
    BY <1>2 DEF OutsideStep, UIReceives, HandleModalKey, PublishReply, SetYolo,
                Close, CloseBus, vars
  <2> QED
    BY <1>2, <2>1, OutsideFrame DEF CoveredIsNotAsked, InFlight
<1>3. CASE Restart
  BY <1>3 DEF Restart, InFlight, Returned
<1> QED
  BY <1>1, <1>2, <1>3, NextCases DEF AskMoves

-----------------------------------------------------------------------------
(* At the start nothing is asked, approved or under way.                   *)
LEMMA PermInit == Init => PermInv
<1> SUFFICES ASSUME Init PROVE PermInv
  OBVIOUS
<1>1. TypeOK
  BY TypeInit
<1>2. ShownInv
  BY EmptySequence DEF Init, ShownInv
<1>3. ReplyInv
  BY EmptySequence DEF Init, ReplyInv
<1>4. PhaseInv
  BY DEF Init, PhaseInv, InFlight
<1>5. GrantInv
  BY DEF Init, GrantInv
<1>6. CacheInv
  BY DEF Init, CacheInv, Approvals
<1>7. OwnReplyDecides /\ AllowedForACause /\ CoveredIsNotAsked
  BY DEF Init, OwnReplyDecides, AllowedForACause, CoveredIsNotAsked, InFlight
<1> QED
  BY <1>1, <1>2, <1>3, <1>4, <1>5, <1>6, <1>7 DEF PermInv

(* PermInv is inductive, for every number of asks and restarts.            *)
THEOREM PermInvariant == Spec => [](PermInv /\ Chosen)
<1>1. Init => PermInv /\ Chosen
  BY PermInit, TypeInit
<1>2. PermInv /\ Chosen /\ [Next]_vars => (PermInv /\ Chosen)'
  <2> SUFFICES ASSUME PermInv, Chosen, [Next]_vars PROVE (PermInv /\ Chosen)'
    OBVIOUS
  <2> USE DEF PermInv
  <2>1. TypeOK' /\ Chosen'
    BY TypeStep
  <2>2. ShownInv' /\ ReplyInv' /\ PhaseInv'
    BY ShownStep, ReplyStep, PhaseStep
  <2>3. GrantInv' /\ CacheInv'
    BY GrantStep, CacheStep
  <2>4. OwnReplyDecides' /\ AllowedForACause' /\ CoveredIsNotAsked'
    BY OwnReplyStep, CauseStep, CoveredStep
  <2> QED
    BY <2>1, <2>2, <2>3, <2>4
<1> QED
  BY <1>1, <1>2, PTL DEF Spec

(* The permission engine and the terminal's queues keep their types, and   *)
(* no buffer is overfull.                                                  *)
THEOREM TypeCorrect == Spec => []TypeOK
<1>1. PermInv => TypeOK
  BY DEF PermInv
<1> QED
  BY <1>1, PermInvariant, PTL

(* handleReply goes by what the user said to the Ask's own request.        *)
THEOREM OnlyOwnReplyDecides == Spec => []OwnReplyDecides
<1>1. PermInv => OwnReplyDecides
  BY DEF PermInv
<1> QED
  BY <1>1, PermInvariant, PTL

(* Ask allows nothing without a default, yolo, the user's own answer, an   *)
(* approval of this process or a permanent one of an earlier process; and  *)
(* it never allows a hard-denied target.                                   *)
THEOREM NothingAllowedWithoutCause == Spec => []AllowedForACause
<1>1. PermInv => AllowedForACause
  BY DEF PermInv
<1> QED
  BY <1>1, PermInvariant, PTL

(* Ask answers from the session cache what an approval in force covers.    *)
THEOREM CoveredNeverAsked == Spec => []CoveredIsNotAsked
<1>1. PermInv => CoveredIsNotAsked
  BY DEF PermInv
<1> QED
  BY <1>1, PermInvariant, PTL
=============================================================================
