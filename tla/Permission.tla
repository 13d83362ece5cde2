----------------------------- MODULE Permission -----------------------------
(***************************************************************************)
(* The permission engine (src/internal/permission) with the terminal that  *)
(* answers it (src/internal/ui/app_bus_events.go, app_keys.go).            *)
(*                                                                         *)
(* Every Ask runs on its tool's goroutine: hard denies, yolo, the matcher  *)
(* built when the engine was, the session cache, and at last the user.     *)
(* askUser subscribes to the replies, publishes PermissionAsked and waits. *)
(* The UI shows the requests first come first served; a key press pops the *)
(* first one and publishes the reply from a goroutine of its own.  Every   *)
(* waiting Ask receives every reply and keeps the one with its RequestID.  *)
(*                                                                         *)
(* A target stands for a category and a path or command; a pattern is the  *)
(* set of targets it matches.                                              *)
(***************************************************************************)
EXTENDS Integers, Sequences, FiniteSets

CONSTANTS
  Asks,         \* calls of Ask, one RequestID each
  Targets,      \* what may be asked for
  Target,       \* [Asks -> Targets]
  Promotions,   \* [Targets -> the patterns promoteTarget may return for it]
  HardDenied,   \* targets on the secrets denylist or in .aiexclude
  Default,      \* what the layers after the persisted rules say of a target
  UIBuffer,     \* buffer of the UI's subscription
  ReplyBuffer,  \* buffer of an Ask's subscription
  MaxInFlight,  \* bound: Asks in flight at once
  DiskFails,    \* loading or saving the rules may fail
  MaxRestarts   \* bound: restarts of the program

ASSUME TargetAssumption == Target \in [Asks -> Targets]
ASSUME PromotionsAssumption == Promotions \in [Targets -> SUBSET SUBSET Targets]
ASSUME HardDeniedAssumption == HardDenied \subseteq Targets
ASSUME DefaultAssumption == Default \in [Targets -> {"allow", "deny", "ask"}]
ASSUME BufferAssumption == UIBuffer \in Nat \ {0} /\ ReplyBuffer \in Nat \ {0}
ASSUME LimitsAssumption == /\ MaxInFlight \in Nat
                           /\ DiskFails \in BOOLEAN
                           /\ MaxRestarts \in Nat

VARIABLES
  closed,        \* Engine.closed
  yolo,          \* Engine.yolo
  sessionCache,  \* Engine.sessionCache: the patterns cached as allowed
  rules,         \* the patterns of the matcher's project-state rules
  file,          \* the rules stored in .hygge/permissions.json
  pc,            \* where each Ask is
  reason,        \* Decision.Reason of an Ask that has returned
  pattern,       \* what promoteTarget made of an Ask's target
  base,          \* the rules an Ask has loaded in order to add its own
  busClosed,     \* the bus has been closed
  subscribed,    \* Asks that have subscribed to the replies
  replies,       \* the channel of each Ask's subscription
  uiChan,        \* the channel of the UI's subscription: RequestIDs
  pendingPerms,  \* App.pendingPerms
  outbox,        \* replies whose publishing goroutine has not run yet
  userSaid,      \* history: what the user answered to each request
  covered,       \* history: an approval in force covered the Ask's target
                 \* when it was called
  born,          \* history: the process an Ask ran in
  restarts       \* restarts so far

engineVars == <<closed, yolo, sessionCache, rules>>
decisionVars == <<reason, pattern, base>>
busVars == <<busClosed, subscribed, replies, uiChan>>
uiVars == <<pendingPerms, outbox, userSaid>>
historyVars == <<covered, born, restarts>>
vars == <<engineVars, file, pc, decisionVars, busVars, uiVars, historyVars>>

Patterns == UNION {Promotions[t] : t \in Targets}

(* The answers the modal offers: n or esc, y, Y, A.                        *)
Answers == {"deny", "once", "session", "always"}
Returned == {"allowed", "denied", "failed"}
InFlight(a) == pc[a] \notin {"new"} \cup Returned

Init ==
  /\ closed = FALSE
  /\ yolo \in BOOLEAN
  /\ sessionCache = {}
  /\ rules = {}
  /\ file = {}
  /\ pc = [a \in Asks |-> "new"]
  /\ reason = [a \in Asks |-> "none"]
  /\ pattern = [a \in Asks |-> {}]
  /\ base = [a \in Asks |-> {}]
  /\ busClosed = FALSE
  /\ subscribed = {}
  /\ replies = [a \in Asks |-> <<>>]
  /\ uiChan = <<>>
  /\ pendingPerms = <<>>
  /\ outbox = {}
  /\ userSaid = [a \in Asks |-> "none"]
  /\ covered = [a \in Asks |-> FALSE]
  /\ born = [a \in Asks |-> 0]
  /\ restarts = 0

-----------------------------------------------------------------------------
(* Ask, up to the session cache: one look at closed and yolo, and nothing  *)
(* else that changes.                                                      *)

Decide(a, outcome, why) ==
  /\ pc' = [pc EXCEPT ![a] = outcome]
  /\ reason' = [reason EXCEPT ![a] = why]

NothingIsHardDenied(t) == FALSE                     \* mutant
IsHardDenied(t) == t \in HardDenied

MatcherAction(t) == IF \E r \in rules : t \in r THEN "allow" ELSE Default[t]

(* Approvals of this process whose Ask has returned.                       *)
Approvals ==
  {b \in Asks : /\ pc[b] = "allowed"
                /\ reason[b] = "user reply"
                /\ userSaid[b] \in {"session", "always"}
                /\ born[b] = restarts}

Ask(a) ==
  LET t == Target[a] IN
  /\ pc[a] = "new"
  /\ Cardinality({b \in Asks : InFlight(b)}) < MaxInFlight
  /\ \/ closed /\ Decide(a, "failed", "none")
     \/ ~closed /\ IsHardDenied(t) /\ Decide(a, "denied", "hard deny")
     \/ ~closed /\ ~IsHardDenied(t) /\ yolo /\ Decide(a, "allowed", "yolo mode")
     \/ /\ ~closed /\ ~IsHardDenied(t) /\ ~yolo
        /\ \/ MatcherAction(t) = "allow" /\ Decide(a, "allowed", "rule")
           \/ MatcherAction(t) = "deny" /\ Decide(a, "denied", "rule")
           \/ MatcherAction(t) = "ask" /\ Decide(a, "lookup", "none")
  /\ covered' = [covered EXCEPT ![a] = \E b \in Approvals : t \in pattern[b]]
  /\ born' = [born EXCEPT ![a] = restarts]
  /\ UNCHANGED <<engineVars, file, pattern, base, busVars, uiVars, restarts>>

(* The order of askUser: the subscription comes before the event.          *)
PublishFirst == <<"publish", "subscribe", "wait">>  \* mutant
AskUserSteps == <<"subscribe", "publish", "wait">>
After(x) == AskUserSteps[1 + CHOOSE i \in 1..2 : AskUserSteps[i] = x]

LookupSession(a) ==
  LET hit == \E r \in sessionCache : Target[a] \in r IN
  /\ pc[a] = "lookup"
  /\ \/ hit /\ Decide(a, "allowed", "cache")
     \/ ~hit /\ Decide(a, AskUserSteps[1], "none")
  /\ UNCHANGED <<engineVars, file, pattern, base, busVars, uiVars, historyVars>>

-----------------------------------------------------------------------------
(* askUser                                                                 *)

AskSubscribe(a) ==
  /\ pc[a] = "subscribe"
  /\ subscribed' = subscribed \cup {a}
  /\ pc' = [pc EXCEPT ![a] = After("subscribe")]
  /\ UNCHANGED <<engineVars, file, decisionVars, busClosed, replies, uiChan,
                 uiVars, historyVars>>

(* A full UI channel drops the event; the Ask waits all the same.          *)
AskPublish(a) ==
  /\ pc[a] = "publish"
  /\ uiChan' = IF ~busClosed /\ Len(uiChan) < UIBuffer
               THEN Append(uiChan, a) ELSE uiChan
  /\ pc' = [pc EXCEPT ![a] = After("publish")]
  /\ UNCHANGED <<engineVars, file, decisionVars, busClosed, subscribed,
                 replies, uiVars, historyVars>>

Unsubscribe(a) ==
  /\ subscribed' = subscribed \ {a}
  /\ replies' = [replies EXCEPT ![a] = <<>>]

(* ctx.Done, or the subscription's channel was closed and is drained.      *)
AskGivesUp(a) ==
  /\ pc[a] = "wait"
  /\ Unsubscribe(a)
  /\ pc' = [pc EXCEPT ![a] = "failed"]
  /\ UNCHANGED <<engineVars, file, decisionVars, busClosed, uiChan, uiVars,
                 historyVars>>

Cancel(a) == AskGivesUp(a)
AskBusClosed(a) == busClosed /\ replies[a] = <<>> /\ AskGivesUp(a)

AnyReply(a) == replies[a] # <<>>                    \* mutant: no RequestID test
OwnReply(a) == replies[a] # <<>> /\ Head(replies[a]).id = a

AskSkipsReply(a) ==
  /\ pc[a] = "wait"
  /\ replies[a] # <<>>
  /\ ~OwnReply(a)
  /\ replies' = [replies EXCEPT ![a] = Tail(@)]
  /\ UNCHANGED <<engineVars, file, pc, decisionVars, busClosed, subscribed,
                 uiChan, uiVars, historyVars>>

(* handleReply begins; the deferred Unsubscribe is moved up to here, where *)
(* the last receive was.  promoteTarget looks at the file system.          *)
AskReceives(a) ==
  /\ pc[a] = "wait"
  /\ OwnReply(a)
  /\ LET said == Head(replies[a]).answer IN
     \/ said = "deny" /\ Decide(a, "denied", "user reply") /\ UNCHANGED pattern
     \/ said = "once" /\ Decide(a, "allowed", "user reply") /\ UNCHANGED pattern
     \/ /\ said \in {"session", "always"}
        /\ \E p \in Promotions[Target[a]] : pattern' = [pattern EXCEPT ![a] = p]
        /\ pc' = [pc EXCEPT ![a] = IF said = "always" THEN "load" ELSE "store"]
        /\ UNCHANGED reason
  /\ Unsubscribe(a)
  /\ UNCHANGED <<engineVars, file, base, busClosed, uiChan, uiVars, historyVars>>

(* AddProjectAllowRule: a read and, later, a write; failures are logged.   *)
LoadProjectAllowRules(a) ==
  /\ pc[a] = "load"
  /\ base' = [base EXCEPT ![a] = file]
  /\ \/ /\ pattern[a] \notin file
        /\ pc' = [pc EXCEPT ![a] = "save"]
     \/ /\ pattern[a] \in file \/ DiskFails
        /\ pc' = [pc EXCEPT ![a] = "store"]
  /\ UNCHANGED <<engineVars, file, reason, pattern, busVars, uiVars, historyVars>>

RulesToSave(a) == base[a] \cup {pattern[a]}

SaveProjectPermissions(a) ==
  /\ pc[a] = "save"
  /\ \/ file' = RulesToSave(a)
     \/ DiskFails /\ UNCHANGED file
  /\ pc' = [pc EXCEPT ![a] = "store"]
  /\ UNCHANGED <<engineVars, decisionVars, busVars, uiVars, historyVars>>

StoresInCache == ~closed

ExactTarget(a) == {Target[a]}                       \* mutant: not promoted
StoredPattern(a) == pattern[a]

StoreSession(a) ==
  /\ pc[a] = "store"
  /\ sessionCache' = IF StoresInCache
                     THEN sessionCache \cup {StoredPattern(a)} ELSE sessionCache
  /\ Decide(a, "allowed", "user reply")
  /\ UNCHANGED <<closed, yolo, rules, file, pattern, base, busVars, uiVars,
                 historyVars>>

-----------------------------------------------------------------------------
(* The UI's program loop and the user.                                     *)

UIReceives ==
  /\ uiChan # <<>>
  /\ pendingPerms' = Append(pendingPerms, Head(uiChan))
  /\ uiChan' = Tail(uiChan)
  /\ UNCHANGED <<engineVars, file, pc, decisionVars, busClosed, subscribed,
                 replies, outbox, userSaid, historyVars>>

HandleModalKey(answer) ==
  /\ pendingPerms # <<>>
  /\ pendingPerms' = Tail(pendingPerms)
  /\ outbox' = outbox \cup {[id |-> Head(pendingPerms), answer |-> answer]}
  /\ userSaid' = [userSaid EXCEPT ![Head(pendingPerms)] = answer]
  /\ UNCHANGED <<engineVars, file, pc, decisionVars, busVars, historyVars>>

PublishReply(r) ==
  /\ r \in outbox
  /\ outbox' = outbox \ {r}
  /\ replies' = [a \in Asks |->
                   IF a \in subscribed /\ ~busClosed
                        /\ Len(replies[a]) < ReplyBuffer
                   THEN Append(replies[a], r) ELSE replies[a]]
  /\ UNCHANGED <<engineVars, file, pc, decisionVars, busClosed, subscribed,
                 uiChan, pendingPerms, userSaid, historyVars>>

-----------------------------------------------------------------------------
SetYolo ==
  /\ ~closed
  /\ yolo' = ~yolo
  /\ UNCHANGED <<closed, sessionCache, rules, file, pc, decisionVars, busVars,
                 uiVars, historyVars>>

Close ==
  /\ ~closed
  /\ closed' = TRUE
  /\ sessionCache' = {}
  /\ UNCHANGED <<yolo, rules, file, pc, decisionVars, busVars, uiVars,
                 historyVars>>

CloseBus ==
  /\ ~busClosed
  /\ busClosed' = TRUE
  /\ UNCHANGED <<engineVars, file, pc, decisionVars, subscribed, replies,
                 uiChan, uiVars, historyVars>>

(* The program ends, in whatever way, and is started again: New builds the *)
(* matcher from the stored rules.  (A file that does not parse, or that    *)
(* somebody gave an invalid pattern, stops the start; here the engine      *)
(* alone writes it, whole.)                                                *)
Restart ==
  /\ restarts < MaxRestarts
  /\ restarts' = restarts + 1
  /\ closed' = FALSE
  /\ yolo' \in BOOLEAN
  /\ sessionCache' = {}
  /\ rules' = file
  /\ pc' = [a \in Asks |-> IF InFlight(a) THEN "failed" ELSE pc[a]]
  /\ busClosed' = FALSE
  /\ subscribed' = {}
  /\ replies' = [a \in Asks |-> <<>>]
  /\ uiChan' = <<>>
  /\ pendingPerms' = <<>>
  /\ outbox' = {}
  /\ UNCHANGED <<file, decisionVars, userSaid, covered, born>>

-----------------------------------------------------------------------------
AskStep(a) ==
  \/ LookupSession(a)
  \/ AskSubscribe(a)
  \/ AskPublish(a)
  \/ AskBusClosed(a)
  \/ AskSkipsReply(a)
  \/ AskReceives(a)
  \/ LoadProjectAllowRules(a)
  \/ SaveProjectPermissions(a)
  \/ StoreSession(a)

Next ==
  \/ \E a \in Asks : Ask(a) \/ AskStep(a) \/ Cancel(a)
  \/ UIReceives
  \/ \E x \in Answers : HandleModalKey(x)
  \/ \E r \in outbox : PublishReply(r)
  \/ SetYolo
  \/ Close
  \/ CloseBus
  \/ Restart

Spec == Init /\ [][Next]_vars

(* Fairness: the goroutines of the Asks, of the UI's program loop and of   *)
(* its commands run.  Nothing obliges the user, a caller or a shutdown.    *)
Fairness ==
  /\ \A a \in Asks : WF_vars(AskStep(a))
  /\ WF_vars(UIReceives)
  /\ WF_vars(\E r \in outbox : PublishReply(r))

FairSpec == Spec /\ Fairness

(* ... and a user who answers whatever is shown.                           *)
AttentiveSpec == FairSpec /\ WF_vars(\E x \in Answers : HandleModalKey(x))

-----------------------------------------------------------------------------
(* The types of the state; only an ask that waits, or is about to publish, *)
(* is subscribed (Unsubscribe is deferred), and no buffer is overfull.     *)
TypeOK ==
  /\ closed \in BOOLEAN
  /\ yolo \in BOOLEAN
  /\ sessionCache \subseteq Patterns
  /\ rules \subseteq Patterns
  /\ file \subseteq Patterns
  /\ pc \in [Asks -> {"new", "lookup", "subscribe", "publish", "wait", "load",
                      "save", "store"} \cup Returned]
  /\ reason \in [Asks -> {"none", "hard deny", "yolo mode", "rule", "cache",
                          "user reply"}]
  /\ pattern \in [Asks -> Patterns \cup {{}}]
  /\ base \in [Asks -> SUBSET Patterns]
  /\ busClosed \in BOOLEAN
  /\ subscribed \subseteq {a \in Asks : pc[a] \in {"publish", "wait"}}
  /\ replies \in [Asks -> Seq([id : Asks, answer : Answers])]
  /\ \A a \in Asks : Len(replies[a]) <= ReplyBuffer
  /\ uiChan \in Seq(Asks)
  /\ Len(uiChan) <= UIBuffer
  /\ pendingPerms \in Seq(Asks)
  /\ outbox \subseteq [id : Asks, answer : Answers]
  /\ userSaid \in [Asks -> Answers \cup {"none"}]
  /\ covered \in [Asks -> BOOLEAN]
  /\ born \in [Asks -> 0..MaxRestarts]
  /\ restarts \in 0..MaxRestarts

(* What the user answered to one request never decides another: an Ask     *)
(* that the user decided returns what was said to it, although every Ask   *)
(* sees every reply.                                                       *)
OwnReplyDecides ==
  \A a \in Asks :
    reason[a] = "user reply" =>
      \/ pc[a] = "denied" /\ userSaid[a] = "deny"
      \/ pc[a] = "allowed" /\ userSaid[a] \in {"once", "session", "always"}

(* The user's answer to b is an approval of one of the scopes that covers  *)
(* what a asks for.                                                        *)
Grants(b, a, scopes) == userSaid[b] \in scopes /\ Target[a] \in pattern[b]

(* Why an Ask may be allowed.                                              *)
Cause(a) ==
  \/ reason[a] = "yolo mode"
  \/ reason[a] = "user reply" /\ userSaid[a] # "deny"
  \/ /\ reason[a] = "cache"
     /\ \E b \in Asks : born[b] = born[a] /\ Grants(b, a, {"session", "always"})
  \/ /\ reason[a] = "rule"
     /\ \/ Default[Target[a]] = "allow"
        \/ \E b \in Asks : born[b] < born[a] /\ Grants(b, a, {"always"})

(* Nothing is allowed without a cause: a default, yolo, the user's answer  *)
(* to this request, or an approval of this process or a permanent one of   *)
(* an earlier process whose pattern covers the target.  And no cause is    *)
(* good enough for a hard-denied target.                                   *)
AllowedForACause ==
  \A a \in Asks :
    pc[a] = "allowed" => Target[a] \notin HardDenied /\ Cause(a)

(* The user is not asked again for what an approval that has taken effect  *)
(* covers, as long as the engine is open.                                  *)
CoveredIsNotAsked ==
  \A a \in Asks :
    covered[a] /\ InFlight(a) /\ ~closed => pc[a] = "lookup"

(* A closed engine keeps no approval, although Asks that were waiting when *)
(* it closed still get their replies.                                      *)
ClosedForgets == closed => sessionCache = {}

(* "Always approvals are persisted for future processes": the rule of an   *)
(* Ask that was allowed for always stays in the file.                      *)
AlwaysIsPersisted ==
  \A a \in Asks :
    pc[a] = "allowed" /\ reason[a] = "user reply" /\ userSaid[a] = "always"
      => pattern[a] \in file

(* The UI was never shown the request of an Ask that waits for its answer: *)
(* the buffer of its subscription was full.                                *)
Dropped(a) ==
  /\ pc[a] = "wait"
  /\ userSaid[a] = "none"
  /\ \A i \in DOMAIN uiChan : uiChan[i] # a
  /\ \A i \in DOMAIN pendingPerms : pendingPerms[i] # a

(* With an attentive user no Ask waits for ever unless its request was     *)
(* dropped: what reaches the UI is shown, and the reply finds the Ask,     *)
(* which has subscribed before it asked.                                   *)
AskIsAnswered == \A a \in Asks : pc[a] = "wait" ~> pc[a] # "wait" \/ Dropped(a)

(* "Closing the engine cancels all pending Asks" (the package comment).    *)
CloseCancelsAsks ==
  \A a \in Asks : closed /\ pc[a] = "wait" ~> pc[a] # "wait"
=============================================================================
