---------------------------- MODULE SessionStore ----------------------------
(***************************************************************************)
(* The conversation as the store keeps it (src/internal/store: sessions,   *)
(* messages and compaction markers), with the agent's Compact and the      *)
(* accounting of recordUsage (src/internal/agent/cost.go) on top of it.    *)
(*                                                                         *)
(* The store has one connection, so a statement or a transaction is one    *)
(* step.  AppendMessage is three: it takes the message's id from the       *)
(* process-wide ULID source, then looks at the clock, then inserts.  Ids   *)
(* are therefore ordered by when they were taken and rows appear later, in *)
(* any order when several goroutines append to a session (a turn's tools   *)
(* do); cut-offs (fork points, markers) compare ids, listings sort by time.*)
(*                                                                         *)
(* A fork inherits its parent's messages up to the fork message; a         *)
(* sub-agent's session has a parent and no fork message, and inherits      *)
(* nothing.                                                                *)
(***************************************************************************)
EXTENDS Integers, FiniteSets, FiniteSetsExt

CONSTANTS
  SessionIds,    \* sessions that may be created in a run
  Root,          \* the first of them
  None,          \* no session
  Writers,       \* goroutines that append messages
  Compactors,    \* goroutines that call Compact
  MaxForkDepth,  \* store.MaxForkDepth
  MinToCompact,  \* the least number of messages Compact accepts
  Faults,        \* statements may fail and the process may crash
  MaxMessages,   \* bound: message ids taken
  MaxRows,       \* bound: sessions and message ids taken, together
  MaxClock,      \* bound: the clock's last value
  MaxMarkers     \* bound: markers stored

ASSUME RootAssumption == Root \in SessionIds /\ None \notin SessionIds
ASSUME FiniteAssumption == IsFiniteSet(SessionIds) /\ IsFiniteSet(Writers)
ASSUME DepthAssumption == MaxForkDepth \in Nat \ {0} /\ MinToCompact \in Nat \ {0}
ASSUME FlagsAssumption == Faults \in BOOLEAN
ASSUME BoundsAssumption == {MaxMessages, MaxRows, MaxClock, MaxMarkers} \subseteq Nat

VARIABLES
  sessions,    \* sessions in the store
  parent,      \* sessions.parent_id
  fork,        \* sessions.fork_message_id (0: NULL)
  total,       \* sessions.total_..._tokens; a message costs one
  messages,    \* rows of the messages table
  markers,     \* rows of compaction_markers, per session
  lastID,      \* the last id the ULID source has given to a message
  clock,       \* time.Now() in milliseconds, when it was last read
  writer,      \* where each writer is in AppendMessage and recordUsage
  row,         \* the row a writer has in hand
  compacting,  \* the session each compactor holds the lock of
  loaded,      \* the messages a compactor has loaded and is summarising
  summarised,  \* history: the messages covered by a stored summary
  atFork,      \* history: what the parent showed when a fork was made
  late         \* history: the messages that came into a session when it
               \* already showed one of a greater id

treeVars == <<sessions, parent, fork>>
clockVars == <<lastID, clock>>
writeVars == <<writer, row>>
compactVars == <<compacting, loaded>>
historyVars == <<summarised, atFork, late>>
vars == <<treeVars, total, messages, markers, clockVars, writeVars,
          compactVars, historyVars>>

Messages == [id : 1..MaxMessages, session : SessionIds, at : 0..MaxClock]
NoRow == [id |-> 0, session |-> None, at |-> 0]

Init ==
  /\ sessions = {Root}
  /\ parent = [s \in SessionIds |-> None]
  /\ fork = [s \in SessionIds |-> 0]
  /\ total = [s \in SessionIds |-> 0]
  /\ messages = {}
  /\ markers = [s \in SessionIds |-> {}]
  /\ lastID = 0
  /\ clock = 0
  /\ writer = [w \in Writers |-> "idle"]
  /\ row = [w \in Writers |-> NoRow]
  /\ compacting = [k \in Compactors |-> None]
  /\ loaded = [k \in Compactors |-> {}]
  /\ summarised = [s \in SessionIds |-> {}]
  /\ atFork = [s \in SessionIds |-> {}]
  /\ late = [s \in SessionIds |-> {}]

-----------------------------------------------------------------------------
(* Reading                                                                 *)

(* forkChainCTE, unrolled to a depth: each ancestor with its cut-off (0:   *)
(* NULL, no upper bound).                                                  *)
ForkChain(s, depth) ==
  LET Up(a) ==
        IF a.session # None /\ fork[a.session] # 0
        THEN [session |-> parent[a.session], cutoff |-> fork[a.session]]
        ELSE [session |-> None, cutoff |-> 0]
      chain[d \in 0..depth] ==
        IF d = 0 THEN [session |-> s, cutoff |-> 0] ELSE Up(chain[d - 1])
  IN chain

CutoffIgnored(m, a) == m.session = a.session        \* mutant
UpToCutoff(m, a) ==
  m.session = a.session /\ (a.cutoff = 0 \/ m.id <= a.cutoff)

ForkAncestors(s, depth) ==
  LET chain == ForkChain(s, depth) IN {chain[d] : d \in 0..depth}

VisibleWithin(s, depth) ==
  LET ancestors == ForkAncestors(s, depth)
  IN {m \in messages : \E a \in ancestors : UpToCutoff(m, a)}

(* checkForkChainDepth                                                     *)
TooDeep(s) ==
  LET deepest == ForkChain(s, MaxForkDepth)[MaxForkDepth].session
  IN deepest # None /\ parent[deepest] # None

MessagesForSession(s) == VisibleWithin(s, MaxForkDepth)

(* ORDER BY created_at, id                                                 *)
Before(m, n) == m.at < n.at \/ (m.at = n.at /\ m.id < n.id)
Latest(rows) == CHOOSE m \in rows : \A n \in rows \ {m} : Before(n, m)

Cursor(s) == IF markers[s] = {} THEN 0 ELSE Latest(markers[s]).before

AfterOrAtCursor(m, cursor) == m.id >= cursor        \* mutant
AfterCursor(m, cursor) == m.id > cursor

MessagesSinceLatestMarker(s) ==
  LET cursor == Cursor(s)
  IN {m \in MessagesForSession(s) : AfterCursor(m, cursor)}

Ids(rows) == {m.id : m \in rows}

-----------------------------------------------------------------------------
(* Sessions                                                                *)

RoomForARow == Cardinality(sessions) + lastID < MaxRows

CreateSession(s, p, m) ==
  /\ RoomForARow
  /\ sessions' = sessions \cup {s}
  /\ parent' = [parent EXCEPT ![s] = p]
  /\ fork' = [fork EXCEPT ![s] = m]
  /\ UNCHANGED <<total, messages, markers, clockVars, writeVars, compactVars,
                 summarised, late>>

CreateSubagentSession(s, p) ==
  /\ CreateSession(s, p, 0)
  /\ UNCHANGED atFork

(* The message need only exist; the caller picks it from what the parent   *)
(* session shows, its own or inherited (the UI: its own).                  *)
ForkSession(s, p, m) ==
  /\ CreateSession(s, p, m.id)
  /\ m \in VisibleWithin(p, Cardinality(SessionIds))
  /\ atFork' = [atFork EXCEPT ![s] =
       Ids(VisibleWithin(p, Cardinality(SessionIds)))]

-----------------------------------------------------------------------------
(* AppendMessage                                                           *)

(* time.Now(): it may have advanced since it was last read, or not.        *)
ReadsClock == clock' \in clock..MaxClock

NewMessageID(w, s) ==
  /\ writer[w] = "idle"
  /\ lastID < MaxMessages /\ RoomForARow
  /\ lastID' = lastID + 1
  /\ row' = [row EXCEPT ![w] = [NoRow EXCEPT !.id = lastID + 1, !.session = s]]
  /\ writer' = [writer EXCEPT ![w] = "stamp"]
  /\ UNCHANGED <<treeVars, total, messages, markers, clock, compactVars,
                 historyVars>>

StampMessage(w) ==
  /\ writer[w] = "stamp"
  /\ ReadsClock
  /\ row' = [row EXCEPT ![w].at = clock']
  /\ writer' = [writer EXCEPT ![w] = "insert"]
  /\ UNCHANGED <<treeVars, total, messages, markers, lastID, compactVars,
                 historyVars>>

ArrivesLate(m, s) ==
  /\ \E a \in ForkAncestors(s, MaxForkDepth) : UpToCutoff(m, a)
  /\ \E n \in MessagesForSession(s) : m.id < n.id

InsertMessage(w) ==
  /\ writer[w] = "insert"
  /\ \/ /\ messages' = messages \cup {row[w]}
        /\ late' = [s \in SessionIds |->
             IF ArrivesLate(row[w], s) THEN late[s] \cup {row[w].id} ELSE late[s]]
        /\ writer' = [writer EXCEPT ![w] = "propagate"]
        /\ UNCHANGED row
     \/ /\ Faults
        /\ writer' = [writer EXCEPT ![w] = "idle"]
        /\ row' = [row EXCEPT ![w] = NoRow]
        /\ UNCHANGED <<messages, late>>
  /\ UNCHANGED <<treeVars, total, markers, clockVars, compactVars, summarised,
                 atFork>>

-----------------------------------------------------------------------------
(* recordUsage                                                             *)

(* The parent chain, forks and sub-agents alike (the cap of 32 hops is     *)
(* beyond any bound used here).                                            *)
Lineage(s) ==
  LET chain[d \in 0..Cardinality(SessionIds)] ==
        IF d = 0 THEN s
        ELSE IF chain[d - 1] = None THEN None ELSE parent[chain[d - 1]]
  IN {chain[d] : d \in DOMAIN chain} \ {None}

Charged(s) == Lineage(s)

Charge(S) == total' = [s \in SessionIds |-> IF s \in S THEN total[s] + 1
                                            ELSE total[s]]

(* mutant: the failed transaction of PropagateTotals was not rolled back.  *)
FallbackOnTop(s) ==
  total' = [t \in SessionIds |-> CASE t = s -> total[t] + 2
                                   [] t \in Lineage(s) -> total[t] + 1
                                   [] OTHER -> total[t]]
UpdateSessionTotals(s) == Charge({s})

(* PropagateTotals, else UpdateSessionTotals, else a log line.             *)
RecordUsage(w) ==
  /\ writer[w] = "propagate"
  /\ \/ Charge(Charged(row[w].session))
     \/ Faults /\ UpdateSessionTotals(row[w].session)
     \/ Faults /\ UNCHANGED total
  /\ writer' = [writer EXCEPT ![w] = "idle"]
  /\ row' = [row EXCEPT ![w] = NoRow]
  /\ UNCHANGED <<treeVars, messages, markers, clockVars, compactVars,
                 historyVars>>

-----------------------------------------------------------------------------
(* Compact, under the session's lock: load, summarise, store the marker.   *)

NoLock(s) == TRUE                                   \* mutant
LockFree(s) == \A k \in Compactors : compacting[k] # s

CompactLoads(k, s) ==
  /\ compacting[k] = None
  /\ LockFree(s)
  /\ ~TooDeep(s)
  /\ Cardinality(MessagesSinceLatestMarker(s)) >= MinToCompact
  /\ compacting' = [compacting EXCEPT ![k] = s]
  /\ loaded' = [loaded EXCEPT ![k] = MessagesSinceLatestMarker(s)]
  /\ UNCHANGED <<treeVars, total, messages, markers, clockVars, writeVars,
                 historyVars>>

CompactReturns(k) ==
  /\ compacting' = [compacting EXCEPT ![k] = None]
  /\ loaded' = [loaded EXCEPT ![k] = {}]

LastTaken(k) == lastID                              \* mutant
BeforeMessageID(k) == Latest(loaded[k]).id

AddCompactionMarker(k) ==
  LET s == compacting[k] IN
  /\ s # None
  /\ MapThenSumSet(LAMBDA t : Cardinality(markers[t]), sessions) < MaxMarkers
  /\ ReadsClock
  /\ markers' = [markers EXCEPT ![s] = @ \cup
       {[id |-> Cardinality(markers[s]) + 1, at |-> clock',
         before |-> BeforeMessageID(k)]}]
  /\ summarised' = [summarised EXCEPT ![s] = @ \cup Ids(loaded[k])]
  /\ CompactReturns(k)
  /\ UNCHANGED <<treeVars, total, messages, lastID, writeVars, atFork, late>>

(* The provider failed, or the insert.                                     *)
CompactFails(k) ==
  /\ compacting[k] # None
  /\ CompactReturns(k)
  /\ UNCHANGED <<treeVars, total, messages, markers, clockVars, writeVars,
                 historyVars>>

-----------------------------------------------------------------------------
Crash ==
  /\ Faults
  /\ \/ \E w \in Writers : writer[w] # "idle"
     \/ \E k \in Compactors : compacting[k] # None
  /\ writer' = [w \in Writers |-> "idle"]
  /\ row' = [w \in Writers |-> NoRow]
  /\ compacting' = [k \in Compactors |-> None]
  /\ loaded' = [k \in Compactors |-> {}]
  /\ UNCHANGED <<treeVars, total, messages, markers, clockVars, historyVars>>

Next ==
  \/ \E s \in SessionIds \ sessions, p \in sessions :
       \/ CreateSubagentSession(s, p)
       \/ \E m \in messages : ForkSession(s, p, m)
  \/ \E w \in Writers, s \in sessions : NewMessageID(w, s)
  \/ \E w \in Writers : StampMessage(w) \/ InsertMessage(w) \/ RecordUsage(w)
  \/ \E k \in Compactors, s \in sessions : CompactLoads(k, s)
  \/ \E k \in Compactors : AddCompactionMarker(k) \/ CompactFails(k)
  \/ Crash

Spec == Init /\ [][Next]_vars

-----------------------------------------------------------------------------
(* The types of the state; a session's total never exceeds what has been   *)
(* written, and only sessions that have a parent are forks.                *)
TypeOK ==
  /\ Root \in sessions /\ sessions \subseteq SessionIds
  /\ parent \in [SessionIds -> sessions \cup {None}]
  /\ fork \in [SessionIds -> 0..MaxMessages]
  /\ \A s \in SessionIds : fork[s] # 0 => parent[s] # None
  /\ total \in [SessionIds -> 0..MaxMessages]
  /\ messages \subseteq Messages
  /\ markers \in [SessionIds -> SUBSET [id : Nat, at : 0..MaxClock,
                                        before : 1..MaxMessages]]
  /\ lastID \in 0..MaxMessages
  /\ clock \in 0..MaxClock
  /\ writer \in [Writers -> {"idle", "stamp", "insert", "propagate"}]
  /\ row \in [Writers -> Messages \cup {NoRow}]
  /\ compacting \in [Compactors -> sessions \cup {None}]
  /\ loaded \in [Compactors -> SUBSET messages]
  /\ summarised \in [SessionIds -> SUBSET Ids(messages)]
  /\ atFork \in [SessionIds -> SUBSET Ids(messages)]
  /\ late \in [SessionIds -> SUBSET Ids(messages)]

(* A fork shows what its parent showed up to the fork message when it was  *)
(* made: nothing less because the chain is long, and nothing the parent,   *)
(* or the parent's parent, goes on to say, but for rows that were given an *)
(* id before the fork and inserted after it.  A fork at a message that the *)
(* parent had itself inherited shows all that the parent had inherited.    *)
ForkInheritsPrefix ==
  \A s \in sessions :
    fork[s] # 0 /\ ~TooDeep(s) =>
      LET inherited == Ids({m \in MessagesForSession(s) : m.session # s})
          prefix == {i \in atFork[s] : i <= fork[s]}
          own == \E m \in messages : m.id = fork[s] /\ m.session = parent[s]
      IN /\ prefix \subseteq inherited
         /\ inherited \ late[s] \subseteq IF own THEN prefix ELSE atFork[s]

(* Compaction forgets nothing and repeats nothing: a message of a session  *)
(* is in a stored summary or in what is sent after the latest marker, and  *)
(* in one of them only, however turns, goroutines and compactions overlap. *)
(* Forgotten is only a row inserted when the session already showed a      *)
(* greater id; repeated only one whose id and time disagree with another's.*)
SummarisedOrSent ==
  \A s \in sessions :
    LET sent == Ids(MessagesSinceLatestMarker(s))
    IN \A m \in MessagesForSession(s) :
         /\ m.id \notin late[s] => m.id \in summarised[s] \cup sent
         /\ m.id \in summarised[s] \cap sent =>
              \E n \in MessagesForSession(s) : n.id < m.id /\ m.at < n.at

(* A later compaction never moves the start of the context back.           *)
CursorNeverGoesBack == [][\A s \in SessionIds : Cursor(s) <= Cursor(s)']_vars

(* What a session and all its descendants spent is counted at most once at *)
(* every level: usage still in hand has not been, and a failed propagation *)
(* with its fallback, or a crash, may lose some and never counts any twice.*)
TotalsAddUp ==
  LET above == [t \in sessions |-> Lineage(t)] IN
  \A s \in sessions :
    LET spent == {m \in messages : s \in above[m.session]}
        inHand == {w \in Writers : /\ writer[w] = "propagate"
                                   /\ s \in above[row[w].session]}
    IN total[s] + Cardinality(inHand) <= Cardinality(spent)

(* The depth error means that the chain goes on ("would have continued     *)
(* recursing if the cap weren't enforced").                                *)
TooDeepMeansDeeper ==
  \A s \in sessions :
    TooDeep(s) => ForkChain(s, MaxForkDepth + 1)[MaxForkDepth + 1].session # None

(* A fork sees "the parent's history up to and including forkAtMessageID   *)
(* (exclusive of any subsequent messages)" (src/internal/store/            *)
(* sessions.go:419-421), whatever message was given and whatever comes in  *)
(* later.                                                                  *)
ForkIsExactPrefix ==
  \A s \in sessions :
    fork[s] # 0 /\ ~TooDeep(s) =>
      Ids({m \in MessagesForSession(s) : m.session # s})
        = {i \in atFork[s] : i <= fork[s]}

(* Every message is either summarised or sent: an id beyond the marker's   *)
(* "is equivalent to created strictly after the message at the cut-off"    *)
(* (src/internal/store/messages.go:336-338).                               *)
EachMessageOnce ==
  \A s \in sessions :
    LET sent == Ids(MessagesSinceLatestMarker(s))
    IN \A m \in MessagesForSession(s) :
         (m.id \in summarised[s]) # (m.id \in sent)
=============================================================================
