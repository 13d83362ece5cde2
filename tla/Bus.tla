--------------------------------- MODULE Bus ---------------------------------
(***************************************************************************)
(* The in-process typed event bus (src/internal/bus/bus.go).               *)
(*                                                                         *)
(* The bus keeps, per event type, a slice of subscriber entries guarded by *)
(* bus.mu.  Every entry owns a bounded channel and an RWMutex: publishers  *)
(* send under the read lock, whoever closes the channel holds the write    *)
(* lock.  Publish copies the slice under bus.mu and sends after releasing  *)
(* it, so a publisher may hold a snapshot that names entries which have    *)
(* since been unsubscribed, or a bus which has since been closed.          *)
(*                                                                         *)
(* A critical section of bus.mu is one step.  What happens under an        *)
(* entry's lock is split into steps, because other goroutines interleave   *)
(* there: several publishers hold the read lock of one entry together.     *)
(***************************************************************************)
EXTENDS Integers, Sequences, Functions

CONSTANTS
  Types,       \* event types (reflect.Type keys of Bus.subs)
  Subs,        \* subscriptions that may be made in a run, one entry each
  TypeOf,      \* [Subs -> Types]: the T of Subscribe[T]
  NoSub,       \* not a subscription: nothing in hand
  Publishers,  \* goroutines that call Publish
  Closers,     \* goroutines that call Bus.Close
  BufferSize,  \* channel buffer of a subscription
  MaxPublish   \* bound: calls of Publish per publisher

ASSUME TypesAssumption == Types # {}
ASSUME TypeOfAssumption == TypeOf \in [Subs -> Types]
ASSUME NoSubAssumption == NoSub \notin Subs
ASSUME BufferAssumption == BufferSize \in Nat \ {0}
ASSUME BoundAssumption == MaxPublish \in Nat
ASSUME DisjointAssumption == Subs \cap Closers = {}

VARIABLES
  closed,      \* Bus.closed
  subs,        \* Bus.subs: the slice of entries per type
  subscribed,  \* subscriptions whose Subscribe call has returned
  isClosed,    \* subscriberEntry.isClosed
  chClosed,    \* the entry's channel has been closed
  chan,        \* the channel's buffered events
  dropped,     \* subscriberEntry.dropped
  readers,     \* publishers holding the entry's read lock
  writer,      \* the entry's write lock is held
  pc,          \* where a publisher is in Publish
  snapshot,    \* the part of Publish's snapshot still to be sent to
  event,       \* the event being published
  prevDrops,   \* Publish's local prevDrops
  delivered,   \* Publish's local (and, when idle, returned) count
  enqueued,    \* history: entries that accepted the publisher's event
  closing,     \* entries a closing goroutine has taken out of the map
  target,      \* the entry a closing goroutine has in hand
  cpc,         \* where a closing goroutine is
  received     \* history: last event number received per publisher

busVars == <<closed, subs, subscribed>>
entryVars == <<isClosed, chClosed, chan, dropped>>
lockVars == <<readers, writer>>
pubVars == <<pc, snapshot, event, prevDrops, delivered, enqueued>>
closeVars == <<closing, target, cpc>>
vars == <<busVars, entryVars, lockVars, pubVars, closeVars, received>>

(* A goroutine that closes channels is a caller of Bus.Close or the caller *)
(* of Unsubscribe on one subscription (sync.Once admits one per handle).   *)
Closing == Closers \cup Subs

(* An event carries its publisher and that publisher's call number.        *)
Events == [by : Publishers, n : 0..MaxPublish, type : Types]

Init ==
  /\ closed = FALSE
  /\ subs = [t \in Types |-> <<>>]
  /\ subscribed = {}
  /\ isClosed = [s \in Subs |-> FALSE]
  /\ chClosed = [s \in Subs |-> FALSE]
  /\ chan = [s \in Subs |-> <<>>]
  /\ dropped = [s \in Subs |-> 0]
  /\ readers = [s \in Subs |-> {}]
  /\ writer = [s \in Subs |-> FALSE]
  /\ pc = [p \in Publishers |-> "idle"]
  /\ snapshot = [p \in Publishers |-> <<>>]
  /\ event = [p \in Publishers |->
                [by |-> p, n |-> 0, type |-> CHOOSE t \in Types : TRUE]]
  /\ prevDrops = [p \in Publishers |-> 0]
  /\ delivered = [p \in Publishers |-> 0]
  /\ enqueued = [p \in Publishers |-> 0]
  /\ closing = [k \in Closing |-> {}]
  /\ target = [k \in Closing |-> NoSub]
  /\ cpc = [k \in Closing |-> "idle"]
  /\ received = [s \in Subs |-> [p \in Publishers |-> 0]]

-----------------------------------------------------------------------------
(* Subscribe: a closed bus hands out an already closed channel and does    *)
(* not register the entry (nor set its isClosed).                          *)

RegistersAlways == TRUE     \* mutant: the closed test is missing
Registers == ~closed

Subscribe(s) ==
  /\ s \notin subscribed
  /\ subscribed' = subscribed \cup {s}
  /\ \/ /\ ~Registers
        /\ chClosed' = [chClosed EXCEPT ![s] = TRUE]
        /\ UNCHANGED subs
     \/ /\ Registers
        /\ subs' = [subs EXCEPT ![TypeOf[s]] = Append(@, s)]
        /\ UNCHANGED chClosed
  /\ UNCHANGED <<closed, isClosed, chan, dropped, lockVars, pubVars,
                 closeVars, received>>

-----------------------------------------------------------------------------
(* Publish                                                                 *)

PublishSnapshot(p, t) ==
  /\ pc[p] = "idle"
  /\ event[p].n < MaxPublish
  /\ event' = [event EXCEPT ![p] = [by |-> p, n |-> @.n + 1, type |-> t]]
  /\ delivered' = [delivered EXCEPT ![p] = 0]
  /\ enqueued' = [enqueued EXCEPT ![p] = 0]
  /\ \/ /\ closed \/ subs[t] = <<>>
        /\ UNCHANGED <<pc, snapshot>>
     \/ /\ ~closed
        /\ subs[t] # <<>>
        /\ snapshot' = [snapshot EXCEPT ![p] = subs[t]]
        /\ pc' = [pc EXCEPT ![p] = "rlock"]
  /\ UNCHANGED <<busVars, entryVars, lockVars, prevDrops, closeVars, received>>

(* A goroutine waiting for the write lock keeps new readers out.           *)
WriterWaits(s) == \E k \in Closing : cpc[k] = "lock" /\ target[k] = s
CanRLock(s) == ~writer[s] /\ ~WriterWaits(s)

(* RLock, the isClosed test and the read of prevDrops.                     *)
PublishRLock(p) ==
  LET s == Head(snapshot[p]) IN
  /\ pc[p] = "rlock"
  /\ CanRLock(s)
  /\ readers' = [readers EXCEPT ![s] = @ \cup {p}]
  /\ \/ /\ isClosed[s]
        /\ pc' = [pc EXCEPT ![p] = "runlock"]
        /\ UNCHANGED prevDrops
     \/ /\ ~isClosed[s]
        /\ prevDrops' = [prevDrops EXCEPT ![p] = dropped[s]]
        /\ pc' = [pc EXCEPT ![p] = "send"]
  /\ UNCHANGED <<busVars, entryVars, writer, snapshot, event, delivered,
                 enqueued, closeVars, received>>

HasRoom(s) == Len(chan[s]) < BufferSize

SelectWithoutDefault(s) == FALSE                    \* mutant: a blocking send
TakesDefault(s) == ~HasRoom(s)

(* mutant: every send in a goroutine of its own; the newest runs first.    *)
SendOvertakes(p, s) == <<event[p]>> \o chan[s]
Enqueue(p, s) == Append(chan[s], event[p])

(* entry.send: a non-blocking channel send that counts the drop.           *)
PublishSend(p) ==
  LET s == Head(snapshot[p]) IN
  /\ pc[p] = "send"
  /\ \/ /\ HasRoom(s)
        /\ chan' = [chan EXCEPT ![s] = Enqueue(p, s)]
        /\ enqueued' = [enqueued EXCEPT ![p] = @ + 1]
        /\ UNCHANGED dropped
     \/ /\ TakesDefault(s)
        /\ dropped' = [dropped EXCEPT ![s] = @ + 1]
        /\ UNCHANGED <<chan, enqueued>>
  /\ pc' = [pc EXCEPT ![p] = "count"]
  /\ UNCHANGED <<busVars, isClosed, chClosed, lockVars, snapshot, event,
                 prevDrops, delivered, closeVars, received>>

CountsAsDelivered(p, s) == dropped[s] = prevDrops[p]

PublishCount(p) ==
  LET s == Head(snapshot[p]) IN
  /\ pc[p] = "count"
  /\ delivered' = [delivered EXCEPT
                     ![p] = IF CountsAsDelivered(p, s) THEN @ + 1 ELSE @]
  /\ pc' = [pc EXCEPT ![p] = "runlock"]
  /\ UNCHANGED <<busVars, entryVars, lockVars, snapshot, event, prevDrops,
                 enqueued, closeVars, received>>

RemainingEntries(p) == Tail(snapshot[p])

ReadersKept(p, s) == readers[s]                     \* mutant: no RUnlock
ReadersWithout(p, s) == readers[s] \ {p}

PublishRUnlock(p) ==
  LET s == Head(snapshot[p]) IN
  /\ pc[p] = "runlock"
  /\ readers' = [readers EXCEPT ![s] = ReadersWithout(p, s)]
  /\ snapshot' = [snapshot EXCEPT ![p] = RemainingEntries(p)]
  /\ pc' = [pc EXCEPT ![p] = IF RemainingEntries(p) = <<>>
                             THEN "idle" ELSE "rlock"]
  /\ UNCHANGED <<busVars, entryVars, writer, event, prevDrops, delivered,
                 enqueued, closeVars, received>>

-----------------------------------------------------------------------------
(* Unsubscribe and Close: both first take entries out of the map under     *)
(* bus.mu, then close each one under its own write lock.                   *)

(* entries[i] = entries[last]; entries[:last]                              *)
SwapRemove(seq, s) ==
  LET last == Len(seq)
      i == CHOOSE j \in 1..last : seq[j] = s
  IN SubSeq([seq EXCEPT ![i] = seq[last]], 1, last - 1)

UnsubscribeRemove(s) ==
  /\ s \in subscribed
  /\ cpc[s] = "idle"
  /\ \/ /\ s \in Range(subs[TypeOf[s]])
        /\ subs' = [subs EXCEPT ![TypeOf[s]] = SwapRemove(@, s)]
        /\ closing' = [closing EXCEPT ![s] = {s}]
        /\ cpc' = [cpc EXCEPT ![s] = "next"]
     \/ /\ s \notin Range(subs[TypeOf[s]])
        /\ cpc' = [cpc EXCEPT ![s] = "done"]
        /\ UNCHANGED <<subs, closing>>
  /\ UNCHANGED <<closed, subscribed, entryVars, lockVars, pubVars, target,
                 received>>

MapKeptOnClose == subs                              \* mutant
MapAfterClose == [t \in Types |-> <<>>]

CloseMark(k) ==
  /\ cpc[k] = "idle"
  /\ closed' = TRUE
  /\ \/ /\ closed
        /\ cpc' = [cpc EXCEPT ![k] = "done"]
        /\ UNCHANGED <<subs, closing>>
     \/ /\ ~closed
        /\ closing' = [closing EXCEPT ![k] = UNION {Range(subs[t]) : t \in Types}]
        /\ subs' = MapAfterClose
        /\ cpc' = [cpc EXCEPT ![k] = "next"]
  /\ UNCHANGED <<subscribed, entryVars, lockVars, pubVars, target, received>>

(* The loop over the collected entries (map order: any order).             *)
CloserNext(k) ==
  /\ cpc[k] = "next"
  /\ \/ /\ closing[k] = {}
        /\ cpc' = [cpc EXCEPT ![k] = "done"]
        /\ UNCHANGED target
     \/ \E s \in closing[k] :
          /\ target' = [target EXCEPT ![k] = s]
          /\ cpc' = [cpc EXCEPT ![k] = "lock"]
  /\ UNCHANGED <<busVars, entryVars, lockVars, pubVars, closing, received>>

CanLockPastReaders(s) == ~writer[s]                 \* mutant
CanLock(s) == readers[s] = {} /\ ~writer[s]

CloserLock(k) ==
  LET s == target[k] IN
  /\ cpc[k] = "lock"
  /\ CanLock(s)
  /\ writer' = [writer EXCEPT ![s] = TRUE]
  /\ cpc' = [cpc EXCEPT ![k] = "close"]
  /\ UNCHANGED <<busVars, entryVars, readers, pubVars, closing, target,
                 received>>

(* isClosed, closeFn and the unlock.                                       *)
CloserClose(k) ==
  LET s == target[k] IN
  /\ cpc[k] = "close"
  /\ isClosed' = [isClosed EXCEPT ![s] = TRUE]
  /\ chClosed' = [chClosed EXCEPT ![s] = TRUE]
  /\ writer' = [writer EXCEPT ![s] = FALSE]
  /\ closing' = [closing EXCEPT ![k] = @ \ {s}]
  /\ target' = [target EXCEPT ![k] = NoSub]
  /\ cpc' = [cpc EXCEPT ![k] = "next"]
  /\ UNCHANGED <<busVars, chan, dropped, readers, pubVars, received>>

-----------------------------------------------------------------------------
(* A subscriber receives from its channel (buffered events stay readable   *)
(* after the channel has been closed).                                     *)

Receive(s) ==
  /\ s \in subscribed
  /\ chan[s] # <<>>
  /\ received' = [received EXCEPT ![s][Head(chan[s]).by] = Head(chan[s]).n]
  /\ chan' = [chan EXCEPT ![s] = Tail(@)]
  /\ UNCHANGED <<busVars, isClosed, chClosed, dropped, lockVars, pubVars,
                 closeVars>>

-----------------------------------------------------------------------------
PublishStep(p) ==
  \/ PublishRLock(p)
  \/ PublishSend(p)
  \/ PublishCount(p)
  \/ PublishRUnlock(p)

CloserStep(k) == CloserNext(k) \/ CloserLock(k) \/ CloserClose(k)

Next ==
  \/ \E s \in Subs : Subscribe(s) \/ UnsubscribeRemove(s) \/ Receive(s)
  \/ \E p \in Publishers, t \in Types : PublishSnapshot(p, t)
  \/ \E p \in Publishers : PublishStep(p)
  \/ \E k \in Closers : CloseMark(k)
  \/ \E k \in Closing : CloserStep(k)

Spec == Init /\ [][Next]_vars

(* A goroutine inside Publish, Close or Unsubscribe keeps running: nothing *)
(* in them waits except for an entry's lock, which sync.RWMutex hands over *)
(* without starving either side.  Starting a call and receiving are the    *)
(* callers' business and carry no fairness.                                *)
Fairness ==
  /\ \A p \in Publishers : WF_vars(PublishStep(p))
  /\ \A k \in Closing : WF_vars(CloserStep(k))

FairSpec == Spec /\ Fairness

-----------------------------------------------------------------------------
(* The types of the state; no channel holds more than its buffer, because  *)
(* the send is a select with a default.                                    *)
TypeOK ==
  /\ closed \in BOOLEAN
  /\ subs \in [Types -> Seq(Subs)]
  /\ subscribed \subseteq Subs
  /\ isClosed \in [Subs -> BOOLEAN]
  /\ chClosed \in [Subs -> BOOLEAN]
  /\ chan \in [Subs -> Seq(Events)]
  /\ \A s \in Subs : Len(chan[s]) <= BufferSize
  /\ dropped \in [Subs -> Nat]
  /\ readers \in [Subs -> SUBSET Publishers]
  /\ writer \in [Subs -> BOOLEAN]
  /\ pc \in [Publishers -> {"idle", "rlock", "send", "count", "runlock"}]
  /\ snapshot \in [Publishers -> Seq(Subs)]
  /\ event \in [Publishers -> Events]
  /\ prevDrops \in [Publishers -> Nat]
  /\ delivered \in [Publishers -> Nat]
  /\ enqueued \in [Publishers -> Nat]
  /\ closing \in [Closing -> SUBSET Subs]
  /\ target \in [Closing -> Subs \cup {NoSub}]
  /\ cpc \in [Closing -> {"idle", "next", "lock", "close", "done"}]
  /\ received \in [Subs -> [Publishers -> Nat]]

(* No goroutine ever sends on a closed channel (a panic in Go): a          *)
(* publisher about to send holds an entry whose channel is still open,     *)
(* however its snapshot, an Unsubscribe and a Close interleaved.           *)
NoSendOnClosed ==
  \A p \in Publishers : pc[p] = "send" => ~chClosed[Head(snapshot[p])]

(* No channel is closed twice (also a panic): an entry in the hands of a   *)
(* closing goroutine is open, and in the hands of no other one.            *)
NoDoubleClose ==
  \A k \in Closing : \A s \in closing[k] :
    /\ ~chClosed[s]
    /\ \A j \in Closing \ {k} : s \notin closing[j]

(* Neither of the two panics a channel can raise.                          *)
NoPanic == NoSendOnClosed /\ NoDoubleClose

(* Nobody is left ranging over a channel that will never be closed: an     *)
(* open subscription is in the map of an open bus, where Close or          *)
(* Unsubscribe will find it, or in the hands of one that will close it.    *)
NoStrandedSubscriber ==
  \A s \in subscribed :
    \/ chClosed[s]
    \/ ~closed /\ s \in Range(subs[TypeOf[s]])
    \/ \E k \in Closing : s \in closing[k]

(* Each publisher's events reach a subscriber in the order it published    *)
(* them, and each at most once: drops leave gaps, never reorderings.       *)
PublisherOrder ==
  \A s \in Subs : \A i, j \in DOMAIN chan[s] :
    LET e == chan[s][i]  d == chan[s][j] IN
    /\ e.n > received[s][e.by]
    /\ e.by = d.by /\ i < j => e.n < d.n

(* Publish never reports more deliveries than it made.                     *)
NeverOvercounts == \A p \in Publishers : delivered[p] <= enqueued[p]

(* The count Publish returns is the number of subscribers the event was    *)
(* enqueued to, as its doc comment says.                                   *)
ExactCount ==
  \A p \in Publishers : pc[p] = "idle" => delivered[p] = enqueued[p]

(* A Publish that has begun returns: no slow subscriber, no concurrent     *)
(* Close or Unsubscribe keeps a publisher waiting for ever.                *)
PublishReturns == \A p \in Publishers : pc[p] # "idle" ~> pc[p] = "idle"

(* Once the bus is closed every subscription made so far, or made later,   *)
(* ends with a closed channel, so that every `for range sub.C()` loop of   *)
(* the program ends.                                                       *)
CloseReachesEveryone ==
  \A s \in Subs : closed /\ s \in subscribed ~> chClosed[s]
=============================================================================
