------------------------------ MODULE BusProofs ------------------------------
(***************************************************************************)
(* Proofs about Bus, for any number of types, subscriptions, publishers    *)
(* and closers, any buffer and any number of calls.                        *)
(*                                                                         *)
(* BusInv is inductive: who holds which lock (LockInv), who has to close   *)
(* which entry (HolderInv), what a publisher's snapshot may name (SnapInv) *)
(* and what it has counted (CountInv).  OrderInv, on top of it, is what    *)
(* each publisher's events have in common with its current one.            *)
(***************************************************************************)
EXTENDS Bus, SeqLemmas, TLAPS

(* The swap-removal of an element takes out that element and no other.     *)
LEMMA SwapRemoveRange ==
  ASSUME NEW S, NEW q \in Seq(S), IsInjective(q), NEW s \in Range(q)
  PROVE  /\ SwapRemove(q, s) \in Seq(S)
         /\ Range(SwapRemove(q, s)) = Range(q) \ {s}
         /\ IsInjective(SwapRemove(q, s))
<1> DEFINE last == Len(q)
           i == CHOOSE j \in 1..last : q[j] = s
           r == [q EXCEPT ![i] = q[last]]
<1>len. last \in Nat
  OBVIOUS
<1>1. last \in Nat \ {0} /\ DOMAIN q = 1..last /\ \A j \in 1..last : q[j] \in S
  BY DEF Range
<1>2. i \in 1..last /\ q[i] = s
  BY <1>1 DEF Range
<1>3. \A j \in 1..last : q[j] = s => j = i
  BY <1>1, <1>2 DEF IsInjective
<1>below. last \in 1..last /\ \A j \in 1..(last - 1) : j \in 1..last /\ j # last
  <2>1. last \in Nat \ {0}
    BY <1>1
  <2> HIDE DEF last
  <2> QED
    BY <2>1
<1>upto. \A j \in 1..last : j # last => j \in 1..(last - 1)
  <2> HIDE DEF last
  <2> QED
    BY <1>len
<1> HIDE DEF i, last
<1>4. /\ r \in Seq(S)
      /\ Len(r) = last
      /\ r[i] = q[last]
      /\ \A j \in 1..last : j # i => r[j] = q[j]
  BY <1>1, <1>2
<1> DEFINE w == SubSeq(r, 1, last - 1)
<1>5. /\ w \in Seq(S)
      /\ DOMAIN w = 1..(last - 1)
      /\ \A j \in 1..(last - 1) : w[j] = r[j]
  BY <1>1, <1>4
<1>6. SwapRemove(q, s) = w
  BY DEF SwapRemove, i, last
<1> HIDE DEF r, w
<1>7. ASSUME NEW x \in Range(w) PROVE x \in Range(q) \ {s}
  <2>1. PICK j \in 1..(last - 1) : x = r[j]
    BY <1>5, <1>7 DEF Range
  <2>2. j \in 1..last /\ last \in 1..last /\ j # last
    BY <1>below
  <2>3. CASE j = i
    BY <1>1, <1>2, <1>3, <1>4, <2>1, <2>2, <2>3 DEF Range
  <2>4. CASE j # i
    BY <1>1, <1>3, <1>4, <2>1, <2>2, <2>4 DEF Range
  <2> QED
    BY <2>3, <2>4
<1>8. ASSUME NEW x \in Range(q) \ {s} PROVE x \in Range(w)
  <2>1. PICK j \in 1..last : x = q[j]
    BY <1>1, <1>8 DEF Range
  <2>2. j # i
    BY <1>2, <1>8, <2>1
  <2>3. CASE j = last
    <3>1. i \in 1..(last - 1)
      BY <1>2, <1>upto, <2>2, <2>3
    <3> QED
      BY <1>4, <1>5, <2>1, <2>3, <3>1 DEF Range
  <2>4. CASE j # last
    <3>1. j \in 1..(last - 1)
      BY <1>upto, <2>4
    <3> QED
      BY <1>4, <1>5, <2>1, <2>2, <3>1 DEF Range
  <2> QED
    BY <2>3, <2>4
<1>9. IsInjective(w)
  <2> SUFFICES ASSUME NEW j \in 1..(last - 1), NEW k \in 1..(last - 1),
                      w[j] = w[k]
               PROVE  j = k
    BY <1>5 DEF IsInjective
  <2>1. j \in 1..last /\ k \in 1..last /\ last \in 1..last /\ j # last /\ k # last
    BY <1>below
  <2>2. r[j] = r[k]
    BY <1>5
  <2>3. \A m, n \in 1..last : q[m] = q[n] => m = n
    BY <1>1 DEF IsInjective
  <2> QED
    BY <1>4, <2>1, <2>2, <2>3
<1> QED
  BY <1>5, <1>6, <1>7, <1>8, <1>9

(* It yields a sequence of the same elements' type, whatever it is given.  *)
LEMMA SwapRemoveType ==
  ASSUME NEW S, NEW q \in Seq(S), NEW s \in Range(q)
  PROVE  SwapRemove(q, s) \in Seq(S)
<1> DEFINE last == Len(q)
           i == CHOOSE j \in 1..last : q[j] = s
           r == [q EXCEPT ![i] = q[last]]
<1>1. last \in Nat \ {0} /\ \A j \in 1..last : q[j] \in S
  BY DEF Range
<1>2. i \in 1..last
  BY DEF Range
<1> HIDE DEF i
<1>3. r \in Seq(S) /\ Len(r) = last
  BY <1>1, <1>2
<1>4. SubSeq(r, 1, last - 1) \in Seq(S)
  BY <1>1, <1>3
<1> QED
  BY <1>4 DEF SwapRemove, i

(* Popping the head adds no element.                                       *)
LEMMA TailRange ==
  ASSUME NEW S, NEW q \in Seq(S), q # << >>
  PROVE  Range(Tail(q)) \subseteq Range(q)
<1>1. /\ DOMAIN q = 1..Len(q)
      /\ DOMAIN Tail(q) = 1..(Len(q) - 1)
      /\ \A i \in 1..(Len(q) - 1) : Tail(q)[i] = q[i + 1] /\ i + 1 \in 1..Len(q)
  OBVIOUS
<1> QED
  BY <1>1 DEF Range

-----------------------------------------------------------------------------
(* Types.                                                                  *)

(* The variables have their types at the start.                            *)
LEMMA TypeInit == Init => TypeOK
<1> SUFFICES ASSUME Init PROVE TypeOK
  OBVIOUS
<1>1. (CHOOSE t \in Types : TRUE) \in Types
  BY TypesAssumption
<1>2. event \in [Publishers -> Events]
  BY <1>1, BoundAssumption DEF Init, Events
<1>3. /\ subs \in [Types -> Seq(Subs)]
      /\ snapshot \in [Publishers -> Seq(Subs)]
      /\ chan \in [Subs -> Seq(Events)]
  <2>1. << >> \in Seq(Subs) /\ << >> \in Seq(Events)
    OBVIOUS
  <2> QED
    BY <2>1 DEF Init
<1>4. \A s \in Subs : Len(chan[s]) <= BufferSize
  <2>1. Len(<< >>) = 0 /\ 0 <= BufferSize
    BY BufferAssumption
  <2> QED
    BY <2>1 DEF Init
<1>5. /\ prevDrops \in [Publishers -> Nat]
      /\ delivered \in [Publishers -> Nat]
      /\ enqueued \in [Publishers -> Nat]
      /\ dropped \in [Subs -> Nat]
      /\ received \in [Subs -> [Publishers -> Nat]]
  BY DEF Init
<1> QED
  BY <1>2, <1>3, <1>4, <1>5 DEF Init, TypeOK

(* A publisher inside Publish has an entry in hand.                        *)
InHand == \A p \in Publishers : pc[p] # "idle" => snapshot[p] # << >>

(* Every step keeps the variables' types, and no buffer grows beyond its   *)
(* size.                                                                   *)
LEMMA TypeStep == TypeOK /\ InHand /\ [Next]_vars => TypeOK'
<1> SUFFICES ASSUME TypeOK, InHand, [Next]_vars PROVE TypeOK'
  OBVIOUS
<1> USE TypeOfAssumption
<1> USE DEF TypeOK, busVars, entryVars, lockVars, pubVars, closeVars
<1>1. ASSUME NEW s \in Subs, Subscribe(s) PROVE TypeOK'
  <2>1. Append(subs[TypeOf[s]], s) \in Seq(Subs)
    OBVIOUS
  <2>2. subs' \in [Types -> Seq(Subs)]
    BY <1>1, <2>1 DEF Subscribe
  <2> QED
    BY <1>1, <2>2 DEF Subscribe
<1>2. ASSUME NEW p \in Publishers, NEW t \in Types, PublishSnapshot(p, t)
      PROVE  TypeOK'
  <2>1. [by |-> p, n |-> event[p].n + 1, type |-> t] \in Events
    <3>1. event[p].n \in 0..MaxPublish /\ event[p].n < MaxPublish
      BY <1>2 DEF PublishSnapshot, Events
    <3>2. event[p].n + 1 \in 0..MaxPublish
      BY <3>1, BoundAssumption
    <3> QED
      BY <3>2 DEF Events
  <2>2. event' \in [Publishers -> Events]
    BY <1>2, <2>1 DEF PublishSnapshot
  <2> QED
    BY <1>2, <2>2 DEF PublishSnapshot
<1>3. ASSUME NEW p \in Publishers, PublishStep(p) PROVE TypeOK'
  <2> DEFINE s == Head(snapshot[p])
  <2>1. pc[p] # "idle"
    BY <1>3 DEF PublishStep, PublishRLock, PublishSend, PublishCount,
                PublishRUnlock
  <2>2. s \in Subs /\ Tail(snapshot[p]) \in Seq(Subs)
    BY <2>1 DEF InHand
  <2>3. event[p] \in Events
    OBVIOUS
  <2> HIDE DEF s
  <2>4. CASE PublishRLock(p)
    <3>1. readers' \in [Subs -> SUBSET Publishers]
      BY <2>2, <2>4 DEF PublishRLock, s
    <3>2. prevDrops' \in [Publishers -> Nat]
      BY <2>2, <2>4 DEF PublishRLock, s
    <3>3. pc' \in [Publishers -> {"idle", "rlock", "send", "count", "runlock"}]
      BY <2>4 DEF PublishRLock
    <3> QED
      BY <2>4, <3>1, <3>2, <3>3 DEF PublishRLock
  <2>5. CASE PublishSend(p)
    <3>1. Append(chan[s], event[p]) \in Seq(Events)
      BY <2>2, <2>3
    <3>2. Len(Append(chan[s], event[p])) = Len(chan[s]) + 1
      BY <2>2
    <3>3. CASE HasRoom(s) /\ chan' = [chan EXCEPT ![s] = Append(@, event[p])]
               /\ enqueued' = [enqueued EXCEPT ![p] = @ + 1] /\ UNCHANGED dropped
      <4>1. \A u \in Subs : Len(chan'[u]) <= BufferSize
        BY <2>2, <3>2, <3>3, BufferAssumption DEF HasRoom
      <4>2. chan' \in [Subs -> Seq(Events)]
        BY <2>2, <3>1, <3>3
      <4>3. enqueued' \in [Publishers -> Nat]
        BY <3>3
      <4>4. pc' \in [Publishers -> {"idle", "rlock", "send", "count", "runlock"}]
        BY <2>5 DEF PublishSend
      <4> QED
        BY <2>5, <3>3, <4>1, <4>2, <4>3, <4>4 DEF PublishSend
    <3>4. CASE /\ dropped' = [dropped EXCEPT ![s] = @ + 1]
               /\ UNCHANGED <<chan, enqueued>>
      <4>1. dropped' \in [Subs -> Nat]
        BY <2>2, <3>4
      <4>2. pc' \in [Publishers -> {"idle", "rlock", "send", "count", "runlock"}]
        BY <2>5 DEF PublishSend
      <4> QED
        BY <2>5, <3>4, <4>1, <4>2 DEF PublishSend
    <3> QED
      BY <2>5, <3>3, <3>4 DEF PublishSend, Enqueue, s
  <2>6. CASE PublishCount(p)
    BY <2>6 DEF PublishCount
  <2>7. CASE PublishRUnlock(p)
    BY <2>2, <2>7 DEF PublishRUnlock, RemainingEntries, ReadersWithout, s
  <2> QED
    BY <1>3, <2>4, <2>5, <2>6, <2>7 DEF PublishStep
<1>4. ASSUME NEW s \in Subs, UnsubscribeRemove(s) PROVE TypeOK'
  <2>1. s \in Closing
    BY DEF Closing
  <2>2. subs' \in [Types -> Seq(Subs)]
    <3>1. CASE UNCHANGED subs
      BY <3>1
    <3>2. CASE /\ s \in Range(subs[TypeOf[s]])
               /\ subs' = [subs EXCEPT ![TypeOf[s]] = SwapRemove(@, s)]
      <4>1. SwapRemove(subs[TypeOf[s]], s) \in Seq(Subs)
        BY <3>2, SwapRemoveType
      <4> QED
        BY <3>2, <4>1
    <3> QED
      BY <1>4, <3>1, <3>2 DEF UnsubscribeRemove
  <2>3. closing' \in [Closing -> SUBSET Subs]
    <3>1. {s} \in SUBSET Subs
      OBVIOUS
    <3> QED
      BY <1>4, <2>1, <3>1 DEF UnsubscribeRemove
  <2>4. cpc' \in [Closing -> {"idle", "next", "lock", "close", "done"}]
    BY <1>4, <2>1 DEF UnsubscribeRemove
  <2> QED
    BY <1>4, <2>2, <2>3, <2>4 DEF UnsubscribeRemove
<1>5. ASSUME NEW k \in Closers, CloseMark(k) PROVE TypeOK'
  <2>1. UNION {Range(subs[t]) : t \in Types} \in SUBSET Subs
    <3>1. \A t \in Types : Range(subs[t]) \subseteq Subs
      BY DEF Range
    <3> QED
      BY <3>1
  <2>2. subs' \in [Types -> Seq(Subs)]
    <3>1. << >> \in Seq(Subs)
      OBVIOUS
    <3> QED
      BY <1>5, <3>1 DEF CloseMark, MapAfterClose
  <2>3. closing' \in [Closing -> SUBSET Subs]
    <3> DEFINE u == UNION {Range(subs[t]) : t \in Types}
    <3>1. UNCHANGED closing \/ closing' = [closing EXCEPT ![k] = u]
      BY <1>5 DEF CloseMark
    <3>2. u \in SUBSET Subs
      BY <2>1
    <3> HIDE DEF u
    <3> QED
      BY <3>1, <3>2
  <2>4. cpc' \in [Closing -> {"idle", "next", "lock", "close", "done"}]
    BY <1>5 DEF CloseMark
  <2> QED
    BY <1>5, <2>2, <2>3, <2>4 DEF CloseMark
<1>6. ASSUME NEW k \in Closing, CloserStep(k) PROVE TypeOK'
  <2>1. CASE CloserNext(k)
    BY <2>1 DEF CloserNext
  <2>2. CASE CloserLock(k)
    BY <2>2 DEF CloserLock
  <2>3. CASE CloserClose(k)
    BY <2>3 DEF CloserClose
  <2> QED
    BY <1>6, <2>1, <2>2, <2>3 DEF CloserStep
<1>7. ASSUME NEW s \in Subs, Receive(s) PROVE TypeOK'
  <2>1. /\ Head(chan[s]) \in Events
        /\ Tail(chan[s]) \in Seq(Events)
        /\ Len(Tail(chan[s])) = Len(chan[s]) - 1
    BY <1>7 DEF Receive
  <2>2. Head(chan[s]).n \in Nat
    BY <2>1 DEF Events
  <2>3. received' \in [Subs -> [Publishers -> Nat]]
    BY <1>7, <2>2 DEF Receive
  <2>4. chan' \in [Subs -> Seq(Events)]
    BY <1>7, <2>1 DEF Receive
  <2>5. \A u \in Subs : Len(chan'[u]) <= BufferSize
    BY <1>7, <2>1, BufferAssumption DEF Receive
  <2> QED
    BY <1>7, <2>3, <2>4, <2>5 DEF Receive
<1>8. CASE UNCHANGED vars
  BY <1>8 DEF vars
<1> QED
  BY <1>1, <1>2, <1>3, <1>4, <1>5, <1>6, <1>7, <1>8 DEF Next

-----------------------------------------------------------------------------
(* The inductive invariant.                                                *)

(* Who holds an entry's locks: a publisher past RLock is among the         *)
(* readers of the entry in its hand, a goroutine that is closing a channel *)
(* has the write lock, and nobody reads under a write lock.                *)
LockInv ==
  /\ InHand
  /\ \A p \in Publishers : pc[p] \in {"send", "count", "runlock"} =>
       p \in readers[Head(snapshot[p])]
  /\ \A k \in Closing : cpc[k] \in {"lock", "close"} => target[k] \in closing[k]
  /\ \A k \in Closing : cpc[k] = "close" => writer[target[k]]
  /\ \A s \in Subs : writer[s] => readers[s] = {}

(* Who has to close an entry: the map or one goroutine, never two.         *)
HolderInv ==
  /\ \A t \in Types : IsInjective(subs[t])
  /\ \A t \in Types : \A s \in Range(subs[t]) :
       /\ s \in subscribed
       /\ TypeOf[s] = t
       /\ ~chClosed[s]
       /\ \A k \in Closing : s \notin closing[k]
  /\ \A k \in Closing : \A s \in closing[k] : s \in subscribed
  /\ NoDoubleClose
  /\ \A k \in Closing : cpc[k] = "idle" => closing[k] = {}

(* What a snapshot may name: entries that were in the map, of which        *)
(* isClosed tells whether the channel is closed.                           *)
SnapInv ==
  /\ \A s \in Subs : isClosed[s] => chClosed[s]
  /\ \A s \in Subs : chClosed[s] => s \in subscribed
  /\ \A p \in Publishers : \A s \in Range(snapshot[p]) :
       s \in subscribed /\ (chClosed[s] => isClosed[s])

(* Between its send and its count a publisher either has an uncounted      *)
(* delivery or sees a drop counter above the one it remembered.            *)
CountInv ==
  /\ NeverOvercounts
  /\ \A p \in Publishers :
       pc[p] = "send" => prevDrops[p] <= dropped[Head(snapshot[p])]
  /\ \A p \in Publishers :
       pc[p] = "count" => \/ delivered[p] < enqueued[p]
                          \/ prevDrops[p] < dropped[Head(snapshot[p])]

(* The inductive invariant: all of it together.                            *)
BusInv ==
  /\ TypeOK
  /\ LockInv
  /\ HolderInv
  /\ SnapInv
  /\ NoSendOnClosed
  /\ NoStrandedSubscriber
  /\ CountInv

(* The invariant holds at the start.                                       *)
LEMMA BusInit == Init => BusInv
<1> SUFFICES ASSUME Init PROVE BusInv
  OBVIOUS
<1>1. TypeOK
  BY TypeInit
<1>2. IsInjective(<< >>) /\ Range(<< >>) = {}
  BY DEF IsInjective, Range
<1>3. LockInv
  BY DEF Init, LockInv, InHand
<1>4. HolderInv /\ NoDoubleClose
  BY <1>2 DEF Init, HolderInv, NoDoubleClose
<1>5. SnapInv
  BY <1>2 DEF Init, SnapInv
<1>6. NoSendOnClosed /\ NoStrandedSubscriber
  BY DEF Init, NoSendOnClosed, NoStrandedSubscriber
<1>7. CountInv
  BY DEF Init, CountInv, NeverOvercounts
<1> QED
  BY <1>1, <1>3, <1>4, <1>5, <1>6, <1>7 DEF BusInv

(* Locks: RLock keeps out of a write lock, Lock waits for the readers, and *)
(* the write lock is given back only by the one goroutine that has the     *)
(* entry in hand.                                                          *)
LEMMA LockStep == TypeOK /\ LockInv /\ NoDoubleClose /\ [Next]_vars => LockInv'
<1> SUFFICES ASSUME TypeOK, LockInv, NoDoubleClose, [Next]_vars PROVE LockInv'
  OBVIOUS
<1> USE DEF TypeOK, LockInv, InHand, busVars, entryVars, lockVars, pubVars,
            closeVars
<1>1. ASSUME NEW s \in Subs, Subscribe(s) \/ Receive(s) PROVE LockInv'
  BY <1>1 DEF Subscribe, Receive
<1>2. ASSUME NEW p \in Publishers, NEW t \in Types, PublishSnapshot(p, t)
      PROVE  LockInv'
  <2>1. \A q \in Publishers : q # p => /\ pc'[q] = pc[q]
                                       /\ snapshot'[q] = snapshot[q]
    BY <1>2 DEF PublishSnapshot
  <2>2. CASE UNCHANGED <<pc, snapshot>>
    BY <1>2, <2>2 DEF PublishSnapshot
  <2>3. CASE subs[t] # << >> /\ snapshot'[p] = subs[t] /\ pc'[p] = "rlock"
    BY <1>2, <2>1, <2>3 DEF PublishSnapshot
  <2> QED
    BY <1>2, <2>2, <2>3 DEF PublishSnapshot
<1>3. ASSUME NEW p \in Publishers, PublishRLock(p) PROVE LockInv'
  <2> DEFINE s == Head(snapshot[p])
  <2>1. s \in Subs
    BY <1>3 DEF PublishRLock
  <2>2. /\ ~writer[s]
        /\ readers' = [readers EXCEPT ![s] = @ \cup {p}]
        /\ \A q \in Publishers \ {p} : pc'[q] = pc[q]
        /\ UNCHANGED <<writer, snapshot, closeVars>>
        /\ pc[p] = "rlock"
    BY <1>3 DEF PublishRLock, CanRLock
  <2>3. p \in readers'[s] /\ \A u \in Subs : readers[u] \subseteq readers'[u]
    BY <2>1, <2>2
  <2>4. \A u \in Subs : writer[u] => readers'[u] = {}
    BY <2>1, <2>2
  <2>5. ASSUME NEW q \in Publishers,
               pc'[q] \in {"send", "count", "runlock"}
        PROVE  q \in readers'[Head(snapshot[q])]
    <3>1. CASE q = p
      BY <2>3, <3>1
    <3>2. CASE q # p
      <4>1. pc[q] \in {"send", "count", "runlock"}
        BY <2>2, <2>5, <3>2
      <4>2. q \in readers[Head(snapshot[q])]
        BY <4>1
      <4>3. Head(snapshot[q]) \in Subs
        <5>1. snapshot[q] \in Seq(Subs) /\ snapshot[q] # << >>
          BY <4>1
        <5> QED
          BY <5>1
      <4> QED
        BY <2>3, <4>2, <4>3
    <3> QED
      BY <3>1, <3>2
  <2>6. \A q \in Publishers : pc'[q] # "idle" => snapshot[q] # << >>
    BY <2>2
  <2> QED
    BY <2>2, <2>4, <2>5, <2>6
<1>4. ASSUME NEW p \in Publishers, PublishSend(p) \/ PublishCount(p)
      PROVE  LockInv'
  <2>1. /\ pc[p] \in {"send", "count"}
        /\ \A q \in Publishers \ {p} : pc'[q] = pc[q]
        /\ UNCHANGED <<lockVars, snapshot, closeVars>>
    BY <1>4 DEF PublishSend, PublishCount
  <2> QED
    BY <2>1
<1>5. ASSUME NEW p \in Publishers, PublishRUnlock(p) PROVE LockInv'
  <2> DEFINE s == Head(snapshot[p])
  <2>1. s \in Subs
    BY <1>5 DEF PublishRUnlock
  <2>2. /\ readers' = [readers EXCEPT ![s] = @ \ {p}]
        /\ \A q \in Publishers \ {p} : /\ pc'[q] = pc[q]
                                       /\ snapshot'[q] = snapshot[q]
        /\ pc'[p] = IF snapshot'[p] = << >> THEN "idle" ELSE "rlock"
        /\ UNCHANGED <<writer, closeVars>>
    BY <1>5 DEF PublishRUnlock, RemainingEntries, ReadersWithout
  <2>3. \A u \in Subs : /\ readers'[u] \subseteq readers[u]
                        /\ readers[u] \ {p} \subseteq readers'[u]
    BY <2>1, <2>2
  <2>4. \A u \in Subs : writer[u] => readers'[u] = {}
    BY <2>3
  <2>5. ASSUME NEW q \in Publishers,
               pc'[q] \in {"send", "count", "runlock"}
        PROVE  q \in readers'[Head(snapshot'[q])]
    <3>1. q # p
      BY <2>2, <2>5
    <3>2. snapshot'[q] = snapshot[q] /\ q \in readers[Head(snapshot[q])]
      BY <2>2, <2>5, <3>1
    <3>3. Head(snapshot[q]) \in Subs
      BY <2>2, <2>5, <3>1
    <3> QED
      BY <2>3, <3>1, <3>2, <3>3
  <2>6. \A q \in Publishers : pc'[q] # "idle" => snapshot'[q] # << >>
    BY <2>2
  <2> QED
    BY <2>2, <2>4, <2>5, <2>6
<1>6. ASSUME NEW s \in Subs, UnsubscribeRemove(s) PROVE LockInv'
  <2>1. s \in Closing
    BY DEF Closing
  <2> QED
    BY <1>6, <2>1 DEF UnsubscribeRemove
<1>7. ASSUME NEW k \in Closers, CloseMark(k) PROVE LockInv'
  BY <1>7 DEF CloseMark, Closing
<1>8. ASSUME NEW k \in Closing, CloserNext(k) PROVE LockInv'
  BY <1>8 DEF CloserNext
<1>9. ASSUME NEW k \in Closing, CloserLock(k) PROVE LockInv'
  <2>1. target[k] \in Subs
    BY <1>9 DEF CloserLock
  <2> QED
    BY <1>9, <2>1 DEF CloserLock, CanLock
<1>10. ASSUME NEW k \in Closing, CloserClose(k) PROVE LockInv'
  <2>1. target[k] \in closing[k] /\ target[k] \in Subs
    BY <1>10 DEF CloserClose
  <2>2. \A j \in Closing \ {k} : cpc[j] \in {"lock", "close"} => target[j] # target[k]
    BY <2>1 DEF NoDoubleClose
  <2> QED
    BY <1>10, <2>1, <2>2 DEF CloserClose
<1>11. CASE UNCHANGED vars
  BY <1>11 DEF vars
<1> QED
  BY <1>1, <1>2, <1>3, <1>4, <1>5, <1>6, <1>7, <1>8, <1>9, <1>10, <1>11
     DEF Next, PublishStep, CloserStep

(* Holders: an entry leaves the map only into the hands of the goroutine   *)
(* that took it out, and those hands only by being closed.                 *)
LEMMA HolderStep ==
  TypeOK /\ LockInv /\ HolderInv /\ SnapInv /\ [Next]_vars => HolderInv'
<1> SUFFICES ASSUME TypeOK, LockInv, HolderInv, SnapInv, [Next]_vars
             PROVE  HolderInv'
  OBVIOUS
<1> USE TypeOfAssumption
<1> USE DEF TypeOK, HolderInv, NoDoubleClose, busVars, entryVars, lockVars,
            pubVars, closeVars
<1>1. ASSUME NEW s \in Subs, Subscribe(s) PROVE HolderInv'
  <2> DEFINE t == TypeOf[s]
  <2>1. /\ s \notin subscribed /\ subscribed' = subscribed \cup {s}
        /\ UNCHANGED <<closing, cpc>>
    BY <1>1 DEF Subscribe
  <2>2. \A k \in Closing : s \notin closing[k]
    BY <2>1
  <2>3. CASE UNCHANGED subs /\ chClosed' = [chClosed EXCEPT ![s] = TRUE]
    <3>1. \A u \in Types : \A v \in Range(subs[u]) : v # s
      BY <2>1
    <3>2. \A u \in Subs : u # s => chClosed'[u] = chClosed[u]
      BY <2>3
    <3>3. \A u \in Types : Range(subs[u]) \subseteq Subs
      BY DEF Range
    <3> QED
      BY <2>1, <2>2, <2>3, <3>1, <3>2, <3>3
  <2>4. CASE UNCHANGED chClosed /\ subs' = [subs EXCEPT ![t] = Append(@, s)]
    <3>1. ~chClosed[s]
      BY <2>1 DEF SnapInv
    <3>2. subs[t] \in Seq(Subs) /\ s \notin Range(subs[t]) /\ IsInjective(subs[t])
      BY <2>1
    <3>3. Range(Append(subs[t], s)) = Range(subs[t]) \cup {s}
      <4>1. \A q \in Seq(Subs) : Range(q) = ToSet(q)
        BY DEF Range, ToSet
      <4>2. Append(subs[t], s) \in Seq(Subs)
        BY <3>2
      <4>3. ToSet(Append(subs[t], s)) = ToSet(subs[t]) \cup {s}
        BY <3>2, ToSetOfAppend
      <4> QED
        BY <3>2, <4>1, <4>2, <4>3
    <3>4. IsInjective(Append(subs[t], s))
      BY <3>2, InjectiveAppend DEF Range, ToSet
    <3>5. subs'[t] = Append(subs[t], s) /\ \A u \in Types : u # t => subs'[u] = subs[u]
      BY <2>4
    <3>6. \A u \in Types : IsInjective(subs'[u])
      BY <3>4, <3>5
    <3>7. ASSUME NEW u \in Types, NEW v \in Range(subs'[u])
          PROVE  v \in Range(subs[u]) \/ (v = s /\ u = t)
      <4>1. CASE u = t
        BY <3>3, <3>5, <4>1
      <4>2. CASE u # t
        BY <3>5, <4>2
      <4> QED
        BY <4>1, <4>2
    <3> HIDE DEF t
    <3>8. ASSUME NEW u \in Types, NEW v \in Range(subs'[u])
          PROVE  /\ v \in subscribed'
                 /\ TypeOf[v] = u
                 /\ ~chClosed'[v]
                 /\ \A k \in Closing : v \notin closing'[k]
      <4>1. CASE v \in Range(subs[u])
        BY <2>1, <2>4, <4>1
      <4>2. CASE v = s /\ u = t
        BY <2>1, <2>2, <2>4, <3>1, <4>2 DEF t
      <4> QED
        BY <3>7, <4>1, <4>2
    <3> QED
      BY <2>1, <2>4, <3>6, <3>8
  <2> QED
    BY <1>1, <2>3, <2>4 DEF Subscribe
<1>2. ASSUME \/ \E p \in Publishers, t \in Types : PublishSnapshot(p, t)
             \/ \E p \in Publishers : PublishStep(p)
             \/ \E s \in Subs : Receive(s)
             \/ UNCHANGED vars
      PROVE  HolderInv'
  <2>1. UNCHANGED <<subs, subscribed, chClosed, closing, cpc>>
    BY <1>2 DEF PublishSnapshot, PublishStep, PublishRLock, PublishSend,
                PublishCount, PublishRUnlock, Receive, vars
  <2> QED
    BY <2>1
<1>3. ASSUME NEW s \in Subs, UnsubscribeRemove(s) PROVE HolderInv'
  <2> DEFINE t == TypeOf[s]
  <2>1. s \in Closing /\ closing[s] = {} /\ t \in Types
    BY <1>3 DEF UnsubscribeRemove, Closing
  <2>2. UNCHANGED <<subscribed, chClosed>>
    BY <1>3 DEF UnsubscribeRemove
  <2>3. CASE UNCHANGED <<subs, closing>> /\ cpc' = [cpc EXCEPT ![s] = "done"]
    BY <2>1, <2>2, <2>3
  <2>4. CASE /\ s \in Range(subs[t])
             /\ subs' = [subs EXCEPT ![t] = SwapRemove(@, s)]
             /\ closing' = [closing EXCEPT ![s] = {s}]
             /\ cpc' = [cpc EXCEPT ![s] = "next"]
    <3>1. /\ Range(SwapRemove(subs[t], s)) = Range(subs[t]) \ {s}
          /\ IsInjective(SwapRemove(subs[t], s))
      BY <2>1, <2>4, SwapRemoveRange
    <3>2. /\ subs'[t] = SwapRemove(subs[t], s)
          /\ \A u \in Types : u # t => subs'[u] = subs[u]
      BY <2>4
    <3>3. /\ closing'[s] = {s}
          /\ \A k \in Closing : k # s => closing'[k] = closing[k] /\ cpc'[k] = cpc[k]
          /\ cpc'[s] = "next"
      BY <2>1, <2>4
    <3>4. s \in subscribed /\ ~chClosed[s] /\ \A k \in Closing : s \notin closing[k]
      BY <2>1, <2>4
    <3>5. \A u \in Types : IsInjective(subs'[u])
      BY <3>1, <3>2
    <3>6. ASSUME NEW u \in Types, NEW v \in Range(subs'[u])
          PROVE  v \in Range(subs[u]) /\ v # s
      <4>1. CASE u = t
        BY <3>1, <3>2, <4>1
      <4>2. CASE u # t
        <5>1. v \in Range(subs[u])
          BY <3>2, <4>2
        <5>2. TypeOf[v] = u
          BY <5>1
        <5> QED
          BY <4>2, <5>1, <5>2
      <4> QED
        BY <4>1, <4>2
    <3> HIDE DEF t
    <3>7. ASSUME NEW u \in Types, NEW v \in Range(subs'[u])
          PROVE  /\ v \in subscribed'
                 /\ TypeOf[v] = u
                 /\ ~chClosed'[v]
                 /\ \A k \in Closing : v \notin closing'[k]
      <4>1. /\ v \in subscribed
            /\ TypeOf[v] = u
            /\ ~chClosed[v]
            /\ \A k \in Closing : v \notin closing[k]
        BY <3>6
      <4>2. v # s
        BY <3>6
      <4>3. ASSUME NEW k \in Closing PROVE v \notin closing'[k]
        <5>1. CASE k = s
          BY <3>3, <4>2, <5>1
        <5>2. CASE k # s
          BY <3>3, <4>1, <5>2
        <5> QED
          BY <5>1, <5>2
      <4> QED
        BY <2>2, <4>1, <4>3
    <3>8. ASSUME NEW k \in Closing, NEW v \in closing'[k]
          PROVE  /\ v \in subscribed'
                 /\ ~chClosed'[v]
                 /\ \A j \in Closing \ {k} : v \notin closing'[j]
      <4>1. CASE k = s
        BY <2>2, <3>3, <3>4, <4>1
      <4>2. CASE k # s
        <5>1. v \in closing[k] /\ v # s
          BY <3>3, <3>4, <4>2
        <5> QED
          BY <2>1, <2>2, <3>3, <4>2, <5>1
      <4> QED
        BY <4>1, <4>2
    <3>9. \A k \in Closing : cpc'[k] = "idle" => closing'[k] = {}
      BY <3>3
    <3> QED
      BY <3>5, <3>7, <3>8, <3>9
  <2> QED
    BY <1>3, <2>3, <2>4 DEF UnsubscribeRemove
<1>4. ASSUME NEW k \in Closers, CloseMark(k) PROVE HolderInv'
  <2> DEFINE all == UNION {Range(subs[t]) : t \in Types}
  <2>1. k \in Closing /\ closing[k] = {}
    BY <1>4 DEF CloseMark, Closing
  <2>2. UNCHANGED <<subscribed, chClosed>>
    BY <1>4 DEF CloseMark
  <2>3. CASE UNCHANGED <<subs, closing>> /\ cpc' = [cpc EXCEPT ![k] = "done"]
    BY <2>1, <2>2, <2>3
  <2>4. CASE /\ closing' = [closing EXCEPT ![k] = all]
             /\ subs' = MapAfterClose
             /\ cpc' = [cpc EXCEPT ![k] = "next"]
    <3>1. \A u \in Types : subs'[u] = << >>
      BY <2>4 DEF MapAfterClose
    <3>2. IsInjective(<< >>) /\ Range(<< >>) = {}
      BY DEF IsInjective, Range
    <3>3. \A v \in all : /\ v \in subscribed
                         /\ ~chClosed[v]
                         /\ \A j \in Closing : v \notin closing[j]
      OBVIOUS
    <3>4. /\ closing'[k] = all
          /\ \A j \in Closing : j # k => closing'[j] = closing[j] /\ cpc'[j] = cpc[j]
          /\ cpc'[k] = "next"
      BY <2>1, <2>4
    <3> HIDE DEF all
    <3>5. \A j \in Closing : \A v \in closing'[j] :
            /\ v \in subscribed'
            /\ ~chClosed'[v]
            /\ \A i \in Closing \ {j} : v \notin closing'[i]
      BY <2>1, <2>2, <3>3, <3>4
    <3>6. \A j \in Closing : cpc'[j] = "idle" => closing'[j] = {}
      BY <3>4
    <3> QED
      BY <3>1, <3>2, <3>5, <3>6
  <2> QED
    BY <1>4, <2>3, <2>4 DEF CloseMark
<1>5. ASSUME NEW k \in Closing, CloserNext(k) \/ CloserLock(k) PROVE HolderInv'
  <2>1. /\ UNCHANGED <<subs, subscribed, chClosed, closing>>
        /\ \A j \in Closing : cpc'[j] = "idle" => cpc[j] = "idle"
    BY <1>5 DEF CloserNext, CloserLock
  <2> QED
    BY <2>1
<1>6. ASSUME NEW k \in Closing, CloserClose(k) PROVE HolderInv'
  <2> DEFINE s == target[k]
  <2>1. s \in closing[k] /\ s \in Subs
    BY <1>6 DEF CloserClose, LockInv
  <2>2. /\ UNCHANGED <<subs, subscribed>>
        /\ chClosed' = [chClosed EXCEPT ![s] = TRUE]
        /\ closing' = [closing EXCEPT ![k] = @ \ {s}]
        /\ cpc' = [cpc EXCEPT ![k] = "next"]
    BY <1>6 DEF CloserClose
  <2>3. \A t \in Types : s \notin Range(subs[t])
    BY <2>1
  <2>4. \A j \in Closing \ {k} : s \notin closing[j]
    BY <2>1
  <2> HIDE DEF s
  <2>5. \A j \in Closing : s \notin closing'[j] /\ closing'[j] \subseteq closing[j]
    BY <2>2, <2>4
  <2>6. \A u \in Subs : u # s => chClosed'[u] = chClosed[u]
    BY <2>2
  <2>7. \A t \in Types : Range(subs[t]) \subseteq Subs
    BY DEF Range
  <2>8. \A t \in Types : \A v \in Range(subs'[t]) :
          /\ v \in subscribed'
          /\ TypeOf[v] = t
          /\ ~chClosed'[v]
          /\ \A j \in Closing : v \notin closing'[j]
    BY <2>2, <2>3, <2>5, <2>6, <2>7
  <2>9. \A j \in Closing : \A v \in closing'[j] :
          /\ v \in subscribed'
          /\ ~chClosed'[v]
          /\ \A i \in Closing \ {j} : v \notin closing'[i]
    BY <2>2, <2>5, <2>6
  <2>10. \A j \in Closing : cpc'[j] = "idle" => closing'[j] = {}
    BY <2>2
  <2> QED
    BY <2>2, <2>8, <2>9, <2>10
<1> QED
  BY <1>1, <1>2, <1>3, <1>4, <1>5, <1>6 DEF Next, CloserStep

(* Snapshots: an entry closes its channel only after it has left the map,  *)
(* and then isClosed is set under the same write lock.                     *)
LEMMA SnapStep ==
  TypeOK /\ LockInv /\ HolderInv /\ SnapInv /\ [Next]_vars => SnapInv'
<1> SUFFICES ASSUME TypeOK, LockInv, HolderInv, SnapInv, [Next]_vars
             PROVE  SnapInv'
  OBVIOUS
<1> USE DEF TypeOK, SnapInv, busVars, entryVars, lockVars, pubVars, closeVars
<1>1. \A p \in Publishers : Range(snapshot[p]) \subseteq Subs
  BY DEF Range
<1>2. ASSUME NEW s \in Subs, Subscribe(s) PROVE SnapInv'
  <2>1. /\ s \notin subscribed /\ subscribed' = subscribed \cup {s}
        /\ UNCHANGED <<isClosed, snapshot>>
        /\ \A u \in Subs : u # s => chClosed'[u] = chClosed[u]
    BY <1>2 DEF Subscribe
  <2>2. ~isClosed[s] /\ \A p \in Publishers : s \notin Range(snapshot[p])
    BY <2>1
  <2> QED
    BY <1>1, <2>1, <2>2
<1>3. ASSUME NEW p \in Publishers, NEW t \in Types, PublishSnapshot(p, t)
      PROVE  SnapInv'
  <2>1. UNCHANGED <<isClosed, chClosed, subscribed>>
    BY <1>3 DEF PublishSnapshot
  <2>2. \A q \in Publishers : snapshot'[q] = snapshot[q] \/ snapshot'[q] = subs[t]
    BY <1>3 DEF PublishSnapshot
  <2>3. \A s \in Range(subs[t]) : s \in subscribed /\ ~chClosed[s]
    BY DEF HolderInv
  <2> QED
    BY <2>1, <2>2, <2>3
<1>4. ASSUME NEW p \in Publishers, PublishRUnlock(p) PROVE SnapInv'
  <2>1. UNCHANGED <<isClosed, chClosed, subscribed>>
    BY <1>4 DEF PublishRUnlock
  <2>2. \A q \in Publishers : \/ snapshot'[q] = snapshot[q]
                              \/ q = p /\ snapshot'[q] = Tail(snapshot[p])
    BY <1>4 DEF PublishRUnlock, RemainingEntries
  <2>3. Range(Tail(snapshot[p])) \subseteq Range(snapshot[p])
    <3>1. snapshot[p] \in Seq(Subs) /\ snapshot[p] # << >>
      BY <1>4 DEF PublishRUnlock, LockInv, InHand
    <3> QED
      BY <3>1, TailRange
  <2> QED
    BY <2>1, <2>2, <2>3
<1>5. ASSUME NEW k \in Closing, CloserClose(k) PROVE SnapInv'
  <2> DEFINE s == target[k]
  <2>1. s \in subscribed /\ s \in Subs
    BY <1>5 DEF CloserClose, LockInv, HolderInv
  <2>2. /\ UNCHANGED <<subscribed, snapshot>>
        /\ isClosed' = [isClosed EXCEPT ![s] = TRUE]
        /\ chClosed' = [chClosed EXCEPT ![s] = TRUE]
    BY <1>5 DEF CloserClose
  <2> HIDE DEF s
  <2> QED
    BY <1>1, <2>1, <2>2
<1>6. ASSUME \/ \E p \in Publishers : \/ PublishRLock(p)
                                      \/ PublishSend(p)
                                      \/ PublishCount(p)
             \/ \E s \in Subs : Receive(s) \/ UnsubscribeRemove(s)
             \/ \E k \in Closers : CloseMark(k)
             \/ \E k \in Closing : CloserNext(k) \/ CloserLock(k)
             \/ UNCHANGED vars
      PROVE  SnapInv'
  <2>1. UNCHANGED <<subscribed, isClosed, chClosed, snapshot>>
    BY <1>6 DEF PublishRLock, PublishSend, PublishCount, Receive,
                UnsubscribeRemove, CloseMark, CloserNext, CloserLock, vars
  <2> QED
    BY <2>1
<1> QED
  BY <1>2, <1>3, <1>4, <1>5, <1>6 DEF Next, PublishStep, CloserStep

(* A publisher that found the entry open holds its read lock until it has  *)
(* sent, so the goroutine that closes the channel waits.                   *)
LEMMA SendStep ==
  TypeOK /\ LockInv /\ SnapInv /\ NoSendOnClosed /\ [Next]_vars
    => NoSendOnClosed'
<1> SUFFICES ASSUME TypeOK, LockInv, SnapInv, NoSendOnClosed, [Next]_vars,
                    NEW p \in Publishers, pc'[p] = "send"
             PROVE  ~chClosed'[Head(snapshot'[p])]
  BY DEF NoSendOnClosed
<1> USE DEF TypeOK, busVars, entryVars, lockVars, pubVars, closeVars
<1> DEFINE s == Head(snapshot[p])
<1>1. ASSUME pc[p] = "send" \/ PublishRLock(p)
      PROVE  /\ s \in Subs
             /\ s \in Range(snapshot[p])
  BY <1>1 DEF PublishRLock, LockInv, InHand, Range
<1>2. CASE PublishRLock(p)
  <2>1. ~isClosed[s] /\ UNCHANGED <<chClosed, snapshot>>
    BY <1>2 DEF PublishRLock
  <2> QED
    BY <1>1, <1>2, <2>1 DEF SnapInv
<1>3. ASSUME NEW u \in Subs, Subscribe(u) PROVE ~chClosed'[Head(snapshot'[p])]
  <2>1. /\ UNCHANGED <<pc, snapshot>>
        /\ u \notin subscribed
        /\ \A v \in Subs : v # u => chClosed'[v] = chClosed[v]
    BY <1>3 DEF Subscribe
  <2>2. s \in subscribed /\ s \in Subs
    BY <1>1, <2>1 DEF SnapInv
  <2> QED
    BY <2>1, <2>2 DEF NoSendOnClosed
<1>4. ASSUME NEW k \in Closing, CloserClose(k)
      PROVE  ~chClosed'[Head(snapshot'[p])]
  <2>1. /\ UNCHANGED <<pc, snapshot>>
        /\ chClosed' = [chClosed EXCEPT ![target[k]] = TRUE]
        /\ cpc[k] = "close"
    BY <1>4 DEF CloserClose
  <2>2. s \in Subs /\ p \in readers[s]
    BY <1>1, <2>1 DEF LockInv
  <2>3. target[k] # s
    BY <2>1, <2>2 DEF LockInv
  <2> QED
    BY <2>1, <2>2, <2>3 DEF NoSendOnClosed
<1>5. ASSUME NEW q \in Publishers, PublishStep(q), ~PublishRLock(p)
      PROVE  ~chClosed'[Head(snapshot'[p])]
  <2>1. UNCHANGED chClosed
    BY <1>5 DEF PublishStep, PublishRLock, PublishSend, PublishCount,
                PublishRUnlock
  <2>2. pc'[p] = pc[p] /\ snapshot'[p] = snapshot[p]
    <3>1. CASE q = p
      BY <1>5, <3>1 DEF PublishStep, PublishSend, PublishCount, PublishRUnlock
    <3>2. CASE q # p
      BY <1>5, <3>2 DEF PublishStep, PublishRLock, PublishSend, PublishCount,
                        PublishRUnlock
    <3> QED
      BY <3>1, <3>2
  <2> QED
    BY <2>1, <2>2 DEF NoSendOnClosed
<1>6. ASSUME NEW q \in Publishers, NEW t \in Types, PublishSnapshot(q, t)
      PROVE  ~chClosed'[Head(snapshot'[p])]
  <2>1. UNCHANGED chClosed /\ pc'[p] = pc[p] /\ snapshot'[p] = snapshot[p]
    BY <1>6 DEF PublishSnapshot
  <2> QED
    BY <2>1 DEF NoSendOnClosed
<1>7. ASSUME \/ \E u \in Subs : Receive(u) \/ UnsubscribeRemove(u)
             \/ \E k \in Closers : CloseMark(k)
             \/ \E k \in Closing : CloserNext(k) \/ CloserLock(k)
             \/ UNCHANGED vars
      PROVE  ~chClosed'[Head(snapshot'[p])]
  <2>1. UNCHANGED <<pc, chClosed, snapshot>>
    BY <1>7 DEF Receive, UnsubscribeRemove, CloseMark, CloserNext, CloserLock,
                vars
  <2> QED
    BY <2>1 DEF NoSendOnClosed
<1> QED
  BY <1>2, <1>3, <1>4, <1>5, <1>6, <1>7 DEF Next, CloserStep

(* An open subscription stays where someone will find it: what Close and   *)
(* Unsubscribe take out of the map goes into their hands in the same       *)
(* critical section, and Subscribe puts nothing into a closed bus.         *)
LEMMA StrandedStep ==
  TypeOK /\ LockInv /\ HolderInv /\ NoStrandedSubscriber /\ [Next]_vars
    => NoStrandedSubscriber'
<1> SUFFICES ASSUME TypeOK, LockInv, HolderInv, NoStrandedSubscriber,
                    [Next]_vars, NEW s \in subscribed'
             PROVE  \/ chClosed'[s]
                    \/ ~closed' /\ s \in Range(subs'[TypeOf[s]])
                    \/ \E k \in Closing : s \in closing'[k]
  BY DEF NoStrandedSubscriber
<1> DEFINE Found == \/ chClosed'[s]
                    \/ ~closed' /\ s \in Range(subs'[TypeOf[s]])
                    \/ \E k \in Closing : s \in closing'[k]
<1> USE TypeOfAssumption
<1> USE DEF TypeOK, busVars, entryVars, lockVars, pubVars, closeVars
<1>1. ASSUME NEW u \in Subs, Subscribe(u) PROVE Found
  <2> DEFINE t == TypeOf[u]
  <2>1. /\ subscribed' = subscribed \cup {u}
        /\ UNCHANGED <<closed, closing>>
    BY <1>1 DEF Subscribe
  <2>2. CASE closed /\ chClosed' = [chClosed EXCEPT ![u] = TRUE] /\ UNCHANGED subs
    <3>1. CASE s = u
      BY <2>2, <3>1
    <3>2. CASE s # u
      BY <2>1, <2>2, <3>2 DEF NoStrandedSubscriber
    <3> QED
      BY <3>1, <3>2
  <2>3. CASE /\ ~closed
             /\ subs' = [subs EXCEPT ![t] = Append(@, u)]
             /\ UNCHANGED chClosed
    <3>1. Range(Append(subs[t], u)) = Range(subs[t]) \cup {u}
      <4>1. \A q \in Seq(Subs) : Range(q) = ToSet(q)
        BY DEF Range, ToSet
      <4>2. subs[t] \in Seq(Subs) /\ Append(subs[t], u) \in Seq(Subs)
        OBVIOUS
      <4>3. ToSet(Append(subs[t], u)) = ToSet(subs[t]) \cup {u}
        BY <4>2, ToSetOfAppend
      <4> QED
        BY <4>1, <4>2, <4>3
    <3>2. /\ subs'[t] = Append(subs[t], u)
          /\ \A v \in Types : v # t => subs'[v] = subs[v]
      BY <2>3
    <3>3. CASE s = u
      BY <2>1, <2>3, <3>1, <3>2, <3>3
    <3>4. CASE s # u
      <4>1. s \in subscribed /\ TypeOf[s] \in Types
        BY <2>1, <3>4
      <4>2. Range(subs[TypeOf[s]]) \subseteq Range(subs'[TypeOf[s]])
        <5>1. CASE TypeOf[s] = t
          BY <3>1, <3>2, <5>1
        <5>2. CASE TypeOf[s] # t
          BY <3>2, <4>1, <5>2
        <5> QED
          BY <5>1, <5>2
      <4> QED
        BY <2>1, <2>3, <4>1, <4>2 DEF NoStrandedSubscriber
    <3> QED
      BY <3>3, <3>4
  <2> QED
    BY <1>1, <2>2, <2>3 DEF Subscribe, Registers
<1>2. ASSUME NEW u \in Subs, UnsubscribeRemove(u) PROVE Found
  <2> DEFINE t == TypeOf[u]
  <2>1. /\ u \in Closing /\ closing[u] = {}
        /\ UNCHANGED <<closed, subscribed, chClosed>>
    BY <1>2 DEF UnsubscribeRemove, HolderInv, Closing
  <2>2. CASE UNCHANGED <<subs, closing>>
    BY <2>1, <2>2 DEF NoStrandedSubscriber
  <2>3. CASE /\ u \in Range(subs[t])
             /\ subs' = [subs EXCEPT ![t] = SwapRemove(@, u)]
             /\ closing' = [closing EXCEPT ![u] = {u}]
    <3>1. Range(SwapRemove(subs[t], u)) = Range(subs[t]) \ {u}
      <4>1. subs[t] \in Seq(Subs) /\ IsInjective(subs[t])
        BY DEF HolderInv
      <4> QED
        BY <2>3, <4>1, SwapRemoveRange
    <3>2. /\ subs'[t] = SwapRemove(subs[t], u)
          /\ \A v \in Types : v # t => subs'[v] = subs[v]
      BY <2>3
    <3>3. /\ closing'[u] = {u}
          /\ \A k \in Closing : k # u => closing'[k] = closing[k]
      BY <2>1, <2>3
    <3>4. CASE s = u
      BY <2>1, <3>3, <3>4
    <3>5. CASE s # u
      <4>1. s \in subscribed /\ TypeOf[s] \in Types
        BY <2>1
      <4>2. Range(subs[TypeOf[s]]) \ {u} \subseteq Range(subs'[TypeOf[s]])
        <5>1. CASE TypeOf[s] = t
          BY <3>1, <3>2, <5>1
        <5>2. CASE TypeOf[s] # t
          BY <3>2, <4>1, <5>2
        <5> QED
          BY <5>1, <5>2
      <4>3. \A k \in Closing : s \in closing[k] => s \in closing'[k]
        BY <2>1, <3>3
      <4> QED
        BY <2>1, <3>5, <4>1, <4>2, <4>3 DEF NoStrandedSubscriber
    <3> QED
      BY <3>4, <3>5
  <2> QED
    BY <1>2, <2>2, <2>3 DEF UnsubscribeRemove
<1>3. ASSUME NEW k \in Closers, CloseMark(k) PROVE Found
  <2>1. /\ k \in Closing /\ closing[k] = {}
        /\ UNCHANGED <<subscribed, chClosed>>
    BY <1>3 DEF CloseMark, HolderInv, Closing
  <2>2. CASE closed /\ closed' /\ UNCHANGED <<subs, closing>>
    BY <2>1, <2>2 DEF NoStrandedSubscriber
  <2>3. CASE closing' = [closing EXCEPT
                           ![k] = UNION {Range(subs[t]) : t \in Types}]
    <3>1. \A t \in Types : Range(subs[t]) \subseteq closing'[k]
      BY <2>1, <2>3
    <3>2. \A j \in Closing : closing[j] \subseteq closing'[j]
      BY <2>1, <2>3
    <3>3. s \in subscribed /\ TypeOf[s] \in Types
      BY <2>1
    <3> QED
      BY <2>1, <3>1, <3>2, <3>3 DEF NoStrandedSubscriber
  <2> QED
    BY <1>3, <2>2, <2>3 DEF CloseMark
<1>4. ASSUME NEW k \in Closing, CloserClose(k) PROVE Found
  <2>1. /\ UNCHANGED <<closed, subs, subscribed>>
        /\ chClosed' = [chClosed EXCEPT ![target[k]] = TRUE]
        /\ closing' = [closing EXCEPT ![k] = @ \ {target[k]}]
    BY <1>4 DEF CloserClose
  <2>2. CASE s = target[k]
    BY <2>1, <2>2
  <2>3. CASE s # target[k]
    <3>1. chClosed'[s] = chClosed[s]
      BY <2>1, <2>3
    <3>2. \A j \in Closing : s \in closing[j] => s \in closing'[j]
      BY <2>1, <2>3
    <3> QED
      BY <2>1, <3>1, <3>2 DEF NoStrandedSubscriber
  <2> QED
    BY <2>2, <2>3
<1>5. ASSUME \/ \E p \in Publishers, t \in Types : PublishSnapshot(p, t)
             \/ \E p \in Publishers : PublishStep(p)
             \/ \E u \in Subs : Receive(u)
             \/ \E k \in Closing : CloserNext(k) \/ CloserLock(k)
             \/ UNCHANGED vars
      PROVE  Found
  <2>1. UNCHANGED <<busVars, chClosed, closing>>
    BY <1>5 DEF PublishSnapshot, PublishStep, PublishRLock, PublishSend,
                PublishCount, PublishRUnlock, Receive, CloserNext, CloserLock,
                vars
  <2> QED
    BY <2>1 DEF NoStrandedSubscriber
<1> QED
  BY <1>1, <1>2, <1>3, <1>4, <1>5 DEF Next, CloserStep

(* Counts: drop counters only grow, so a drop of one's own send shows.     *)
LEMMA CountStep == TypeOK /\ LockInv /\ CountInv /\ [Next]_vars => CountInv'
<1> SUFFICES ASSUME TypeOK, LockInv, CountInv, [Next]_vars PROVE CountInv'
  OBVIOUS
<1> USE DEF NeverOvercounts, CountInv, busVars, entryVars, lockVars, pubVars,
            closeVars
<1> DEFINE counters == <<pc, snapshot, prevDrops, delivered, enqueued>>
<1>1. \A p \in Publishers : pc[p] # "idle" => Head(snapshot[p]) \in Subs
  BY DEF TypeOK, LockInv, InHand
<1>types. /\ dropped \in [Subs -> Nat]
          /\ prevDrops \in [Publishers -> Nat]
          /\ delivered \in [Publishers -> Nat]
          /\ enqueued \in [Publishers -> Nat]
          /\ pc \in [Publishers ->
                       {"idle", "rlock", "send", "count", "runlock"}]
          /\ snapshot \in [Publishers -> Seq(Subs)]
  BY DEF TypeOK
<1> USE <1>types
<1>2. ASSUME NEW p \in Publishers, NEW t \in Types, PublishSnapshot(p, t)
      PROVE  CountInv'
  <2>1. /\ delivered' = [delivered EXCEPT ![p] = 0]
        /\ enqueued' = [enqueued EXCEPT ![p] = 0]
        /\ UNCHANGED <<dropped, prevDrops>>
        /\ \A q \in Publishers \ {p} : /\ pc'[q] = pc[q]
                                       /\ snapshot'[q] = snapshot[q]
        /\ pc'[p] \in {"idle", "rlock"}
    BY <1>2 DEF PublishSnapshot
  <2> SUFFICES ASSUME NEW q \in Publishers
               PROVE  /\ delivered'[q] <= enqueued'[q]
                      /\ pc'[q] = "send" =>
                           prevDrops'[q] <= dropped'[Head(snapshot'[q])]
                      /\ pc'[q] = "count" =>
                           \/ delivered'[q] < enqueued'[q]
                           \/ prevDrops'[q] < dropped'[Head(snapshot'[q])]
    OBVIOUS
  <2>2. CASE q = p
    BY <2>1, <2>2
  <2>3. CASE q # p
    BY <2>1, <2>3
  <2> QED
    BY <2>2, <2>3
<1>3. ASSUME NEW p \in Publishers, PublishRLock(p) PROVE CountInv'
  <2>1. /\ UNCHANGED <<dropped, delivered, enqueued, snapshot>>
        /\ \A q \in Publishers \ {p} : /\ pc'[q] = pc[q]
                                       /\ prevDrops'[q] = prevDrops[q]
        /\ \/ pc'[p] = "runlock"
           \/ pc'[p] = "send" /\ prevDrops'[p] = dropped[Head(snapshot[p])]
    BY <1>3 DEF PublishRLock
  <2>2. dropped[Head(snapshot[p])] \in Nat
    BY <1>1, <1>3 DEF PublishRLock
  <2> SUFFICES ASSUME NEW q \in Publishers
               PROVE  /\ pc'[q] = "send" =>
                           prevDrops'[q] <= dropped[Head(snapshot[q])]
                      /\ pc'[q] = "count" =>
                           \/ delivered[q] < enqueued[q]
                           \/ prevDrops'[q] < dropped[Head(snapshot[q])]
    BY <2>1
  <2>3. CASE q = p
    BY <2>1, <2>2, <2>3
  <2>4. CASE q # p
    BY <2>1, <2>4
  <2> QED
    BY <2>3, <2>4
<1>4. ASSUME NEW p \in Publishers, PublishSend(p) PROVE CountInv'
  <2> DEFINE s == Head(snapshot[p])
  <2>1. s \in Subs /\ pc[p] = "send"
    BY <1>1, <1>4 DEF PublishSend
  <2>2. /\ UNCHANGED <<delivered, snapshot, prevDrops>>
        /\ pc' = [pc EXCEPT ![p] = "count"]
    BY <1>4 DEF PublishSend
  <2>3. \/ UNCHANGED dropped /\ enqueued' = [enqueued EXCEPT ![p] = @ + 1]
        \/ UNCHANGED enqueued /\ dropped' = [dropped EXCEPT ![s] = @ + 1]
    BY <1>4 DEF PublishSend
  <2> HIDE DEF s
  <2>4. ASSUME NEW u \in Subs
        PROVE  dropped[u] <= dropped'[u] /\ dropped'[u] \in Nat
    <3>1. dropped[u] \in Nat
      OBVIOUS
    <3>2. dropped'[u] = dropped[u] \/ dropped'[u] = dropped[u] + 1
      BY <2>3
    <3> QED
      BY <3>1, <3>2
  <2>5. ASSUME NEW q \in Publishers
        PROVE  enqueued[q] <= enqueued'[q] /\ enqueued'[q] \in Nat
    <3>1. enqueued[q] \in Nat
      OBVIOUS
    <3>2. enqueued'[q] = enqueued[q] \/ enqueued'[q] = enqueued[q] + 1
      BY <2>3
    <3> QED
      BY <3>1, <3>2
  <2>6. NeverOvercounts'
    BY <2>2, <2>5
  <2>7. ASSUME NEW q \in Publishers, pc'[q] = "send"
        PROVE  prevDrops[q] <= dropped'[Head(snapshot[q])]
    <3>1. pc[q] = "send" /\ Head(snapshot[q]) \in Subs
      BY <1>1, <2>2, <2>7
    <3> QED
      BY <2>4, <3>1
  <2>8. ASSUME NEW q \in Publishers, pc'[q] = "count"
        PROVE  \/ delivered[q] < enqueued'[q]
               \/ prevDrops[q] < dropped'[Head(snapshot[q])]
    <3>1. CASE q = p
      <4>1. delivered[p] <= enqueued[p] /\ prevDrops[p] <= dropped[s]
        BY <2>1 DEF s
      <4>2. \/ enqueued'[p] = enqueued[p] + 1
            \/ dropped'[s] = dropped[s] + 1
        BY <2>1, <2>3
      <4> QED
        BY <2>1, <3>1, <4>1, <4>2 DEF s
    <3>2. CASE q # p
      <4> DEFINE u == Head(snapshot[q])
      <4>1. pc[q] = "count" /\ u \in Subs
        BY <1>1, <2>2, <2>8, <3>2
      <4>2. delivered[q] < enqueued[q] \/ prevDrops[q] < dropped[u]
        BY <4>1
      <4>3. /\ enqueued[q] <= enqueued'[q] /\ enqueued'[q] \in Nat
            /\ dropped[u] <= dropped'[u] /\ dropped'[u] \in Nat
        BY <2>4, <2>5, <4>1
      <4>4. /\ delivered[q] \in Nat /\ enqueued[q] \in Nat
            /\ prevDrops[q] \in Nat /\ dropped[u] \in Nat
        BY <4>1
      <4> HIDE DEF u
      <4> QED
        BY <4>2, <4>3, <4>4 DEF u
    <3> QED
      BY <3>1, <3>2
  <2> QED
    BY <2>2, <2>6, <2>7, <2>8
<1>5. ASSUME NEW p \in Publishers, PublishCount(p) PROVE CountInv'
  <2>1. /\ UNCHANGED <<dropped, enqueued, snapshot, prevDrops>>
        /\ pc[p] = "count" /\ pc' = [pc EXCEPT ![p] = "runlock"]
        /\ \A q \in Publishers \ {p} : delivered'[q] = delivered[q]
        /\ \/ delivered'[p] = delivered[p]
           \/ /\ delivered'[p] = delivered[p] + 1
              /\ dropped[Head(snapshot[p])] = prevDrops[p]
    BY <1>5 DEF PublishCount, CountsAsDelivered
  <2>2. delivered'[p] <= enqueued[p]
    <3> DEFINE d == dropped[Head(snapshot[p])]
    <3>1. /\ delivered[p] \in Nat /\ enqueued[p] \in Nat /\ prevDrops[p] \in Nat
          /\ delivered[p] <= enqueued[p]
      OBVIOUS
    <3>2. d = prevDrops[p] => delivered[p] < enqueued[p]
      <4>1. delivered[p] < enqueued[p] \/ prevDrops[p] < d
        BY <2>1
      <4> HIDE DEF d
      <4> QED
        BY <3>1, <4>1
    <3>3. delivered'[p] = delivered[p]
          \/ (delivered'[p] = delivered[p] + 1 /\ d = prevDrops[p])
      BY <2>1
    <3> HIDE DEF d
    <3> QED
      BY <3>1, <3>2, <3>3
  <2> QED
    BY <2>1, <2>2
<1>6. ASSUME NEW p \in Publishers, PublishRUnlock(p) PROVE CountInv'
  <2>1. /\ UNCHANGED <<dropped, enqueued, delivered, prevDrops>>
        /\ pc'[p] \in {"idle", "rlock"}
        /\ \A q \in Publishers \ {p} : /\ pc'[q] = pc[q]
                                       /\ snapshot'[q] = snapshot[q]
    BY <1>6 DEF PublishRUnlock
  <2> QED
    BY <2>1
<1>7. ASSUME \/ \E s \in Subs : \/ Subscribe(s)
                                \/ Receive(s)
                                \/ UnsubscribeRemove(s)
             \/ \E k \in Closers : CloseMark(k)
             \/ \E k \in Closing : CloserStep(k)
             \/ UNCHANGED vars
      PROVE  CountInv'
  <2>1. UNCHANGED <<counters, dropped>>
    BY <1>7 DEF Subscribe, Receive, UnsubscribeRemove, CloseMark, CloserStep,
                CloserNext, CloserLock, CloserClose, vars
  <2> QED
    BY <2>1
<1> QED
  BY <1>2, <1>3, <1>4, <1>5, <1>6, <1>7 DEF Next, PublishStep

-----------------------------------------------------------------------------
(* The order of each publisher's events.                                   *)

(* Every event of p that s has seen or still has buffered is below n.      *)
Below(s, p, n) ==
  /\ received[s][p] < n
  /\ \A i \in DOMAIN chan[s] : chan[s][i].by = p => chan[s][i].n < n

(* The entries that a publisher has still to try with its current event.   *)
ToSend(p) ==
  IF pc[p] \in {"rlock", "send"} THEN Range(snapshot[p])
  ELSE IF pc[p] \in {"count", "runlock"} THEN Range(Tail(snapshot[p]))
  ELSE {}

(* No entry has an event of p later than p's current one, and those still  *)
(* to be tried have not got the current one either: a snapshot names an    *)
(* entry once.                                                             *)
OrderInv ==
  /\ PublisherOrder
  /\ \A p \in Publishers : event[p].by = p /\ IsInjective(snapshot[p])
  /\ \A s \in Subs, p \in Publishers :
       /\ Below(s, p, event[p].n + 1)
       /\ s \in ToSend(p) => Below(s, p, event[p].n)

(* Popping the head of a sequence without repetitions takes it out.        *)
LEMMA TailInjective ==
  ASSUME NEW S, NEW q \in Seq(S), q # << >>, IsInjective(q)
  PROVE  IsInjective(Tail(q)) /\ Head(q) \notin Range(Tail(q))
BY ToSetOfTail DEF ToSet, Range

(* A step that moves neither events nor publishers, or only lets a         *)
(* publisher pass over an entry, keeps the order.                          *)
LEMMA OrderKept ==
  ASSUME OrderInv, UNCHANGED <<chan, received, event>>,
         \A p \in Publishers :
           ToSend(p)' \subseteq ToSend(p) /\ IsInjective(snapshot'[p])
  PROVE  OrderInv'
BY DEF OrderInv, PublisherOrder, Below

(* What a channel holds, and what has been received from it.               *)
LEMMA ChanTypes ==
  ASSUME TypeOK, NEW s \in Subs
  PROVE  /\ chan[s] \in Seq(Events)
         /\ Len(chan[s]) \in Nat
         /\ DOMAIN chan[s] = 1..Len(chan[s])
         /\ \A i \in 1..Len(chan[s]) :
              chan[s][i].n \in Nat /\ chan[s][i].by \in Publishers
         /\ \A p \in Publishers : received[s][p] \in Nat /\ event[p].n \in Nat
<1>1. chan[s] \in Seq(Events)
  BY DEF TypeOK
<1>2. \A i \in 1..Len(chan[s]) : chan[s][i] \in Events
  BY <1>1
<1>3. \A e \in Events : e.n \in Nat /\ e.by \in Publishers
  BY BoundAssumption DEF Events
<1>4. \A p \in Publishers : received[s][p] \in Nat /\ event[p] \in Events
  BY DEF TypeOK
<1> QED
  BY <1>1, <1>2, <1>3, <1>4

(* Below does not care about how far above the bound is.                   *)
LEMMA BelowMonotone ==
  ASSUME TypeOK, NEW s \in Subs, NEW p \in Publishers, NEW n \in Nat,
         Below(s, p, n)
  PROVE  Below(s, p, n + 1)
BY ChanTypes DEF Below

(* A publisher that takes its snapshot has an event newer than all it sent.*)
LEMMA OrderSnapshot ==
  ASSUME TypeOK, HolderInv, OrderInv,
         NEW p \in Publishers, NEW t \in Types, PublishSnapshot(p, t)
  PROVE  OrderInv'
<1>1. UNCHANGED <<chan, received>>
  BY DEF PublishSnapshot, entryVars
<1>2. /\ event'[p] = [by |-> p, n |-> event[p].n + 1, type |-> t]
      /\ \A q \in Publishers : q # p =>
           /\ event'[q] = event[q]
           /\ snapshot'[q] = snapshot[q]
           /\ ToSend(q)' = ToSend(q)
  BY DEF PublishSnapshot, ToSend, TypeOK
<1>3. event[p].n \in Nat /\ event[p].n + 1 \in Nat
  BY BoundAssumption DEF Events, TypeOK
<1>4. IsInjective(snapshot'[p])
  BY DEF PublishSnapshot, HolderInv, OrderInv, TypeOK
<1>5. \A s \in Subs : /\ Below(s, p, event[p].n + 1)
                      /\ Below(s, p, (event[p].n + 1) + 1)
  BY <1>3, BelowMonotone DEF OrderInv
<1>6. \A s \in Subs : \A q \in Publishers, n \in Nat :
        Below(s, q, n) => Below(s, q, n)'
  BY <1>1 DEF Below
<1>7. \A q \in Publishers : event[q].n \in Nat /\ event[q].n + 1 \in Nat
  BY BoundAssumption DEF Events, TypeOK
<1>8. ASSUME NEW s \in Subs, NEW q \in Publishers
      PROVE  /\ Below(s, q, event[q].n + 1)'
             /\ (s \in ToSend(q) => Below(s, q, event[q].n))'
  <2>1. CASE q = p
    <3>1. event'[p].n = event[p].n + 1
      BY <1>2
    <3> QED
      BY <1>1, <1>5, <2>1, <3>1 DEF Below
  <2>2. CASE q # p
    BY <1>1, <1>2, <2>2 DEF OrderInv, Below
  <2> QED
    BY <2>1, <2>2
<1>9. \A q \in Publishers : event'[q].by = q /\ IsInjective(snapshot'[q])
  BY <1>2, <1>4 DEF OrderInv
<1>10. PublisherOrder'
  BY <1>1 DEF OrderInv, PublisherOrder
<1> QED
  BY <1>8, <1>9, <1>10 DEF OrderInv

(* The event a publisher sends is newer than all it sent to that entry.    *)
LEMMA OrderSend ==
  ASSUME TypeOK, InHand, OrderInv, NEW p \in Publishers, PublishSend(p)
  PROVE  OrderInv'
<1> DEFINE s == Head(snapshot[p])
<1>1. /\ UNCHANGED <<received, event, snapshot>>
      /\ pc[p] = "send" /\ pc' = [pc EXCEPT ![p] = "count"]
  BY DEF PublishSend
<1>2. /\ snapshot[p] \in Seq(Subs) /\ snapshot[p] # << >>
      /\ s \in Subs /\ s \in Range(snapshot[p])
  BY <1>1 DEF InHand, TypeOK, Range
<1>3. /\ s \notin Range(Tail(snapshot[p]))
      /\ Range(Tail(snapshot[p])) \subseteq Range(snapshot[p])
  BY <1>2, TailInjective, TailRange DEF OrderInv
<1>4. /\ ToSend(p) = Range(snapshot[p]) /\ ToSend(p)' = Range(Tail(snapshot[p]))
      /\ \A q \in Publishers : q # p => ToSend(q)' = ToSend(q)
  BY <1>1 DEF ToSend, TypeOK
<1>5. CASE UNCHANGED chan
  BY <1>1, <1>3, <1>4, <1>5, OrderKept DEF OrderInv
<1>6. CASE chan' = [chan EXCEPT ![s] = Append(@, event[p])]
  <2>s. s' = s
    BY <1>1
  <2> HIDE DEF s
  <2>1. /\ chan[s] \in Seq(Events) /\ event[p] \in Events
        /\ chan'[s] = Append(chan[s], event[p])
        /\ \A u \in Subs : u # s => chan'[u] = chan[u]
    BY <1>2, <1>6 DEF TypeOK
  <2>2. /\ Len(chan[s]) \in Nat
        /\ DOMAIN chan[s] = 1..Len(chan[s])
        /\ DOMAIN chan'[s] = 1..(Len(chan[s]) + 1)
        /\ \A i \in 1..(Len(chan[s]) + 1) :
             i \in 1..Len(chan[s]) \/ i = Len(chan[s]) + 1
        /\ \A i \in 1..Len(chan[s]) : chan'[s][i] = chan[s][i]
        /\ chan'[s][Len(chan[s]) + 1] = event[p]
    BY <2>1
  <2>3. Below(s, p, event[p].n) /\ event[p].by = p
    BY <1>2, <1>4 DEF OrderInv
  <2>4. \A u \in Subs, q \in Publishers :
          /\ Below(u, q, event[q].n + 1)
          /\ u \in ToSend(q) => Below(u, q, event[q].n)
    BY DEF OrderInv
  <2>5. ASSUME NEW u \in Subs, NEW q \in Publishers
        PROVE  /\ Below(u, q, event[q].n + 1)'
               /\ (u \in ToSend(q) => Below(u, q, event[q].n))'
    <3>a. ToSend(q)' \subseteq ToSend(q)
      BY <1>3, <1>4
    <3>1. CASE u # s
      BY <1>1, <2>1, <2>4, <3>a, <3>1 DEF Below
    <3>2. CASE u = s /\ q # p
      BY <1>1, <1>4, <2>2, <2>3, <2>4, <3>2 DEF Below
    <3>3. CASE u = s /\ q = p
      <4>1. event[p].n \in Nat
        BY <1>2, ChanTypes
      <4>2. Below(s, p, event[p].n + 1)'
        <5>1. received'[s][p] < event'[p].n + 1
          BY <1>1, <1>2, <2>4 DEF Below
        <5>2. \A i \in 1..Len(chan[s]) : chan[s][i].by = p => chan[s][i].n < event[p].n + 1
          BY <1>2, <2>2, <2>4 DEF Below
        <5>3. \A i \in 1..(Len(chan[s]) + 1) :
                chan'[s][i].by = p => chan'[s][i].n < event[p].n + 1
          BY <2>2, <4>1, <5>2
        <5> QED
          BY <1>1, <2>s, <2>2, <5>1, <5>3 DEF Below
      <4>3. s \notin ToSend(p)'
        BY <1>3, <1>4
      <4> QED
        BY <2>s, <3>3, <4>2, <4>3
    <3> QED
      BY <3>1, <3>2, <3>3
  <2>6. ASSUME NEW u \in Subs
        PROVE  (\A i, j \in DOMAIN chan[u] :
                  /\ chan[u][i].n > received[u][chan[u][i].by]
                  /\ chan[u][i].by = chan[u][j].by /\ i < j
                       => chan[u][i].n < chan[u][j].n)'
    <3>1. \A i, j \in DOMAIN chan[u] :
            /\ chan[u][i].n > received[u][chan[u][i].by]
            /\ chan[u][i].by = chan[u][j].by /\ i < j
                 => chan[u][i].n < chan[u][j].n
      BY DEF OrderInv, PublisherOrder
    <3>2. CASE u # s
      BY <1>1, <2>1, <3>1, <3>2
    <3>3. CASE u = s
      <4>1. event[p].n > received[s][p] /\ event[p].by = p
        BY <1>2, <2>3, ChanTypes DEF Below
      <4>2. \A i \in 1..Len(chan[s]) : chan[s][i].by = p => chan[s][i].n < event[p].n
        BY <2>2, <2>3 DEF Below
      <4>3. \A i \in 1..(Len(chan[s]) + 1) :
              chan'[s][i].n > received[s][chan'[s][i].by]
        BY <2>2, <3>1, <3>3, <4>1
      <4>4. ASSUME NEW i \in 1..(Len(chan[s]) + 1), NEW j \in 1..(Len(chan[s]) + 1),
                   chan'[s][i].by = chan'[s][j].by, i < j
            PROVE  chan'[s][i].n < chan'[s][j].n
        <5>1. i \in 1..Len(chan[s]) /\ chan'[s][i] = chan[s][i]
          BY <2>2, <4>4
        <5>2. CASE j = Len(chan[s]) + 1
          BY <2>2, <4>1, <4>2, <4>4, <5>1, <5>2
        <5>3. CASE j \in 1..Len(chan[s])
          BY <2>2, <3>1, <3>3, <4>4, <5>1, <5>3
        <5> QED
          BY <2>2, <5>2, <5>3
      <4> QED
        BY <1>1, <2>2, <3>3, <4>3, <4>4
    <3> QED
      BY <3>2, <3>3
  <2>7. PublisherOrder'
    BY <2>6 DEF PublisherOrder
  <2> QED
    BY <1>1, <2>5, <2>7 DEF OrderInv
<1> QED
  BY <1>5, <1>6 DEF PublishSend, Enqueue

(* What is received was the oldest: the rest of its publisher's is newer.  *)
LEMMA OrderReceive ==
  ASSUME TypeOK, OrderInv, NEW s \in Subs, Receive(s)
  PROVE  OrderInv'
<1> DEFINE h == Head(chan[s])
<1>1. /\ UNCHANGED <<event, snapshot, pc>>
      /\ chan[s] # << >>
      /\ received' = [received EXCEPT ![s][h.by] = h.n]
      /\ chan' = [chan EXCEPT ![s] = Tail(@)]
  BY DEF Receive, pubVars
<1>2. /\ Len(chan[s]) \in Nat \ {0}
      /\ DOMAIN chan[s] = 1..Len(chan[s])
      /\ h = chan[s][1]
      /\ DOMAIN chan'[s] = 1..(Len(chan[s]) - 1)
      /\ \A i \in 1..(Len(chan[s]) - 1) :
           chan'[s][i] = chan[s][i + 1] /\ i + 1 \in 1..Len(chan[s]) /\ 1 < i + 1
      /\ 1 \in 1..Len(chan[s])
      /\ \A u \in Subs : u # s => chan'[u] = chan[u] /\ received'[u] = received[u]
  BY <1>1 DEF TypeOK
<1>3. /\ h.by \in Publishers /\ h.n \in Nat
      /\ \A i \in 1..Len(chan[s]) :
           chan[s][i].n \in Nat /\ chan[s][i].by \in Publishers
      /\ \A p \in Publishers : received[s][p] \in Nat /\ event[p].n \in Nat
  BY <1>2, ChanTypes
<1>4. /\ received'[s][h.by] = h.n
      /\ \A p \in Publishers : p # h.by => received'[s][p] = received[s][p]
  BY <1>1, <1>3 DEF TypeOK
<1> HIDE DEF h
<1>5. \A p \in Publishers : ToSend(p)' = ToSend(p)
  BY <1>1 DEF ToSend
<1>6. ASSUME NEW p \in Publishers, NEW n \in Nat, Below(s, p, n)
      PROVE  Below(s, p, n)'
  <2>1. received'[s][p] < n
    BY <1>2, <1>4, <1>6 DEF Below
  <2>2. \A i \in 1..(Len(chan[s]) - 1) : chan'[s][i].by = p => chan'[s][i].n < n
    BY <1>2, <1>6 DEF Below
  <2> QED
    BY <1>2, <2>1, <2>2 DEF Below
<1>7. \A u \in Subs, p \in Publishers, n \in Nat : Below(u, p, n) => Below(u, p, n)'
  <2>1. \A u \in Subs : u # s =>
          \A p \in Publishers, n \in Nat : Below(u, p, n) => Below(u, p, n)'
    BY <1>2 DEF Below
  <2> QED
    BY <1>6, <2>1
<1>8. ASSUME NEW u \in Subs
      PROVE  (\A i, j \in DOMAIN chan[u] :
                /\ chan[u][i].n > received[u][chan[u][i].by]
                /\ chan[u][i].by = chan[u][j].by /\ i < j
                     => chan[u][i].n < chan[u][j].n)'
  <2>1. \A i, j \in DOMAIN chan[u] :
          /\ chan[u][i].n > received[u][chan[u][i].by]
          /\ chan[u][i].by = chan[u][j].by /\ i < j
               => chan[u][i].n < chan[u][j].n
    BY DEF OrderInv, PublisherOrder
  <2>2. CASE u # s
    BY <1>2, <2>1, <2>2
  <2>3. CASE u = s
    <3>1. \A i \in 1..(Len(chan[s]) - 1) :
            chan[s][i + 1].by = h.by => chan[s][i + 1].n > h.n
      BY <1>2, <1>3, <2>1, <2>3
    <3>2. ASSUME NEW i \in 1..(Len(chan[s]) - 1)
          PROVE  chan'[s][i].n > received'[s][chan'[s][i].by]
      <4>1. /\ i + 1 \in 1..Len(chan[s]) /\ chan'[s][i] = chan[s][i + 1]
            /\ chan[s][i + 1].by \in Publishers
        BY <1>2, <1>3
      <4>2. CASE chan[s][i + 1].by = h.by
        BY <1>4, <3>1, <4>1, <4>2
      <4>3. CASE chan[s][i + 1].by # h.by
        BY <1>2, <1>4, <2>1, <2>3, <4>1, <4>3
      <4> QED
        BY <4>2, <4>3
    <3>3. ASSUME NEW i \in 1..(Len(chan[s]) - 1), NEW j \in 1..(Len(chan[s]) - 1),
                 chan'[s][i].by = chan'[s][j].by, i < j
          PROVE  chan'[s][i].n < chan'[s][j].n
      <4>1. /\ i + 1 \in DOMAIN chan[s] /\ j + 1 \in DOMAIN chan[s]
            /\ i + 1 < j + 1
            /\ chan'[s][i] = chan[s][i + 1] /\ chan'[s][j] = chan[s][j + 1]
        BY <1>2, <3>3
      <4> QED
        BY <2>1, <2>3, <3>3, <4>1
    <3> QED
      BY <1>2, <2>3, <3>2, <3>3
  <2> QED
    BY <2>2, <2>3
<1>9. PublisherOrder'
  BY <1>8 DEF PublisherOrder
<1>10. \A p \in Publishers : event[p].n \in Nat /\ event[p].n + 1 \in Nat
  BY <1>3
<1> QED
  BY <1>1, <1>5, <1>7, <1>9, <1>10 DEF OrderInv, Below

(* Every other step leaves the events where they are, and a publisher only *)
(* moves on to the entries that it has still to try.                       *)
LEMMA OrderStep ==
  TypeOK /\ InHand /\ HolderInv /\ OrderInv /\ [Next]_vars => OrderInv'
<1> SUFFICES ASSUME TypeOK, InHand, HolderInv, OrderInv, [Next]_vars
             PROVE  OrderInv'
  OBVIOUS
<1> USE DEF busVars, entryVars, lockVars, pubVars, closeVars
<1>1. \A p \in Publishers : IsInjective(snapshot[p])
  BY DEF OrderInv
<1>2. ASSUME NEW p \in Publishers, PublishRLock(p) PROVE OrderInv'
  <2>1. Range(Tail(snapshot[p])) \subseteq Range(snapshot[p])
    BY <1>2, TailRange DEF PublishRLock, InHand, TypeOK
  <2>2. \A q \in Publishers : ToSend(q)' \subseteq ToSend(q)
    BY <1>2, <2>1 DEF PublishRLock, ToSend, TypeOK
  <2> QED
    BY <1>1, <1>2, <2>2, OrderKept DEF PublishRLock
<1>3. ASSUME NEW p \in Publishers, PublishCount(p) PROVE OrderInv'
  <2>1. \A q \in Publishers : ToSend(q)' = ToSend(q)
    BY <1>3 DEF PublishCount, ToSend, TypeOK
  <2> QED
    BY <1>1, <1>3, <2>1, OrderKept DEF PublishCount
<1>4. ASSUME NEW p \in Publishers, PublishRUnlock(p) PROVE OrderInv'
  <2>1. /\ snapshot'[p] = Tail(snapshot[p])
        /\ pc[p] = "runlock" /\ pc'[p] \in {"idle", "rlock"}
        /\ \A q \in Publishers : q # p =>
             snapshot'[q] = snapshot[q] /\ pc'[q] = pc[q]
    BY <1>4 DEF PublishRUnlock, RemainingEntries, TypeOK
  <2>2. \A q \in Publishers : ToSend(q)' \subseteq ToSend(q)
    BY <2>1 DEF ToSend
  <2>3. IsInjective(Tail(snapshot[p]))
    BY <1>1, <2>1, TailInjective DEF InHand, TypeOK
  <2> QED
    BY <1>1, <1>4, <2>1, <2>2, <2>3, OrderKept DEF PublishRUnlock
<1>5. ASSUME \/ \E s \in Subs : Subscribe(s) \/ UnsubscribeRemove(s)
             \/ \E k \in Closers : CloseMark(k)
             \/ \E k \in Closing : CloserStep(k)
             \/ UNCHANGED vars
      PROVE  OrderInv'
  <2>1. UNCHANGED <<chan, received, event, pc, snapshot>>
    BY <1>5 DEF Subscribe, UnsubscribeRemove, CloseMark, CloserStep,
                CloserNext, CloserLock, CloserClose, vars
  <2> QED
    BY <1>1, <2>1, OrderKept DEF ToSend
<1> QED
  BY <1>2, <1>3, <1>4, <1>5, OrderSnapshot, OrderSend, OrderReceive
     DEF Next, PublishStep

-----------------------------------------------------------------------------
(* Every reachable state satisfies the invariant.                          *)
THEOREM BusInvariant == Spec => []BusInv
<1>1. Init => BusInv
  BY BusInit
<1>2. BusInv /\ [Next]_vars => BusInv'
  <2> SUFFICES ASSUME BusInv, [Next]_vars PROVE BusInv'
    OBVIOUS
  <2>1. /\ TypeOK /\ LockInv /\ HolderInv /\ SnapInv
        /\ NoSendOnClosed /\ NoStrandedSubscriber /\ CountInv
    BY DEF BusInv
  <2>2. NoDoubleClose /\ InHand
    BY <2>1 DEF HolderInv, LockInv
  <2> QED
    BY <2>1, <2>2, TypeStep, LockStep, HolderStep, SnapStep, SendStep,
       StrandedStep, CountStep DEF BusInv
<1> QED
  BY <1>1, <1>2, PTL DEF Spec

(* The state is always typed, and no channel holds more than its buffer:   *)
(* entry.send never waits (bus.go, the select with a default).             *)
THEOREM BusTypeCorrect == Spec => []TypeOK
<1>1. BusInv => TypeOK
  BY DEF BusInv
<1> QED
  BY <1>1, BusInvariant, PTL

(* No interleaving of Publish, Unsubscribe and Close sends on a closed     *)
(* channel: publishers test isClosed under the read lock they keep until   *)
(* the send is over, closers set it under the write lock.                  *)
THEOREM SendsAreSafe == Spec => []NoSendOnClosed
<1>1. BusInv => NoSendOnClosed
  BY DEF BusInv
<1> QED
  BY <1>1, BusInvariant, PTL

(* No channel is closed twice: an entry is handed to one closing goroutine *)
(* by the critical section that takes it out of the map.                   *)
THEOREM ClosesOnce == Spec => []NoDoubleClose
<1>1. BusInv => NoDoubleClose
  BY DEF BusInv, HolderInv
<1> QED
  BY <1>1, BusInvariant, PTL

(* So no interleaving makes the bus panic.                                 *)
THEOREM ChannelsNeverPanic == Spec => []NoPanic
BY SendsAreSafe, ClosesOnce, PTL DEF NoPanic

(* An open subscription is in the map of an open bus or in the hands of a  *)
(* goroutine that is about to close it, whatever Subscribe raced with.     *)
THEOREM NobodyStranded == Spec => []NoStrandedSubscriber
<1>1. BusInv => NoStrandedSubscriber
  BY DEF BusInv
<1> QED
  BY <1>1, BusInvariant, PTL

(* Publish's count is never more than what it enqueued, although other     *)
(* publishers move the drop counter it compares.                           *)
THEOREM CountIsLowerBound == Spec => []NeverOvercounts
<1>1. BusInv => NeverOvercounts
  BY DEF BusInv, CountInv
<1> QED
  BY <1>1, BusInvariant, PTL

(* A subscriber sees a publisher's events in the order they were published *)
(* and each at most once, whatever the buffer drops and however the sends  *)
(* of several publishers, their receivers and a Close interleave.          *)
THEOREM EventsStayInOrder == Spec => []PublisherOrder
<1>1. Init => OrderInv
  <2> SUFFICES ASSUME Init PROVE OrderInv
    OBVIOUS
  <2>1. IsInjective(<< >>) /\ DOMAIN << >> = {}
    BY DEF IsInjective
  <2>2. \A s \in Subs : DOMAIN chan[s] = {}
    BY <2>1 DEF Init
  <2>3. PublisherOrder
    BY <2>2 DEF PublisherOrder
  <2> QED
    BY <2>1, <2>2, <2>3 DEF Init, OrderInv, Below, ToSend
<1>2. BusInv /\ OrderInv /\ [Next]_vars => OrderInv'
  BY OrderStep DEF BusInv, LockInv
<1>3. OrderInv => PublisherOrder
  BY DEF OrderInv
<1> QED
  BY <1>1, <1>2, <1>3, BusInvariant, PTL DEF Spec
=============================================================================
