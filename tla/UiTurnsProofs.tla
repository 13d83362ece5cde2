---------------------------- MODULE UiTurnsProofs ----------------------------
(***************************************************************************)
(* Proofs about UiTurns, for any prompts, any capacity of the event        *)
(* buffers and however far behind Update may be; and, at the end, about    *)
(* the transcript of the same UI (Transcript).                             *)
(*                                                                         *)
(* UiInv is inductive.  HandedOverOnce is not by itself: a popped prompt   *)
(* is announced by one goroutine only and is in no queue any more          *)
(* (PopsInv), and a prompt whose Send has still to report to the UI while  *)
(* it is queued has its own announcement to make first (ReportsInv).       *)
(***************************************************************************)
EXTENDS UiTurns, SeqLemmas, TLAPS

(* The variables the invariant speaks of; nothing bounds the counts.       *)
Shape ==
  /\ drafts \in Seq(Prompts) /\ queue \in Seq(Prompts)
  /\ active \in Prompts \cup {None}
  /\ where \in [Prompts -> Places]
  /\ reports \subseteq Prompts
  /\ \A m \in messages : m.of \in Prompts
  /\ \A c \in changes : c.of \in Prompts /\ c.cause \in {"push", "pop"}

(* What HandedOverOnce says, part by part.                                 *)
Drafted == {p \in Prompts : where[p] = "draft"}
Queued == {p \in Prompts : where[p] = "queued"}
Turning == {p \in Prompts : where[p] \in InTurn}
Popped == {c.of : c \in {d \in changes : d.cause = "pop"}}

DraftsInv == IsInjective(drafts) /\ ToSet(drafts) = Drafted
QueueInv ==
  /\ IsInjective(queue) /\ active \notin ToSet(queue)
  /\ Queued = ToSet(queue) \cup Popped
TurnInv == Turning = {active} \ {None}
MessagesInv == \A m \in messages : where[m.of] \notin {"unused", "draft"}
ReportedInv ==
  \A p \in reports \ {c.of : c \in changes} :
    where[p] \notin {"unused", "draft", "popped", "over"}

(* What goroutines are about to publish.                                   *)
PopsInv ==
  /\ \A c, d \in changes :
       c.cause = "pop" /\ d.cause = "pop" /\ c.of = d.of => c = d
  /\ Popped \cap ToSet(queue) = {}
  /\ \A c \in changes : where[c.of] \notin {"unused", "draft"}
ReportsInv ==
  \A p \in reports :
    where[p] \in {"queued", "popped"} =>
      \E c \in changes : c.cause = "push" /\ c.of = p

UiInv ==
  /\ Shape /\ DraftsInv /\ QueueInv /\ TurnInv /\ MessagesInv /\ ReportedInv
  /\ PopsInv /\ ReportsInv

-----------------------------------------------------------------------------
USE DEF viewVars, uiVars, agentVars

(* The places are different words.                                         *)
LEMMA PlaceNames ==
  /\ InTurn \subseteq Places
  /\ {"unused", "draft", "spawned", "queued", "popped", "over", "cleared"}
       \subseteq Places \ InTurn
BY DEF Places, InTurn

(* Appending one element to the queue in front of the slot.                *)
LEMMA OnceWithSlot ==
  ASSUME NEW q \in Seq(Prompts), NEW e \in Prompts \cup {None}
  PROVE  IsInjective(q \o <<e>>) <=> IsInjective(q) /\ e \notin ToSet(q)
<1>1. /\ DOMAIN q = 1..Len(q) /\ Len(q) \in Nat
      /\ DOMAIN (q \o <<e>>) = 1..(Len(q) + 1)
      /\ \A i \in 1..Len(q) : (q \o <<e>>)[i] = q[i]
      /\ (q \o <<e>>)[Len(q) + 1] = e
  OBVIOUS
<1>2. ASSUME IsInjective(q \o <<e>>) PROVE IsInjective(q) /\ e \notin ToSet(q)
  <2>1. IsInjective(q)
    BY <1>1, <1>2 DEF IsInjective
  <2>2. ASSUME NEW i \in 1..Len(q), q[i] = e PROVE FALSE
    <3>1. /\ i \in DOMAIN (q \o <<e>>) /\ Len(q) + 1 \in DOMAIN (q \o <<e>>)
          /\ i # Len(q) + 1
      BY <1>1
    <3> QED
      BY <1>1, <1>2, <2>2, <3>1 DEF IsInjective
  <2> QED
    BY <1>1, <2>1, <2>2 DEF ToSet
<1>3. ASSUME IsInjective(q), e \notin ToSet(q) PROVE IsInjective(q \o <<e>>)
  <2>1. \A i \in 1..Len(q) : q[i] # e
    BY <1>1, <1>3 DEF ToSet
  <2> QED
    BY <1>1, <1>3, <2>1 DEF IsInjective
<1> QED
  BY <1>2, <1>3

(* The parts say what HandedOverOnce says.                                 *)
LEMMA HandedOverParts ==
  Shape => (HandedOverOnce <=> /\ DraftsInv /\ QueueInv /\ TurnInv
                               /\ MessagesInv /\ ReportedInv)
<1> SUFFICES ASSUME Shape
             PROVE  HandedOverOnce <=> /\ DraftsInv /\ QueueInv /\ TurnInv
                                       /\ MessagesInv /\ ReportedInv
  OBVIOUS
<1>1. IsInjective(queue \o <<active>>) <=>
        IsInjective(queue) /\ active \notin ToSet(queue)
  BY OnceWithSlot DEF Shape
<1> QED
  BY <1>1 DEF HandedOverOnce, DraftsInv, QueueInv, TurnInv, MessagesInv,
              ReportedInv, Drafted, Queued, Turning, Popped

(* Prompts are in the places the invariant says; moving one.               *)
LEMMA MovedOne ==
  ASSUME Shape, NEW p \in Prompts, NEW place \in Places, where' = Moved(p, place)
  PROVE  /\ where' \in [Prompts -> Places]
         /\ where'[p] = place
         /\ \A q \in Prompts : q # p => where'[q] = where[q]
BY DEF Shape, Moved

(* Steps that leave all of it alone; a message may have been handled.      *)
LEMMA Aside ==
  ASSUME UiInv, UNCHANGED <<drafts, queue, active, where, reports, changes>>,
         messages' \subseteq messages
  PROVE  UiInv'
BY DEF UiInv, Shape, DraftsInv, QueueInv, TurnInv, MessagesInv, ReportedInv,
       PopsInv, ReportsInv, Drafted, Queued, Turning, Popped

(* A prompt handed over leaves the drafts, if it was one.                  *)
LEMMA HandOverStep ==
  ASSUME UiInv, NEW p \in Prompts, where[p] \in {"unused", "draft"},
         HandOver(p), UNCHANGED agentVars,
         drafts' \in Seq(Prompts), IsInjective(drafts'),
         ToSet(drafts') = ToSet(drafts) \ {p}
  PROVE  UiInv'
<1>1. /\ where' = Moved(p, "spawned") /\ reports' = reports \cup {p}
      /\ messages' = messages \cup {Message("started", p)}
      /\ UNCHANGED <<active, queue, changes>>
  BY DEF HandOver
<1>2. /\ where' \in [Prompts -> Places] /\ where'[p] = "spawned"
      /\ \A q \in Prompts : q # p => where'[q] = where[q]
  BY <1>1, MovedOne, PlaceNames DEF UiInv
<1>3. Shape'
  BY <1>1, <1>2 DEF UiInv, Shape, Message
<1>4. DraftsInv'
  BY <1>2 DEF UiInv, DraftsInv, Drafted
<1>5. QueueInv'
  BY <1>1, <1>2 DEF UiInv, QueueInv, Queued, Popped
<1>6. TurnInv'
  BY <1>1, <1>2, PlaceNames DEF UiInv, TurnInv, Turning, InTurn
<1>7. MessagesInv' /\ ReportedInv'
  BY <1>1, <1>2 DEF UiInv, Shape, MessagesInv, ReportedInv, Message
<1>8. PopsInv' /\ ReportsInv'
  BY <1>1, <1>2 DEF UiInv, Shape, PopsInv, ReportsInv, Popped
<1> QED
  BY <1>3, <1>4, <1>5, <1>6, <1>7, <1>8 DEF UiInv

(* The next draft is handed over, or none.                                 *)
LEMMA FlushStep ==
  ASSUME UiInv, FlushQueuedDrafts \/ NoFlush, UNCHANGED agentVars
  PROVE  UiInv'
<1>1. CASE NoFlush
  BY <1>1, Aside DEF NoFlush
<1>2. CASE FlushQueuedDrafts /\ drafts = <<>>
  BY <1>2, Aside DEF FlushQueuedDrafts
<1>3. CASE FlushQueuedDrafts /\ drafts # <<>>
  <2>1. HandOver(Head(drafts)) /\ drafts' = Tail(drafts)
    BY <1>3 DEF FlushQueuedDrafts
  <2>2. /\ drafts \in Seq(Prompts) /\ IsInjective(drafts)
        /\ ToSet(drafts) = Drafted
    BY DEF UiInv, Shape, DraftsInv
  <2>3. /\ Head(drafts) \in ToSet(drafts)
        /\ ToSet(Tail(drafts)) = ToSet(drafts) \ {Head(drafts)}
        /\ IsInjective(Tail(drafts))
    BY <1>3, <2>2, ToSetOfTail
  <2>4. Head(drafts) \in Prompts /\ where[Head(drafts)] = "draft"
    BY <2>2, <2>3 DEF Drafted
  <2>5. Tail(drafts) \in Seq(Prompts)
    BY <1>3, <2>2
  <2> QED
    BY <2>1, <2>3, <2>4, <2>5, HandOverStep
<1> QED
  BY <1>1, <1>2, <1>3

(* Esc empties the drafts, or the agent's queue, or both.                  *)
LEMMA ClearStep ==
  ASSUME UiInv, NEW ds, NEW qs, Clear(ds \cup qs),
         (ds = {} /\ drafts' = drafts) \/ (ds = ToSet(drafts) /\ drafts' = <<>>),
         (qs = {} /\ queue' = queue) \/ (qs = ToSet(queue) /\ queue' = <<>>),
         UNCHANGED <<messages, reports, active, changes>>
  PROVE  UiInv'
<1>1. /\ Shape /\ DraftsInv /\ QueueInv /\ TurnInv /\ PopsInv
      /\ ds \subseteq Drafted /\ qs \subseteq Queued \ Popped
      /\ Drafted \subseteq Prompts /\ Queued \subseteq Prompts
  BY DEF UiInv, DraftsInv, QueueInv, PopsInv, Drafted, Queued
<1>2. /\ where' \in [Prompts -> Places]
      /\ \A p \in Prompts : p \in ds \cup qs => where'[p] = "cleared"
      /\ \A p \in Prompts \ (ds \cup qs) : where'[p] = where[p]
  BY <1>1, PlaceNames DEF Clear, Shape
<1>3. drafts' \in Seq(Prompts) /\ IsInjective(drafts') /\ ToSet(drafts') = ToSet(drafts) \ ds
  <2>1. CASE ds = {} /\ drafts' = drafts
    BY <1>1, <2>1 DEF Shape, DraftsInv
  <2>2. CASE ds = ToSet(drafts) /\ drafts' = <<>>
    BY <2>2, EmptySequence
  <2> QED
    BY <2>1, <2>2
<1>4. queue' \in Seq(Prompts) /\ IsInjective(queue') /\ ToSet(queue') = ToSet(queue) \ qs
  <2>1. CASE qs = {} /\ queue' = queue
    BY <1>1, <2>1 DEF Shape, QueueInv
  <2>2. CASE qs = ToSet(queue) /\ queue' = <<>>
    BY <2>2, EmptySequence
  <2> QED
    BY <2>1, <2>2
<1>5. Shape'
  BY <1>1, <1>2, <1>3, <1>4 DEF Shape
<1>6. DraftsInv'
  BY <1>1, <1>2, <1>3 DEF DraftsInv, Drafted, Queued
<1>7. QueueInv'
  BY <1>1, <1>2, <1>4 DEF QueueInv, Queued, Drafted, Popped, PopsInv
<1>8. TurnInv'
  BY <1>1, <1>2, PlaceNames DEF TurnInv, Turning, Drafted, Queued, InTurn
<1>9. MessagesInv' /\ ReportedInv'
  BY <1>1, <1>2 DEF UiInv, Shape, MessagesInv, ReportedInv
<1>10. PopsInv' /\ ReportsInv'
  BY <1>1, <1>2, <1>4 DEF UiInv, Shape, PopsInv, ReportsInv, Popped
<1> QED
  BY <1>5, <1>6, <1>7, <1>8, <1>9, <1>10 DEF UiInv

-----------------------------------------------------------------------------
(* A turn goes on, or fails: its prompt stays in a turn.                   *)
LEMMA TurnStepKeeps ==
  ASSUME UiInv, NEW p \in Prompts, NEW from \in InTurn, NEW to \in InTurn,
         NEW es, TurnStep(p, from, to, es)
  PROVE  UiInv'
<1>1. /\ where[p] = from /\ where' = Moved(p, to)
      /\ UNCHANGED <<drafts, messages, reports, active, queue, changes>>
  BY DEF TurnStep
<1>2. /\ where' \in [Prompts -> Places] /\ where'[p] = to
      /\ \A q \in Prompts : q # p => where'[q] = where[q]
  BY <1>1, MovedOne, PlaceNames DEF UiInv
<1>3. from \notin {"unused", "draft", "spawned", "queued", "popped", "over", "cleared"}
      /\ to \notin {"unused", "draft", "spawned", "queued", "popped", "over", "cleared"}
  BY PlaceNames
<1>4. Drafted' = Drafted /\ Queued' = Queued /\ Turning' = Turning /\ Popped' = Popped
  BY <1>1, <1>2, <1>3 DEF Drafted, Queued, Turning, Popped
<1>5. Shape' /\ DraftsInv' /\ QueueInv' /\ TurnInv'
  BY <1>1, <1>2, <1>4 DEF UiInv, Shape, DraftsInv, QueueInv, TurnInv
<1>6. MessagesInv' /\ ReportedInv'
  BY <1>1, <1>2, <1>3 DEF UiInv, Shape, MessagesInv, ReportedInv
<1>7. PopsInv' /\ ReportsInv'
  BY <1>1, <1>2, <1>3, <1>4 DEF UiInv, Shape, PopsInv, ReportsInv
<1> QED
  BY <1>5, <1>6, <1>7 DEF UiInv

(* Agent.Send takes the slot.                                              *)
LEMMA SendStartsKeeps ==
  ASSUME UiInv, NEW p \in Prompts, SendStarts(p)
  PROVE  UiInv'
<1>1. /\ where[p] \in {"spawned", "popped"} /\ active = None
      /\ active' = p /\ where' = Moved(p, "hook")
      /\ UNCHANGED <<drafts, messages, reports, queue, changes>>
  BY DEF SendStarts
<1>2. /\ where' \in [Prompts -> Places] /\ where'[p] = "hook"
      /\ \A q \in Prompts : q # p => where'[q] = where[q]
  BY <1>1, MovedOne, PlaceNames DEF UiInv, InTurn
<1>3. Drafted' = Drafted /\ Queued' = Queued /\ Popped' = Popped
      /\ Turning' = Turning \cup {p}
  BY <1>1, <1>2 DEF Drafted, Queued, Turning, Popped, InTurn
<1>4. p \notin ToSet(queue)
  BY <1>1 DEF UiInv, QueueInv, Queued
<1>5. Shape' /\ DraftsInv'
  BY <1>1, <1>2, <1>3 DEF UiInv, Shape, DraftsInv
<1>6. QueueInv' /\ TurnInv'
  BY <1>1, <1>3, <1>4, NoneAssumption DEF UiInv, QueueInv, TurnInv
<1>7. MessagesInv' /\ ReportedInv'
  BY <1>1, <1>2 DEF UiInv, Shape, MessagesInv, ReportedInv
<1>8. PopsInv' /\ ReportsInv'
  BY <1>1, <1>2, <1>3 DEF UiInv, Shape, PopsInv, ReportsInv
<1> QED
  BY <1>5, <1>6, <1>7, <1>8 DEF UiInv

(* Agent.Send queues the prompt, and its goroutine has that to publish.    *)
LEMMA SendQueuesKeeps ==
  ASSUME UiInv, NEW p \in Prompts, SendQueues(p)
  PROVE  UiInv'
<1> DEFINE e == [cause |-> "push", of |-> p, count |-> Len(queue) + 1]
<1>1. /\ where[p] \in {"spawned", "popped"} /\ active # None
      /\ queue' = Append(queue, p) /\ where' = Moved(p, "queued")
      /\ changes' = changes \cup {e}
      /\ UNCHANGED <<drafts, messages, reports, active>>
  BY DEF SendQueues
<1>2. /\ where' \in [Prompts -> Places] /\ where'[p] = "queued"
      /\ \A q \in Prompts : q # p => where'[q] = where[q]
  BY <1>1, MovedOne, PlaceNames DEF UiInv
<1>e. e.cause = "push" /\ e.of = p
  OBVIOUS
<1> HIDE DEF e
<1>3. /\ Drafted' = Drafted /\ Queued' = Queued \cup {p} /\ Turning' = Turning
      /\ Popped' = Popped
  <2>1. Popped' = Popped
    BY <1>1, <1>e DEF Popped
  <2> QED
    BY <1>1, <1>2, <2>1 DEF Drafted, Queued, Turning, InTurn
<1>4. /\ p \notin ToSet(queue) /\ p \notin Popped /\ p # active
      /\ queue \in Seq(Prompts) /\ IsInjective(queue)
  BY <1>1 DEF UiInv, Shape, QueueInv, Queued, TurnInv, Turning, InTurn
<1>5. /\ queue' \in Seq(Prompts) /\ IsInjective(queue')
      /\ ToSet(queue') = ToSet(queue) \cup {p}
  BY <1>1, <1>4, ToSetOfAppend, InjectiveAppend
<1>6. Shape' /\ DraftsInv'
  BY <1>1, <1>2, <1>3, <1>5, <1>e DEF UiInv, Shape, DraftsInv
<1>7. QueueInv' /\ TurnInv'
  BY <1>1, <1>3, <1>4, <1>5 DEF UiInv, QueueInv, TurnInv
<1>8. MessagesInv' /\ ReportedInv'
  BY <1>1, <1>2, <1>e DEF UiInv, Shape, MessagesInv, ReportedInv
<1>9. PopsInv'
  BY <1>1, <1>2, <1>3, <1>4, <1>5, <1>e DEF UiInv, Shape, PopsInv
<1>10. ReportsInv'
  BY <1>1, <1>2, <1>e DEF UiInv, Shape, ReportsInv
<1> QED
  BY <1>6, <1>7, <1>8, <1>9, <1>10 DEF UiInv

(* Publishing that a prompt was queued is the last its Send does.          *)
LEMMA PublishPushKeeps ==
  ASSUME UiInv, NEW c \in changes, c.cause = "push", PublishQueueChanged(c)
  PROVE  UiInv'
<1>1. /\ changes' = changes \ {c} /\ reports' = reports \ {c.of}
      /\ messages' = messages \cup {Message("queued", p) : p \in {c.of} \cap reports}
      /\ UNCHANGED <<drafts, where, active, queue>>
  BY DEF PublishQueueChanged
<1>2. \A m \in messages' : m \in messages \/ m.of = c.of
  BY <1>1 DEF Message
<1>3. Drafted' = Drafted /\ Queued' = Queued /\ Turning' = Turning /\ Popped' = Popped
  BY <1>1 DEF Drafted, Queued, Turning, Popped
<1>4. Shape' /\ DraftsInv' /\ QueueInv' /\ TurnInv'
  BY <1>1, <1>2, <1>3 DEF UiInv, Shape, DraftsInv, QueueInv, TurnInv
<1>5. MessagesInv' /\ ReportedInv'
  BY <1>1, <1>2 DEF UiInv, MessagesInv, ReportedInv, PopsInv
<1>6. PopsInv' /\ ReportsInv'
  BY <1>1, <1>3 DEF UiInv, PopsInv, ReportsInv
<1> QED
  BY <1>4, <1>5, <1>6 DEF UiInv

(* The goroutine that popped a prompt publishes, and sends it again.       *)
LEMMA PublishPopKeeps ==
  ASSUME UiInv, NEW c \in changes, c.cause = "pop", PublishQueueChanged(c)
  PROVE  UiInv'
<1>1. /\ changes' = changes \ {c} /\ where' = Moved(c.of, "popped")
      /\ UNCHANGED <<drafts, messages, reports, active, queue>>
  BY DEF PublishQueueChanged
<1>2. c.of \in Prompts /\ c.of \in Popped /\ where[c.of] = "queued"
  BY DEF UiInv, Shape, QueueInv, Popped, Queued
<1>3. /\ where' \in [Prompts -> Places] /\ where'[c.of] = "popped"
      /\ \A q \in Prompts : q # c.of => where'[q] = where[q]
  BY <1>1, <1>2, MovedOne, PlaceNames DEF UiInv
<1>4. Popped' = Popped \ {c.of}
  <2>1. \A d \in changes : d.cause = "pop" /\ d.of = c.of => d = c
    BY DEF UiInv, PopsInv
  <2> QED
    BY <1>1, <2>1 DEF Popped
<1>5. /\ Drafted' = Drafted /\ Queued' = Queued \ {c.of} /\ Turning' = Turning
  BY <1>2, <1>3 DEF Drafted, Queued, Turning, InTurn
<1>6. Shape' /\ DraftsInv'
  BY <1>1, <1>3, <1>5 DEF UiInv, Shape, DraftsInv
<1>7. QueueInv' /\ TurnInv'
  BY <1>1, <1>2, <1>4, <1>5 DEF UiInv, QueueInv, TurnInv, PopsInv
<1>8. ReportsInv'
  <2> SUFFICES ASSUME NEW p \in reports, where'[p] \in {"queued", "popped"}
               PROVE  \E d \in changes' : d.cause = "push" /\ d.of = p
    BY <1>1 DEF ReportsInv
  <2>1. p \in Prompts /\ where[p] \in {"queued", "popped"}
    BY <1>2, <1>3 DEF UiInv, Shape
  <2>2. PICK d \in changes : d.cause = "push" /\ d.of = p
    BY <2>1 DEF UiInv, ReportsInv
  <2> QED
    BY <1>1, <2>2
<1>9. ReportedInv'
  <2> SUFFICES ASSUME NEW p \in reports, p \notin {d.of : d \in changes'}
               PROVE  where'[p] \notin {"unused", "draft", "popped", "over"}
    BY <1>1 DEF ReportedInv
  <2>1. CASE p = c.of
    <3>1. PICK d \in changes : d.cause = "push" /\ d.of = p
      BY <1>2, <2>1 DEF UiInv, ReportsInv
    <3> QED
      BY <1>1, <3>1
  <2>2. CASE p # c.of
    BY <1>1, <1>3, <2>2 DEF UiInv, Shape, ReportedInv
  <2> QED
    BY <2>1, <2>2
<1>10. MessagesInv' /\ PopsInv'
  BY <1>1, <1>2, <1>3, <1>4 DEF UiInv, Shape, MessagesInv, PopsInv
<1> QED
  BY <1>6, <1>7, <1>8, <1>9, <1>10 DEF UiInv

(* Send returns: the slot is free, the next prompt is popped.              *)
LEMMA SendReturnsKeeps ==
  ASSUME UiInv, NEW p \in Prompts, SendReturns(p)
  PROVE  UiInv'
<1>1. /\ where[p] \in {"succeeded", "failed"}
      /\ active' = None /\ where' = Moved(p, "over")
      /\ reports' = reports \ {p} /\ drafts' = drafts
      /\ \A m \in messages' : m \in messages \/ m.of = p
  BY DEF SendReturns, Message
<1>2. /\ where' \in [Prompts -> Places] /\ where'[p] = "over"
      /\ \A q \in Prompts : q # p => where'[q] = where[q]
  BY <1>1, MovedOne, PlaceNames DEF UiInv
<1>3. Drafted' = Drafted /\ Queued' = Queued /\ Turning' = Turning \ {p}
  BY <1>1, <1>2 DEF Drafted, Queued, Turning, InTurn
<1>4. active = p
  BY <1>1 DEF UiInv, TurnInv, Turning, InTurn
<1>q. /\ queue \in Seq(Prompts) /\ IsInjective(queue) /\ ToSet(queue) \subseteq Prompts
      /\ None \notin ToSet(queue)
  BY NoneAssumption DEF UiInv, Shape, QueueInv, Queued
<1>5. DraftsInv' /\ TurnInv'
  BY <1>1, <1>3, <1>4 DEF UiInv, DraftsInv, TurnInv
<1>6. MessagesInv'
  BY <1>1, <1>2 DEF UiInv, Shape, MessagesInv
<1>7. CASE queue = <<>>
  <2>1. UNCHANGED <<queue, changes>>
    BY <1>7 DEF SendReturns
  <2>2. Popped' = Popped
    BY <2>1 DEF Popped
  <2>3. Shape' /\ QueueInv'
    BY <1>1, <1>2, <1>3, <1>q, <2>1, <2>2 DEF UiInv, Shape, QueueInv
  <2>4. ReportedInv'
    BY <1>1, <1>2, <2>1 DEF UiInv, Shape, ReportedInv
  <2>5. PopsInv' /\ ReportsInv'
    BY <1>1, <1>2, <2>1, <2>2 DEF UiInv, Shape, PopsInv, ReportsInv
  <2> QED
    BY <1>5, <1>6, <2>3, <2>4, <2>5 DEF UiInv
<1>8. CASE queue # <<>>
  <2> DEFINE e == [cause |-> "pop", of |-> Head(queue), count |-> Len(queue) - 1]
  <2>1. queue' = Tail(queue) /\ changes' = changes \cup {e}
    BY <1>8 DEF SendReturns
  <2>e. e.cause = "pop" /\ e.of = Head(queue)
    OBVIOUS
  <2> HIDE DEF e
  <2>2. /\ Head(queue) \in ToSet(queue) /\ queue' \in Seq(Prompts)
        /\ ToSet(queue') = ToSet(queue) \ {Head(queue)} /\ IsInjective(queue')
    BY <1>q, <1>8, <2>1, ToSetOfTail
  <2>3. Popped' = Popped \cup {Head(queue)}
    BY <2>1, <2>e DEF Popped
  <2>4. Head(queue) \in Prompts /\ Head(queue) \notin Popped
        /\ where[Head(queue)] = "queued" /\ Head(queue) # p
    BY <1>1, <1>q, <2>2 DEF UiInv, PopsInv, QueueInv, Queued
  <2>5. Shape' /\ QueueInv'
    BY <1>1, <1>2, <1>3, <1>q, <2>1, <2>2, <2>3, <2>4, <2>e
       DEF UiInv, Shape, QueueInv
  <2>6. ReportedInv'
    BY <1>1, <1>2, <2>1 DEF UiInv, Shape, ReportedInv
  <2>7. ReportsInv'
    BY <1>1, <1>2, <2>1 DEF UiInv, Shape, ReportsInv
  <2>8. \A c, d \in changes' :
          c.cause = "pop" /\ d.cause = "pop" /\ c.of = d.of => c = d
    <3>1. \A c \in changes : c.cause = "pop" => c.of # Head(queue)
      BY <2>4 DEF Popped
    <3> QED
      BY <2>1, <2>e, <3>1 DEF UiInv, PopsInv
  <2>9. Popped' \cap ToSet(queue') = {}
    BY <2>2, <2>3 DEF UiInv, PopsInv
  <2>10. \A c \in changes' : where'[c.of] \notin {"unused", "draft"}
    BY <1>1, <1>2, <2>1, <2>4, <2>e DEF UiInv, Shape, PopsInv
  <2>11. PopsInv'
    BY <2>8, <2>9, <2>10 DEF PopsInv
  <2> QED
    BY <1>5, <1>6, <2>5, <2>6, <2>7, <2>11 DEF UiInv
<1> QED
  BY <1>7, <1>8

-----------------------------------------------------------------------------
(* The user's keys.                                                        *)
LEMMA UserKeeps ==
  ASSUME UiInv, (\E p \in Prompts : Enter(p)) \/ Esc \/ Interrupt
  PROVE  UiInv'
<1>t. /\ Shape /\ DraftsInv /\ ToSet(drafts) = Drafted
      /\ drafts \in Seq(Prompts) /\ IsInjective(drafts)
  BY DEF UiInv, Shape, DraftsInv
<1>1. ASSUME NEW p \in Prompts, Enter(p) PROVE UiInv'
  <2>1. where[p] = "unused" /\ p \notin ToSet(drafts)
    BY <1>1, <1>t DEF Enter, Drafted
  <2>2. CASE ~busy
    <3>1. HandOver(p) /\ drafts' = drafts /\ UNCHANGED agentVars
      BY <1>1, <2>2 DEF Enter
    <3> QED
      BY <1>t, <2>1, <3>1, HandOverStep
  <2>3. CASE busy
    <3>1. /\ drafts' = Append(drafts, p) /\ where' = Moved(p, "draft")
          /\ UNCHANGED <<reports, messages, active, queue, changes>>
      BY <1>1, <2>3 DEF Enter
    <3>2. /\ where' \in [Prompts -> Places] /\ where'[p] = "draft"
          /\ \A q \in Prompts : q # p => where'[q] = where[q]
      BY <1>t, <3>1, MovedOne, PlaceNames
    <3>3. /\ Drafted' = Drafted \cup {p} /\ Queued' = Queued
          /\ Turning' = Turning /\ Popped' = Popped
      BY <2>1, <3>1, <3>2 DEF Drafted, Queued, Turning, Popped, InTurn
    <3>4. /\ drafts' \in Seq(Prompts) /\ IsInjective(drafts')
          /\ ToSet(drafts') = ToSet(drafts) \cup {p}
      BY <1>t, <2>1, <3>1, ToSetOfAppend, InjectiveAppend
    <3>5. Shape' /\ DraftsInv'
      BY <1>t, <3>1, <3>2, <3>3, <3>4 DEF Shape, DraftsInv
    <3>6. QueueInv' /\ TurnInv'
      BY <3>1, <3>3 DEF UiInv, QueueInv, TurnInv
    <3>7. MessagesInv' /\ ReportedInv'
      <4>1. /\ \A m \in messages : m.of # p
            /\ \A q \in reports \ {c.of : c \in changes} : q # p
        BY <2>1 DEF UiInv, MessagesInv, ReportedInv
      <4> QED
        BY <1>t, <3>1, <3>2, <4>1 DEF UiInv, Shape, MessagesInv, ReportedInv
    <3>8. PopsInv' /\ ReportsInv'
      BY <1>t, <2>1, <3>1, <3>2, <3>3 DEF UiInv, Shape, PopsInv, ReportsInv
    <3> QED
      BY <3>5, <3>6, <3>7, <3>8 DEF UiInv
  <2> QED
    BY <2>2, <2>3
<1>2. CASE Esc
  <2>1. UNCHANGED <<messages, reports, active, changes>>
    BY <1>2 DEF Esc
  <2>2. CASE drafts # <<>>
    <3>1. /\ drafts' = <<>> /\ queue' = queue /\ Clear(ToSet(drafts) \cup {})
      BY <1>2, <2>2 DEF Esc
    <3> QED
      BY <2>1, <3>1, ClearStep
  <2>3. CASE drafts = <<>>
    <3>1. /\ drafts' = drafts /\ queue' = <<>> /\ Clear({} \cup ToSet(queue))
      BY <1>2, <2>3 DEF Esc, ClearQueue
    <3> QED
      BY <2>1, <3>1, ClearStep
  <2> QED
    BY <2>2, <2>3
<1>3. CASE Interrupt
  <2>1. /\ UNCHANGED <<messages, reports, active, changes>>
        /\ drafts' = <<>> /\ queue' = <<>>
        /\ Clear(ToSet(drafts) \cup ToSet(queue))
    BY <1>3 DEF Interrupt, ClearQueue
  <2> QED
    BY <2>1, ClearStep
<1> QED
  BY <1>1, <1>2, <1>3

(* Update, whatever reaches it.                                            *)
LEMMA UpdateKeeps ==
  ASSUME UiInv, Delivery \/ Reconcile
  PROVE  UiInv'
<1>f. ASSUME DequeuePendingFlush PROVE FlushQueuedDrafts \/ NoFlush
  BY <1>f DEF DequeuePendingFlush
<1>1. CASE HandleTurnStarted \/ HandleTextDelta
  BY <1>1, FlushStep DEF HandleTurnStarted, HandleTextDelta
<1>2. CASE HandleTurnCompleted
  <2>1. FlushQueuedDrafts \/ NoFlush
    BY <1>2 DEF HandleTurnCompleted
  <2> QED
    BY <1>2, <2>1, FlushStep DEF HandleTurnCompleted
<1>3. CASE HandleMessageAppended
  BY <1>f, <1>3, FlushStep DEF HandleMessageAppended
<1>4. CASE HandleQueueChanged
  BY <1>4, Aside DEF HandleQueueChanged
<1>5. ASSUME NEW m \in messages, HandleSendStarted(m) \/ HandleSendCompleted(m)
      PROVE  UiInv'
  <2>1. /\ UNCHANGED <<drafts, queue, active, where, reports, changes>>
        /\ messages' \subseteq messages
    BY <1>5 DEF HandleSendStarted, HandleSendCompleted
  <2> QED
    BY <2>1, Aside
<1>6. CASE Reconcile
  <2>1. FlushQueuedDrafts \/ NoFlush
    BY <1>f, <1>6 DEF Reconcile
  <2> QED
    BY <1>6, <2>1, FlushStep DEF Reconcile
<1> QED
  BY <1>1, <1>2, <1>3, <1>4, <1>5, <1>6 DEF Delivery

(* The agent.                                                              *)
LEMMA AgentKeeps ==
  ASSUME UiInv, AgentStep \/ \E p \in Prompts : TextDelta(p)
  PROVE  UiInv'
<1>t. {"hook", "streaming", "answered", "succeeded", "failed"} \subseteq InTurn
  BY DEF InTurn
<1>1. ASSUME NEW p \in Prompts,
             TurnStarted(p) \/ StoreAssistant(p) \/ TurnCompleted(p)
               \/ TurnFails(p) \/ TextDelta(p)
      PROVE  UiInv'
  <2>1. \E from, to \in InTurn : \E es : TurnStep(p, from, to, es)
    BY <1>t, <1>1 DEF TurnStarted, StoreAssistant, TurnCompleted, TurnFails,
                      TextDelta
  <2> QED
    BY <2>1, TurnStepKeeps
<1>2. ASSUME NEW c \in changes, PublishQueueChanged(c) PROVE UiInv'
  BY <1>2, PublishPushKeeps, PublishPopKeeps DEF UiInv, Shape
<1> QED
  BY <1>1, <1>2, SendStartsKeeps, SendQueuesKeeps, SendReturnsKeeps
     DEF AgentStep

(* Nothing is entered, queued or running at the start.                     *)
LEMMA InitUi == Init => UiInv
<1> SUFFICES ASSUME Init PROVE UiInv
  OBVIOUS
<1>1. /\ drafts = <<>> /\ queue = <<>> /\ active = None
      /\ messages = {} /\ reports = {} /\ changes = {}
      /\ where \in [Prompts -> Places] /\ \A p \in Prompts : where[p] = "unused"
  BY PlaceNames DEF Init
<1>2. Drafted = {} /\ Queued = {} /\ Turning = {} /\ Popped = {}
  BY <1>1 DEF Drafted, Queued, Turning, Popped, InTurn
<1> QED
  BY <1>1, <1>2, EmptySequence DEF UiInv, Shape, DraftsInv, QueueInv, TurnInv,
     MessagesInv, ReportedInv, PopsInv, ReportsInv

(* The inductive invariant holds in every state of every run.              *)
THEOREM UiInvariant == Spec => []UiInv
<1>1. UiInv /\ [Next]_vars => UiInv'
  <2> SUFFICES ASSUME UiInv, [Next]_vars PROVE UiInv'
    OBVIOUS
  <2>1. CASE UNCHANGED vars
    BY <2>1, Aside DEF vars
  <2>2. CASE Next
    BY <2>2, UserKeeps, UpdateKeeps, AgentKeeps DEF Next
  <2> QED
    BY <2>1, <2>2
<1> QED
  BY InitUi, <1>1, PTL DEF Spec

(* Whatever order events, results, ticks and keys reach Update in, and     *)
(* whatever is dropped, a prompt is a draft, in the agent's queue, popped, *)
(* in the one turn or done with, as the queues and the slot say, and its   *)
(* Send reports once (app_send.go, app_messages.go, agent.go).             *)
THEOREM PromptsAreInOnePlace == Spec => []HandedOverOnce
<1>1. UiInv => HandedOverOnce
  BY HandedOverParts DEF UiInv
<1> QED
  BY <1>1, UiInvariant, PTL

(* A prompt that Esc threw away is never moved again.                      *)
THEOREM ClearedIsNeverRun == Spec => ClearedStaysCleared
<1>1. ASSUME UiInv, [Next]_vars, NEW p \in Prompts, where[p] = "cleared"
      PROVE  where'[p] = "cleared"
  <2>s. /\ Shape /\ \A q \in ToSet(drafts) : q \in Prompts /\ where[q] = "draft"
        /\ drafts \in Seq(Prompts)
    BY <1>1 DEF UiInv, Shape, DraftsInv, Drafted
  <2>m. ASSUME NEW q \in Prompts, NEW place, where' = Moved(q, place),
               where[q] # "cleared"
        PROVE  where'[p] = "cleared"
    BY <1>1, <2>s, <2>m DEF Moved, Shape
  <2>f. ASSUME FlushQueuedDrafts \/ NoFlush PROVE where'[p] = "cleared"
    <3>1. CASE where' = where
      BY <1>1, <3>1
    <3>2. CASE FlushQueuedDrafts /\ drafts # <<>>
      <4>1. where' = Moved(Head(drafts), "spawned")
        BY <3>2 DEF FlushQueuedDrafts, HandOver
      <4>2. Head(drafts) \in ToSet(drafts)
        BY <2>s, <3>2, TailAddsNothing
      <4> QED
        BY <2>s, <2>m, <4>1, <4>2
    <3> QED
      BY <2>f, <3>1, <3>2 DEF FlushQueuedDrafts, NoFlush
  <2>c. ASSUME NEW ps, Clear(ps) PROVE where'[p] = "cleared"
    BY <1>1, <2>c DEF Clear
  <2>1. CASE UNCHANGED vars
    BY <1>1, <2>1 DEF vars
  <2>2. ASSUME NEW q \in Prompts, Enter(q) PROVE where'[p] = "cleared"
    BY <2>2, <2>m DEF Enter, HandOver
  <2>3. CASE Esc \/ Interrupt
    BY <2>3, <2>c DEF Esc, Interrupt
  <2>4. CASE Reconcile
    BY <2>4, <2>f DEF Reconcile, DequeuePendingFlush
  <2>5. CASE Delivery
    <3>1. CASE \/ HandleTurnStarted \/ HandleTurnCompleted
               \/ HandleMessageAppended \/ HandleTextDelta
      <4>1. FlushQueuedDrafts \/ NoFlush
        BY <3>1 DEF HandleTurnStarted, HandleTurnCompleted,
           HandleMessageAppended, HandleTextDelta, DequeuePendingFlush
      <4> QED
        BY <2>f, <4>1
    <3>2. CASE \/ HandleQueueChanged
               \/ \E m \in messages : HandleSendStarted(m) \/ HandleSendCompleted(m)
      BY <1>1, <3>2 DEF HandleQueueChanged, HandleSendStarted,
                        HandleSendCompleted
    <3> QED
      BY <2>5, <3>1, <3>2 DEF Delivery
  <2>6. ASSUME NEW q \in Prompts,
               \/ SendStarts(q) \/ SendQueues(q) \/ SendReturns(q)
               \/ TurnStarted(q) \/ StoreAssistant(q) \/ TurnCompleted(q)
               \/ TurnFails(q) \/ TextDelta(q)
        PROVE  where'[p] = "cleared"
    <3>1. \E place : where' = Moved(q, place) /\ where[q] # "cleared"
      BY <2>6 DEF SendStarts, SendQueues, SendReturns, TurnStarted,
         StoreAssistant, TurnCompleted, TurnFails, TextDelta, TurnStep
    <3> QED
      BY <2>m, <3>1
  <2>7. ASSUME NEW c \in changes, PublishQueueChanged(c)
        PROVE  where'[p] = "cleared"
    <3>1. CASE c.cause = "push"
      BY <1>1, <2>7, <3>1 DEF PublishQueueChanged
    <3>2. CASE c.cause # "push"
      <4>1. c.of \in Prompts /\ c.cause = "pop"
        BY <1>1, <3>2 DEF UiInv, Shape
      <4>2. where[c.of] = "queued"
        BY <1>1, <4>1 DEF UiInv, QueueInv, Popped, Queued
      <4>3. where' = Moved(c.of, "popped")
        BY <2>7, <3>2 DEF PublishQueueChanged
      <4> QED
        BY <2>m, <4>1, <4>2, <4>3
    <3> QED
      BY <3>1, <3>2
  <2> QED
    BY <1>1, <2>1, <2>2, <2>3, <2>4, <2>5, <2>6, <2>7 DEF Next, AgentStep
<1>2. UiInv /\ [Next]_vars =>
        [\A p \in Prompts : where[p] = "cleared" => where'[p] = "cleared"]_vars
  BY <1>1
<1> QED
  BY <1>2, UiInvariant, PTL DEF Spec, ClearedStaysCleared

-----------------------------------------------------------------------------
(***************************************************************************)
(* The transcript, as an instance: any sessions, any calls and any texts,  *)
(* Transcript's assumptions a hypothesis.                                  *)
(*                                                                         *)
(* TranscriptInv is inductive.  OneRowPerMessage is not by itself: the     *)
(* event of a message that is pending must not find a row of it that could *)
(* still be extended, and must come once (AnnouncedInv, Settled).          *)
(***************************************************************************)
CONSTANTS Root, Subs, Calls, CallerOf, SubOf, Nobody, MaxText(_), MaxSubs,
          MaxStored, Failing, MaxTurns, MaxBehindT, MaxOpens
VARIABLES stored, phase, text, at, turns, cancelled, evs, rows, flushIdx,
          optimistic, tracked, subRows, ended, opens, clean

Tr == INSTANCE Transcript WITH
        None <- Nobody, MaxBehind <- MaxBehindT, events <- evs

USE DEF Tr!runVars, Tr!uiVars, Tr!subVars, Tr!vars

(* What Transcript takes of the library is what is used here.             *)
LEMMA SameLibrary ==
  /\ \A q, i : Tr!RemoveAt(q, i) = RemoveAt(q, i)
  /\ \A q, i, e : Tr!InsertAt(q, i, e) = InsertAt(q, i, e)
  /\ \A q : Tr!Last(q) = Last(q) /\ Tr!Front(q) = Front(q)
  /\ \A q : Tr!ToSet(q) = ToSet(q)
  /\ \A q : Tr!FlattenSeq(q) = FlattenSeq(q)
  /\ \A S : Tr!SetToSeq(S) = SetToSeq(S)
  /\ \A S : Tr!Max(S) = Max(S)
  /\ \A S : Tr!Cardinality(S) = Cardinality(S)
<1>1. \A q, i : Tr!RemoveAt(q, i) = RemoveAt(q, i)
  BY DEF RemoveAt, Tr!RemoveAt
<1>2. \A q, i, e : Tr!InsertAt(q, i, e) = InsertAt(q, i, e)
  BY DEF InsertAt, Tr!InsertAt
<1>3. \A q : Tr!Last(q) = Last(q) /\ Tr!Front(q) = Front(q)
  BY DEF Last, Tr!Last, Front, Tr!Front
<1>4. \A q : Tr!ToSet(q) = ToSet(q)
  BY DEF ToSet, Tr!ToSet
<1>7. \A S : Tr!Cardinality(S) = Cardinality(S)
  BY DEF Cardinality, Tr!Cardinality
<1>6. \A S : Tr!SetToSeq(S) = SetToSeq(S)
  BY <1>7 DEF SetToSeq, Tr!SetToSeq, Tr!IsInjective, IsInjective
<1>5. \A q : Tr!FlattenSeq(q) = FlattenSeq(q)
  BY DEF FlattenSeq, Tr!FlattenSeq
<1>8. \A S : Tr!Max(S) = Max(S)
  BY DEF Max, Tr!Max
<1> QED
  BY <1>1, <1>2, <1>3, <1>4, <1>5, <1>6, <1>7, <1>8

(* Messages by name, the store, and rows.                                  *)
Ids == Tr!Sessions \X Nat
Messages == [role : {"user", "assistant"}, text : Nat, calls : SUBSET Calls]
Rows == [kind : {"user", "assistant", "tool", "system"}, id : Ids \cup {Nobody},
         shows : Seq(Ids), streaming : BOOLEAN, placeholder : BOOLEAN,
         name : {"tool", "subagent", Nobody}, call : Calls \cup {Nobody},
         sub : Subs \cup {Nobody}, result : Calls \cup {Nobody}]
Stores == [Tr!Sessions -> Seq(Messages)]

(* What holds of any transcript's rows.                                    *)
Named(row) == row.id # Nobody
IsStored(st, id) == id \in Ids /\ id[2] \in DOMAIN st[id[1]]
About(st, row) == IsStored(st, row.id) /\ row.kind = st[row.id[1]][row.id[2]].role

OneEach(rs) == \A i, j \in DOMAIN rs : Named(rs[i]) /\ rs[i].id = rs[j].id => i = j
OfStored(st, rs) == \A i \in DOMAIN rs : Named(rs[i]) => About(st, rs[i])
Good(st, rs) == rs \in Seq(Rows) /\ OneEach(rs) /\ OfStored(st, rs)

(* Rows that a delta may extend are about messages announced and handled.  *)
Settled(P, rs, f) ==
  /\ f \in 0..Len(rs)
  /\ \A i \in DOMAIN rs :
       Named(rs[i]) /\ (Tr!IsStreamingBubble(rs[i]) \/ i = f) => rs[i].id \notin P
Whole(st, P, rs, f) == Good(st, rs) /\ Settled(P, rs, f)

(* A row that may take its place in a transcript, but for the row at i.    *)
Fits(st, rs, i, row) ==
  /\ row \in Rows
  /\ Named(row) => /\ About(st, row)
                   /\ \A j \in DOMAIN rs \ {i} : rs[j].id # row.id

-----------------------------------------------------------------------------
(* A row without a message's name fits anywhere, and so does one that      *)
(* keeps the name it has.                                                  *)
LEMMA FitsAnywhere ==
  ASSUME NEW st, NEW rs, NEW i, NEW row \in Rows, ~Named(row)
  PROVE  Fits(st, rs, i, row)
BY DEF Fits

(* ... one that keeps the name it has.                                     *)
LEMMA FitsInPlace ==
  ASSUME NEW st, NEW rs, Good(st, rs), NEW i \in DOMAIN rs, NEW row \in Rows,
         row.id = rs[i].id, row.kind = rs[i].kind
  PROVE  Fits(st, rs, i, row)
<1>1. ASSUME Named(row) PROVE About(st, row)
  BY <1>1 DEF Good, OfStored, Named, About
<1>2. ASSUME Named(row), NEW j \in DOMAIN rs \ {i} PROVE rs[j].id # row.id
  BY <1>2 DEF Good, OneEach, Named
<1> QED
  BY <1>1, <1>2 DEF Fits

(* A transcript stays whole when a row that fits is appended, ...          *)
LEMMA RowAppended ==
  ASSUME NEW st, NEW P, NEW rs, NEW f, Whole(st, P, rs, f),
         NEW row, Fits(st, rs, 0, row), NEW g \in {0, f},
         Named(row) => ~row.streaming
  PROVE  Whole(st, P, Append(rs, row), g)
<1>0. rs \in Seq(Rows) /\ row \in Rows
  BY DEF Whole, Good, Fits
<1>1. /\ Append(rs, row) \in Seq(Rows) /\ Len(rs) \in Nat
      /\ Len(Append(rs, row)) = Len(rs) + 1 /\ DOMAIN rs = 1..Len(rs)
      /\ DOMAIN Append(rs, row) = 1..(Len(rs) + 1)
      /\ \A i \in DOMAIN rs : Append(rs, row)[i] = rs[i]
      /\ Append(rs, row)[Len(rs) + 1] = row
  BY <1>0, AppendOne
<1>2. OneEach(Append(rs, row))
  <2> SUFFICES ASSUME NEW i \in 1..(Len(rs) + 1), NEW j \in 1..(Len(rs) + 1),
                      Named(Append(rs, row)[i]),
                      Append(rs, row)[i].id = Append(rs, row)[j].id
               PROVE  i = j
    BY <1>1 DEF OneEach
  <2>1. CASE i \in 1..Len(rs) /\ j \in 1..Len(rs)
    BY <1>1, <2>1 DEF Whole, Good, OneEach
  <2>2. CASE i \in 1..Len(rs) /\ j = Len(rs) + 1
    BY <1>1, <2>2 DEF Fits, Named
  <2>3. CASE i = Len(rs) + 1 /\ j \in 1..Len(rs)
    BY <1>1, <2>3 DEF Fits, Named
  <2> QED
    BY <1>1, <2>1, <2>2, <2>3
<1>3. OfStored(st, Append(rs, row))
  BY <1>1 DEF OfStored, Whole, Good, Fits
<1>4. Settled(P, Append(rs, row), g)
  BY <1>1 DEF Settled, Whole, Tr!IsStreamingBubble
<1> QED
  BY <1>1, <1>2, <1>3, <1>4 DEF Whole, Good

(* ... when one takes the place of another, ...                            *)
LEMMA RowChanged ==
  ASSUME NEW st, NEW P, NEW rs, NEW f, Whole(st, P, rs, f),
         NEW i \in DOMAIN rs, NEW row, Fits(st, rs, i, row), NEW g \in {0, f, i},
         Named(row) /\ (Tr!IsStreamingBubble(row) \/ g = i) => row.id \notin P
  PROVE  Whole(st, P, [rs EXCEPT ![i] = row], g)
<1> DEFINE out == [rs EXCEPT ![i] = row]
<1>0. rs \in Seq(Rows) /\ row \in Rows /\ Len(rs) \in Nat /\ DOMAIN rs = 1..Len(rs)
  BY DEF Whole, Good, Fits
<1>1. /\ out \in Seq(Rows) /\ Len(out) = Len(rs) /\ DOMAIN out = DOMAIN rs
      /\ \A j \in DOMAIN rs \ {i} : out[j] = rs[j]
      /\ out[i] = row
  BY <1>0
<1> HIDE DEF out
<1>2. OneEach(out)
  <2> SUFFICES ASSUME NEW j \in DOMAIN rs, NEW k \in DOMAIN rs,
                      Named(out[j]), out[j].id = out[k].id
               PROVE  j = k
    BY <1>1 DEF OneEach
  <2>1. CASE j # i /\ k # i
    BY <1>1, <2>1 DEF Whole, Good, OneEach
  <2>2. CASE j = i \/ k = i
    BY <1>1, <2>2 DEF Fits, Named
  <2> QED
    BY <2>1, <2>2
<1>3. OfStored(st, out)
  BY <1>1 DEF OfStored, Whole, Good, Fits
<1>4. Settled(P, out, g)
  BY <1>0, <1>1 DEF Settled, Whole
<1> QED
  BY <1>1, <1>2, <1>3, <1>4 DEF Whole, Good, out

(* ... when one is removed, ...                                            *)
LEMMA RowRemoved ==
  ASSUME NEW st, NEW P, NEW rs, NEW f, Whole(st, P, rs, f), NEW i \in DOMAIN rs
  PROVE  Whole(st, P, RemoveAt(rs, i), 0)
<1> DEFINE out == RemoveAt(rs, i)
<1>0. rs \in Seq(Rows) /\ Len(rs) \in Nat /\ DOMAIN rs = 1..Len(rs)
  BY DEF Whole, Good
<1>1. /\ out \in Seq(Rows) /\ Len(out) = Len(rs) - 1 /\ DOMAIN out = 1..(Len(rs) - 1)
      /\ \A j \in DOMAIN out : out[j] = IF j < i THEN rs[j] ELSE rs[j + 1]
  BY <1>0, Removal
<1> HIDE DEF out
<1> DEFINE at1(j) == IF j < i THEN j ELSE j + 1
<1>2. \A j \in DOMAIN out : at1(j) \in DOMAIN rs /\ out[j] = rs[at1(j)] /\ at1(j) # 0
  BY <1>0, <1>1
<1>3. \A j, k \in DOMAIN out : at1(j) = at1(k) => j = k
  BY <1>0, <1>1
<1> HIDE DEF at1
<1>4. OneEach(out)
  BY <1>2, <1>3 DEF OneEach, Whole, Good
<1>5. OfStored(st, out)
  BY <1>2 DEF OfStored, Whole, Good
<1>6. Settled(P, out, 0)
  <2>1. 0 \in 0..Len(out) /\ 0 \notin DOMAIN out
    BY <1>0, <1>1
  <2> QED
    BY <1>2, <2>1 DEF Settled, Whole
<1> QED
  BY <1>1, <1>4, <1>5, <1>6 DEF Whole, Good, out

(* ... and when one is inserted.                                           *)
LEMMA RowInserted ==
  ASSUME NEW st, NEW P, NEW rs, NEW f, Whole(st, P, rs, f),
         NEW i \in 1..(Len(rs) + 1), NEW row, Fits(st, rs, 0, row), ~row.streaming,
         NEW g \in {0, i}, Named(row) /\ g = i => row.id \notin P
  PROVE  /\ Whole(st, P, InsertAt(rs, i, row), g)
         /\ Len(InsertAt(rs, i, row)) = Len(rs) + 1
         /\ InsertAt(rs, i, row)[i] = row
         /\ \A j \in 1..(Len(rs) + 1) :
              InsertAt(rs, i, row)[j] =
                IF j < i THEN rs[j] ELSE IF j = i THEN row ELSE rs[j - 1]
<1> DEFINE out == InsertAt(rs, i, row)
<1>0. rs \in Seq(Rows) /\ Len(rs) \in Nat /\ DOMAIN rs = 1..Len(rs) /\ row \in Rows
  BY DEF Whole, Good, Fits
<1>1. /\ out \in Seq(Rows) /\ Len(out) = Len(rs) + 1 /\ DOMAIN out = 1..(Len(rs) + 1)
      /\ out[i] = row
      /\ \A j \in DOMAIN out :
            out[j] = IF j < i THEN rs[j] ELSE IF j = i THEN row ELSE rs[j - 1]
  <2>1. /\ out \in Seq(Rows) /\ Len(out) = Len(rs) + 1
        /\ DOMAIN out = 1..(Len(rs) + 1)
        /\ out[i] = row
    BY <1>0, Insertion
  <2>2. \A j \in 1..(Len(rs) + 1) :
          out[j] = IF j < i THEN rs[j] ELSE IF j = i THEN row ELSE rs[j - 1]
    BY <1>0, Insertion
  <2> HIDE DEF out
  <2> QED
    BY <2>1, <2>2
<1> HIDE DEF out
<1> DEFINE at1(j) == IF j < i THEN j ELSE j - 1
<1>2. \A j \in DOMAIN out \ {i} : at1(j) \in DOMAIN rs /\ out[j] = rs[at1(j)]
  BY <1>0, <1>1
<1>3. \A j, k \in DOMAIN out \ {i} : at1(j) = at1(k) => j = k
  BY <1>0, <1>1
<1> HIDE DEF at1
<1>4. OneEach(out)
  <2> SUFFICES ASSUME NEW j \in DOMAIN out, NEW k \in DOMAIN out,
                      Named(out[j]), out[j].id = out[k].id
               PROVE  j = k
    BY DEF OneEach
  <2>1. CASE j # i /\ k # i
    BY <1>2, <1>3, <2>1 DEF OneEach, Whole, Good
  <2>2. CASE j = i /\ k # i
    <3>1. 0 \notin DOMAIN rs
      BY <1>0
    <3> QED
      BY <1>1, <1>2, <2>2, <3>1 DEF Fits
  <2>3. CASE j # i /\ k = i
    <3>1. 0 \notin DOMAIN rs
      BY <1>0
    <3> QED
      BY <1>1, <1>2, <2>3, <3>1 DEF Fits, Named
  <2> QED
    BY <2>1, <2>2, <2>3
<1>5. OfStored(st, out)
  BY <1>1, <1>2 DEF OfStored, Whole, Good, Fits
<1>6. Settled(P, out, g)
  <2>1. g \in 0..Len(out) /\ 0 \notin DOMAIN out
    BY <1>0, <1>1
  <2>2. ASSUME NEW j \in DOMAIN out, Named(out[j]),
               Tr!IsStreamingBubble(out[j]) \/ j = g
        PROVE  out[j].id \notin P
    <3>1. CASE j = i
      BY <1>1, <2>1, <2>2, <3>1 DEF Tr!IsStreamingBubble
    <3>2. CASE j # i
      BY <1>2, <2>1, <2>2, <3>2 DEF Settled, Whole
    <3> QED
      BY <3>1, <3>2
  <2> QED
    BY <2>1, <2>2 DEF Settled
<1> QED
  BY <1>1, <1>4, <1>5, <1>6 DEF Whole, Good, out

-----------------------------------------------------------------------------
(* What rows are made of.                                                  *)
LEMMA RowTypes ==
  /\ Tr!Row \in Rows
  /\ \A id \in Ids : Tr!UserRow(id) \in Rows /\ Tr!Bubble(id, <<>>) \in Rows
  /\ Tr!UserRow(Nobody) \in Rows
  /\ \A id \in Ids \cup {Nobody}, shows \in Seq(Ids) : Tr!Bubble(id, shows) \in Rows
  /\ \A c \in Calls : Tr!ToolRow(c) \in Rows
  /\ \A row \in Rows : Tr!Streaming(row) \in Rows
<1>1. Tr!Row \in Rows
  BY DEF Tr!Row, Rows
<1>2. Tr!UserRow(Nobody) \in Rows /\ \A id \in Ids : Tr!UserRow(id) \in Rows
  BY <1>1 DEF Tr!UserRow, Rows
<1>3. \A id \in Ids \cup {Nobody}, shows \in Seq(Ids) : Tr!Bubble(id, shows) \in Rows
  BY DEF Tr!Row, Tr!Bubble, Rows
<1>4. <<>> \in Seq(Ids)
  OBVIOUS
<1>5. \A c \in Calls : Tr!ToolRow(c) \in Rows
  <2>1. \A c \in Calls : Tr!ToolName(c) \in {"tool", "subagent"}
    BY DEF Tr!ToolName
  <2> QED
    BY <1>1, <2>1 DEF Tr!ToolRow, Rows
<1>6. \A row \in Rows : Tr!Streaming(row) \in Rows
  BY DEF Tr!Streaming, Rows
<1> QED
  BY <1>1, <1>2, <1>3, <1>4, <1>5, <1>6

(* ... with what is known of a call and its sub-agent.                     *)
LEMMA HydratedCallRow ==
  ASSUME SubOf \in [Calls -> Subs \cup {Nobody}], NEW c \in Calls
  PROVE  /\ Tr!HydratedCall(c) \in Rows /\ ~Tr!HydratedCall(c).streaming
         /\ ~Named(Tr!HydratedCall(c))
<1>1. SubOf[c] \in Subs \cup {Nobody}
  OBVIOUS
<1>2. (IF c \in Tr!Created THEN SubOf[c] ELSE Nobody) \in Subs \cup {Nobody}
  BY <1>1
<1>3. (IF at[c] = "done" THEN c ELSE Nobody) \in Calls \cup {Nobody}
  OBVIOUS
<1>4. ASSUME NEW p \in Subs \cup {Nobody}, NEW r \in Calls \cup {Nobody}
      PROVE  /\ [Tr!ToolRow(c) EXCEPT !.sub = p, !.result = r] \in Rows
             /\ [Tr!ToolRow(c) EXCEPT !.sub = p, !.result = r].streaming = FALSE
             /\ [Tr!ToolRow(c) EXCEPT !.sub = p, !.result = r].id = Nobody
  <2>1. Tr!ToolRow(c) \in Rows
    BY RowTypes
  <2>2. Tr!ToolRow(c).streaming = FALSE /\ Tr!ToolRow(c).id = Nobody
    <3>1. Tr!Row \in Rows /\ Tr!Row.streaming = FALSE /\ Tr!Row.id = Nobody
      BY RowTypes DEF Tr!Row
    <3> QED
      BY <3>1 DEF Tr!ToolRow, Rows
  <2> QED
    BY <2>1, <2>2 DEF Rows
<1> DEFINE p == IF c \in Tr!Created THEN SubOf[c] ELSE Nobody
           r == IF at[c] = "done" THEN c ELSE Nobody
<1>5. Tr!HydratedCall(c) = [Tr!ToolRow(c) EXCEPT !.sub = p, !.result = r]
  BY DEF Tr!HydratedCall
<1> HIDE DEF p, r
<1>6. p \in Subs \cup {Nobody} /\ r \in Calls \cup {Nobody}
  BY <1>2, <1>3 DEF p, r
<1> QED
  BY <1>4, <1>5, <1>6 DEF Named

(* What a message of the store is shown as.                                *)
LEMMA EntriesRows ==
  ASSUME SubOf \in [Calls -> Subs \cup {Nobody}], IsFiniteSet(Calls),
         stored \in Stores, NEW id, IsStored(stored, id)
  PROVE  /\ Tr!Entries(id) \in Seq(Rows)
         /\ \A j \in DOMAIN Tr!Entries(id) :
              /\ ~Tr!Entries(id)[j].streaming
              /\ Named(Tr!Entries(id)[j]) =>
                   /\ j = 1 /\ Tr!Entries(id)[j].id = id
                   /\ About(stored, Tr!Entries(id)[j])
<1> DEFINE m == stored[id[1]][id[2]]
<1>1. m \in Messages /\ id \in Ids /\ Tr!Message(id) = m
  BY DEF Stores, Ids, IsStored, Tr!Message
<1>2. m.role \in {"user", "assistant"} /\ m.text \in Nat /\ m.calls \subseteq Calls
  BY <1>1 DEF Messages
<1> HIDE DEF m
<1>3. CASE m.role = "user"
  <2>1. Tr!Entries(id) = <<Tr!UserRow(id)>>
    BY <1>1, <1>3 DEF Tr!Entries
  <2>2. Tr!UserRow(id) \in Rows
    BY <1>1, RowTypes
  <2>3. Tr!UserRow(id).id = id /\ Tr!UserRow(id).kind = "user" /\ Tr!UserRow(id).streaming = FALSE
    BY DEF Tr!UserRow, Tr!Row
  <2>4. About(stored, Tr!UserRow(id))
    BY <1>1, <1>3, <2>3 DEF About, m
  <2> QED
    BY <2>1, <2>2, <2>3, <2>4
<1>4. CASE m.role # "user"
  <2> DEFINE n == Cardinality(m.calls)
             bubbles == IF m.text > 0 THEN <<Tr!Bubble(id, Tr!Text(id))>> ELSE <<>>
             made == [k \in 1..n |-> Tr!HydratedCall(SetToSeq(m.calls)[k])]
  <2>1. Tr!Entries(id) = bubbles \o made
    BY SameLibrary, <1>1, <1>4 DEF Tr!Entries
  <2>2. IsFiniteSet(m.calls)
    BY <1>2, FS_Subset
  <2>3. n \in Nat
    BY <2>2, FS_CardinalityType
  <2>4. SetToSeq(m.calls) \in Seq(m.calls)
    BY <2>2, SetToSeqIs
  <2>5. \A k \in 1..n : SetToSeq(m.calls)[k] \in Calls
    <3>1. \E f \in [1..n -> m.calls] : IsInjective(f)
      <4>1. ExistsBijection(1..n, m.calls)
        BY <2>2, FS_CardinalityType
      <4> QED
        BY <4>1 DEF ExistsBijection, Bijection, Injection
    <3>2. SetToSeq(m.calls) \in [1..n -> m.calls]
      BY <3>1 DEF SetToSeq
    <3> QED
      BY <1>2, <3>2
  <2>6. \A k \in 1..n : /\ made[k] \in Rows /\ ~made[k].streaming /\ ~Named(made[k])
    BY <2>5, HydratedCallRow
  <2> HIDE DEF n
  <2>7. made \in Seq(Rows) /\ Len(made) = n /\ DOMAIN made = 1..n
    BY <2>3, <2>6
  <2>8. Tr!Text(id) \in Seq(Ids)
    <3>1. Tr!Text(id) = [k \in 1..m.text |-> id]
      BY <1>1 DEF Tr!Text
    <3>2. [k \in 1..m.text |-> id] \in [1..m.text -> Ids]
      BY <1>1
    <3>3. \A k \in Nat : \A f \in [1..k -> Ids] : f \in Seq(Ids)
      OBVIOUS
    <3> QED
      BY <1>2, <3>1, <3>2, <3>3
  <2>9. /\ Tr!Bubble(id, Tr!Text(id)) \in Rows /\ Tr!Bubble(id, Tr!Text(id)).id = id
        /\ Tr!Bubble(id, Tr!Text(id)).kind = "assistant"
        /\ Tr!Bubble(id, Tr!Text(id)).streaming = FALSE
    <3>1. Tr!Bubble(id, Tr!Text(id)) \in Rows
      BY <1>1, <2>8, RowTypes
    <3> QED
      BY <3>1 DEF Tr!Bubble, Tr!Row
  <2>10. About(stored, Tr!Bubble(id, Tr!Text(id)))
    BY <1>1, <1>2, <1>4, <2>9 DEF About, m
  <2> HIDE DEF made
  <2>11. CASE m.text > 0
    <3> DEFINE b == <<Tr!Bubble(id, Tr!Text(id))>>
    <3>1. b \in Seq(Rows) /\ Len(b) = 1 /\ b[1] = Tr!Bubble(id, Tr!Text(id))
      BY <2>9
    <3>2. bubbles = b
      BY <2>11
    <3> HIDE DEF b, bubbles
    <3>3. /\ b \o made \in Seq(Rows) /\ Len(b \o made) = 1 + n
          /\ \A j \in 1..(1 + n) :
               (b \o made)[j] = IF j <= 1 THEN b[j] ELSE made[j - 1]
      <4>1. Len(b) + Len(made) = 1 + n
        BY <2>7, <3>1
      <4>2. /\ b \o made \in Seq(Rows) /\ Len(b \o made) = Len(b) + Len(made)
            /\ \A j \in 1..(Len(b) + Len(made)) :
                 (b \o made)[j] = IF j <= Len(b) THEN b[j] ELSE made[j - Len(b)]
        BY <2>7, <3>1, ConcatProperties
      <4> QED
        BY <3>1, <4>1, <4>2
    <3>4. DOMAIN (b \o made) = 1..(1 + n)
      BY <2>3, <3>3
    <3>5. \A j \in 1..(1 + n) : j = 1 \/ (~(j <= 1) /\ j - 1 \in 1..n)
      BY <2>3
    <3>6. Tr!Entries(id) = b \o made
      BY <2>1, <3>2
    <3>7. ASSUME NEW j \in 1..(1 + n)
          PROVE  \/ j = 1 /\ (b \o made)[j] = Tr!Bubble(id, Tr!Text(id))
                 \/ j - 1 \in 1..n /\ (b \o made)[j] = made[j - 1]
      BY <3>1, <3>3, <3>5
    <3> QED
      BY <2>6, <2>9, <2>10, <3>3, <3>4, <3>6, <3>7
  <2>12. CASE ~(m.text > 0)
    <3>1. bubbles \o made = made
      BY <2>7, <2>12, ConcatEmptySeq
    <3> HIDE DEF bubbles
    <3> QED
      BY <2>1, <2>6, <2>7, <3>1
  <2> HIDE DEF bubbles
  <2> QED
    BY <2>11, <2>12
<1> QED
  BY <1>3, <1>4

(* A transcript built from the store shows each message once.              *)
LEMMA HydratedRows ==
  ASSUME SubOf \in [Calls -> Subs \cup {Nobody}], IsFiniteSet(Calls),
         stored \in Stores, NEW s \in Tr!Sessions
  PROVE  /\ Good(stored, Tr!Hydrated(s))
         /\ \A k \in DOMAIN Tr!Hydrated(s) : ~Tr!Hydrated(s)[k].streaming
<1> DEFINE parts == [i \in DOMAIN stored[s] |-> Tr!Entries(<<s, i>>)]
           out == Tr!Hydrated(s)
<1>1. stored[s] \in Seq(Messages) /\ DOMAIN stored[s] = 1..Len(stored[s])
      /\ Len(stored[s]) \in Nat
  BY DEF Stores
<1>2. ASSUME NEW i \in DOMAIN stored[s]
      PROVE  /\ parts[i] \in Seq(Rows)
             /\ \A j \in DOMAIN parts[i] :
                  /\ ~parts[i][j].streaming
                  /\ Named(parts[i][j]) =>
                       /\ j = 1 /\ parts[i][j].id = <<s, i>>
                       /\ About(stored, parts[i][j])
  <2>1. PICK id : id = <<s, i>>
    OBVIOUS
  <2>2. parts[i] = Tr!Entries(id)
    BY <2>1
  <2> HIDE DEF parts
  <2>3. /\ Tr!Entries(id) \in Seq(Rows)
        /\ \A j \in DOMAIN Tr!Entries(id) :
             /\ ~Tr!Entries(id)[j].streaming
             /\ Named(Tr!Entries(id)[j]) =>
                  /\ j = 1 /\ Tr!Entries(id)[j].id = id
                  /\ About(stored, Tr!Entries(id)[j])
    <3>1. IsStored(stored, id)
      BY <1>1, <2>1 DEF IsStored, Ids
    <3> QED
      BY <3>1, EntriesRows
  <2> QED
    BY <2>1, <2>2, <2>3
<1>3. parts \in Seq(Seq(Rows)) /\ DOMAIN parts = DOMAIN stored[s]
  <2>1. DOMAIN parts = 1..Len(stored[s])
    BY <1>1
  <2>2. parts \in [1..Len(stored[s]) -> Seq(Rows)]
    BY <1>1, <1>2
  <2> QED
    BY <1>1, <2>1, <2>2
<1>4. out = FlattenSeq(parts)
  BY SameLibrary DEF Tr!Hydrated
<1> HIDE DEF parts, out
<1>5. out \in Seq(Rows)
  BY <1>3, <1>4, Flattened
<1>6. PICK start : Laid(start, parts, out)
  BY <1>3, <1>4, Flattened
<1>7. ASSUME NEW k \in DOMAIN out
      PROVE  /\ ~out[k].streaming
             /\ Named(out[k]) =>
                  \E i \in DOMAIN parts :
                    /\ k = start[i] + 1 /\ out[k].id = <<s, i>>
                    /\ About(stored, out[k])
  <2>1. PICK i \in DOMAIN parts : \E j \in DOMAIN parts[i] : k = start[i] + j
    BY <1>6 DEF Laid
  <2>2. PICK j \in DOMAIN parts[i] : k = start[i] + j
    BY <2>1
  <2>3. out[k] = parts[i][j]
    BY <1>6, <2>2 DEF Laid
  <2> QED
    BY <1>2, <1>3, <2>2, <2>3
<1>8. OneEach(out)
  <2> SUFFICES ASSUME NEW k \in DOMAIN out, NEW l \in DOMAIN out,
                      Named(out[k]), out[k].id = out[l].id
               PROVE  k = l
    BY DEF OneEach
  <2>1. PICK i \in DOMAIN parts : k = start[i] + 1 /\ out[k].id = <<s, i>>
    BY <1>7
  <2>2. PICK h \in DOMAIN parts : l = start[h] + 1 /\ out[l].id = <<s, h>>
    BY <1>7 DEF Named
  <2>3. i = h
    BY <2>1, <2>2
  <2> QED
    BY <2>1, <2>2, <2>3
<1>9. OfStored(stored, out)
  BY <1>7 DEF OfStored
<1> QED
  BY <1>5, <1>7, <1>8, <1>9 DEF Good, out

-----------------------------------------------------------------------------
(* The calls that start a sub-agent, and the events there are.             *)
Starting == {c \in Calls : SubOf[c] # Nobody}
Events ==
  [type : {"appended", "delta"}, session : Tr!Sessions, of : Ids]
  \cup [type : {"requested", "done"}, session : Tr!Sessions, of : Calls]
  \cup [type : {"started", "completed"}, session : Tr!Sessions, of : Starting]
  \cup [type : {"turnCompleted"}, session : Tr!Sessions, of : {Nobody}]

(* The variables the invariant speaks of; nothing bounds the counts.       *)
Shaped ==
  /\ stored \in Stores /\ text \in [Tr!Sessions -> Nat]
  /\ phase \in [Tr!Sessions -> Tr!Phases] /\ at \in [Calls -> Tr!Stages]
  /\ \A c \in Calls : at[c] \in {"created", "running"} => c \in Starting
  /\ evs \in Seq(Events)

(* The messages whose events the UI has still to handle: those on their    *)
(* way, each once, and those stored and not yet announced.                 *)
Appended(e) == e.type = "appended"
Unannounced(s) == phase[s] \in {"stored", "failing"}
AnnouncedInv ==
  /\ \A i \in DOMAIN evs :
       Appended(evs[i]) =>
         /\ IsStored(stored, evs[i].of) /\ evs[i].of[1] = evs[i].session
         /\ Unannounced(evs[i].session) =>
              evs[i].of[2] < Len(stored[evs[i].session])
  /\ \A j, k \in DOMAIN evs :
       Appended(evs[j]) /\ Appended(evs[k]) /\ evs[j].of = evs[k].of
         => j = k
  /\ \A s \in Tr!Sessions : Unannounced(s) => stored[s] # <<>>
PendingIds ==
  {evs[i].of : i \in {j \in DOMAIN evs : Appended(evs[j])}}
    \cup {<<s, Len(stored[s])>> : s \in {t \in Tr!Sessions : Unannounced(t)}}

(* The store only grows.                                                   *)
Grown(st, tu) ==
  \A id : IsStored(st, id) =>
            IsStored(tu, id) /\ tu[id[1]][id[2]] = st[id[1]][id[2]]

(* Transcript's assumptions that the proof needs, and finitely many calls: *)
(* a response's calls are listed.                                          *)
Transcribed ==
  /\ Root \notin Subs /\ Nobody \notin Tr!Sessions \cup Calls
  /\ CallerOf \in [Calls -> Tr!Sessions]
  /\ SubOf \in [Calls -> Subs \cup {Nobody}]
  /\ IsFiniteSet(Calls)

(* A transcript is as good with more in the store and other messages       *)
(* pending, if those are new.                                              *)
LEMMA WholeGrows ==
  ASSUME NEW st, NEW tu, NEW P, NEW Q, NEW rs, NEW f, Whole(st, P, rs, f),
         Grown(st, tu), \A id \in Q : id \in P \/ ~IsStored(st, id)
  PROVE  Whole(tu, Q, rs, f)
<1>1. OfStored(tu, rs)
  BY DEF Whole, Good, OfStored, About, Grown
<1>2. Settled(Q, rs, f)
  <2>1. ASSUME NEW i \in DOMAIN rs, Named(rs[i]),
               Tr!IsStreamingBubble(rs[i]) \/ i = f
        PROVE  rs[i].id \notin Q
    <3>1. rs[i].id \notin P /\ IsStored(st, rs[i].id)
      BY <2>1 DEF Whole, Good, Settled, OfStored, About
    <3> QED
      BY <3>1
  <2> QED
    BY <2>1 DEF Settled, Whole
<1> QED
  BY <1>1, <1>2 DEF Whole, Good

(* So does a transcript that nothing extends.                              *)
LEMMA GoodGrows ==
  ASSUME NEW st, NEW tu, NEW rs, Good(st, rs), Grown(st, tu)
  PROVE  Good(tu, rs)
BY DEF Good, OfStored, About, Grown

(* A store grows from itself.                                              *)
LEMMA SameStore == ASSUME NEW st PROVE Grown(st, st)
BY DEF Grown

(* A message that is appended to a session is new in it.                   *)
LEMMA MessageStored ==
  ASSUME NEW st \in Stores, NEW s \in Tr!Sessions, NEW m \in Messages,
         NEW tu \in Stores, tu[s] = Append(st[s], m),
         \A t \in Tr!Sessions \ {s} : tu[t] = st[t]
  PROVE  /\ Grown(st, tu)
         /\ Len(st[s]) \in Nat /\ Len(tu[s]) = Len(st[s]) + 1
         /\ IsStored(tu, <<s, Len(st[s]) + 1>>)
         /\ ~IsStored(st, <<s, Len(st[s]) + 1>>)
<1>1. st[s] \in Seq(Messages)
  BY DEF Stores
<1>2. /\ Append(st[s], m) \in Seq(Messages) /\ Len(st[s]) \in Nat
      /\ Len(Append(st[s], m)) = Len(st[s]) + 1 /\ DOMAIN st[s] = 1..Len(st[s])
      /\ DOMAIN Append(st[s], m) = 1..(Len(st[s]) + 1)
      /\ \A i \in DOMAIN st[s] : Append(st[s], m)[i] = st[s][i]
  BY <1>1, AppendOne
<1>5. Grown(st, tu)
  <2> SUFFICES ASSUME NEW id, IsStored(st, id)
               PROVE  IsStored(tu, id) /\ tu[id[1]][id[2]] = st[id[1]][id[2]]
    BY DEF Grown
  <2>1. id \in Ids /\ id[1] \in Tr!Sessions /\ id[2] \in DOMAIN st[id[1]]
    BY DEF IsStored, Ids
  <2>2. CASE id[1] = s
    <3>1. id[2] \in 1..(Len(st[s]) + 1)
      BY <1>2, <2>1, <2>2
    <3> QED
      BY <1>2, <2>1, <2>2, <3>1 DEF IsStored
  <2>3. CASE id[1] # s
    BY <2>1, <2>3 DEF IsStored
  <2> QED
    BY <2>2, <2>3
<1>6. IsStored(tu, <<s, Len(st[s]) + 1>>)
  BY <1>2 DEF IsStored, Ids
<1>7. ~IsStored(st, <<s, Len(st[s]) + 1>>)
  BY <1>2 DEF IsStored
<1> QED
  BY <1>2, <1>5, <1>6, <1>7

(* Events of other types are nothing to the messages pending, and an event *)
(* that is handled is one of them less.                                    *)
LEMMA OthersPublished ==
  ASSUME AnnouncedInv, stored' = stored,
         \A s \in Tr!Sessions : Unannounced(s)' => Unannounced(s),
         \A i \in DOMAIN evs : Appended(evs[i]) => evs[i].session \in Tr!Sessions,
         NEW h,
         \A i \in DOMAIN evs' :
           Appended(evs'[i]) => h[i] \in DOMAIN evs /\ evs[h[i]] = evs'[i],
         \A i, j \in DOMAIN evs' :
           Appended(evs'[i]) /\ Appended(evs'[j]) /\ h[i] = h[j] => i = j
  PROVE  AnnouncedInv' /\ PendingIds' \subseteq PendingIds
<1>1. ASSUME NEW i \in DOMAIN evs', Appended(evs'[i])
      PROVE  /\ IsStored(stored', evs'[i].of)
             /\ evs'[i].of[1] = evs'[i].session
             /\ phase'[evs'[i].session] \in {"stored", "failing"} =>
                  evs'[i].of[2] < Len(stored'[evs'[i].session])
             /\ evs'[i].of \in {evs[k].of : k \in {j \in DOMAIN evs : Appended(evs[j])}}
  <2>1. h[i] \in DOMAIN evs /\ evs[h[i]] = evs'[i]
    BY <1>1
  <2>2. Appended(evs[h[i]])
    BY <1>1, <2>1
  <2>3. PICK s \in Tr!Sessions : s = evs'[i].session
    BY <2>1, <2>2
  <2>4. phase'[s] \in {"stored", "failing"} => Unannounced(s)
    BY DEF Unannounced
  <2> QED
    BY <2>1, <2>2, <2>3, <2>4 DEF AnnouncedInv
<1>2. ASSUME NEW j \in DOMAIN evs', NEW k \in DOMAIN evs',
             Appended(evs'[j]), Appended(evs'[k]),
             evs'[j].of = evs'[k].of
      PROVE  j = k
  BY <1>2 DEF AnnouncedInv
<1>3. \A s \in Tr!Sessions : Unannounced(s)' => stored'[s] # <<>>
  BY DEF AnnouncedInv
<1>4. AnnouncedInv'
  BY <1>1, <1>2, <1>3 DEF AnnouncedInv, Appended, Unannounced
<1>5. PendingIds' \subseteq PendingIds
  BY <1>1 DEF PendingIds, Appended
<1> QED
  BY <1>4, <1>5

-----------------------------------------------------------------------------
(* What the events that name messages say.                                 *)
LEMMA EventFields ==
  ASSUME Shaped, NEW e \in Events
  PROVE  /\ e.session \in Tr!Sessions
         /\ e.type \in {"appended", "delta"} => e.of \in Ids
         /\ e.type \in {"requested", "done"} => e.of \in Calls
         /\ e.type = "started" => e.of \in Starting
BY DEF Events

(* What a step of the runtime does to the messages that are pending.       *)
Progress ==
  /\ AnnouncedInv' /\ Grown(stored, stored')
  /\ \A id \in PendingIds' : id \in PendingIds \/ ~IsStored(stored, id)

(* A step that stores nothing and announces nothing, ...                   *)
LEMMA NothingStored ==
  ASSUME Shaped, AnnouncedInv, stored' = stored, NEW e \in Events, ~Appended(e),
         evs' \in {evs, Append(evs, e)},
         \A s \in Tr!Sessions : Unannounced(s)' => Unannounced(s)
  PROVE  Progress
<1>1. evs \in Seq(Events)
  BY DEF Shaped
<1>2. \A i \in DOMAIN evs : evs[i].session \in Tr!Sessions
  BY <1>1, EventFields
<1> DEFINE h == [i \in DOMAIN evs |-> i]
<1>3. \A i \in DOMAIN evs' :
        Appended(evs'[i]) => h[i] \in DOMAIN evs /\ h[i] = i /\ evs[h[i]] = evs'[i]
  <2>1. CASE evs' = evs
    BY <2>1
  <2>2. CASE evs' = Append(evs, e)
    <3>1. /\ DOMAIN evs = 1..Len(evs) /\ Len(evs) \in Nat
          /\ DOMAIN evs' = 1..(Len(evs) + 1)
          /\ \A i \in DOMAIN evs : evs'[i] = evs[i]
          /\ evs'[Len(evs) + 1] = e
      BY <1>1, <2>2, AppendOne
    <3> QED
      BY <3>1
  <2> QED
    BY <2>1, <2>2
<1> HIDE DEF h
<1>4. AnnouncedInv' /\ PendingIds' \subseteq PendingIds
  BY <1>2, <1>3, OthersPublished
<1> QED
  BY <1>4, SameStore DEF Progress

(* ... a session that moves on.                                            *)
LEMMA PhaseMoved ==
  ASSUME Shaped, NEW s \in Tr!Sessions, NEW to \in Tr!Phases, Tr!Moved(s, to)
  PROVE  /\ phase' \in [Tr!Sessions -> Tr!Phases]
         /\ phase'[s] = to /\ \A t \in Tr!Sessions \ {s} : phase'[t] = phase[t]
BY DEF Shaped, Tr!Moved

(* A message is stored and not announced: it is new.                       *)
LEMMA StoredSilently ==
  ASSUME Shaped, AnnouncedInv, NEW s \in Tr!Sessions, NEW m \in Messages,
         stored' = [stored EXCEPT ![s] = Append(@, m)], evs' = evs,
         \A t \in Tr!Sessions \ {s} : Unannounced(t)' => Unannounced(t), ~Unannounced(s)
  PROVE  Progress /\ stored' \in Stores
<1> DEFINE n == Len(stored[s]) + 1
<1>1. /\ stored' \in Stores /\ Grown(stored, stored')
      /\ Len(stored[s]) \in Nat /\ Len(stored'[s]) = n
      /\ \A t \in Tr!Sessions \ {s} : stored'[t] = stored[t]
      /\ IsStored(stored', <<s, n>>)
      /\ ~IsStored(stored, <<s, n>>)
  <2>1. stored \in Stores
    BY DEF Shaped
  <2>2. /\ stored'[s] = Append(stored[s], m)
        /\ \A t \in Tr!Sessions \ {s} : stored'[t] = stored[t]
    BY <2>1 DEF Stores
  <2>3. stored' \in Stores
    BY <2>1 DEF Stores
  <2>4. PICK tu : tu = stored'
    OBVIOUS
  <2>5. tu \in Stores /\ tu[s] = Append(stored[s], m)
        /\ \A t \in Tr!Sessions \ {s} : tu[t] = stored[t]
    BY <2>2, <2>3, <2>4
  <2>6. PICK st : st = stored
    OBVIOUS
  <2>7. st \in Stores /\ tu[s] = Append(st[s], m)
        /\ \A t \in Tr!Sessions \ {s} : tu[t] = st[t]
    BY <2>1, <2>5, <2>6
  <2>8. /\ Grown(st, tu)
        /\ Len(st[s]) \in Nat /\ Len(tu[s]) = Len(st[s]) + 1
        /\ IsStored(tu, <<s, Len(st[s]) + 1>>)
        /\ ~IsStored(st, <<s, Len(st[s]) + 1>>)
    BY <2>5, <2>7, MessageStored
  <2> QED
    BY <2>2, <2>3, <2>4, <2>6, <2>8
<1>2. \A i \in DOMAIN evs : evs[i].session \in Tr!Sessions
  BY EventFields DEF Shaped
<1>3. ASSUME NEW i \in DOMAIN evs, Appended(evs[i])
      PROVE  /\ IsStored(stored', evs[i].of)
             /\ phase'[evs[i].session] \in {"stored", "failing"} =>
                  evs[i].of[2] < Len(stored'[evs[i].session])
  <2>1. IsStored(stored, evs[i].of) /\ evs[i].of[1] = evs[i].session
    BY <1>3 DEF AnnouncedInv
  <2>2. IsStored(stored', evs[i].of)
    BY <1>1, <2>1 DEF Grown
  <2>3. CASE evs[i].session = s
    <3>1. stored[s] \in Seq(Messages)
      BY DEF Shaped, Stores
    <3>2. evs[i].of[2] \in 1..Len(stored[s])
      BY <2>1, <2>3, <3>1 DEF IsStored
    <3> QED
      BY <1>1, <2>2, <2>3, <3>2
  <2>4. CASE evs[i].session # s
    <3>1. PICK t \in Tr!Sessions \ {s} : t = evs[i].session
      BY <1>2, <2>4
    <3>2. phase'[t] \in {"stored", "failing"} => Unannounced(t)
      BY DEF Unannounced
    <3> QED
      BY <1>1, <1>3, <2>2, <3>1, <3>2 DEF AnnouncedInv
  <2> QED
    BY <2>3, <2>4
<1>4. \A t \in Tr!Sessions : Unannounced(t)' => stored'[t] # <<>>
  <2>1. stored'[s] # <<>>
    <3>1. Len(stored'[s]) # 0
      BY <1>1
    <3>2. Len(<<>>) = 0
      OBVIOUS
    <3> QED
      BY <3>1, <3>2
  <2> QED
    BY <1>1, <2>1 DEF AnnouncedInv
<1>5. AnnouncedInv'
  BY <1>3, <1>4 DEF AnnouncedInv, Appended, Unannounced
<1>6. ASSUME NEW id \in PendingIds' PROVE id \in PendingIds \/ ~IsStored(stored, id)
  <2>1. CASE \E i \in DOMAIN evs : Appended(evs[i]) /\ id = evs[i].of
    BY <2>1 DEF PendingIds
  <2>2. CASE \E t \in Tr!Sessions : Unannounced(t)' /\ id = <<t, Len(stored'[t])>>
    <3>1. PICK t \in Tr!Sessions : Unannounced(t)' /\ id = <<t, Len(stored'[t])>>
      BY <2>2
    <3>2. CASE t = s
      BY <1>1, <3>1, <3>2
    <3>3. CASE t # s
      BY <1>1, <3>1, <3>3 DEF PendingIds
    <3> QED
      BY <3>2, <3>3
  <2> QED
    BY <2>1, <2>2 DEF PendingIds, Appended
<1> QED
  BY <1>1, <1>5, <1>6 DEF Progress

(* The event of a message is published: the message is new, or it was      *)
(* about to be announced.                                                  *)
LEMMA Announced ==
  ASSUME Shaped, AnnouncedInv, NEW s \in Tr!Sessions, NEW k \in Nat,
         stored' \in Stores, Grown(stored, stored'),
         \A t \in Tr!Sessions \ {s} : stored'[t] = stored[t],
         IsStored(stored', <<s, k>>),
         evs' = Append(evs, Tr!Event("appended", s, <<s, k>>)),
         \A t \in Tr!Sessions \ {s} : Unannounced(t)' => Unannounced(t), ~Unannounced(s)',
         \A i \in DOMAIN evs : Appended(evs[i]) => evs[i].of # <<s, k>>,
         <<s, k>> \in PendingIds \/ ~IsStored(stored, <<s, k>>)
  PROVE  Progress /\ evs' \in Seq(Events)
<1> DEFINE e == Tr!Event("appended", s, <<s, k>>)
<1>1. e \in Events /\ e.session = s /\ e.of = <<s, k>> /\ Appended(e)
  BY DEF Tr!Event, Events, Appended, Ids
<1> HIDE DEF e
<1>2. /\ evs' \in Seq(Events)
      /\ DOMAIN evs = 1..Len(evs) /\ Len(evs) \in Nat
      /\ DOMAIN evs' = 1..(Len(evs) + 1)
      /\ \A i \in DOMAIN evs : evs'[i] = evs[i]
      /\ evs'[Len(evs) + 1] = e
  BY <1>1, AppendOne DEF Shaped, e
<1>3. \A i \in DOMAIN evs : evs[i].session \in Tr!Sessions
  BY EventFields DEF Shaped
<1>4. ASSUME NEW i \in DOMAIN evs', Appended(evs'[i])
      PROVE  /\ IsStored(stored', evs'[i].of)
             /\ evs'[i].of[1] = evs'[i].session
             /\ phase'[evs'[i].session] \in {"stored", "failing"} =>
                  evs'[i].of[2] < Len(stored'[evs'[i].session])
  <2>1. CASE i = Len(evs) + 1
    BY <1>1, <1>2, <2>1 DEF Unannounced
  <2>2. CASE i \in DOMAIN evs
    <3>1. IsStored(stored, evs[i].of) /\ evs[i].of[1] = evs[i].session
      BY <1>2, <1>4, <2>2 DEF AnnouncedInv
    <3>2. IsStored(stored', evs[i].of)
      BY <3>1 DEF Grown
    <3>3. CASE evs[i].session = s
      BY <1>2, <2>2, <3>1, <3>2, <3>3 DEF Unannounced
    <3>4. CASE evs[i].session # s
      <4>1. PICK t \in Tr!Sessions \ {s} : t = evs[i].session
        BY <1>3, <2>2, <3>4
      <4>2. phase'[t] \in {"stored", "failing"} => Unannounced(t)
        BY DEF Unannounced
      <4> QED
        BY <1>2, <1>4, <2>2, <3>1, <3>2, <4>1, <4>2 DEF AnnouncedInv
    <3> QED
      BY <3>3, <3>4
  <2> QED
    BY <1>2, <2>1, <2>2
<1>5. ASSUME NEW i \in DOMAIN evs', NEW j \in DOMAIN evs',
             Appended(evs'[i]), Appended(evs'[j]),
             evs'[i].of = evs'[j].of
      PROVE  i = j
  <2>1. CASE i \in DOMAIN evs /\ j \in DOMAIN evs
    BY <1>2, <1>5, <2>1 DEF AnnouncedInv
  <2>2. CASE i \notin DOMAIN evs \/ j \notin DOMAIN evs
    BY <1>1, <1>2, <1>5, <2>2
  <2> QED
    BY <2>1, <2>2
<1>6. \A t \in Tr!Sessions : Unannounced(t)' => stored'[t] # <<>>
  BY DEF AnnouncedInv
<1>7. AnnouncedInv'
  BY <1>4, <1>5, <1>6 DEF AnnouncedInv, Appended, Unannounced
<1>8. ASSUME NEW id \in PendingIds' PROVE id \in PendingIds \/ ~IsStored(stored, id)
  <2>1. CASE \E i \in DOMAIN evs' : Appended(evs'[i]) /\ id = evs'[i].of
    <3>1. PICK i \in DOMAIN evs' : Appended(evs'[i]) /\ id = evs'[i].of
      BY <2>1
    <3>2. CASE i \in DOMAIN evs
      BY <1>2, <3>1, <3>2 DEF PendingIds
    <3>3. CASE i = Len(evs) + 1
      <4>1. id = <<s, k>>
        BY <1>1, <1>2, <3>1, <3>3
      <4> QED
        BY <4>1
    <3> QED
      BY <1>2, <3>2, <3>3
  <2>2. CASE \E t \in Tr!Sessions : Unannounced(t)' /\ id = <<t, Len(stored'[t])>>
    <3>1. PICK t \in Tr!Sessions : Unannounced(t)' /\ id = <<t, Len(stored'[t])>>
      BY <2>2
    <3> QED
      BY <3>1 DEF PendingIds
  <2> QED
    BY <2>1, <2>2 DEF PendingIds, Appended
<1> QED
  BY <1>2, <1>7, <1>8 DEF Progress

-----------------------------------------------------------------------------
(* The events the runtime publishes, ...                                   *)
LEMMA EventSorts ==
  ASSUME NEW s \in Tr!Sessions
  PROVE  /\ \A id \in Ids : /\ Tr!Event("appended", s, id) \in Events
                            /\ Tr!Event("delta", s, id) \in Events
         /\ \A c \in Calls : /\ Tr!Event("requested", s, c) \in Events
                             /\ Tr!Event("done", s, c) \in Events
         /\ \A c \in Starting : /\ Tr!Event("started", s, c) \in Events
                                /\ Tr!Event("completed", s, c) \in Events
         /\ Tr!Event("turnCompleted", s, Nobody) \in Events
BY DEF Tr!Event, Events

(* ... those of them that announce no message, ...                         *)
LEMMA NotAppended ==
  ASSUME NEW s, NEW of
  PROVE  /\ ~Appended(Tr!Event("delta", s, of)) /\ ~Appended(Tr!Event("requested", s, of))
         /\ ~Appended(Tr!Event("done", s, of)) /\ ~Appended(Tr!Event("started", s, of))
         /\ ~Appended(Tr!Event("completed", s, of))
         /\ ~Appended(Tr!Event("turnCompleted", s, of))
BY DEF Tr!Event, Appended

(* ... and one more of them.                                               *)
LEMMA EventsTyped ==
  ASSUME Shaped, NEW e \in Events, evs' \in {evs, Append(evs, e)}
  PROVE  evs' \in Seq(Events)
BY AppendOne DEF Shaped

(* A call that moves on.                                                   *)
LEMMA CallTyped ==
  ASSUME Shaped, NEW c \in Calls, NEW to \in Tr!Stages, Tr!CallMoved(c, to),
         to \in {"created", "running"} => c \in Starting
  PROVE  /\ at' \in [Calls -> Tr!Stages]
         /\ \A d \in Calls : at'[d] \in {"created", "running"} => d \in Starting
BY DEF Shaped, Tr!CallMoved

(* The steps of a turn: its prompt is stored and announced, ...            *)
LEMMA StorePromptStep ==
  ASSUME Transcribed, Shaped, AnnouncedInv, NEW s \in Tr!Sessions, Tr!StorePrompt(s)
  PROVE  Shaped' /\ Progress
<1> DEFINE k == Len(stored[s]) + 1
<1>1. Tr!UserMessage \in Messages
  BY DEF Tr!UserMessage, Messages
<1>2. stored' = [stored EXCEPT ![s] = Append(@, Tr!UserMessage)]
      /\ evs' = Append(evs, Tr!Event("appended", s, <<s, k>>))
      /\ Tr!Moved(s, "streaming") /\ phase[s] = "prompted"
      /\ text' = text /\ at' = at
  BY DEF Tr!StorePrompt, Tr!Publish
<1>3. /\ phase' \in [Tr!Sessions -> Tr!Phases] /\ phase'[s] = "streaming"
      /\ \A t \in Tr!Sessions \ {s} : phase'[t] = phase[t]
  BY <1>2, PhaseMoved DEF Tr!Phases
<1>4. stored \in Stores /\ stored' \in Stores
  <2>1. stored \in Stores
    BY DEF Shaped
  <2>2. stored[s] \in Seq(Messages) /\ Append(stored[s], Tr!UserMessage) \in Seq(Messages)
    BY <1>1, <2>1, AppendOne DEF Stores
  <2> QED
    BY <1>2, <2>1, <2>2 DEF Stores
<1>5. PICK st, tu : st = stored /\ tu = stored'
  OBVIOUS
<1>6. /\ st \in Stores /\ tu \in Stores /\ tu[s] = Append(st[s], Tr!UserMessage)
      /\ \A t \in Tr!Sessions \ {s} : tu[t] = st[t]
  BY <1>2, <1>4, <1>5 DEF Stores
<1>7. /\ Grown(st, tu)
      /\ Len(st[s]) \in Nat
      /\ IsStored(tu, <<s, Len(st[s]) + 1>>)
      /\ ~IsStored(st, <<s, Len(st[s]) + 1>>)
  BY <1>1, <1>6, MessageStored
<1>8. /\ Grown(stored, stored') /\ k \in Nat /\ IsStored(stored', <<s, k>>)
      /\ ~IsStored(stored, <<s, k>>) /\ \A t \in Tr!Sessions \ {s} : stored'[t] = stored[t]
  BY <1>5, <1>6, <1>7
<1>9. \A i \in DOMAIN evs : Appended(evs[i]) => evs[i].of # <<s, k>>
  BY <1>8 DEF AnnouncedInv
<1>10. (\A t \in Tr!Sessions \ {s} : Unannounced(t)' => Unannounced(t)) /\ ~Unannounced(s)'
  BY <1>3 DEF Unannounced
<1> HIDE DEF k
<1>11. Progress /\ evs' \in Seq(Events)
  BY <1>2, <1>4, <1>8, <1>9, <1>10, Announced
<1> QED
  BY <1>2, <1>3, <1>4, <1>11 DEF Shaped

(* ... text is streamed, ...                                               *)
LEMMA TextDeltaStep ==
  ASSUME Transcribed, Shaped, AnnouncedInv, NEW s \in Tr!Sessions, Tr!TextDelta(s)
  PROVE  Shaped' /\ Progress
<1> DEFINE e == Tr!Event("delta", s, <<s, Len(stored[s]) + 1>>)
<1>1. e \in Events /\ ~Appended(e)
  <2>1. <<s, Len(stored[s]) + 1>> \in Ids
    BY DEF Ids, Shaped, Stores
  <2> QED
    BY <2>1, EventSorts, NotAppended
<1>2. /\ evs' = Append(evs, e) /\ stored' = stored /\ phase' = phase /\ at' = at
      /\ text' = [text EXCEPT ![s] = @ + 1]
  BY DEF Tr!TextDelta, Tr!Publish
<1> HIDE DEF e
<1>3. \A t \in Tr!Sessions : Unannounced(t)' => Unannounced(t)
  BY <1>2 DEF Unannounced
<1>4. Progress
  BY <1>1, <1>2, <1>3, NothingStored
<1>5. evs' \in Seq(Events)
  BY <1>1, <1>2, EventsTyped
<1>6. text' \in [Tr!Sessions -> Nat]
  BY <1>2 DEF Shaped
<1> QED
  BY <1>2, <1>4, <1>5, <1>6 DEF Shaped

(* ... an answer is put together, ...                                      *)
LEMMA AssistantTyped ==
  ASSUME Shaped, NEW s \in Tr!Sessions, NEW cs, cs \subseteq Tr!Available(s)
  PROVE  Tr!AssistantMessage(s, cs) \in Messages /\ cs \subseteq Calls
BY DEF Shaped, Tr!AssistantMessage, Messages, Tr!Available

(* ... and stored, announced in the same step or in a later one, ...       *)
LEMMA StoreAssistantStep ==
  ASSUME Transcribed, Shaped, AnnouncedInv, NEW s \in Tr!Sessions,
         NEW cs \in SUBSET Tr!Available(s), Tr!StoreAssistant(s, cs)
  PROVE  Shaped' /\ Progress
<1> DEFINE m == Tr!AssistantMessage(s, cs)
<1>1. m \in Messages /\ cs \subseteq Calls
  BY AssistantTyped
<1>2. /\ stored' = [stored EXCEPT ![s] = Append(@, m)]
      /\ at' = [c \in Calls |-> IF c \in cs THEN "made" ELSE at[c]]
      /\ Tr!Moved(s, "stored") /\ phase[s] = "streaming"
      /\ text' = text /\ evs' = evs
  BY DEF Tr!StoreAssistant
<1> HIDE DEF m
<1>3. /\ phase' \in [Tr!Sessions -> Tr!Phases]
      /\ \A t \in Tr!Sessions \ {s} : phase'[t] = phase[t]
  BY <1>2, PhaseMoved DEF Tr!Phases
<1>4. (\A t \in Tr!Sessions \ {s} : Unannounced(t)' => Unannounced(t)) /\ ~Unannounced(s)
  BY <1>2, <1>3 DEF Unannounced
<1>5. Progress /\ stored' \in Stores
  BY <1>1, <1>2, <1>4, StoredSilently
<1>6. /\ at' \in [Calls -> Tr!Stages]
      /\ \A d \in Calls : at'[d] \in {"created", "running"} => d \in Starting
  BY <1>2 DEF Shaped, Tr!Stages
<1> QED
  BY <1>2, <1>3, <1>5, <1>6 DEF Shaped

(* ... the turn fails, before or after its answer is announced, ...        *)
LEMMA TurnFailsStep ==
  ASSUME Transcribed, Shaped, AnnouncedInv, NEW s \in Tr!Sessions,
         NEW cs \in SUBSET Tr!Available(s), Tr!TurnFails(s, cs)
  PROVE  Shaped' /\ Progress
<1> DEFINE m == Tr!AssistantMessage(s, cs)
<1>1. m \in Messages /\ cs \subseteq Calls
  BY AssistantTyped
<1>2. /\ text' = [text EXCEPT ![s] = 0] /\ evs' = evs
      /\ phase[s] \in {"prompted", "streaming", "announced"}
  BY DEF Tr!TurnFails
<1>3. text' \in [Tr!Sessions -> Nat]
  BY <1>2 DEF Shaped
<1>4. /\ at' \in [Calls -> Tr!Stages]
      /\ \A d \in Calls : at'[d] \in {"created", "running"} => d \in Starting
  <2>1. \/ at' = at
        \/ at' = [c \in Calls |-> IF c \in cs \/ (CallerOf[c] = s /\ at[c] = "made")
                                   THEN "done" ELSE at[c]]
    BY DEF Tr!TurnFails
  <2> QED
    BY <2>1 DEF Shaped, Tr!Stages
<1>5. \/ stored' = stored /\ Tr!Moved(s, "failed")
      \/ /\ stored' = [stored EXCEPT ![s] = Append(@, m)]
         /\ Tr!Moved(s, "failing")
  BY DEF Tr!TurnFails
<1> HIDE DEF m
<1>6. CASE stored' = stored /\ Tr!Moved(s, "failed")
  <2>1. /\ phase' \in [Tr!Sessions -> Tr!Phases] /\ phase'[s] = "failed"
        /\ \A t \in Tr!Sessions \ {s} : phase'[t] = phase[t]
    BY <1>6, PhaseMoved DEF Tr!Phases
  <2>2. \A t \in Tr!Sessions : Unannounced(t)' => Unannounced(t)
    BY <2>1 DEF Unannounced
  <2>3. Tr!Event("turnCompleted", s, Nobody) \in Events
        /\ ~Appended(Tr!Event("turnCompleted", s, Nobody))
    BY EventSorts, NotAppended
  <2>4. Progress
    BY <1>2, <1>6, <2>2, <2>3, NothingStored
  <2> QED
    BY <1>2, <1>3, <1>4, <1>6, <2>1, <2>4 DEF Shaped
<1>7. CASE stored' = [stored EXCEPT ![s] = Append(@, m)] /\ Tr!Moved(s, "failing")
  <2>1. /\ phase' \in [Tr!Sessions -> Tr!Phases]
        /\ \A t \in Tr!Sessions \ {s} : phase'[t] = phase[t]
    BY <1>7, PhaseMoved DEF Tr!Phases
  <2>2. (\A t \in Tr!Sessions \ {s} : Unannounced(t)' => Unannounced(t)) /\ ~Unannounced(s)
    BY <1>2, <2>1 DEF Unannounced
  <2>3. Progress /\ stored' \in Stores
    BY <1>1, <1>2, <1>7, <2>2, StoredSilently
  <2> QED
    BY <1>2, <1>3, <1>4, <2>1, <2>3 DEF Shaped
<1> QED
  BY <1>5, <1>6, <1>7

(* ... the answer is announced late, ...                                   *)
LEMMA AnnounceAssistantStep ==
  ASSUME Transcribed, Shaped, AnnouncedInv, NEW s \in Tr!Sessions, Tr!AnnounceAssistant(s)
  PROVE  Shaped' /\ Progress
<1> DEFINE k == Len(stored[s])
           to == IF phase[s] = "stored" THEN "announced" ELSE "failed"
<1>1. /\ Unannounced(s) /\ Tr!Moved(s, to) /\ to \in Tr!Phases \ {"stored", "failing"}
      /\ evs' = Append(evs, Tr!Event("appended", s, <<s, k>>))
      /\ stored' = stored /\ text' = text /\ at' = at
  BY DEF Tr!AnnounceAssistant, Tr!Publish, Unannounced, Tr!Phases
<1> HIDE DEF to
<1>2. /\ phase' \in [Tr!Sessions -> Tr!Phases] /\ phase'[s] = to
      /\ \A t \in Tr!Sessions \ {s} : phase'[t] = phase[t]
  BY <1>1, PhaseMoved
<1>3. stored \in Stores /\ stored[s] \in Seq(Messages) /\ stored[s] # <<>>
  BY <1>1 DEF Shaped, Stores, AnnouncedInv
<1>4. k \in Nat /\ k \in DOMAIN stored[s]
  BY <1>3
<1>5. IsStored(stored, <<s, k>>)
  BY <1>4 DEF IsStored, Ids
<1>6. <<s, k>> \in PendingIds
  BY <1>1 DEF PendingIds
<1>7. ASSUME NEW i \in DOMAIN evs, Appended(evs[i]) PROVE evs[i].of # <<s, k>>
  <2>1. CASE evs[i].session = s
    <3>1. evs[i].of[2] < k
      BY <1>1, <1>7, <2>1 DEF AnnouncedInv
    <3> HIDE DEF k
    <3> QED
      BY <1>4, <3>1
  <2>2. CASE evs[i].session # s
    <3>1. evs[i].of[1] # s
      BY <1>7, <2>2 DEF AnnouncedInv
    <3> QED
      BY <3>1
  <2> QED
    BY <2>1, <2>2
<1>8. (\A t \in Tr!Sessions \ {s} : Unannounced(t)' => Unannounced(t)) /\ ~Unannounced(s)'
  BY <1>1, <1>2 DEF Unannounced
<1>9. Grown(stored, stored')
  BY <1>1, SameStore
<1> HIDE DEF k
<1>10. Progress /\ evs' \in Seq(Events)
  BY <1>1, <1>3, <1>4, <1>5, <1>6, <1>7, <1>8, <1>9, Announced
<1> QED
  BY <1>1, <1>2, <1>3, <1>10 DEF Shaped

-----------------------------------------------------------------------------
(* ... and a step of the turn, or the turn, is over.                       *)
LEMMA FinishStepStep ==
  ASSUME Transcribed, Shaped, AnnouncedInv, NEW s \in Tr!Sessions, Tr!FinishStep(s)
  PROVE  Shaped' /\ Progress
<1> DEFINE e == Tr!Event("turnCompleted", s, Nobody)
<1>1. e \in Events /\ ~Appended(e)
  BY EventSorts, NotAppended
<1>2. /\ evs' \in {evs, Append(evs, e)} /\ stored' = stored /\ at' = at
      /\ text' = [text EXCEPT ![s] = 0]
      /\ \E to \in {"streaming", "over"} : Tr!Moved(s, to)
  BY DEF Tr!FinishStep, Tr!Publish
<1> HIDE DEF e
<1>3. PICK to \in {"streaming", "over"} : Tr!Moved(s, to)
  BY <1>2
<1>4. /\ phase' \in [Tr!Sessions -> Tr!Phases] /\ phase'[s] = to
      /\ \A t \in Tr!Sessions \ {s} : phase'[t] = phase[t]
  BY <1>3, PhaseMoved DEF Tr!Phases
<1>5. \A t \in Tr!Sessions : Unannounced(t)' => Unannounced(t)
  BY <1>3, <1>4 DEF Unannounced
<1>6. Progress
  BY <1>1, <1>2, <1>5, NothingStored
<1>7. evs' \in Seq(Events)
  BY <1>1, <1>2, EventsTyped
<1>8. text' \in [Tr!Sessions -> Nat]
  BY <1>2 DEF Shaped
<1> QED
  BY <1>2, <1>4, <1>6, <1>7, <1>8 DEF Shaped

(* A call's step publishes one event at most, of the call or its session.  *)
LEMMA CallStep ==
  ASSUME Transcribed, Shaped, AnnouncedInv, NEW c \in Calls,
         \/ Tr!RequestCall(c) \/ Tr!CompleteCall(c) \/ Tr!CreateSession(c)
         \/ Tr!PublishCompleted(c)
  PROVE  Shaped' /\ Progress
<1>1. CallerOf[c] \in Tr!Sessions
  BY DEF Transcribed
<1>2. stored' = stored /\ phase' = phase /\ text' = text
  BY DEF Tr!RequestCall, Tr!CompleteCall, Tr!CreateSession, Tr!PublishCompleted
<1>3. \A t \in Tr!Sessions : Unannounced(t)' => Unannounced(t)
  BY <1>2 DEF Unannounced
<1>4. \E e \in Events : ~Appended(e) /\ evs' \in {evs, Append(evs, e)}
  <2>1. CASE Tr!RequestCall(c)
    BY <1>1, <2>1, EventSorts, NotAppended DEF Tr!RequestCall, Tr!Publish
  <2>2. CASE Tr!CompleteCall(c)
    BY <1>1, <2>2, EventSorts, NotAppended DEF Tr!CompleteCall, Tr!Publish
  <2>3. CASE Tr!CreateSession(c)
    BY <1>1, <2>3, EventSorts, NotAppended DEF Tr!CreateSession
  <2>4. CASE Tr!PublishCompleted(c)
    <3>1. c \in Starting
      BY <2>4 DEF Tr!PublishCompleted, Shaped
    <3> QED
      BY <1>1, <2>4, <3>1, EventSorts, NotAppended DEF Tr!PublishCompleted, Tr!Publish
  <2> QED
    BY <2>1, <2>2, <2>3, <2>4
<1>5. PICK e \in Events : ~Appended(e) /\ evs' \in {evs, Append(evs, e)}
  BY <1>4
<1>6. Progress
  BY <1>2, <1>3, <1>5, NothingStored
<1>7. evs' \in Seq(Events)
  BY <1>5, EventsTyped
<1>8. \E to \in Tr!Stages : /\ Tr!CallMoved(c, to)
                            /\ to \in {"created", "running"} => c \in Starting
  BY DEF Tr!RequestCall, Tr!CompleteCall, Tr!CreateSession, Tr!PublishCompleted, Tr!Stages, Starting
<1>9. /\ at' \in [Calls -> Tr!Stages]
      /\ \A d \in Calls : at'[d] \in {"created", "running"} => d \in Starting
  <2>1. PICK to \in Tr!Stages : /\ Tr!CallMoved(c, to)
                                /\ to \in {"created", "running"} => c \in Starting
    BY <1>8
  <2> QED
    BY <2>1, CallTyped
<1> QED
  BY <1>2, <1>6, <1>7, <1>9 DEF Shaped

(* A sub-agent is announced.                                               *)
LEMMA PublishStartedStep ==
  ASSUME Transcribed, Shaped, AnnouncedInv, NEW c \in Calls, Tr!PublishStarted(c)
  PROVE  Shaped' /\ Progress
<1>1. CallerOf[c] \in Tr!Sessions
  BY DEF Transcribed
<1>2. c \in Starting /\ SubOf[c] \in Tr!Sessions
  BY DEF Tr!PublishStarted, Shaped, Transcribed, Starting, Tr!Sessions
<1>3. /\ stored' = stored /\ text' = text /\ Tr!CallMoved(c, "running")
      /\ evs' = Append(evs, Tr!Event("started", CallerOf[c], c))
      /\ Tr!Moved(SubOf[c], "prompted")
  BY DEF Tr!PublishStarted, Tr!Publish
<1>4. /\ phase' \in [Tr!Sessions -> Tr!Phases] /\ phase'[SubOf[c]] = "prompted"
      /\ \A t \in Tr!Sessions \ {SubOf[c]} : phase'[t] = phase[t]
  BY <1>2, <1>3, PhaseMoved DEF Tr!Phases
<1>5. \A t \in Tr!Sessions : Unannounced(t)' => Unannounced(t)
  BY <1>4 DEF Unannounced
<1>6. /\ Tr!Event("started", CallerOf[c], c) \in Events
      /\ ~Appended(Tr!Event("started", CallerOf[c], c))
  BY <1>1, <1>2, EventSorts, NotAppended
<1>7. Progress
  BY <1>3, <1>5, <1>6, NothingStored
<1>8. evs' \in Seq(Events)
  BY <1>3, <1>6, EventsTyped
<1>9. /\ at' \in [Calls -> Tr!Stages]
      /\ \A d \in Calls : at'[d] \in {"created", "running"} => d \in Starting
  BY <1>2, <1>3, CallTyped DEF Tr!Stages
<1> QED
  BY <1>3, <1>4, <1>7, <1>8, <1>9 DEF Shaped

(* The runtime announces every message once.                               *)
LEMMA RunStepProgress ==
  ASSUME Transcribed, Shaped, AnnouncedInv, Tr!RunStep
  PROVE  Shaped' /\ Progress
<1>1. CASE \E s \in Tr!Sessions : Tr!StorePrompt(s) \/ Tr!TextDelta(s) \/ Tr!AnnounceAssistant(s)
                                  \/ Tr!FinishStep(s)
  BY <1>1, StorePromptStep, TextDeltaStep, AnnounceAssistantStep, FinishStepStep
<1>2. CASE \E s \in Tr!Sessions : \E cs \in SUBSET Tr!Available(s) :
             Tr!StoreAssistant(s, cs) \/ Tr!TurnFails(s, cs)
  BY <1>2, StoreAssistantStep, TurnFailsStep
<1>3. CASE \E c \in Calls : \/ Tr!RequestCall(c) \/ Tr!CompleteCall(c)
                            \/ Tr!CreateSession(c) \/ Tr!PublishCompleted(c)
  BY <1>3, CallStep
<1>4. CASE \E c \in Calls : Tr!PublishStarted(c)
  BY <1>4, PublishStartedStep
<1> QED
  BY <1>1, <1>2, <1>3, <1>4 DEF Tr!RunStep

-----------------------------------------------------------------------------
(* What is handled is not pending any more.                                *)
LEMMA Handled ==
  ASSUME Shaped, AnnouncedInv, NEW e, NEW type, Tr!Handle(e, type)
  PROVE  /\ Shaped' /\ AnnouncedInv' /\ PendingIds' \subseteq PendingIds
         /\ e \in Events /\ e.type = type /\ stored' = stored
         /\ Appended(e) => /\ IsStored(stored, e.of)
                           /\ e.of \in PendingIds /\ e.of \notin PendingIds'
<1>1. PICK i \in DOMAIN evs : evs[i] = e /\ evs' = RemoveAt(evs, i)
  BY SameLibrary DEF Tr!Handle, Tr!Next1
<1>2. /\ stored' = stored /\ phase' = phase /\ text' = text /\ at' = at
      /\ e.type = type
  BY DEF Tr!Handle, Tr!Next1
<1>3. evs \in Seq(Events) /\ DOMAIN evs = 1..Len(evs) /\ Len(evs) \in Nat
  BY DEF Shaped
<1>4. /\ evs' \in Seq(Events) /\ DOMAIN evs' = 1..(Len(evs) - 1)
      /\ \A j \in 1..(Len(evs) - 1) :
           evs'[j] = IF j < i THEN evs[j] ELSE evs[j + 1]
  BY <1>1, <1>3, Removal
<1>5. e \in Events
  BY <1>1, <1>3
<1> DEFINE h == [j \in DOMAIN evs' |-> IF j < i THEN j ELSE j + 1]
<1>6. /\ \A j \in DOMAIN evs' :
           h[j] \in DOMAIN evs \ {i} /\ evs[h[j]] = evs'[j]
      /\ \A j, k \in DOMAIN evs' : h[j] = h[k] => j = k
  BY <1>1, <1>3, <1>4
<1> HIDE DEF h
<1>7. \A s \in Tr!Sessions : Unannounced(s)' => Unannounced(s)
  BY <1>2 DEF Unannounced
<1>8. \A j \in DOMAIN evs : evs[j].session \in Tr!Sessions
  BY <1>3, EventFields
<1>9. AnnouncedInv' /\ PendingIds' \subseteq PendingIds
  BY <1>2, <1>6, <1>7, <1>8, OthersPublished
<1>10. Shaped'
  BY <1>2, <1>4 DEF Shaped
<1>11. ASSUME Appended(e)
       PROVE  /\ IsStored(stored, e.of)
              /\ e.of \in PendingIds /\ e.of \notin PendingIds'
  <2>1. IsStored(stored, e.of) /\ e.of[1] = e.session /\ e.of \in PendingIds
    BY <1>1, <1>11 DEF AnnouncedInv, PendingIds
  <2>2. ASSUME NEW j \in DOMAIN evs', Appended(evs'[j]), evs'[j].of = e.of
        PROVE  FALSE
    <3>1. h[j] \in DOMAIN evs /\ h[j] # i /\ evs[h[j]] = evs'[j]
      BY <1>6
    <3> QED
      BY <1>1, <1>11, <2>2, <3>1 DEF AnnouncedInv
  <2>3. ASSUME NEW s \in Tr!Sessions, Unannounced(s), e.of = <<s, Len(stored[s])>>
        PROVE  FALSE
    <3>1. e.session = s /\ e.of[2] = Len(stored[s])
      BY <2>1, <2>3
    <3>2. Len(stored[s]) \in Nat
      BY DEF Shaped, Stores
    <3>3. e.of[2] < Len(stored[s])
      BY <1>1, <1>11, <2>3, <3>1 DEF AnnouncedInv
    <3> QED
      BY <3>1, <3>2, <3>3
  <2>4. ASSUME NEW s \in Tr!Sessions, Unannounced(s)', e.of = <<s, Len(stored'[s])>>
        PROVE  FALSE
    BY <1>2, <1>7, <2>3, <2>4
  <2>5. e.of \notin PendingIds'
    BY <2>2, <2>4 DEF PendingIds, Appended
  <2> QED
    BY <2>1, <2>5
<1> QED
  BY <1>2, <1>5, <1>9, <1>10, <1>11

(* Fewer messages are pending, and flushIdx may be forgotten.              *)
LEMMA WholeStill ==
  ASSUME NEW st, NEW P, NEW rs, NEW f, Whole(st, P, rs, f),
         NEW Q, Q \subseteq P, NEW g \in {0, f}
  PROVE  Whole(st, Q, rs, g)
<1>1. Len(rs) \in Nat /\ DOMAIN rs = 1..Len(rs)
  BY DEF Whole, Good
<1> QED
  BY <1>1 DEF Whole, Settled

(* A transcript is a sequence of rows, ...                                 *)
LEMMA RowsAre ==
  ASSUME NEW st, NEW P, NEW rs, NEW f, Whole(st, P, rs, f)
  PROVE  /\ rs \in Seq(Rows) /\ Len(rs) \in Nat /\ DOMAIN rs = 1..Len(rs)
         /\ \A i \in DOMAIN rs : rs[i] \in Rows
         /\ rs # <<>> => Last(rs) = rs[Len(rs)] /\ Len(rs) \in DOMAIN rs
BY DEF Whole, Good, Last

(* ... and a row is made of these.                                         *)
LEMMA RowFields ==
  ASSUME NEW row \in Rows
  PROVE  /\ row.id \in Ids \cup {Nobody}
         /\ row.kind \in {"user", "assistant", "tool", "system"}
         /\ row.streaming \in BOOLEAN /\ row.placeholder \in BOOLEAN
         /\ row.shows \in Seq(Ids)
BY DEF Rows

-----------------------------------------------------------------------------
(* The operations on the foreground's transcript.                          *)
LEMMA ExtendedRow ==
  ASSUME NEW row \in Rows, NEW id \in Ids
  PROVE  /\ Tr!Extended(row, id) \in Rows
         /\ Tr!Extended(row, id).id = row.id /\ Tr!Extended(row, id).kind = row.kind
<1> DEFINE shown == Append(IF row.placeholder THEN <<>> ELSE row.shows, id)
<1>1. shown \in Seq(Ids)
  <2>1. (IF row.placeholder THEN <<>> ELSE row.shows) \in Seq(Ids)
    BY RowFields
  <2> QED
    BY <2>1, AppendOne
<1>2. Tr!Extended(row, id) = [row EXCEPT !.shows = shown, !.streaming = TRUE,
                                      !.placeholder = FALSE]
  BY DEF Tr!Extended
<1> HIDE DEF shown
<1> QED
  BY <1>1, <1>2 DEF Rows

(* A delta extends a bubble of no message that is pending, or opens one.   *)
LEMMA DeltaRows ==
  ASSUME NEW st, NEW P, Whole(st, P, rows, flushIdx), NEW id \in Ids,
         Tr!AppendAssistantDelta(id)
  PROVE  Whole(st, P, rows', flushIdx')
<1> DEFINE n == Len(rows)
<1>1. CASE \/ Tr!LastIs(rows, Tr!IsStreamingBubble)
           \/ flushIdx = Len(rows) /\ Tr!LastIs(rows, Tr!IsAssistant)
  <2>1. rows' = [rows EXCEPT ![n] = Tr!Extended(rows[n], id)] /\ flushIdx' = flushIdx
    BY <1>1 DEF Tr!AppendAssistantDelta
  <2>2. n \in DOMAIN rows /\ rows[n] \in Rows /\ Last(rows) = rows[n]
    BY <1>1, RowsAre DEF Tr!LastIs
  <2>3. Tr!IsStreamingBubble(rows[n]) \/ flushIdx = n
    BY SameLibrary, <1>1, <2>2 DEF Tr!LastIs
  <2> DEFINE row == Tr!Extended(rows[n], id)
  <2>4. row \in Rows /\ row.id = rows[n].id /\ row.kind = rows[n].kind
    BY <2>2, ExtendedRow
  <2> HIDE DEF row, n
  <2>5. Fits(st, rows, n, row)
    BY <2>2, <2>4, FitsInPlace DEF Whole
  <2>6. Named(row) => row.id \notin P
    BY <2>2, <2>3, <2>4 DEF Whole, Settled, Named
  <2>7. Whole(st, P, [rows EXCEPT ![n] = row], flushIdx)
    BY <2>2, <2>5, <2>6, RowChanged
  <2> QED
    BY <2>1, <2>7 DEF row
<1>2. CASE ~(\/ Tr!LastIs(rows, Tr!IsStreamingBubble)
             \/ flushIdx = Len(rows) /\ Tr!LastIs(rows, Tr!IsAssistant))
  <2> DEFINE row == Tr!Streaming(Tr!Bubble(Nobody, <<id>>))
  <2>1. rows' = Append(rows, row) /\ flushIdx' = 0
    BY <1>2 DEF Tr!AppendAssistantDelta
  <2>2. row \in Rows
    <3>1. <<id>> \in Seq(Ids)
      OBVIOUS
    <3>2. Tr!Bubble(Nobody, <<id>>) \in Rows
      BY <3>1, RowTypes
    <3> QED
      BY <3>2, RowTypes
  <2>3. ~Named(row)
    BY DEF Tr!Streaming, Tr!Bubble, Tr!Row, Named
  <2> HIDE DEF row
  <2> QED
    BY <2>1, <2>2, <2>3, FitsAnywhere, RowAppended
<1> QED
  BY <1>1, <1>2

(* A row for a message that has none.                                      *)
LEMMA FitsNew ==
  ASSUME NEW st, NEW P, NEW rs, NEW f, Whole(st, P, rs, f), NEW i,
         NEW row \in Rows, About(st, row), \A j \in DOMAIN rs : rs[j].id # row.id
  PROVE  Fits(st, rs, i, row)
BY DEF Fits

(* A prompt's event: its row takes the place it has, or the optimistic     *)
(* one's, or a new one.                                                    *)
LEMMA UserRows ==
  ASSUME NEW P, Whole(stored, P, rows, flushIdx), NEW id, IsStored(stored, id),
         Tr!Message(id).role = "user", Tr!ShowUserMessage(id)
  PROVE  Whole(stored, P, rows', flushIdx')
<1> DEFINE row == Tr!UserRow(id)
           there == {i \in DOMAIN rows : rows[i].id = id /\ rows[i].kind = "user"}
           n == Len(rows)
<1>0. row \in Rows /\ row.id = id /\ row.kind = "user" /\ row.streaming = FALSE
  BY RowTypes DEF IsStored, Tr!UserRow, Tr!Row
<1>1. ~Tr!IsStreamingBubble(row)
  BY <1>0 DEF Tr!IsStreamingBubble
<1>2. About(stored, row)
  BY <1>0 DEF About, Tr!Message
<1>3. flushIdx' = 0
  BY DEF Tr!ShowUserMessage
<1>4. Len(rows) \in Nat /\ DOMAIN rows = 1..Len(rows) /\ 0 \notin DOMAIN rows
      /\ rows \in Seq(Rows)
  BY RowsAre
<1>5. CASE there # {}
  <2> DEFINE j == CHOOSE j \in there : \A k \in there : j <= k
  <2>1. rows' = [i \in DOMAIN rows |-> IF i = j THEN row ELSE rows[i]]
    BY <1>5 DEF Tr!ShowUserMessage
  <2>2. \E m \in there : \A k \in there : m <= k
    <3>1. there \subseteq Nat
      BY <1>4
    <3> HIDE DEF there
    <3> QED
      BY <1>5, <3>1, Least
  <2>3. j \in there
    BY <2>2
  <2>4. j \in DOMAIN rows /\ rows[j].id = id /\ rows[j].kind = "user"
    BY <2>3
  <2> HIDE DEF j, row
  <2>5. rows' = [rows EXCEPT ![j] = row]
    BY <1>4, <2>1, <2>4
  <2>6. Fits(stored, rows, j, row)
    BY <1>0, <2>4, FitsInPlace DEF Whole
  <2>7. Whole(stored, P, [rows EXCEPT ![j] = row], 0)
    BY <1>1, <1>4, <2>4, <2>6, RowChanged
  <2> QED
    BY <1>3, <2>5, <2>7
<1>6. CASE there = {}
  <2>1. ASSUME NEW i, Named(row) PROVE Fits(stored, rows, i, row)
    <3>1. ASSUME NEW j \in DOMAIN rows, rows[j].id = id PROVE FALSE
      <4>1. About(stored, rows[j])
        BY <1>0, <2>1, <3>1 DEF Whole, Good, OfStored, Named
      <4>2. rows[j].kind = "user"
        BY <3>1, <4>1 DEF About, Tr!Message
      <4> QED
        BY <1>6, <3>1, <4>2
    <3> HIDE DEF row
    <3> QED
      BY <1>0, <1>2, <3>1, FitsNew
  <2>2. \A i : Fits(stored, rows, i, row)
    BY <1>0, <2>1, FitsAnywhere
  <2> DEFINE isUser(r) == r.kind = "user"
  <2>3. \/ rows' = Append(rows, row)
        \/ rows # <<>> /\ rows' = [rows EXCEPT ![n] = row]
    BY <1>6 DEF Tr!ShowUserMessage, Tr!LastIs
  <2> HIDE DEF row
  <2>4. CASE rows' = Append(rows, row)
    BY <1>0, <1>3, <2>2, <2>4, RowAppended
  <2>5. CASE rows # <<>> /\ rows' = [rows EXCEPT ![n] = row]
    <3>1. n \in DOMAIN rows /\ n # 0
      BY <1>4, <2>5
    <3> HIDE DEF n
    <3> QED
      BY <1>1, <1>3, <2>2, <2>5, <3>1, RowChanged
  <2> QED
    BY <2>3, <2>4, <2>5
<1> QED
  BY <1>5, <1>6

-----------------------------------------------------------------------------
(* The bubble a message's event is about, and where a new one goes.        *)
LEMMA CurrentBubbleIs ==
  ASSUME rows \in Seq(Rows), Tr!CurrentBubble # 0
  PROVE  Tr!CurrentBubble \in DOMAIN rows /\ rows[Tr!CurrentBubble].kind = "assistant"
<1> DEFINE T == {i \in 1..Len(rows) : Tr!IsStreamingBubble(rows[i])}
<1>1. Len(rows) \in Nat /\ DOMAIN rows = 1..Len(rows)
  OBVIOUS
<1>2. Tr!LastRow(rows, Tr!IsStreamingBubble) = IF T # {} THEN Max(T) ELSE 0
  BY SameLibrary DEF Tr!LastRow, Tr!SelectLastInSeq
<1>3. T # {} => Max(T) \in T
  BY <1>1, Greatest
<1> HIDE DEF T
<1>4. CASE Tr!LastRow(rows, Tr!IsStreamingBubble) # 0
  <2>1. Tr!CurrentBubble = Max(T) /\ Max(T) \in T
    BY <1>2, <1>3, <1>4 DEF Tr!CurrentBubble
  <2> QED
    BY <1>1, <2>1 DEF T, Tr!IsStreamingBubble
<1>5. CASE Tr!LastRow(rows, Tr!IsStreamingBubble) = 0
  <2>1. Tr!CurrentBubble = Len(rows) /\ Tr!LastIs(rows, Tr!IsAssistant)
    BY <1>5 DEF Tr!CurrentBubble
  <2> QED
    BY SameLibrary, <1>1, <2>1 DEF Tr!LastIs, Tr!IsAssistant, Last
<1> QED
  BY <1>4, <1>5

(* The message goes before the trailing rows of tools.                     *)
LEMMA InsertedWhole ==
  ASSUME NEW st, NEW P, NEW rs, NEW f, Whole(st, P, rs, f),
         NEW row, Fits(st, rs, 0, row), ~row.streaming, row.id \notin P
  PROVE  Whole(st, P, Tr!Inserted(rs, row), Tr!IndexOfFinal(Tr!Inserted(rs, row)))
<1> DEFINE T == {i \in 1..Len(rs) : rs[i].kind # "tool"}
           l == Tr!LastRow(rs, LAMBDA r : r.kind # "tool")
           out == InsertAt(rs, 1 + l, row)
<1>1. Len(rs) \in Nat /\ DOMAIN rs = 1..Len(rs)
  BY RowsAre
<1>2. l = IF T # {} THEN Max(T) ELSE 0
  BY SameLibrary DEF Tr!LastRow, Tr!SelectLastInSeq
<1>3. T # {} => Max(T) \in 1..Len(rs) /\ \A t \in T : t <= Max(T)
  <2>1. T \subseteq 1..Len(rs)
    OBVIOUS
  <2> HIDE DEF T
  <2> QED
    BY <1>1, <2>1, Greatest
<1>4. Tr!Inserted(rs, row) = out
  BY SameLibrary DEF Tr!Inserted
<1>5. l \in 0..Len(rs) /\ \A t \in T : t <= l
  <2> HIDE DEF l, T
  <2> QED
    BY <1>1, <1>2, <1>3
<1> HIDE DEF l
<1>6. \A i \in 1..Len(rs) : i > l => rs[i].kind = "tool"
  BY <1>1, <1>5
<1> HIDE DEF T
<1>7. 1 + l \in 1..(Len(rs) + 1)
  BY <1>1, <1>5
<1>8. /\ \A g \in {0, 1 + l} : Whole(st, P, out, g)
      /\ Len(out) = Len(rs) + 1
      /\ \A j \in 1..(Len(rs) + 1) :
           out[j] = IF j < 1 + l THEN rs[j] ELSE IF j = 1 + l THEN row ELSE rs[j - 1]
  BY <1>7, RowInserted
<1> HIDE DEF out
<1>9. Tr!IndexOfFinal(out) \in {0, 1 + l}
  <2>1. CASE Tr!LastIs(out, Tr!IsAssistant)
    <3>1. Tr!IndexOfFinal(out) = Len(rs) + 1 /\ out[Len(rs) + 1].kind = "assistant"
      BY SameLibrary, <1>8, <2>1 DEF Tr!IndexOfFinal, Tr!LastIs, Tr!IsAssistant, Last
    <3>2. CASE l < Len(rs)
      <4>1. Len(rs) \in 1..Len(rs) /\ Len(rs) > l /\ Len(rs) + 1 \in 1..(Len(rs) + 1)
            /\ ~(Len(rs) + 1 < 1 + l) /\ Len(rs) + 1 # 1 + l
            /\ (Len(rs) + 1) - 1 = Len(rs)
        BY <1>1, <1>5, <3>2
      <4>2. out[Len(rs) + 1] = rs[Len(rs)] /\ rs[Len(rs)].kind = "tool"
        BY <1>6, <1>8, <4>1
      <4> QED
        BY <3>1, <4>2
    <3>3. CASE ~(l < Len(rs))
      BY <1>1, <1>5, <3>1, <3>3
    <3> QED
      BY <3>2, <3>3
  <2>2. CASE ~Tr!LastIs(out, Tr!IsAssistant)
    BY <2>2 DEF Tr!IndexOfFinal
  <2> QED
    BY <2>1, <2>2
<1> QED
  BY <1>4, <1>8, <1>9

(* An answer's event: the message gets the bubble that streams, or a row   *)
(* of its own, and is pending no more.                                     *)
LEMMA FlushRows ==
  ASSUME stored \in Stores, NEW P, NEW Q, Whole(stored, P, rows, flushIdx),
         Q \subseteq P, NEW id, id \in P, id \notin Q, IsStored(stored, id),
         Tr!Message(id).role # "user", Tr!FlushAssistantStream(id)
  PROVE  Whole(stored, Q, rows', flushIdx')
<1> DEFINE has == Tr!Message(id).text > 0
           new == Tr!Bubble(id, Tr!Text(id))
           i == Tr!CurrentBubble
           named == [rows[i] EXCEPT !.id = id, !.streaming = FALSE,
                                    !.placeholder = FALSE]
<1>1. Whole(stored, Q, rows, flushIdx)
  BY WholeStill
<1>2. Tr!Message(id) \in Messages /\ id \in Ids
  BY DEF IsStored, Ids, Stores, Tr!Message
<1>3. Tr!Message(id).role = "assistant" /\ Tr!Message(id).text \in Nat
  BY <1>2 DEF Messages
<1>4. new \in Rows /\ new.id = id /\ new.kind = "assistant" /\ new.streaming = FALSE
  <2>1. Tr!Text(id) \in Seq(Ids)
    <3>1. Tr!Text(id) = [k \in 1..Tr!Message(id).text |-> id]
      BY DEF Tr!Text
    <3>2. [k \in 1..Tr!Message(id).text |-> id] \in [1..Tr!Message(id).text -> Ids]
      BY <1>2
    <3>3. \A k \in Nat : \A f \in [1..k -> Ids] : f \in Seq(Ids)
      OBVIOUS
    <3> QED
      BY <1>3, <3>1, <3>2, <3>3
  <2>2. new \in Rows
    BY <1>2, <2>1, RowTypes
  <2> QED
    BY <2>2 DEF Tr!Bubble, Tr!Row
<1>5. /\ rows \in Seq(Rows) /\ Len(rows) \in Nat /\ DOMAIN rows = 1..Len(rows)
      /\ \A j \in DOMAIN rows : rows[j] \in Rows
  BY RowsAre
<1>6. i # 0 => i \in DOMAIN rows /\ rows[i].kind = "assistant"
  BY <1>5, CurrentBubbleIs
<1>7. i # 0 => named \in Rows /\ named.id = id /\ named.kind = "assistant"
               /\ named.streaming = FALSE
  <2> HIDE DEF i
  <2>1. ASSUME NEW r \in Rows
        PROVE  LET x == [r EXCEPT !.id = id, !.streaming = FALSE, !.placeholder = FALSE]
               IN  x \in Rows /\ x.id = id /\ x.kind = r.kind /\ x.streaming = FALSE
    BY <1>2 DEF Rows
  <2> QED
    BY <1>5, <1>6, <2>1
<1> HIDE DEF i, new, named
<1>8. ASSUME ~Tr!Flushed(id), NEW row \in Rows, row.id = id, row.kind = "assistant"
      PROVE  \A j : Fits(stored, rows, j, row)
  <2>1. About(stored, row)
    BY <1>3, <1>8 DEF About, Tr!Message
  <2>2. ASSUME Named(row), NEW j \in DOMAIN rows, rows[j].id = id PROVE FALSE
    <3>1. About(stored, rows[j]) /\ Named(rows[j])
      BY <1>8, <2>2 DEF Whole, Good, OfStored, Named
    <3>2. rows[j].kind = "assistant"
      BY <1>3, <2>2, <3>1 DEF About, Tr!Message
    <3>3. rows[j].streaming
      BY <1>8, <2>2, <3>2 DEF Tr!Flushed, Tr!IsAssistant
    <3>4. rows[j].id \notin P
      BY <2>2, <3>1, <3>2, <3>3 DEF Whole, Settled, Tr!IsStreamingBubble
    <3> QED
      BY <2>2, <3>4
  <2>3. CASE Named(row)
    BY <1>8, <2>1, <2>2, <2>3 DEF Fits
  <2>4. CASE ~Named(row)
    BY <1>8, <2>4, FitsAnywhere
  <2> QED
    BY <2>3, <2>4
<1>9. CASE Tr!Flushed(id)
  BY <1>1, <1>9 DEF Tr!FlushAssistantStream
<1>10. CASE ~Tr!Flushed(id) /\ i = 0
  <2>1. rows' = IF has THEN Tr!Inserted(rows, new) ELSE rows
    BY <1>10 DEF Tr!FlushAssistantStream, i, new
  <2>2. flushIdx' = IF has THEN Tr!IndexOfFinal(rows') ELSE flushIdx
    BY <1>10 DEF Tr!FlushAssistantStream, i
  <2>3. CASE has
    <3>1. Fits(stored, rows, 0, new) /\ ~new.streaming /\ new.id \notin Q
      BY <1>4, <1>8, <1>10
    <3>2. Whole(stored, Q, Tr!Inserted(rows, new), Tr!IndexOfFinal(Tr!Inserted(rows, new)))
      BY <1>1, <3>1, InsertedWhole
    <3>3. rows' = Tr!Inserted(rows, new) /\ flushIdx' = Tr!IndexOfFinal(Tr!Inserted(rows, new))
      BY <2>1, <2>2, <2>3
    <3> QED
      BY <3>2, <3>3
  <2>4. CASE ~has
    BY <1>1, <2>1, <2>2, <2>4
  <2> QED
    BY <2>3, <2>4
<1>11. CASE ~Tr!Flushed(id) /\ i # 0 /\ rows[i].placeholder /\ ~has
  <2>1. rows' = RemoveAt(rows, i) /\ flushIdx' = 0
    BY SameLibrary, <1>11 DEF Tr!FlushAssistantStream, i
  <2> QED
    BY <1>1, <1>6, <1>11, <2>1, RowRemoved
<1>12. CASE ~Tr!Flushed(id) /\ i # 0 /\ ~(rows[i].placeholder /\ ~has)
  <2> DEFINE row == IF has THEN new ELSE named
  <2>1. rows' = [rows EXCEPT ![i] = row] /\ flushIdx' = i
    BY <1>12 DEF Tr!FlushAssistantStream, i, new, named
  <2>2. row \in Rows /\ row.id = id /\ row.kind = "assistant"
    BY <1>4, <1>7, <1>12
  <2> HIDE DEF row
  <2>3. Fits(stored, rows, i, row) /\ row.id \notin Q
    BY <1>8, <1>12, <2>2
  <2> QED
    BY <1>1, <1>6, <1>12, <2>1, <2>3, RowChanged
<1> QED
  BY <1>9, <1>10, <1>11, <1>12

-----------------------------------------------------------------------------
(* Rows of calls, of sub-agents and of the user.                           *)
LEMMA WithoutPlaceholderWhole ==
  ASSUME NEW st, NEW P, Whole(st, P, rows, flushIdx)
  PROVE  Whole(st, P, Tr!WithoutPlaceholder, 0)
<1>1. Len(rows) \in Nat /\ DOMAIN rows = 1..Len(rows) /\ rows \in Seq(Rows)
  BY RowsAre
<1>2. CASE rows # <<>> /\ Last(rows).placeholder
  <2>1. Len(rows) \in DOMAIN rows
    BY <1>1, <1>2
  <2>2. RemoveAt(rows, Len(rows)) = Front(rows)
    <3> DEFINE a == SubSeq(rows, 1, Len(rows) - 1)
               b == SubSeq(rows, Len(rows) + 1, Len(rows))
    <3>1. b = <<>>
      BY <1>1, SubSeqEmpty
    <3>2. a \in Seq(Rows)
      <4>1. \A i \in 1..(Len(rows) - 1) : rows[i] \in Rows
        BY <1>1
      <4> QED
        BY <1>1, <4>1, SubSeqProperties
    <3> HIDE DEF a, b
    <3>3. a \o b = a
      BY <3>1, <3>2, ConcatEmptySeq
    <3> QED
      BY <3>3 DEF RemoveAt, Front, a, b
  <2>3. Whole(st, P, RemoveAt(rows, Len(rows)), 0)
    BY <2>1, RowRemoved
  <2> QED
    BY SameLibrary, <1>2, <2>2, <2>3 DEF Tr!WithoutPlaceholder
<1>3. CASE ~(rows # <<>> /\ Last(rows).placeholder)
  BY SameLibrary, <1>3, WholeStill DEF Tr!WithoutPlaceholder
<1> QED
  BY <1>2, <1>3

(* The row that gets a result keeps its place and its message.             *)
LEMMA ResultWhole ==
  ASSUME NEW st, NEW P, NEW rs, NEW f, Whole(st, P, rs, f), NEW c \in Calls,
         NEW own \in Rows, ~Named(own)
  PROVE  Whole(st, P, Tr!WithResult(rs, c, own), f)
<1> DEFINE T == {i \in 1..Len(rs) : rs[i].name = Tr!ToolName(c) /\ rs[i].streaming}
           l == Tr!LastRow(rs, LAMBDA r : r.name = Tr!ToolName(c) /\ r.streaming)
           row == [rs[l] EXCEPT !.streaming = FALSE, !.result = c]
           new == [own EXCEPT !.result = c]
<1>1. /\ Len(rs) \in Nat /\ DOMAIN rs = 1..Len(rs) /\ rs \in Seq(Rows)
      /\ \A i \in DOMAIN rs : rs[i] \in Rows
  BY RowsAre
<1>2. l = IF T # {} THEN Max(T) ELSE 0
  BY SameLibrary DEF Tr!LastRow, Tr!SelectLastInSeq
<1>3. l # 0 => l \in DOMAIN rs
  <2>1. T \subseteq 1..Len(rs)
    OBVIOUS
  <2> HIDE DEF T, l
  <2> QED
    BY <1>1, <1>2, <2>1, Greatest
<1>4. Tr!WithResult(rs, c, own) =
        IF l # 0 THEN [rs EXCEPT ![l].streaming = FALSE, ![l].result = c]
                 ELSE Append(rs, new)
  BY DEF Tr!WithResult
<1> HIDE DEF T, l
<1>5. CASE l # 0
  <2>1. \A r \in Rows : LET x == [r EXCEPT !.streaming = FALSE, !.result = c]
                        IN  /\ x \in Rows /\ x.id = r.id /\ x.kind = r.kind
                            /\ x.streaming = FALSE
    BY DEF Rows
  <2>2. /\ row \in Rows /\ row.id = rs[l].id /\ row.kind = rs[l].kind
        /\ row.streaming = FALSE
    BY <1>1, <1>3, <1>5, <2>1
  <2>3. [rs EXCEPT ![l].streaming = FALSE, ![l].result = c] = [rs EXCEPT ![l] = row]
    BY <1>1, <1>3, <1>5
  <2> HIDE DEF row
  <2>4. Fits(st, rs, l, row)
    BY <1>3, <1>5, <2>2, FitsInPlace DEF Whole
  <2>5. Named(row) /\ (Tr!IsStreamingBubble(row) \/ f = l) => row.id \notin P
    BY <1>3, <1>5, <2>2 DEF Whole, Settled, Named, Tr!IsStreamingBubble
  <2>6. Whole(st, P, [rs EXCEPT ![l] = row], f)
    BY <1>3, <1>5, <2>4, <2>5, RowChanged
  <2> QED
    BY <1>4, <1>5, <2>3, <2>6
<1>6. CASE l = 0
  <2>1. new \in Rows /\ new.id = own.id
    BY DEF Rows
  <2> HIDE DEF new
  <2>2. ~Named(new)
    BY <2>1 DEF Named
  <2> QED
    BY <1>4, <1>6, <2>1, <2>2, FitsAnywhere, RowAppended
<1> QED
  BY <1>5, <1>6

(* A sub-agent's anchor is a row, ...                                      *)
LEMMA AnchorIs ==
  ASSUME NEW c, rows \in Seq(Rows), Tr!Anchor(c) # 0
  PROVE  Tr!Anchor(c) \in DOMAIN rows
<1> DEFINE T == {i \in 1..Len(rows) : Tr!Claimable(rows[i], SubOf[c]) /\ rows[i].call = c}
           U == {i \in 1..Len(rows) : Tr!Claimable(rows[i], SubOf[c])}
           exact == Tr!LastRow(rows, LAMBDA r : Tr!Claimable(r, SubOf[c]) /\ r.call = c)
           other == Tr!LastRow(rows, LAMBDA r : Tr!Claimable(r, SubOf[c]))
<1>1. Len(rows) \in Nat /\ DOMAIN rows = 1..Len(rows)
  OBVIOUS
<1>2. /\ exact = IF T # {} THEN Max(T) ELSE 0
      /\ other = IF U # {} THEN Max(U) ELSE 0
  BY SameLibrary DEF Tr!LastRow, Tr!SelectLastInSeq
<1>3. Tr!Anchor(c) = IF exact # 0 THEN exact ELSE other
  BY DEF Tr!Anchor
<1>4. T \subseteq 1..Len(rows) /\ U \subseteq 1..Len(rows)
  OBVIOUS
<1> HIDE DEF T, U, exact, other
<1>5. (T # {} => Max(T) \in 1..Len(rows)) /\ (U # {} => Max(U) \in 1..Len(rows))
  BY <1>1, <1>4, Greatest
<1> QED
  BY <1>1, <1>2, <1>3, <1>5

(* ... whose message stays what it is.                                     *)
LEMMA SubWhole ==
  ASSUME NEW st, NEW P, NEW rs, NEW f, Whole(st, P, rs, f),
         NEW i \in DOMAIN rs, NEW s \in Subs
  PROVE  Whole(st, P, [rs EXCEPT ![i].sub = s], f)
<1> DEFINE row == [rs[i] EXCEPT !.sub = s]
<1>1. \A r \in Rows : LET x == [r EXCEPT !.sub = s]
                      IN  /\ x \in Rows /\ x.id = r.id /\ x.kind = r.kind
                          /\ x.streaming = r.streaming
  BY DEF Rows
<1>2. rs[i] \in Rows
  BY RowsAre
<1>3. /\ row \in Rows /\ row.id = rs[i].id /\ row.kind = rs[i].kind
      /\ row.streaming = rs[i].streaming
  BY <1>1, <1>2
<1>4. [rs EXCEPT ![i].sub = s] = [rs EXCEPT ![i] = row]
  OBVIOUS
<1> HIDE DEF row
<1>5. Fits(st, rs, i, row)
  BY <1>3, FitsInPlace DEF Whole
<1>6. Named(row) /\ (Tr!IsStreamingBubble(row) \/ f = i) => row.id \notin P
  BY <1>3 DEF Whole, Settled, Named, Tr!IsStreamingBubble
<1> QED
  BY <1>4, <1>5, <1>6, RowChanged

(* A row of no message at the end.                                         *)
LEMMA PlainAppended ==
  ASSUME NEW st, NEW P, NEW rs, NEW f, Whole(st, P, rs, f),
         NEW row \in Rows, ~Named(row), NEW g \in {0, f}
  PROVE  Whole(st, P, Append(rs, row), g)
BY FitsAnywhere, RowAppended

(* The rows that are of no message.                                        *)
LEMMA PlainRows ==
  /\ \A c \in Calls :
       /\ Tr!ToolRow(c) \in Rows /\ ~Named(Tr!ToolRow(c))
       /\ Tr!Streaming(Tr!ToolRow(c)) \in Rows /\ ~Named(Tr!Streaming(Tr!ToolRow(c)))
       /\ [Tr!ToolRow(c) EXCEPT !.call = Nobody] \in Rows
       /\ ~Named([Tr!ToolRow(c) EXCEPT !.call = Nobody])
  /\ Tr!UserRow(Nobody) \in Rows /\ ~Named(Tr!UserRow(Nobody))
  /\ [Tr!Row EXCEPT !.kind = "system"] \in Rows
  /\ ~Named([Tr!Row EXCEPT !.kind = "system"])
  /\ [Tr!Streaming(Tr!Bubble(Nobody, <<>>)) EXCEPT !.placeholder = TRUE] \in Rows
  /\ ~Named([Tr!Streaming(Tr!Bubble(Nobody, <<>>)) EXCEPT !.placeholder = TRUE])
<1>1. Tr!Row \in Rows /\ Tr!Row.id = Nobody
  BY RowTypes DEF Tr!Row
<1>2. \A c \in Calls : Tr!ToolRow(c) \in Rows /\ Tr!ToolRow(c).id = Nobody
  <2>1. ASSUME NEW c \in Calls PROVE Tr!ToolRow(c) \in Rows /\ Tr!ToolRow(c).id = Nobody
    <3>1. Tr!ToolRow(c) \in Rows
      BY RowTypes
    <3>2. Tr!ToolRow(c).id = Tr!Row.id
      BY <1>1 DEF Tr!ToolRow, Rows
    <3> QED
      BY <1>1, <3>1, <3>2
  <2> QED
    BY <2>1
<1>3. \A r \in Rows : /\ Tr!Streaming(r) \in Rows /\ Tr!Streaming(r).id = r.id
                      /\ [r EXCEPT !.call = Nobody] \in Rows
                      /\ [r EXCEPT !.call = Nobody].id = r.id
                      /\ [r EXCEPT !.kind = "system"] \in Rows
                      /\ [r EXCEPT !.kind = "system"].id = r.id
                      /\ [r EXCEPT !.placeholder = TRUE] \in Rows
                      /\ [r EXCEPT !.placeholder = TRUE].id = r.id
  BY DEF Rows, Tr!Streaming
<1>4. Tr!Bubble(Nobody, <<>>) \in Rows /\ Tr!Bubble(Nobody, <<>>).id = Nobody
  <2>1. <<>> \in Seq(Ids)
    OBVIOUS
  <2>2. Tr!Bubble(Nobody, <<>>) \in Rows
    BY <2>1, RowTypes
  <2> QED
    BY <2>2 DEF Tr!Bubble, Tr!Row
<1>5. Tr!UserRow(Nobody) \in Rows /\ Tr!UserRow(Nobody).id = Nobody
  BY <1>1, RowTypes DEF Tr!UserRow, Rows
<1> QED
  BY <1>1, <1>2, <1>3, <1>4, <1>5 DEF Named

-----------------------------------------------------------------------------
(* The transcripts on the screen and of the sub-agents.                    *)
ScreenInv ==
  /\ Whole(stored, PendingIds, rows, flushIdx)
  /\ tracked \subseteq Subs /\ DOMAIN subRows = Subs
  /\ \A s \in Subs : Good(stored, subRows[s])
TranscriptInv == Shaped /\ AnnouncedInv /\ ScreenInv

(* A transcript that nothing extends.                                      *)
LEMMA GoodIsWhole ==
  ASSUME NEW st, NEW rs, Good(st, rs)
  PROVE  Whole(st, {}, rs, 0)
<1>1. Len(rs) \in Nat
  BY DEF Good
<1> QED
  BY <1>1 DEF Whole, Settled

(* A step that handles an event, or none, changes the foreground's         *)
(* transcript, ...                                                         *)
LEMMA ForegroundStep ==
  ASSUME ScreenInv, stored' = stored, Whole(stored, PendingIds', rows', flushIdx'),
         UNCHANGED <<tracked, subRows>>
  PROVE  ScreenInv'
BY DEF ScreenInv

(* ... or a sub-agent's.                                                   *)
LEMMA SubagentStep ==
  ASSUME ScreenInv, stored' = stored, PendingIds' \subseteq PendingIds,
         UNCHANGED <<rows, flushIdx, tracked>>,
         NEW s \in Subs, NEW rs, subRows' = [subRows EXCEPT ![s] = rs],
         Good(stored, rs)
  PROVE  ScreenInv'
<1>1. Whole(stored, PendingIds', rows, flushIdx)
  BY WholeStill DEF ScreenInv
<1>2. DOMAIN subRows' = Subs
  BY DEF ScreenInv
<1>3. \A t \in Subs : subRows'[t] = IF t = s THEN rs ELSE subRows[t]
  BY DEF ScreenInv
<1> QED
  BY <1>1, <1>2, <1>3 DEF ScreenInv

(* The foreground's transcript, when its rows stay as they are.            *)
LEMMA Still ==
  ASSUME ScreenInv, stored' = stored, PendingIds' \subseteq PendingIds
  PROVE  /\ Whole(stored, PendingIds', rows, flushIdx)
         /\ Whole(stored, PendingIds', rows, 0)
BY WholeStill DEF ScreenInv

(* Each handler keeps the invariant: an event of nobody's, ...             *)
LEMMA DropStep ==
  ASSUME TranscriptInv, NEW e, Tr!DropEvent(e)
  PROVE  TranscriptInv'
<1>1. Tr!Handle(e, e.type) /\ UNCHANGED <<rows, flushIdx, tracked, subRows>>
  BY DEF Tr!DropEvent
<1>2. /\ Shaped' /\ AnnouncedInv' /\ PendingIds' \subseteq PendingIds /\ stored' = stored
  BY <1>1, Handled DEF TranscriptInv
<1>3. ScreenInv'
  BY <1>1, <1>2, Still, ForegroundStep DEF TranscriptInv
<1> QED
  BY <1>2, <1>3 DEF TranscriptInv

(* ... text, ...                                                           *)
LEMMA DeltaStep ==
  ASSUME TranscriptInv, NEW e, Tr!HandleTextDelta(e)
  PROVE  TranscriptInv'
<1>1. Tr!Handle(e, "delta")
  BY DEF Tr!HandleTextDelta
<1>2. /\ Shaped' /\ AnnouncedInv' /\ PendingIds' \subseteq PendingIds
      /\ e \in Events /\ e.type = "delta" /\ stored' = stored
  BY <1>1, Handled DEF TranscriptInv
<1>3. e.of \in Ids
  BY <1>2, EventFields DEF TranscriptInv
<1>4. ScreenInv
  BY DEF TranscriptInv
<1>5. CASE Tr!AppendAssistantDelta(e.of) /\ UNCHANGED Tr!subVars
  <2>1. Whole(stored, PendingIds', rows', flushIdx')
    BY <1>2, <1>3, <1>4, <1>5, Still, DeltaRows
  <2> QED
    BY <1>2, <1>4, <1>5, <2>1, ForegroundStep DEF TranscriptInv
<1>6. CASE /\ e.session \in tracked
           /\ Tr!SubRowsOf(e.session,
                IF Tr!LastIs(subRows[e.session], Tr!IsStreamingBubble)
                THEN [subRows[e.session] EXCEPT
                        ![Len(subRows[e.session])].shows = Append(@, e.of)]
                ELSE Append(subRows[e.session], Tr!Streaming(Tr!Bubble(Nobody, <<e.of>>))))
           /\ UNCHANGED <<rows, flushIdx, tracked, ended>>
  <2> DEFINE rs == subRows[e.session]
             n == Len(rs)
             row == [rs[n] EXCEPT !.shows = Append(@, e.of)]
             new == Tr!Streaming(Tr!Bubble(Nobody, <<e.of>>))
             out == IF Tr!LastIs(rs, Tr!IsStreamingBubble)
                    THEN [rs EXCEPT ![n].shows = Append(@, e.of)]
                    ELSE Append(rs, new)
  <2>1. e.session \in Subs /\ Good(stored, rs)
    BY <1>4, <1>6 DEF ScreenInv
  <2>2. Whole(stored, {}, rs, 0)
    BY <2>1, GoodIsWhole
  <2>3. subRows' = [subRows EXCEPT ![e.session] = out]
    BY <1>6 DEF Tr!SubRowsOf
  <2> HIDE DEF rs
  <2>4. ASSUME Tr!LastIs(rs, Tr!IsStreamingBubble) PROVE Good(stored, out)
    <3>1. n \in DOMAIN rs /\ rs[n] \in Rows
      BY <2>2, <2>4, RowsAre DEF Tr!LastIs
    <3>2. Append(rs[n].shows, e.of) \in Seq(Ids)
      BY <1>3, <3>1, AppendOne, RowFields
    <3>3. row \in Rows /\ row.id = rs[n].id /\ row.kind = rs[n].kind
      BY <3>1, <3>2 DEF Rows
    <3>4. out = [rs EXCEPT ![n] = row]
      BY <2>4
    <3> HIDE DEF row, n, out
    <3>5. Fits(stored, rs, n, row)
      BY <2>2, <3>1, <3>3, FitsInPlace DEF Whole
    <3> QED
      <4>1. Whole(stored, {}, [rs EXCEPT ![n] = row], 0)
        BY <2>2, <3>1, <3>5, RowChanged
      <4> QED
        BY <3>4, <4>1 DEF Whole
  <2>5. ASSUME ~Tr!LastIs(rs, Tr!IsStreamingBubble) PROVE Good(stored, out)
    <3>1. <<e.of>> \in Seq(Ids)
      BY <1>3
    <3>2. Tr!Bubble(Nobody, <<e.of>>) \in Rows /\ Tr!Bubble(Nobody, <<e.of>>).id = Nobody
      BY <3>1, RowTypes DEF Tr!Bubble, Tr!Row
    <3>3. new \in Rows /\ ~Named(new)
      BY <3>2, RowTypes DEF Tr!Streaming, Named, Rows
    <3>4. out = Append(rs, new)
      BY <2>5
    <3> HIDE DEF new, out
    <3> QED
      <4>1. Whole(stored, {}, Append(rs, new), 0)
        BY <2>2, <3>3, PlainAppended
      <4> QED
        BY <3>4, <4>1 DEF Whole
  <2> HIDE DEF out
  <2>6. Good(stored, out)
    BY <2>4, <2>5
  <2> QED
    BY <1>2, <1>4, <1>6, <2>1, <2>3, <2>6, SubagentStep DEF TranscriptInv
<1> QED
  BY <1>5, <1>6 DEF Tr!HandleTextDelta

(* ... a message, ...                                                      *)
LEMMA AppendedStep ==
  ASSUME TranscriptInv, NEW e, Tr!HandleMessageAppended(e)
  PROVE  TranscriptInv'
<1>1. Tr!Handle(e, "appended")
  BY DEF Tr!HandleMessageAppended
<1>2. /\ Shaped' /\ AnnouncedInv' /\ PendingIds' \subseteq PendingIds
      /\ e \in Events /\ e.type = "appended" /\ stored' = stored
  BY <1>1, Handled DEF TranscriptInv
<1>3. IsStored(stored, e.of) /\ e.of \in PendingIds /\ e.of \notin PendingIds'
  BY <1>1, <1>2, Handled DEF TranscriptInv, Appended
<1>4. ScreenInv /\ stored \in Stores
  BY DEF TranscriptInv, Shaped
<1>5. CASE /\ IF Tr!Message(e.of).role = "user"
              THEN Tr!ShowUserMessage(e.of)
              ELSE Tr!FlushAssistantStream(e.of) /\ UNCHANGED optimistic
           /\ UNCHANGED Tr!subVars
  <2>1. CASE Tr!Message(e.of).role = "user"
    <3>1. Whole(stored, PendingIds', rows, flushIdx)
      BY <1>2, <1>4, Still
    <3>2. Whole(stored, PendingIds', rows', flushIdx')
      BY <1>3, <1>5, <2>1, <3>1, UserRows
    <3> QED
      BY <1>2, <1>4, <1>5, <3>2, ForegroundStep DEF TranscriptInv
  <2>2. CASE Tr!Message(e.of).role # "user"
    <3>1. Whole(stored, PendingIds, rows, flushIdx)
      BY <1>4 DEF ScreenInv
    <3>2. Whole(stored, PendingIds', rows', flushIdx')
      BY <1>2, <1>3, <1>4, <1>5, <2>2, <3>1, FlushRows
    <3> QED
      BY <1>2, <1>4, <1>5, <3>2, ForegroundStep DEF TranscriptInv
  <2> QED
    BY <2>1, <2>2
<1>6. CASE /\ e.session \in tracked
           /\ LET rs == subRows[e.session]
                  there == \E i \in DOMAIN rs : rs[i].id = e.of /\ Tr!IsAssistant(rs[i])
              IN IF Tr!Message(e.of).role = "assistant" /\ ~there
                    /\ Tr!LastIs(rs, Tr!IsAssistant)
                 THEN Tr!SubRowsOf(e.session,
                        [rs EXCEPT ![Len(rs)].id = e.of, ![Len(rs)].streaming = FALSE])
                 ELSE UNCHANGED subRows
           /\ UNCHANGED <<rows, flushIdx, optimistic, tracked, ended>>
  <2> DEFINE rs == subRows[e.session]
             n == Len(rs)
             row == [rs[n] EXCEPT !.id = e.of, !.streaming = FALSE]
             there == \E i \in DOMAIN rs : rs[i].id = e.of /\ Tr!IsAssistant(rs[i])
  <2>1. e.session \in Subs /\ Good(stored, rs)
    BY <1>4, <1>6 DEF ScreenInv
  <2>2. Whole(stored, {}, rs, 0)
    BY <2>1, GoodIsWhole
  <2>3. CASE UNCHANGED subRows
    BY <1>2, <1>4, <1>6, <2>3, Still, ForegroundStep DEF TranscriptInv
  <2>4. CASE /\ Tr!Message(e.of).role = "assistant" /\ ~there /\ Tr!LastIs(rs, Tr!IsAssistant)
             /\ subRows' = [subRows EXCEPT ![e.session] =
                   [rs EXCEPT ![n].id = e.of, ![n].streaming = FALSE]]
    <3> HIDE DEF rs
    <3>1. n \in DOMAIN rs /\ rs[n] \in Rows /\ rs[n].kind = "assistant"
      BY SameLibrary, <2>2, <2>4, RowsAre DEF Tr!LastIs, Tr!IsAssistant
    <3>2. e.of \in Ids
      BY <1>3 DEF IsStored
    <3>3. /\ row \in Rows /\ row.id = e.of /\ row.kind = "assistant"
          /\ row.streaming = FALSE
      BY <3>1, <3>2 DEF Rows
    <3>4. [rs EXCEPT ![n].id = e.of, ![n].streaming = FALSE] = [rs EXCEPT ![n] = row]
      BY <2>2, <3>1, RowsAre
    <3> HIDE DEF row, n
    <3>5. About(stored, row)
      BY <1>3, <2>4, <3>3 DEF About, Tr!Message
    <3>6. ASSUME Named(row), NEW j \in DOMAIN rs, rs[j].id = row.id PROVE FALSE
      <4>1. About(stored, rs[j])
        BY <2>2, <3>6 DEF Whole, Good, OfStored, Named
      <4>2. rs[j].kind = "assistant"
        BY <2>4, <3>3, <3>6, <4>1 DEF About, Tr!Message
      <4> QED
        BY <2>4, <3>3, <3>6, <4>2 DEF Tr!IsAssistant
    <3>7. Fits(stored, rs, n, row)
      BY <3>3, <3>5, <3>6 DEF Fits
    <3>8. Whole(stored, {}, [rs EXCEPT ![n] = row], 0)
      BY <2>2, <3>1, <3>7, RowChanged
    <3>9. Good(stored, [rs EXCEPT ![n] = row])
      BY <3>8 DEF Whole
    <3>10. subRows' = [subRows EXCEPT ![e.session] = [rs EXCEPT ![n] = row]]
      BY <2>4, <3>4
    <3> QED
      BY <1>2, <1>4, <1>6, <2>1, <3>9, <3>10, SubagentStep DEF TranscriptInv
  <2> QED
    BY <1>6, <2>3, <2>4 DEF Tr!SubRowsOf
<1> QED
  BY <1>5, <1>6 DEF Tr!HandleMessageAppended

-----------------------------------------------------------------------------
(* ... a call, ...                                                         *)
LEMMA RequestedStep ==
  ASSUME TranscriptInv, NEW e, Tr!HandleToolCallRequested(e)
  PROVE  TranscriptInv'
<1>1. Tr!Handle(e, "requested")
  BY DEF Tr!HandleToolCallRequested
<1>2. /\ Shaped' /\ AnnouncedInv' /\ PendingIds' \subseteq PendingIds
      /\ e \in Events /\ e.type = "requested" /\ stored' = stored
  BY <1>1, Handled DEF TranscriptInv
<1>3. e.of \in Calls
  BY <1>2, EventFields DEF TranscriptInv
<1>4. ScreenInv
  BY DEF TranscriptInv
<1> DEFINE row == Tr!Streaming(Tr!ToolRow(e.of))
<1>5. row \in Rows /\ ~Named(row)
  BY <1>3, PlainRows
<1>6. \/ /\ rows' = Append(Tr!WithoutPlaceholder, row) /\ flushIdx' = 0
         /\ UNCHANGED Tr!subVars
      \/ /\ e.session \in tracked
         /\ subRows' = [subRows EXCEPT ![e.session] = Append(subRows[e.session], row)]
         /\ UNCHANGED <<rows, flushIdx, tracked>>
  BY DEF Tr!HandleToolCallRequested, Tr!SubRowsOf
<1> HIDE DEF row
<1>7. CASE /\ rows' = Append(Tr!WithoutPlaceholder, row) /\ flushIdx' = 0
           /\ UNCHANGED Tr!subVars
  <2>1. Whole(stored, PendingIds', Tr!WithoutPlaceholder, 0)
    BY <1>2, <1>4, Still, WithoutPlaceholderWhole
  <2>2. Whole(stored, PendingIds', Append(Tr!WithoutPlaceholder, row), 0)
    BY <1>5, <2>1, PlainAppended
  <2> QED
    BY <1>2, <1>4, <1>7, <2>2, ForegroundStep DEF TranscriptInv
<1>8. CASE /\ e.session \in tracked
           /\ subRows' = [subRows EXCEPT ![e.session] = Append(subRows[e.session], row)]
           /\ UNCHANGED <<rows, flushIdx, tracked>>
  <2>1. e.session \in Subs /\ Good(stored, subRows[e.session])
    BY <1>4, <1>8 DEF ScreenInv
  <2>2. Whole(stored, {}, Append(subRows[e.session], row), 0)
    BY <1>5, <2>1, GoodIsWhole, PlainAppended
  <2>3. Good(stored, Append(subRows[e.session], row))
    BY <2>2 DEF Whole
  <2> QED
    BY <1>2, <1>4, <1>8, <2>1, <2>3, SubagentStep DEF TranscriptInv
<1> QED
  BY <1>6, <1>7, <1>8

(* ... its result, ...                                                     *)
LEMMA DoneStep ==
  ASSUME TranscriptInv, NEW e, Tr!HandleToolCallCompleted(e)
  PROVE  TranscriptInv'
<1>1. Tr!Handle(e, "done")
  BY DEF Tr!HandleToolCallCompleted
<1>2. /\ Shaped' /\ AnnouncedInv' /\ PendingIds' \subseteq PendingIds
      /\ e \in Events /\ e.type = "done" /\ stored' = stored
  BY <1>1, Handled DEF TranscriptInv
<1>3. e.of \in Calls
  BY <1>2, EventFields DEF TranscriptInv
<1>4. ScreenInv
  BY DEF TranscriptInv
<1>5. flushIdx' = flushIdx
  BY DEF Tr!HandleToolCallCompleted
<1> DEFINE own == [Tr!ToolRow(e.of) EXCEPT !.call = Nobody]
<1>6. /\ own \in Rows /\ ~Named(own)
      /\ Tr!ToolRow(e.of) \in Rows /\ ~Named(Tr!ToolRow(e.of))
  BY <1>3, PlainRows
<1>7. \/ rows' = Tr!WithResult(rows, e.of, own) /\ UNCHANGED Tr!subVars
      \/ /\ e.session \in tracked
         /\ subRows' = [subRows EXCEPT ![e.session] =
                          Tr!WithResult(subRows[e.session], e.of, Tr!ToolRow(e.of))]
         /\ UNCHANGED <<rows, tracked>>
  BY DEF Tr!HandleToolCallCompleted, Tr!SubRowsOf
<1> HIDE DEF own
<1>8. CASE rows' = Tr!WithResult(rows, e.of, own) /\ UNCHANGED Tr!subVars
  <2>1. Whole(stored, PendingIds', rows, flushIdx)
    BY <1>2, <1>4, Still
  <2>2. Whole(stored, PendingIds', Tr!WithResult(rows, e.of, own), flushIdx)
    BY <1>3, <1>6, <2>1, ResultWhole
  <2> QED
    BY <1>2, <1>4, <1>5, <1>8, <2>2, ForegroundStep DEF TranscriptInv
<1>9. CASE /\ e.session \in tracked
           /\ subRows' = [subRows EXCEPT ![e.session] =
                            Tr!WithResult(subRows[e.session], e.of, Tr!ToolRow(e.of))]
           /\ UNCHANGED <<rows, tracked>>
  <2>1. e.session \in Subs /\ Good(stored, subRows[e.session])
    BY <1>4, <1>9 DEF ScreenInv
  <2>2. Whole(stored, {}, subRows[e.session], 0)
    BY <2>1, GoodIsWhole
  <2>3. Whole(stored, {}, Tr!WithResult(subRows[e.session], e.of, Tr!ToolRow(e.of)), 0)
    BY <1>3, <1>6, <2>2, ResultWhole
  <2>4. Good(stored, Tr!WithResult(subRows[e.session], e.of, Tr!ToolRow(e.of)))
    BY <2>3 DEF Whole
  <2> QED
    BY <1>2, <1>4, <1>5, <1>9, <2>1, <2>4, SubagentStep DEF TranscriptInv
<1> QED
  BY <1>7, <1>8, <1>9

(* ... a sub-agent's start ...                                             *)
LEMMA StartedStep ==
  ASSUME Transcribed, TranscriptInv, NEW e, Tr!HandleSubagentStarted(e)
  PROVE  TranscriptInv'
<1>1. Tr!Handle(e, "started")
  BY DEF Tr!HandleSubagentStarted
<1>2. /\ Shaped' /\ AnnouncedInv' /\ PendingIds' \subseteq PendingIds
      /\ e \in Events /\ e.type = "started" /\ stored' = stored
  BY <1>1, Handled DEF TranscriptInv
<1> DEFINE s == SubOf[e.of]
<1>3. e.of \in Starting /\ s \in Subs
  BY <1>2, EventFields DEF TranscriptInv, Starting, Transcribed
<1>4. ScreenInv
  BY DEF TranscriptInv
<1>5. /\ tracked' = tracked \cup {s} /\ flushIdx' = flushIdx
      /\ subRows' = [subRows EXCEPT ![s] = <<Tr!UserRow(Nobody)>>]
      /\ rows' = IF Tr!Anchor(e.of) = 0 THEN rows
                 ELSE [rows EXCEPT ![Tr!Anchor(e.of)].sub = s]
  BY DEF Tr!HandleSubagentStarted, Tr!SubRowsOf
<1> HIDE DEF s
<1>6. Whole(stored, PendingIds', rows, flushIdx)
  BY <1>2, <1>4, Still
<1>7. Whole(stored, PendingIds', rows', flushIdx')
  <2>1. CASE Tr!Anchor(e.of) = 0
    BY <1>5, <1>6, <2>1
  <2>2. CASE Tr!Anchor(e.of) # 0
    <3>1. Tr!Anchor(e.of) \in DOMAIN rows
      BY <1>6, <2>2, AnchorIs, RowsAre
    <3>2. Whole(stored, PendingIds', [rows EXCEPT ![Tr!Anchor(e.of)].sub = s], flushIdx)
      BY <1>3, <1>6, <3>1, SubWhole
    <3> QED
      BY <1>5, <2>2, <3>2
  <2> QED
    BY <2>1, <2>2
<1>8. Good(stored, <<Tr!UserRow(Nobody)>>)
  <2>1. <<Tr!UserRow(Nobody)>> \in Seq(Rows) /\ ~Named(Tr!UserRow(Nobody))
    BY PlainRows
  <2> QED
    BY <2>1 DEF Good, OneEach, OfStored
<1>9. \A t \in Subs : Good(stored, subRows'[t])
  BY <1>4, <1>5, <1>8 DEF ScreenInv
<1>10. ScreenInv'
  BY <1>2, <1>3, <1>4, <1>5, <1>7, <1>9 DEF ScreenInv
<1> QED
  BY <1>2, <1>10 DEF TranscriptInv

(* ... and end, ...                                                        *)
LEMMA CompletedStep ==
  ASSUME TranscriptInv, NEW e, Tr!HandleSubagentCompleted(e)
  PROVE  TranscriptInv'
<1>1. Tr!Handle(e, "completed")
  BY DEF Tr!HandleSubagentCompleted
<1>2. /\ Shaped' /\ AnnouncedInv' /\ PendingIds' \subseteq PendingIds /\ stored' = stored
  BY <1>1, Handled DEF TranscriptInv
<1>4. ScreenInv
  BY DEF TranscriptInv
<1> DEFINE row == [Tr!Streaming(Tr!Bubble(Nobody, <<>>)) EXCEPT !.placeholder = TRUE]
<1>5. row \in Rows /\ ~Named(row)
  BY PlainRows
<1>6. /\ UNCHANGED <<tracked, subRows>>
      /\ \/ UNCHANGED <<rows, flushIdx>>
         \/ rows' = Append(rows, row) /\ flushIdx' = 0
  BY DEF Tr!HandleSubagentCompleted
<1> HIDE DEF row
<1>7. Whole(stored, PendingIds', rows, flushIdx) /\ Whole(stored, PendingIds', rows, 0)
  BY <1>2, <1>4, Still
<1>8. Whole(stored, PendingIds', Append(rows, row), 0)
  BY <1>5, <1>7, PlainAppended
<1> QED
  BY <1>2, <1>4, <1>6, <1>7, <1>8, ForegroundStep DEF TranscriptInv

(* ... and the end of a turn.                                              *)
LEMMA TurnCompletedStep ==
  ASSUME TranscriptInv, NEW e, Tr!HandleTurnCompleted(e)
  PROVE  TranscriptInv'
<1>1. Tr!Handle(e, "turnCompleted")
  BY DEF Tr!HandleTurnCompleted
<1>2. /\ Shaped' /\ AnnouncedInv' /\ PendingIds' \subseteq PendingIds /\ stored' = stored
  BY <1>1, Handled DEF TranscriptInv
<1>3. ScreenInv
  BY DEF TranscriptInv
<1>4. /\ UNCHANGED Tr!subVars
      /\ \/ UNCHANGED <<rows, flushIdx>>
         \/ rows' = Tr!WithoutPlaceholder /\ flushIdx' = 0
  BY DEF Tr!HandleTurnCompleted
<1>5. Whole(stored, PendingIds', rows, flushIdx)
  BY <1>2, <1>3, Still
<1>6. Whole(stored, PendingIds', Tr!WithoutPlaceholder, 0)
  BY <1>5, WithoutPlaceholderWhole
<1> QED
  BY <1>2, <1>3, <1>4, <1>5, <1>6, ForegroundStep DEF TranscriptInv

-----------------------------------------------------------------------------
(* Steps that handle no event.                                             *)
LEMMA NothingHandled ==
  ASSUME TranscriptInv, UNCHANGED <<stored, text, at, evs>>,
         phase' \in [Tr!Sessions -> Tr!Phases],
         \A s \in Tr!Sessions : Unannounced(s)' => Unannounced(s)
  PROVE  Shaped' /\ AnnouncedInv' /\ PendingIds' \subseteq PendingIds
<1>1. Shaped'
  BY DEF TranscriptInv, Shaped
<1>2. \A i \in DOMAIN evs : evs[i].session \in Tr!Sessions
  BY EventFields DEF TranscriptInv, Shaped
<1> DEFINE h == [i \in DOMAIN evs |-> i]
<1>3. \A i \in DOMAIN evs' : h[i] = i /\ h[i] \in DOMAIN evs /\ evs[h[i]] = evs'[i]
  OBVIOUS
<1> HIDE DEF h
<1>4. AnnouncedInv' /\ PendingIds' \subseteq PendingIds
  BY <1>2, <1>3, OthersPublished DEF TranscriptInv
<1> QED
  BY <1>1, <1>4

(* The error of a Send that failed.                                        *)
LEMMA SendFailedStep ==
  ASSUME Transcribed, TranscriptInv, Tr!HandleSendFailed
  PROVE  TranscriptInv'
<1>1. /\ phase' \in [Tr!Sessions -> Tr!Phases] /\ phase'[Root] = "idle"
      /\ \A t \in Tr!Sessions \ {Root} : phase'[t] = phase[t]
  BY PhaseMoved DEF Tr!HandleSendFailed, TranscriptInv, Tr!Sessions, Tr!Phases
<1>2. \A s \in Tr!Sessions : Unannounced(s)' => Unannounced(s)
  BY <1>1 DEF Unannounced
<1>3. UNCHANGED <<stored, text, at, evs, flushIdx, tracked, subRows>>
  BY DEF Tr!HandleSendFailed
<1>4. Shaped' /\ AnnouncedInv' /\ PendingIds' \subseteq PendingIds
  BY <1>1, <1>2, <1>3, NothingHandled
<1>5. ScreenInv
  BY DEF TranscriptInv
<1>6. Whole(stored, PendingIds', rows, flushIdx)
  BY <1>3, <1>4, <1>5, Still
<1> DEFINE row == [Tr!Row EXCEPT !.kind = "system"]
<1>7. row \in Rows /\ ~Named(row)
  BY PlainRows
<1>8. rows' = rows \/ rows' = Append(rows, row)
  BY DEF Tr!HandleSendFailed
<1> HIDE DEF row
<1>9. Whole(stored, PendingIds', Append(rows, row), flushIdx)
  BY <1>6, <1>7, PlainAppended
<1> QED
  BY <1>3, <1>4, <1>5, <1>6, <1>8, <1>9, ForegroundStep DEF TranscriptInv

(* A prompt, with a row before it is stored or without.                    *)
LEMMA PromptStep ==
  ASSUME Transcribed, TranscriptInv, Tr!Prompt
  PROVE  TranscriptInv'
<1>1. /\ phase' \in [Tr!Sessions -> Tr!Phases] /\ phase'[Root] = "prompted"
      /\ \A t \in Tr!Sessions \ {Root} : phase'[t] = phase[t]
  BY PhaseMoved DEF Tr!Prompt, TranscriptInv, Tr!Sessions, Tr!Phases
<1>2. \A s \in Tr!Sessions : Unannounced(s)' => Unannounced(s)
  BY <1>1 DEF Unannounced
<1>3. UNCHANGED <<stored, text, at, evs, tracked, subRows>>
  BY DEF Tr!Prompt
<1>4. Shaped' /\ AnnouncedInv' /\ PendingIds' \subseteq PendingIds
  BY <1>1, <1>2, <1>3, NothingHandled
<1>5. ScreenInv
  BY DEF TranscriptInv
<1>6. Whole(stored, PendingIds', rows, flushIdx)
  BY <1>3, <1>4, <1>5, Still
<1>7. Tr!UserRow(Nobody) \in Rows /\ ~Named(Tr!UserRow(Nobody))
  BY PlainRows
<1>8. \/ rows' = rows /\ flushIdx' = flushIdx
      \/ rows' = Append(rows, Tr!UserRow(Nobody)) /\ flushIdx' = 0
  BY DEF Tr!Prompt
<1>9. Whole(stored, PendingIds', Append(rows, Tr!UserRow(Nobody)), 0)
  BY <1>6, <1>7, PlainAppended
<1> QED
  BY <1>3, <1>4, <1>5, <1>6, <1>8, <1>9, ForegroundStep DEF TranscriptInv

(* What is built from the store is whole, whatever is pending.             *)
LEMMA HydratedWhole ==
  ASSUME Transcribed, stored \in Stores, NEW s \in Tr!Sessions, NEW P
  PROVE  Whole(stored, P, Tr!Hydrated(s), 0)
<1>1. Good(stored, Tr!Hydrated(s)) /\ \A k \in DOMAIN Tr!Hydrated(s) : ~Tr!Hydrated(s)[k].streaming
  BY HydratedRows DEF Transcribed
<1>2. /\ Tr!Hydrated(s) \in Seq(Rows) /\ Len(Tr!Hydrated(s)) \in Nat
      /\ DOMAIN Tr!Hydrated(s) = 1..Len(Tr!Hydrated(s))
  BY <1>1 DEF Good
<1> QED
  BY <1>1, <1>2 DEF Whole, Settled, Tr!IsStreamingBubble

(* The session is opened again: the events still on their way are of       *)
(* messages that have rows already.                                        *)
LEMMA OpenStep ==
  ASSUME Transcribed, TranscriptInv, Tr!OpenSession
  PROVE  TranscriptInv'
<1>1. UNCHANGED <<stored, phase, text, at, evs>>
  BY DEF Tr!OpenSession
<1>2. \A s \in Tr!Sessions : Unannounced(s)' => Unannounced(s)
  BY <1>1 DEF Unannounced
<1>3. Shaped' /\ AnnouncedInv' /\ PendingIds' \subseteq PendingIds
  BY <1>1, <1>2, NothingHandled DEF TranscriptInv, Shaped
<1>4. /\ rows' = Tr!Hydrated(Root) /\ flushIdx' = 0
      /\ tracked' = {SubOf[c] : c \in Tr!Created}
      /\ subRows' = [s \in Subs |-> IF s \in tracked' THEN Tr!Hydrated(s) ELSE <<>>]
  BY DEF Tr!OpenSession
<1>5. stored \in Stores /\ Root \in Tr!Sessions /\ Subs \subseteq Tr!Sessions
  BY DEF TranscriptInv, Shaped, Tr!Sessions
<1>6. Whole(stored, PendingIds', Tr!Hydrated(Root), 0)
  BY <1>5, HydratedWhole
<1>7. tracked' \subseteq Subs
  BY <1>4 DEF Tr!Created, Transcribed
<1>8. ASSUME NEW s \in Subs PROVE Good(stored, subRows'[s])
  <2>1. Good(stored, Tr!Hydrated(s))
    BY <1>5, HydratedWhole DEF Whole
  <2>2. Good(stored, <<>>)
    BY DEF Good, OneEach, OfStored
  <2> QED
    BY <1>4, <2>1, <2>2
<1>9. DOMAIN subRows' = Subs
  BY <1>4
<1>10. ScreenInv'
  BY <1>1, <1>4, <1>6, <1>7, <1>8, <1>9 DEF ScreenInv
<1> QED
  BY <1>3, <1>10 DEF TranscriptInv

-----------------------------------------------------------------------------
(* A step of the runtime changes no row.                                   *)
LEMMA RuntimeStep ==
  ASSUME Transcribed, TranscriptInv, Tr!RunStep, UNCHANGED Tr!uiVars
  PROVE  TranscriptInv'
<1>1. Shaped' /\ Progress
  BY RunStepProgress DEF TranscriptInv
<1>2. Whole(stored', PendingIds', rows, flushIdx)
  BY <1>1, WholeGrows DEF TranscriptInv, ScreenInv, Progress
<1>3. \A s \in Subs : Good(stored', subRows[s])
  BY <1>1, GoodGrows DEF TranscriptInv, ScreenInv, Progress
<1>4. ScreenInv'
  BY <1>2, <1>3 DEF TranscriptInv, ScreenInv
<1> QED
  BY <1>1, <1>4 DEF TranscriptInv, Progress

(* The invariant holds of a session just opened, ...                       *)
LEMMA TranscriptInit ==
  ASSUME Transcribed, Tr!Init
  PROVE  TranscriptInv
<1>1. Tr!UserMessage \in Messages
  BY DEF Tr!UserMessage, Messages
<1>2. stored \in Stores
  <2>1. <<Tr!UserMessage>> \in Seq(Messages) /\ <<>> \in Seq(Messages)
    BY <1>1
  <2> QED
    BY <2>1 DEF Tr!Init, Tr!InitRuns, Stores
<1>3. Shaped
  BY <1>2 DEF Tr!Init, Tr!InitRuns, Shaped, Tr!Phases, Tr!Stages
<1>4. AnnouncedInv /\ PendingIds = {}
  BY DEF Tr!Init, Tr!InitRuns, AnnouncedInv, PendingIds, Unannounced
<1>5. stored[Root] = <<Tr!UserMessage>> /\ Root \in Tr!Sessions
  BY DEF Tr!Init, Tr!InitRuns, Tr!Sessions
<1> DEFINE id == <<Root, 1>>
<1>6. id \in Ids /\ IsStored(stored, id)
  BY <1>5 DEF Ids, IsStored
<1>7. rows = <<Tr!UserRow(id)>>
  <2>1. DOMAIN stored[Root] = 1..1
    BY <1>5
  <2>2. rows = [i \in 1..1 |-> Tr!UserRow(<<Root, i>>)]
    BY <2>1 DEF Tr!Init
  <2> QED
    BY <2>2
<1> DEFINE row == Tr!UserRow(id)
<1>8. row \in Rows /\ row.id = id /\ row.kind = "user" /\ row.streaming = FALSE
  BY <1>6, RowTypes DEF Tr!UserRow, Tr!Row
<1>9. About(stored, row)
  BY <1>5, <1>6, <1>8 DEF About, Tr!UserMessage
<1> HIDE DEF row
<1>10. Good(stored, <<row>>)
  BY <1>8, <1>9 DEF Good, OneEach, OfStored
<1>11. Whole(stored, PendingIds, rows, flushIdx)
  <2>1. rows = <<row>> /\ flushIdx = 0
    BY <1>7 DEF Tr!Init, row
  <2> QED
    BY <1>4, <1>10, <2>1, GoodIsWhole
<1>12. ASSUME NEW s \in Subs PROVE Good(stored, subRows[s])
  BY DEF Tr!Init, Good, OneEach, OfStored
<1>13. tracked \subseteq Subs /\ DOMAIN subRows = Subs
  BY DEF Tr!Init
<1> QED
  BY <1>3, <1>4, <1>11, <1>12, <1>13 DEF TranscriptInv, ScreenInv

(* ... every step keeps it, ...                                            *)
LEMMA TranscriptNext ==
  ASSUME Transcribed, TranscriptInv, [Tr!Next]_(Tr!vars)
  PROVE  TranscriptInv'
<1>1. CASE Tr!RunStep /\ UNCHANGED Tr!uiVars
  BY <1>1, RuntimeStep
<1>2. CASE \E e \in ToSet(evs) : Tr!HandleEvent(e)
  BY <1>2, DropStep, DeltaStep, AppendedStep, RequestedStep, DoneStep, StartedStep,
     CompletedStep, TurnCompletedStep DEF Tr!HandleEvent
<1>3. CASE Tr!HandleSendFailed
  BY <1>3, SendFailedStep
<1>4. CASE Tr!Prompt
  BY <1>4, PromptStep
<1>5. CASE Tr!OpenSession
  BY <1>5, OpenStep
<1>6. CASE UNCHANGED Tr!vars
  BY <1>6 DEF TranscriptInv, Shaped, AnnouncedInv, ScreenInv, PendingIds, Unannounced
<1> QED
  BY SameLibrary, <1>1, <1>2, <1>3, <1>4, <1>5, <1>6 DEF Tr!Next

(* ... rows named once are as many as their names, ...                     *)
LEMMA OneRowEach ==
  ASSUME NEW rs \in Seq(Rows), OneEach(rs)
  PROVE  LET named == {i \in DOMAIN rs : rs[i].id # Nobody}
         IN  Cardinality({rs[i].id : i \in named}) = Cardinality(named)
<1> DEFINE named == {i \in DOMAIN rs : rs[i].id # Nobody}
           ids == {rs[i].id : i \in named}
           f == [i \in named |-> rs[i].id]
<1>1. DOMAIN rs = 1..Len(rs) /\ Len(rs) \in Nat
  OBVIOUS
<1>2. IsFiniteSet(named)
  <2>1. IsFiniteSet(1..Len(rs))
    BY <1>1, FS_Interval
  <2>2. named \subseteq 1..Len(rs)
    BY <1>1
  <2> HIDE DEF named
  <2> QED
    BY <2>1, <2>2, FS_Subset
<1>3. f \in Bijection(named, ids)
  <2>1. f \in [named -> ids]
    OBVIOUS
  <2>2. \A i, j \in named : f[i] = f[j] => i = j
    BY DEF OneEach, Named
  <2>3. \A x \in ids : \E i \in named : f[i] = x
    OBVIOUS
  <2> HIDE DEF f, named, ids
  <2> QED
    BY <2>1, <2>2, <2>3 DEF Bijection, Injection, Surjection, IsInjective
<1> HIDE DEF f, named, ids
<1>4. Cardinality(named) = Cardinality(ids)
  BY <1>2, <1>3, FS_Bijection DEF ExistsBijection
<1> QED
  BY <1>4 DEF named, ids

(* ... and so it says what OneRowPerMessage says.                          *)
LEMMA OneRow ==
  ASSUME TranscriptInv, Transcribed
  PROVE  Tr!OneRowPerMessage
<1> SUFFICES ASSUME NEW s \in Tr!Sessions
             PROVE  LET rs == IF s = Root THEN rows ELSE subRows[s]
                        named == {i \in DOMAIN rs : rs[i].id # Nobody}
                    IN  Cardinality({rs[i].id : i \in named}) = Cardinality(named)
  BY SameLibrary DEF Tr!OneRowPerMessage
<1> DEFINE rs == IF s = Root THEN rows ELSE subRows[s]
<1>1. rs \in Seq(Rows) /\ OneEach(rs)
  BY DEF TranscriptInv, ScreenInv, Whole, Good, Tr!Sessions
<1> HIDE DEF rs
<1>2. LET named == {i \in DOMAIN rs : rs[i].id # Nobody}
      IN  Cardinality({rs[i].id : i \in named}) = Cardinality(named)
  BY <1>1, OneRowEach
<1> QED
  BY <1>2 DEF rs

(* No message is in two rows of a transcript (app_bus_events.go,           *)
(* app_messages.go, app_hydration.go), however many sessions and calls     *)
(* there are, in whatever order the forwarders' events come, also when the *)
(* session is opened again while events of its messages are on their way.  *)
THEOREM EveryMessageHasOneRow ==
  ASSUME Transcribed
  PROVE  Tr!Spec => []Tr!OneRowPerMessage
<1>1. Tr!Init => TranscriptInv
  BY TranscriptInit
<1>2. TranscriptInv /\ [Tr!Next]_(Tr!vars) => TranscriptInv'
  BY TranscriptNext
<1>3. TranscriptInv => Tr!OneRowPerMessage
  BY OneRow
<1> QED
  BY <1>1, <1>2, <1>3, PTL DEF Tr!Spec
=============================================================================
