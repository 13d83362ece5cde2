---------------------------- MODULE ExtensionProofs ---------------------------
(***************************************************************************)
(* Proofs about what extends the program from outside: McpClient over each *)
(* of its three transports, for any number of calls, any split of them     *)
(* between the streams, and any capacity of inbound; and, as an instance   *)
(* in the last part, the plugin host.                                      *)
(*                                                                         *)
(* McpInv is inductive.  It says which party owns a reply channel          *)
(* (OwnerInv), that a call under way has an owner or an answer (WakerInv), *)
(* that whatever is queued or held for the client was answered by the      *)
(* server (AnswersInv), what is over once the read loop is (EndInv), and   *)
(* what has not begun before Initialize has (StartInv).                    *)
(*                                                                         *)
(* PluginInv is the plugin host's.  Its core (RegInv) relates the four     *)
(* host registries to what each plugin has had accepted; the rest says     *)
(* that plugins come and go only while no handler runs.                    *)
(***************************************************************************)
EXTENDS McpClient, SeqLemmas, FiniteSetTheorems, TLAPS

(* What the dispatcher holds between the map and the channel.              *)
Held == IF reader = "deliver" THEN {frame} ELSE {}

(* A call that has registered and not returned.                            *)
Registered(c) == pc[c] \in {"sending", "posting", "waiting", "expired"}

OwnerInv ==
  /\ pending \cap (failing \cup closing \cup Held) = {}
  /\ failing \cap (closing \cup Held) = {}
  /\ closing \cap Held = {}
  /\ \A c \in pending \cup failing \cup closing \cup Held : reply[c] = "open"
  /\ reader # "failing" => failing = {}
  /\ closePc = "idle" => closing = {}
  /\ \A c \in Calls : pc[c] \in {"idle", "begun"} => reply[c] = "none"
  /\ \A c \in pending : Registered(c)

(* The stream, or the process, the read loop reads from is over.           *)
Ended == IF Stdio THEN getPc = "done" ELSE tclosed

EndInv ==
  /\ closePc \notin {"idle", "swap"} => tclosed
  /\ closer # "off" => tclosed
  /\ getPc = "closing" => tclosed
  /\ inboundClosed => Ended
  /\ reader \in {"eof", "failing", "done"} => Ended

WakerInv ==
  /\ \A c \in Calls : Registered(c) =>
       /\ reply[c] # "none"
       /\ reply[c] = "open" => c \in pending \cup failing \cup closing \cup Held
  /\ \A c \in pending : reader \in {"failing", "done"} =>
       pc[c] = "sending" \/ (Stdio /\ pc[c] = "posting")

StartInv ==
  /\ pc[Hello] = "idle" => getPc = "off" /\ reader = "off"
  /\ reader = "off" => ~initialized /\ pc[Hello] \in {"idle", "failed"}
  /\ ~initialized => \A c \in Calls \ {Hello} : pc[c] \in {"idle", "failed"}

Answered(c) == server[c] = "answered"

AnswersInv ==
  /\ \A c \in ToSet(inbound) : Answered(c)
  /\ getPc = "sending" => getFrame \in Calls /\ Answered(getFrame)
  /\ \A c \in Calls : postPc[c] = "sending" => Answered(c)
  /\ reader = "deliver" => frame \in Calls /\ Answered(frame)
  /\ \A c \in Calls : reply[c] = "full" => Answered(c)
  /\ pc[Hello] = "notify" => Answered(Hello)
  /\ \A c \in Calls : pc[c] \in {"idle", "begun", "sending"} => server[c] = "none"
  /\ \A c \in Calls : Stdio /\ pc[c] = "posting" => server[c] = "none"

(* A stream is reopened while there are retries left.                      *)
RetryInv == getPc = "backoff" => reconnects < MaxReconnects

McpInv ==
  /\ TypeOK
  /\ RetryInv
  /\ OwnerInv
  /\ StartInv
  /\ AnswersInv
  /\ ~BadFrames => EndInv /\ WakerInv

-----------------------------------------------------------------------------
USE DEF flagVars, getVars, transportVars, callVars, readVars, closeVars,
        clientVars

(* Next, with its parts named.                                             *)
LEMMA NextCases ==
  ASSUME [Next]_vars
  PROVE  \/ Initialize \/ Notify \/ ReadStep \/ CloseStep
         \/ \E c \in Calls : CallStep(c)
         \/ TransportStep
         \/ UNCHANGED vars
BY DEF Next

-----------------------------------------------------------------------------
(* Types.                                                                  *)
ClientTypeOK ==
  /\ pc \in [Calls -> {"idle", "begun", "sending", "posting", "waiting",
                       "expired", "notify", "ok", "failed"}]
  /\ reply \in [Calls -> {"none", "open", "full", "closed"}]
  /\ pending \subseteq Calls /\ failing \subseteq Calls /\ closing \subseteq Calls
  /\ {closed, initialized} \subseteq BOOLEAN
  /\ reader \in {"off", "recv", "deliver", "eof", "failing", "done"}
  /\ frame \in Calls \cup {NoFrame}
  /\ closePc \in {"idle", "swap", "cancel", "reap", "wake", "done"}

(* The two halves of TypeOK.                                               *)
LEMMA TypeParts == TypeOK <=> TransportTypeOK /\ ClientTypeOK
BY DEF TypeOK, ClientTypeOK

(* A call's steps keep the types of the client.                            *)
LEMMA CallTypeStep ==
  ASSUME ClientTypeOK, NEW c \in Calls, CallStep(c)
  PROVE  ClientTypeOK'
<1> USE DEF ClientTypeOK, Goto
<1>1. CASE Begin(c) \/ Register(c) \/ Send(c)
  BY <1>1 DEF Begin, Register, Send
<1>2. CASE Arrive(c) \/ PostFails(c) \/ PostAccepted(c)
  BY <1>2 DEF Arrive, PostFails, PostAccepted
<1>3. CASE PostHasBody(c) \/ PostReturns(c) \/ Written(c)
  BY <1>3 DEF PostHasBody, PostReturns, Written
<1>4. CASE Return(c) \/ Expire(c) \/ RemovePending(c)
  BY <1>4 DEF Return, Expire, RemovePending
<1> QED
  BY <1>1, <1>2, <1>3, <1>4 DEF CallStep

(* So do the others.                                                       *)
LEMMA ClientTypeStep ==
  ASSUME TransportTypeOK, ClientTypeOK, [Next]_vars
  PROVE  ClientTypeOK'
<1>1. CASE Initialize \/ Notify
  BY <1>1, HelloAssumption DEF Initialize, Notify, Goto, ClientTypeOK
<1>2. CASE Dispatch
  <2>1. inbound \in Seq(Calls) /\ inbound # << >>
    BY <1>2 DEF Dispatch, TransportTypeOK
  <2>2. Head(inbound) \in Calls
    BY <2>1
  <2> QED
    BY <1>2, <2>2 DEF Dispatch, ClientTypeOK
<1>3. CASE Deliver \/ RecvEOF
  BY <1>3 DEF Deliver, RecvEOF, ClientTypeOK
<1>4. CASE FailAll \/ FailOne
  BY <1>4 DEF FailAll, FailOne, ClientTypeOK
<1>5. CASE CloseClient \/ CloseSwap
  BY <1>5 DEF CloseClient, CloseSwap, ClientTypeOK
<1>6. CASE CloseTransport \/ CloseWaits
  BY <1>6 DEF CloseTransport, CloseWaits, ClientTypeOK
<1>7. CASE CloseWake
  BY <1>7 DEF CloseWake, ClientTypeOK
<1>8. CASE TransportStep \/ UNCHANGED vars
  BY <1>8 DEF TransportStep, vars, ClientTypeOK
<1> QED
  BY <1>1, <1>2, <1>3, <1>4, <1>5, <1>6, <1>7, <1>8, CallTypeStep, NextCases
     DEF ReadStep, CloseStep

-----------------------------------------------------------------------------
(* A send into inbound: the queue takes one frame more, or none.           *)
LEMMA SendKeepsQueue ==
  ASSUME TransportTypeOK, NEW x \in Calls,
         \/ ~inboundClosed /\ Len(inbound) < InboundCap
              /\ inbound' = Append(inbound, x)
         \/ inbound' = inbound
  PROVE  /\ inbound' \in Seq(Calls) /\ Len(inbound') <= InboundCap
         /\ ToSet(inbound') \subseteq ToSet(inbound) \cup {x}
<1>1. inbound \in Seq(Calls) /\ Len(inbound) <= InboundCap /\ InboundCap \in Nat
  BY CapAssumption DEF TransportTypeOK
<1>2. CASE Len(inbound) < InboundCap /\ inbound' = Append(inbound, x)
  <2>1. inbound' \in Seq(Calls) /\ Len(inbound') = Len(inbound) + 1
    BY <1>1, <1>2
  <2>2. Len(inbound) \in Nat
    BY <1>1
  <2>3. ToSet(inbound') = ToSet(inbound) \cup {x}
    BY <1>1, <1>2, ToSetOfAppend
  <2> QED
    BY <1>1, <1>2, <2>1, <2>2, <2>3
<1> QED
  BY <1>1, <1>2

(* A prefix has no more frames than the queue it is taken from.            *)
LEMMA PrefixKeepsQueue ==
  ASSUME TransportTypeOK, NEW n \in 0..Len(inbound),
         inbound' = SubSeq(inbound, 1, n)
  PROVE  /\ inbound' \in Seq(Calls) /\ Len(inbound') <= InboundCap
         /\ ToSet(inbound') \subseteq ToSet(inbound)
<1>1. inbound \in Seq(Calls) /\ Len(inbound) <= InboundCap /\ InboundCap \in Nat
  BY CapAssumption DEF TransportTypeOK
<1>2. Len(inbound) \in Nat /\ DOMAIN inbound = 1..Len(inbound)
  BY <1>1
<1>3. /\ inbound' \in Seq(Calls) /\ Len(inbound') = n
      /\ \A i \in 1..n : inbound'[i] = inbound[i]
  BY <1>1, <1>2
<1>4. DOMAIN inbound' = 1..n
  BY <1>3
<1>5. ToSet(inbound') \subseteq ToSet(inbound)
  BY <1>2, <1>3, <1>4 DEF ToSet
<1> QED
  BY <1>1, <1>2, <1>3, <1>5

(* What the server knows of a request only grows: it has it once it was    *)
(* posted, and answers it once.                                            *)
LEMMA ServerStep ==
  ASSUME TransportTypeOK, AnswersInv, [Next]_vars, NEW c \in Calls
  PROVE  /\ server' \in [Calls -> {"none", "owed", "answered"}]
         /\ \/ server'[c] = server[c]
            \/ /\ server[c] = "none" /\ server'[c] = "owed"
               /\ Arrive(c) \/ Written(c)
            \/ server[c] = "owed" /\ server'[c] = "answered"
<1>t. server \in [Calls -> {"none", "owed", "answered"}]
  BY DEF TransportTypeOK
<1>1. CASE UNCHANGED server
  BY <1>t, <1>1
<1>2. ASSUME NEW d \in Calls, Answers(d)
      PROVE  /\ server' \in [Calls -> {"none", "owed", "answered"}]
             /\ \/ server'[c] = server[c]
                \/ server[c] = "owed" /\ server'[c] = "answered"
  BY <1>t, <1>2 DEF Answers
<1>3. ASSUME NEW d \in Calls, Arrive(d) \/ Written(d)
      PROVE  /\ server' \in [Calls -> {"none", "owed", "answered"}]
             /\ \/ server'[c] = server[c]
                \/ /\ server[c] = "none" /\ server'[c] = "owed"
                   /\ Arrive(c) \/ Written(c)
  <2>1. /\ pc[d] = "posting" /\ server[d] = "none"
        /\ server' = [server EXCEPT ![d] = "owed"]
    BY <1>3 DEF Arrive, Written, AnswersInv
  <2> QED
    BY <1>t, <1>3, <2>1
<1>4. CASE Initialize \/ Notify \/ UNCHANGED vars
  BY <1>1, <1>4 DEF Initialize, OpenStream, Spawn, Notify, vars
<1>5. CASE ReadStep
  BY <1>1, <1>5 DEF ReadStep, Dispatch, Deliver, RecvEOF, FailAll, FailOne
<1>6. CASE CloseStep
  BY <1>1, <1>6 DEF CloseStep, CloseClient, CloseSwap, CloseTransport,
                    CloseCancel, CloseWaits, CloseReap, CloseWake
<1>7. ASSUME NEW d \in Calls, CallStep(d)
      PROVE  UNCHANGED server \/ Arrive(d) \/ Written(d)
  BY <1>7 DEF CallStep, Begin, Register, Send, PostFails, PostAccepted,
              PostHasBody, PostReturns, Return, Expire, RemovePending
<1>8. CASE TransportStep
  <2>1. UNCHANGED server \/ \E d \in Calls : Answers(d)
    BY <1>8 DEF TransportStep, SseStep, HttpStep, StdioStep, GetSend, GetEnd,
                GiveUp, GiveUpClose, Reconnect, CloserClose, GetRead, PostRead,
                PostSend, PostEnd, NotifSend, NotifEnd, NotifRetry,
                NotifDisabled, SleepThenClose, NotifRead, BodyRead, BodySend,
                BodyEnd, Exit, Reap, ServerWrites, StreamRead, StreamSend,
                StreamEnd, StreamRetry, CloseInbound
  <2> QED
    BY <1>1, <1>2, <2>1
<1> QED
  BY <1>1, <1>2, <1>3, <1>4, <1>5, <1>6, <1>7, <1>8, NextCases

(* What comes into the queue has been answered.                            *)
LEMMA InboundStep ==
  ASSUME TransportTypeOK, AnswersInv, [Next]_vars
  PROVE  /\ inbound' \in Seq(Calls) /\ Len(inbound') <= InboundCap
         /\ \A c \in ToSet(inbound') : Answered(c)'
<1>t. /\ inbound \in Seq(Calls) /\ Len(inbound) <= InboundCap
      /\ ToSet(inbound) \subseteq Calls
  <2>1. inbound \in Seq(Calls) /\ Len(inbound) <= InboundCap
    BY DEF TransportTypeOK
  <2> QED
    BY <2>1 DEF ToSet
<1>s. \A c \in Calls : Answered(c) => Answered(c)'
  BY ServerStep DEF Answered
<1>a. \A c \in ToSet(inbound) : Answered(c)'
  BY <1>t, <1>s DEF AnswersInv
<1>1. CASE UNCHANGED inbound
  BY <1>t, <1>a, <1>1
<1>2. ASSUME NEW x \in Calls, Answered(x)',
             \/ ~inboundClosed /\ Len(inbound) < InboundCap
                  /\ inbound' = Append(inbound, x)
             \/ inbound' = inbound
      PROVE  /\ inbound' \in Seq(Calls) /\ Len(inbound') <= InboundCap
             /\ \A c \in ToSet(inbound') : Answered(c)'
  BY <1>a, <1>2, SendKeepsQueue
<1>3. CASE StreamSend
  <2>1. PICK x \in Calls : x = getFrame /\ Answered(x)'
    BY <1>3, <1>s DEF StreamSend, AnswersInv
  <2> QED
    BY <1>2, <1>3, <2>1 DEF StreamSend, SelectSend
<1>4. ASSUME NEW c \in Calls, PostSend(c) \/ BodySend(c)
      PROVE  /\ inbound' \in Seq(Calls) /\ Len(inbound') <= InboundCap
             /\ \A d \in ToSet(inbound') : Answered(d)'
  <2>1. Answered(c)'
    BY <1>4, <1>s DEF PostSend, BodySend, AnswersInv
  <2> QED
    BY <1>2, <1>4, <2>1 DEF PostSend, BodySend, SelectSend
<1>5. ASSUME NEW c \in Calls, ServerWrites(c)
      PROVE  /\ inbound' \in Seq(Calls) /\ Len(inbound') <= InboundCap
             /\ \A d \in ToSet(inbound') : Answered(d)'
  <2>1. Answered(c)'
    BY <1>5 DEF ServerWrites, Answers, Answered, TransportTypeOK
  <2>2. Len(inbound) < InboundCap /\ inbound' = Append(inbound, c)
    BY <1>5 DEF ServerWrites
  <2>3. inbound' \in Seq(Calls) /\ Len(inbound') = Len(inbound) + 1
    BY <1>t, <2>2
  <2>4. Len(inbound) \in Nat /\ InboundCap \in Nat
    BY <1>t, CapAssumption
  <2>5. ToSet(inbound') = ToSet(inbound) \cup {c}
    BY <1>t, <2>2, ToSetOfAppend
  <2> QED
    BY <1>a, <2>1, <2>2, <2>3, <2>4, <2>5
<1>6. CASE Reap
  <2>1. PICK n \in 0..Len(inbound) : inbound' = SubSeq(inbound, 1, n)
    BY <1>6 DEF Reap
  <2> QED
    BY <1>a, <2>1, PrefixKeepsQueue
<1>7. CASE Dispatch
  <2>1. inbound # << >> /\ inbound' = Tail(inbound)
    BY <1>7 DEF Dispatch
  <2>2. inbound' \in Seq(Calls) /\ Len(inbound') = Len(inbound) - 1
    BY <1>t, <2>1
  <2>3. Len(inbound) \in Nat /\ InboundCap \in Nat
    BY <1>t, CapAssumption
  <2> QED
    BY <1>t, <1>a, <2>1, <2>2, <2>3, TailAddsNothing
<1>8. CASE Initialize \/ Notify \/ UNCHANGED vars
  BY <1>1, <1>8 DEF Initialize, OpenStream, Spawn, Notify, vars
<1>9. CASE ReadStep
  BY <1>1, <1>7, <1>9 DEF ReadStep, Deliver, RecvEOF, FailAll, FailOne
<1>10. CASE CloseStep
  BY <1>1, <1>10 DEF CloseStep, CloseClient, CloseSwap, CloseTransport,
                     CloseCancel, CloseWaits, CloseReap, CloseWake
<1>11. ASSUME NEW d \in Calls, CallStep(d) PROVE UNCHANGED inbound
  BY <1>11 DEF CallStep, Begin, Register, Send, Arrive, PostFails, Written,
               PostAccepted, PostHasBody, PostReturns, Return, Expire,
               RemovePending
<1>12. CASE TransportStep
  <2>1. \/ UNCHANGED inbound \/ StreamSend \/ Reap
        \/ \E c \in Calls : PostSend(c) \/ BodySend(c) \/ ServerWrites(c)
    BY <1>12 DEF TransportStep, SseStep, HttpStep, StdioStep, GetSend, GetEnd,
                GiveUp, GiveUpClose, Reconnect, CloserClose, GetRead, PostRead,
                PostEnd, NotifSend, NotifEnd, NotifRetry,
                NotifDisabled, SleepThenClose, NotifRead, BodyRead,
                BodyEnd, Exit, StreamRead, StreamEnd, StreamRetry, CloseInbound
  <2> QED
    BY <1>1, <1>3, <1>4, <1>5, <1>6, <2>1
<1> QED
  BY <1>1, <1>8, <1>9, <1>10, <1>11, <1>12, NextCases

(* The rest of the transport's types, and what its goroutines hold.        *)
RestType ==
  /\ transport \in Transports
  /\ {tclosed, cancelled, inboundClosed, panicked} \subseteq BOOLEAN
  /\ getPc \in {"off", "reading", "sending", "giveup", "closing", "backoff",
                "done"}
  /\ getFrame \in Calls \cup {NoFrame}
  /\ reconnects \in 0 .. MaxReconnects
  /\ postPc \in [Calls -> {"off", "reading", "sending", "failed", "done"}]
  /\ closer \in {"off", "waiting", "done"}

HeldAnswers ==
  /\ getPc = "sending" => getFrame \in Calls /\ Answered(getFrame)
  /\ \A c \in Calls : postPc[c] = "sending" => Answered(c)

(* The two parts of the transport's types.                                 *)
LEMMA TransportParts ==
  TransportTypeOK <=>
    /\ RestType
    /\ inbound \in Seq(Calls) /\ Len(inbound) <= InboundCap
    /\ server \in [Calls -> {"none", "owed", "answered"}]
BY DEF TransportTypeOK, RestType

(* The goroutines of the transport hold answers only.                      *)
LEMMA RestStep ==
  ASSUME TransportTypeOK, RetryInv, AnswersInv, [Next]_vars
  PROVE  RestType' /\ RetryInv' /\ HeldAnswers' /\ transport' = transport
<1>t. RestType
  BY TransportParts
<1>h. HeldAnswers
  BY DEF AnswersInv, HeldAnswers
<1>s. \A c \in Calls : Answered(c) => Answered(c)'
  BY ServerStep DEF Answered
<1>g. \A c \in Calls : getFrame = c /\ Answered(c) => Answered(getFrame)
  OBVIOUS
<1>r. RetryInv
  OBVIOUS
<1>x. ASSUME UNCHANGED <<transport, getFrame, reconnects>>,
             {tclosed', cancelled', inboundClosed', panicked'} \subseteq BOOLEAN,
             closer' \in {"off", "waiting", "done"},
             getPc' \in {"off", "reading", "giveup", "closing", "done"}
               \/ getPc' = getPc,
             \/ postPc' = postPc
             \/ \E c \in Calls : postPc' = [postPc EXCEPT ![c] = "reading"]
             \/ \E c \in Calls : postPc' = [postPc EXCEPT ![c] = "done"]
      PROVE  RestType' /\ RetryInv' /\ HeldAnswers' /\ transport' = transport
  <2>1. RestType'
    BY <1>t, <1>x DEF RestType
  <2>2. \A c \in Calls : postPc'[c] = "sending" => Answered(c)'
    BY <1>t, <1>h, <1>s, <1>x DEF RestType, HeldAnswers
  <2>3. getPc' = "sending" => getFrame' \in Calls /\ Answered(getFrame)'
    <3>1. SUFFICES ASSUME getPc' = "sending"
                   PROVE  getFrame' \in Calls /\ server'[getFrame'] = "answered"
      BY DEF Answered
    <3>2. getPc = "sending" /\ getFrame' = getFrame
      BY <1>x, <3>1
    <3>3. getFrame \in Calls /\ server[getFrame] = "answered"
      BY <1>h, <3>2 DEF HeldAnswers, Answered
    <3> QED
      BY <1>s, <3>2, <3>3 DEF Answered
  <2> QED
    BY <1>r, <1>x, <2>1, <2>2, <2>3 DEF RetryInv, HeldAnswers
<1>0. {tclosed, cancelled, inboundClosed, panicked} \subseteq BOOLEAN
      /\ closer \in {"off", "waiting", "done"}
  BY <1>t DEF RestType
<1>1. CASE Initialize \/ Notify \/ UNCHANGED vars
  BY <1>0, <1>x, <1>1 DEF Initialize, OpenStream, Spawn, Notify,
                          MaybeStartNotifGet, vars
<1>2. CASE ReadStep
  BY <1>0, <1>x, <1>2 DEF ReadStep, Dispatch, Deliver, RecvEOF, FailAll, FailOne
<1>3. CASE CloseStep
  BY <1>0, <1>x, <1>3 DEF CloseStep, CloseClient, CloseSwap, CloseTransport,
                          CloseCancel, CloseWaits, CloseReap, CloseWake
<1>4. ASSUME NEW d \in Calls, CallStep(d)
      PROVE  RestType' /\ RetryInv' /\ HeldAnswers' /\ transport' = transport
  <2>1. CASE Begin(d) \/ Register(d) \/ Send(d) \/ Arrive(d) \/ Written(d)
             \/ Return(d) \/ Expire(d) \/ RemovePending(d)
    BY <1>0, <1>x, <2>1 DEF Begin, Register, Send, Arrive, Written, Return,
                            Expire, RemovePending
  <2>2. CASE PostFails(d) \/ PostAccepted(d) \/ PostHasBody(d) \/ PostReturns(d)
    BY <1>0, <1>x, <2>2 DEF PostFails, PostAccepted, PostHasBody, PostReturns,
                            MaybeStartNotifGet
  <2> QED
    BY <1>4, <2>1, <2>2 DEF CallStep
<1>5. CASE TransportStep
  <2>1. CASE \/ GetEnd \/ NotifEnd
    <3>1. /\ UNCHANGED <<transport, tclosed, cancelled, inboundClosed, panicked,
                         closer, getFrame, reconnects, postPc, server>>
          /\ getPc' \in {"done", "giveup", "backoff"}
          /\ getPc' = "backoff" => ~(reconnects >= MaxReconnects)
      BY <2>1 DEF GetEnd, NotifEnd, StreamEnd
    <3>2. reconnects \in Nat /\ MaxReconnects \in Nat
      BY <1>t, ReconnectsAssumption DEF RestType
    <3>3. RetryInv'
      BY <3>1, <3>2 DEF RetryInv
    <3>4. RestType'
      BY <1>t, <3>1 DEF RestType
    <3> QED
      BY <1>h, <1>s, <3>1, <3>3, <3>4 DEF HeldAnswers
  <2>2. CASE StreamRetry
    <3>1. /\ getPc' \in {"done", "reading"}
          /\ UNCHANGED <<transport, tclosed, cancelled, inboundClosed, panicked,
                         closer, getFrame, postPc, server>>
      BY <2>2 DEF StreamRetry
    <3>2. reconnects' \in 0..MaxReconnects
      <4>1. /\ reconnects \in Nat /\ reconnects < MaxReconnects
            /\ MaxReconnects \in Nat
        BY <1>t, <2>2, ReconnectsAssumption DEF StreamRetry, RestType, RetryInv
      <4> QED
        BY <4>1, <2>2 DEF StreamRetry
    <3> QED
      BY <1>t, <1>h, <1>s, <3>1, <3>2 DEF RestType, RetryInv, HeldAnswers
  <2>3. ASSUME NEW c \in Calls, StreamRead(c)
        PROVE  RestType' /\ RetryInv' /\ HeldAnswers' /\ transport' = transport
    <3>1. UNCHANGED <<transport, tclosed, cancelled, inboundClosed, panicked,
                      closer, reconnects, postPc>>
      BY <2>3 DEF StreamRead
    <3>2. \/ getPc' = "done" /\ getFrame' = getFrame
          \/ getPc' = "sending" /\ getFrame' = c
      BY <2>3 DEF StreamRead
    <3>3. server'[c] = "answered"
      BY <2>3 DEF StreamRead, Answers, TransportTypeOK
    <3>4. RestType'
      BY <1>t, <3>1, <3>2 DEF RestType
    <3>5. getPc' = "sending" => getFrame' \in Calls /\ Answered(getFrame)'
      BY <3>2, <3>3 DEF Answered
    <3>6. \A d \in Calls : postPc'[d] = "sending" => Answered(d)'
      BY <1>h, <1>s, <3>1 DEF HeldAnswers
    <3> QED
      BY <3>1, <3>2, <3>4, <3>5, <3>6 DEF RetryInv, HeldAnswers
  <2>4. CASE StreamSend
    <3>1. /\ UNCHANGED <<transport, tclosed, cancelled, inboundClosed, closer,
                         reconnects, postPc>>
          /\ getPc' \in {"reading", "done"} /\ getFrame' = NoFrame
          /\ panicked' \in BOOLEAN
      BY <1>0, <2>4 DEF StreamSend, SelectSend
    <3> QED
      BY <1>t, <1>h, <1>s, <3>1 DEF RestType, RetryInv, HeldAnswers
  <2>5. ASSUME NEW c \in Calls, PostRead(c) \/ BodyRead(c)
        PROVE  RestType' /\ RetryInv' /\ HeldAnswers' /\ transport' = transport
    <3>1. UNCHANGED <<transport, tclosed, cancelled, inboundClosed, panicked,
                      closer, reconnects, getPc, getFrame>>
      BY <2>5 DEF PostRead, BodyRead
    <3>2. \/ postPc' = [postPc EXCEPT ![c] = "done"]
          \/ postPc' = [postPc EXCEPT ![c] = "sending"]
      BY <2>5 DEF PostRead, BodyRead
    <3>3. Answered(c)'
      BY <2>5 DEF PostRead, BodyRead, Answers, Answered, TransportTypeOK
    <3>4. RestType'
      BY <1>t, <3>1, <3>2 DEF RestType
    <3>5. \A d \in Calls : postPc'[d] = "sending" => Answered(d)'
      BY <1>t, <1>h, <1>s, <3>2, <3>3 DEF HeldAnswers, RestType
    <3>6. getPc' = "sending" => getFrame' \in Calls /\ server'[getFrame'] = "answered"
      BY <1>h, <1>s, <3>1 DEF HeldAnswers, Answered
    <3> QED
      BY <3>1, <3>4, <3>5, <3>6 DEF RetryInv, HeldAnswers, Answered
  <2>6. ASSUME NEW c \in Calls, PostSend(c) \/ BodySend(c)
        PROVE  RestType' /\ RetryInv' /\ HeldAnswers' /\ transport' = transport
    <3>1. /\ UNCHANGED <<transport, tclosed, cancelled, inboundClosed, closer,
                         reconnects, getPc, getFrame, server>>
          /\ panicked' \in BOOLEAN
          /\ \/ postPc' = [postPc EXCEPT ![c] = "done"]
             \/ postPc' = [postPc EXCEPT ![c] = "reading"]
             \/ postPc' = [postPc EXCEPT ![c] = "failed"]
      BY <1>0, <2>6 DEF PostSend, BodySend, SelectSend
    <3> QED
      BY <1>t, <1>h, <1>s, <3>1 DEF RestType, RetryInv, HeldAnswers, Answered
  <2>7. CASE \/ GiveUp \/ GiveUpClose \/ CloserClose \/ NotifDisabled
             \/ SleepThenClose \/ Exit \/ Reap
             \/ \E c \in Calls : PostEnd(c) \/ BodyEnd(c) \/ ServerWrites(c)
    BY <1>0, <1>x, <2>7 DEF GiveUp, GiveUpClose, CloserClose, NotifDisabled,
       SleepThenClose, CloseInbound, Exit, Reap, PostEnd, BodyEnd, ServerWrites
  <2> QED
    BY <1>5, <2>1, <2>2, <2>3, <2>4, <2>5, <2>6, <2>7
       DEF TransportStep, SseStep, HttpStep, StdioStep, Reconnect, NotifRetry,
           GetRead, NotifRead, GetSend, NotifSend
<1> QED
  BY <1>1, <1>2, <1>3, <1>4, <1>5, NextCases

(* All the types.                                                          *)
LEMMA TypeStep == TypeOK /\ RetryInv /\ AnswersInv /\ [Next]_vars => TypeOK'
<1> SUFFICES ASSUME TypeOK, RetryInv, AnswersInv, [Next]_vars PROVE TypeOK'
  OBVIOUS
<1>1. TransportTypeOK /\ ClientTypeOK
  BY TypeParts
<1>2. RestType'
  BY <1>1, RestStep
<1>3. inbound' \in Seq(Calls) /\ Len(inbound') <= InboundCap
  BY <1>1, InboundStep
<1>4. ASSUME Calls # {} PROVE server' \in [Calls -> {"none", "owed", "answered"}]
  BY <1>1, <1>4, ServerStep
<1>5. Calls # {}
  BY HelloAssumption
<1>6. TransportTypeOK'
  BY <1>2, <1>3, <1>4, <1>5 DEF TransportTypeOK, RestType
<1>7. ClientTypeOK'
  BY <1>1, ClientTypeStep
<1> QED
  BY <1>6, <1>7 DEF TypeOK, ClientTypeOK

-----------------------------------------------------------------------------
(* Where the GET goroutine, or the process, goes; by itself it does not    *)
(* begin, and a process that has ended does not run again.                 *)
LEMMA TransportMoves ==
  ASSUME TransportStep
  PROVE  /\ UNCHANGED clientVars
         /\ transport' = transport
         /\ getPc = "off" => getPc' = "off"
         /\ Stdio /\ getPc = "done" => getPc' = "done"
         /\ tclosed => tclosed'
         /\ getPc' = "closing" => getPc = "closing" \/ tclosed'
         /\ closer' # "off" => closer # "off"
         /\ inboundClosed' => \/ inboundClosed
                              \/ getPc = "closing" /\ Sse
                              \/ closer # "off" /\ ~Stdio
                              \/ getPc' = "done" /\ Stdio
<1> USE DEF Sse, Http, Stdio
<1>1. CASE SseStep
  BY <1>1 DEF TransportStep, SseStep, GetSend, GetEnd, GiveUp, GiveUpClose,
              Reconnect, CloserClose, CloseInbound, GetRead, PostRead, PostSend,
              PostEnd, StreamRead, StreamSend, StreamEnd, StreamRetry, SelectSend
<1>2. CASE HttpStep
  BY <1>2 DEF TransportStep, HttpStep, NotifSend, NotifEnd, NotifRetry,
              NotifDisabled, SleepThenClose, CloseInbound, NotifRead, BodyRead,
              BodySend, BodyEnd, StreamRead, StreamSend, StreamEnd, StreamRetry,
              SelectSend
<1>3. CASE StdioStep
  BY <1>3 DEF TransportStep, StdioStep, Exit, Reap, ServerWrites
<1> QED
  BY <1>1, <1>2, <1>3 DEF TransportStep

(* Nothing is under way before Initialize: no call but Hello gets past its *)
(* first test, and there is no stream and no read loop.                    *)
LEMMA StartStep == TypeOK /\ StartInv /\ [Next]_vars => StartInv'
<1> SUFFICES ASSUME TypeOK, StartInv, [Next]_vars PROVE StartInv'
  OBVIOUS
<1>t. /\ ClientTypeOK /\ Hello \in Calls
      /\ pc \in [Calls -> {"idle", "begun", "sending", "posting", "waiting",
                           "expired", "notify", "ok", "failed"}]
  BY TypeParts, HelloAssumption DEF ClientTypeOK
<1> USE DEF StartInv, Goto
<1>1. CASE Initialize
  BY <1>t, <1>1 DEF Initialize
<1>2. CASE Notify
  BY <1>t, <1>2 DEF Notify
<1>3. CASE ReadStep
  BY <1>3 DEF ReadStep, Dispatch, Deliver, RecvEOF, FailAll, FailOne
<1>4. CASE CloseStep
  BY <1>4 DEF CloseStep, CloseClient, CloseSwap, CloseTransport, CloseCancel,
              CloseWaits, CloseReap, CloseWake
<1>5. ASSUME NEW c \in Calls, CallStep(c) PROVE StartInv'
  <2>1. CASE Begin(c)
    BY <1>t, <2>1 DEF Begin
  <2>2. CASE ~Begin(c)
    <3>1. /\ UNCHANGED <<reader, initialized>>
          /\ pc[c] \notin {"idle", "failed"}
          /\ pc' = pc \/ \E l : l # "idle" /\ pc' = [pc EXCEPT ![c] = l]
      BY <1>5, <2>2 DEF CallStep, Register, Send, Arrive, PostFails, PostAccepted,
           PostHasBody, PostReturns, Written, Return, Expire, RemovePending
    <3>2. c # Hello => initialized
      BY <3>1
    <3>3. pc[Hello] # "idle" /\ reader # "off"
      BY <1>t, <3>1, <3>2
    <3>4. pc'[Hello] # "idle"
      BY <1>t, <3>1, <3>3
    <3>5. \A d \in Calls \ {Hello} :
            ~initialized => pc'[d] = pc[d]
      BY <1>t, <3>1, <3>2
    <3> QED
      BY <3>1, <3>3, <3>4, <3>5
  <2> QED
    BY <2>1, <2>2
<1>6. CASE TransportStep
  BY <1>6, TransportMoves
<1>7. CASE UNCHANGED vars
  BY <1>7 DEF vars
<1> QED
  BY <1>1, <1>2, <1>3, <1>4, <1>5, <1>6, <1>7, NextCases

-----------------------------------------------------------------------------
(* A call's step changes nothing of another call's, nor what the read loop *)
(* and Close have taken over.                                              *)
LEMMA CallFrame ==
  ASSUME TypeOK, NEW c \in Calls, CallStep(c)
  PROVE  /\ \A d \in Calls : d # c => pc'[d] = pc[d] /\ reply'[d] = reply[d]
         /\ UNCHANGED <<initialized, readVars, closeVars>>
         /\ Register(c) \/ (reply' = reply /\ pending' \subseteq pending)
         /\ pending \ {c} \subseteq pending'
         /\ tclosed' = tclosed /\ inboundClosed' = inboundClosed
         /\ closer' = closer
         /\ getPc' = getPc \/ (Http /\ getPc = "off" /\ getPc' = "reading")
<1> USE DEF TypeOK, Goto
<1>1. CASE Begin(c) \/ Register(c) \/ Send(c)
  BY <1>1 DEF Begin, Register, Send
<1>2. CASE Arrive(c) \/ PostAccepted(c) \/ PostHasBody(c) \/ Written(c)
  BY <1>2 DEF Arrive, PostAccepted, PostHasBody, Written
<1>3. CASE PostFails(c) \/ PostReturns(c)
  BY <1>3 DEF PostFails, PostReturns, MaybeStartNotifGet
<1>4. CASE Return(c) \/ Expire(c) \/ RemovePending(c)
  BY <1>4 DEF Return, Expire, RemovePending
<1> QED
  BY <1>1, <1>2, <1>3, <1>4 DEF CallStep

(* The way of a call through its states.                                   *)
LEMMA CallPath ==
  ASSUME TypeOK, NEW c \in Calls, CallStep(c)
  PROVE  /\ pc'[c] # "idle"
         /\ pc'[c] = "begun" => pc[c] = "idle" /\ c # Hello
         /\ pc'[c] = "sending" => Register(c) /\ pc[c] = "begun" /\ ~closed
         /\ pc'[c] = "posting" => pc[c] \in {"sending", "posting"} /\ ~Written(c)
         /\ pc'[c] = "waiting" => pc[c] = "posting"
         /\ pc'[c] = "expired" => pc[c] = "waiting"
         /\ pc'[c] = "notify" =>
              pc[c] = "waiting" /\ reply[c] = "full" /\ c = Hello
         /\ pc'[c] = "ok" => pc[c] = "waiting" /\ reply[c] = "full" /\ c # Hello
         /\ pc[c] \notin {"ok", "failed", "notify"}
<1> USE DEF TypeOK, Goto
<1>1. CASE Begin(c) \/ Register(c) \/ Send(c)
  BY <1>1 DEF Begin, Register, Send, Written
<1>2. CASE Arrive(c)
  BY <1>2 DEF Arrive, Written
<1>3. CASE PostAccepted(c) \/ PostHasBody(c) \/ Written(c)
  BY <1>3 DEF PostAccepted, PostHasBody, Written, Http, Stdio
<1>4. CASE PostFails(c) \/ PostReturns(c)
  BY <1>4 DEF PostFails, PostReturns
<1>5. CASE Return(c) \/ Expire(c) \/ RemovePending(c)
  BY <1>5 DEF Return, Expire, RemovePending
<1> QED
  BY <1>1, <1>2, <1>3, <1>4, <1>5 DEF CallStep

(* The steps of the read loop and of Close leave the calls where they are. *)
LEMMA LoopFrame ==
  ASSUME ReadStep \/ CloseStep
  PROVE  /\ UNCHANGED <<pc, initialized, getPc>>
         /\ tclosed => tclosed'
BY DEF ReadStep, Dispatch, Deliver, RecvEOF, FailAll, FailOne, CloseStep,
       CloseClient, CloseSwap, CloseTransport, CloseCancel, CloseWaits,
       CloseReap, CloseWake

(* What any step does to the state of any call.                            *)
LEMMA PcStep ==
  ASSUME TypeOK, [Next]_vars, NEW c \in Calls
  PROVE  \/ pc'[c] = pc[c]
         \/ CallStep(c)
         \/ c = Hello /\ Initialize /\ pc[c] = "idle" /\ pc'[c] \in {"begun", "failed"}
         \/ c = Hello /\ Notify /\ pc[c] = "notify" /\ pc'[c] \in {"ok", "failed"}
<1>1. CASE Initialize
  BY <1>1, HelloAssumption DEF Initialize, Goto, TypeOK
<1>2. CASE Notify
  BY <1>2, HelloAssumption DEF Notify, Goto, TypeOK
<1>3. ASSUME NEW d \in Calls, CallStep(d) PROVE pc'[c] = pc[c] \/ CallStep(c)
  BY <1>3, CallFrame
<1>4. CASE ReadStep \/ CloseStep
  BY <1>4, LoopFrame
<1>5. CASE TransportStep \/ UNCHANGED vars
  BY <1>5 DEF TransportStep, vars
<1> QED
  BY <1>1, <1>2, <1>3, <1>4, <1>5, NextCases

(* The channel is filled by the dispatcher alone.                          *)
LEMMA ReplyFull ==
  ASSUME TypeOK, [Next]_vars, NEW c \in Calls, reply'[c] = "full"
  PROVE  reply[c] = "full" \/ (reader = "deliver" /\ frame = c)
<1> USE DEF TypeOK
<1>1. CASE Initialize \/ Notify \/ TransportStep \/ UNCHANGED vars
  BY <1>1 DEF Initialize, Notify, TransportStep, vars
<1>2. ASSUME NEW d \in Calls, CallStep(d) PROVE reply[c] = "full"
  <2>1. CASE Register(d)
    BY <2>1 DEF Register
  <2> QED
    BY <1>2, <2>1, CallFrame
<1>3. CASE ReadStep
  BY <1>3 DEF ReadStep, Dispatch, Deliver, RecvEOF, FailAll, FailOne
<1>4. CASE CloseStep
  BY <1>4 DEF CloseStep, CloseClient, CloseSwap, CloseTransport, CloseWaits,
              CloseWake
<1> QED
  BY <1>1, <1>2, <1>3, <1>4, NextCases

(* Whatever comes to the client on its way to a caller was answered.       *)
LEMMA AnswersStep == TypeOK /\ RetryInv /\ AnswersInv /\ [Next]_vars => AnswersInv'
<1> SUFFICES ASSUME TypeOK, RetryInv, AnswersInv, [Next]_vars PROVE AnswersInv'
  OBVIOUS
<1>t. TransportTypeOK
  BY TypeParts
<1>s. \A c \in Calls : Answered(c) => Answered(c)'
  BY <1>t, ServerStep DEF Answered
<1>1. \A c \in ToSet(inbound') : Answered(c)'
  BY <1>t, InboundStep
<1>2. HeldAnswers' /\ transport' = transport
  BY <1>t, RestStep
<1>3. reader' = "deliver" => frame' \in Calls /\ server'[frame'] = "answered"
  <2>1. CASE Dispatch
    <3>1. inbound \in Seq(Calls) /\ inbound # << >>
      BY <1>t, <2>1 DEF Dispatch, TransportTypeOK
    <3>2. Head(inbound) \in Calls /\ Head(inbound) \in ToSet(inbound)
      BY <3>1, TailAddsNothing
    <3>3. server'[Head(inbound)] = "answered"
      BY <1>s, <3>2 DEF AnswersInv, Answered
    <3> QED
      BY <2>1, <3>2, <3>3 DEF Dispatch
  <2>2. CASE UNCHANGED <<reader, frame>>
    <3>1. reader = "deliver" => frame \in Calls /\ server[frame] = "answered"
      BY DEF AnswersInv, Answered
    <3> QED
      BY <1>s, <2>2, <3>1 DEF Answered
  <2>3. ASSUME NEW c \in Calls, CallStep(c) PROVE UNCHANGED <<reader, frame>>
    BY <2>3, CallFrame
  <2>4. CASE reader' # "deliver"
    BY <2>4
  <2>5. CASE Initialize \/ Notify
    BY <2>2, <2>4, <2>5 DEF Initialize, Notify
  <2>6. CASE ReadStep \/ CloseStep
    BY <2>1, <2>2, <2>4, <2>6 DEF ReadStep, Deliver, RecvEOF, FailAll, FailOne,
       CloseStep, CloseClient, CloseSwap, CloseTransport, CloseWaits, CloseWake
  <2>7. CASE TransportStep \/ UNCHANGED vars
    BY <2>2, <2>7 DEF TransportStep, vars
  <2> QED
    BY <2>2, <2>3, <2>5, <2>6, <2>7, NextCases
<1>4. ASSUME NEW c \in Calls, reply'[c] = "full" PROVE Answered(c)'
  BY <1>4, <1>s, ReplyFull DEF AnswersInv
<1>5. pc'[Hello] = "notify" => Answered(Hello)'
  BY <1>s, PcStep, CallPath, HelloAssumption DEF AnswersInv
<1>6. ASSUME NEW c \in Calls, pc'[c] \in {"idle", "begun", "sending"}
      PROVE  server'[c] = "none"
  <2>1. pc[c] \in {"idle", "begun", "sending"}
    BY <1>6, PcStep, CallPath
  <2>2. ~Arrive(c) /\ ~Written(c)
    BY <2>1 DEF Arrive, Written
  <2> QED
    BY <1>t, <2>1, <2>2, ServerStep DEF AnswersInv
<1>7. ASSUME NEW c \in Calls, Stdio, pc'[c] = "posting"
      PROVE  server'[c] = "none"
  <2>1. pc[c] \in {"sending", "posting"}
    BY <1>7, PcStep, CallPath
  <2>2. server[c] = "none"
    BY <1>7, <2>1 DEF AnswersInv
  <2>3. ~Arrive(c)
    BY <1>7 DEF Arrive
  <2>4. ~Written(c)
    BY <1>7 DEF Written, Goto, TypeOK
  <2> QED
    BY <1>t, <2>2, <2>3, <2>4, ServerStep
<1>8. Stdio' = Stdio
  BY <1>2 DEF Stdio
<1> QED
  BY <1>1, <1>2, <1>3, <1>4, <1>5, <1>6, <1>7, <1>8
     DEF AnswersInv, HeldAnswers, Answered

-----------------------------------------------------------------------------
(* Every channel keeps one owner, and an owned one stays open.             *)
LEMMA OwnerStep == TypeOK /\ OwnerInv /\ StartInv /\ [Next]_vars => OwnerInv'
<1> SUFFICES ASSUME TypeOK, OwnerInv, StartInv, [Next]_vars PROVE OwnerInv'
  OBVIOUS
<1>t. /\ pc \in [Calls -> {"idle", "begun", "sending", "posting", "waiting",
                           "expired", "notify", "ok", "failed"}]
      /\ reply \in [Calls -> {"none", "open", "full", "closed"}]
      /\ pending \subseteq Calls /\ failing \subseteq Calls
      /\ closing \subseteq Calls /\ frame \in Calls \cup {NoFrame}
      /\ Hello \in Calls
  BY TypeParts, HelloAssumption DEF ClientTypeOK
<1> USE DEF OwnerInv, Held, Registered
<1>1. CASE Initialize
  <2>1. reader = "off" /\ reader' \in {"off", "recv"}
    BY <1>1 DEF Initialize, StartInv
  <2> QED
    BY <1>t, <1>1, <2>1 DEF Initialize, Goto
<1>2. CASE Notify
  BY <1>t, <1>2 DEF Notify, Goto
<1>3. ASSUME NEW c \in Calls, CallStep(c) PROVE OwnerInv'
  <2>1. CASE Register(c)
    <3>1. UNCHANGED <<readVars, closeVars>> /\ pc[c] = "begun" /\ reply[c] = "none"
      BY <2>1 DEF Register
    <3>2. CASE pc' = [pc EXCEPT ![c] = "failed"] /\ UNCHANGED <<reply, pending>>
      BY <1>t, <3>1, <3>2
    <3>3. CASE /\ pc' = [pc EXCEPT ![c] = "sending"]
               /\ reply' = [reply EXCEPT ![c] = "open"]
               /\ pending' = pending \cup {c}
      <4>1. c \notin pending \cup failing \cup closing \cup Held
        BY <3>1
      <4>2. /\ pending' \cap (failing' \cup closing' \cup Held') = {}
            /\ failing' \cap (closing' \cup Held') = {}
            /\ closing' \cap Held' = {}
        BY <3>1, <3>3, <4>1
      <4>3. \A d \in pending' \cup failing' \cup closing' \cup Held' :
              reply'[d] = "open"
        BY <1>t, <3>1, <3>3
      <4>4. \A d \in Calls : pc'[d] \in {"idle", "begun"} => reply'[d] = "none"
        BY <1>t, <3>3
      <4>5. \A d \in pending' : Registered(d)'
        BY <1>t, <3>3
      <4> QED
        BY <3>1, <4>2, <4>3, <4>4, <4>5
    <3> QED
      BY <2>1, <3>2, <3>3 DEF Register, Goto
  <2>2. CASE ~Register(c)
    <3>1. /\ \A d \in Calls : d # c => pc'[d] = pc[d]
          /\ UNCHANGED <<reply, readVars, closeVars>>
          /\ pending' \subseteq pending
      BY <1>3, <2>2, CallFrame
    <3>2. pc'[c] \in {"idle", "begun"} => pc[c] \in {"idle", "begun"}
      BY <1>3, CallPath
    <3>3. c \in pending' => pc'[c] \in {"sending", "posting", "waiting", "expired"}
      <4>1. CASE Begin(c) \/ Send(c)
        BY <1>t, <4>1 DEF Begin, Send, Goto
      <4>2. CASE \/ Arrive(c) \/ PostFails(c) \/ PostAccepted(c)
                 \/ PostHasBody(c) \/ PostReturns(c) \/ Written(c)
        BY <1>t, <4>2 DEF Arrive, PostFails, PostAccepted, PostHasBody,
                          PostReturns, Written, Goto
      <4>3. CASE Return(c) \/ Expire(c) \/ RemovePending(c)
        BY <1>t, <4>3 DEF Return, Expire, RemovePending, Goto
      <4> QED
        BY <1>3, <2>2, <4>1, <4>2, <4>3 DEF CallStep
    <3> QED
      BY <1>t, <3>1, <3>2, <3>3
  <2> QED
    BY <2>1, <2>2
<1>4. CASE Dispatch
  BY <1>t, <1>4 DEF Dispatch
<1>5. CASE Deliver
  BY <1>t, <1>5 DEF Deliver
<1>6. CASE RecvEOF \/ FailAll
  BY <1>t, <1>6 DEF RecvEOF, FailAll
<1>7. CASE FailOne
  BY <1>t, <1>7 DEF FailOne
<1>8. CASE CloseClient
  BY <1>t, <1>8 DEF CloseClient
<1>9. CASE CloseSwap \/ CloseTransport \/ CloseWaits
  BY <1>t, <1>9 DEF CloseSwap, CloseTransport, CloseWaits
<1>10. CASE CloseWake
  <2>1. /\ UNCHANGED <<pc, pending, readVars>>
        /\ closePc = "wake" /\ closePc' # "idle"
    BY <1>10 DEF CloseWake
  <2>2. CASE UNCHANGED <<reply, closing>>
    BY <2>1, <2>2
  <2>3. ASSUME NEW c \in closing, reply' = [reply EXCEPT ![c] = "closed"],
               closing' = closing \ {c}
        PROVE  OwnerInv'
    <3>1. c \notin pending \cup failing \cup Held
      OBVIOUS
    <3>2. \A d \in pending' \cup failing' \cup closing' \cup Held' :
            reply'[d] = "open"
      BY <1>t, <2>1, <2>3, <3>1
    <3>3. reply[c] = "open"
      OBVIOUS
    <3>4. \A d \in Calls : pc'[d] \in {"idle", "begun"} => reply'[d] = "none"
      BY <1>t, <2>1, <2>3, <3>3
    <3> QED
      BY <2>1, <2>3, <3>2, <3>4
  <2> QED
    BY <1>10, <2>2, <2>3 DEF CloseWake
<1>11. CASE TransportStep \/ UNCHANGED vars
  BY <1>11 DEF TransportStep, vars
<1> QED
  BY <1>1, <1>2, <1>3, <1>4, <1>5, <1>6, <1>7, <1>8, <1>9, <1>10, <1>11,
     NextCases DEF ReadStep, CloseStep

(* The read loop ends with its stream, or its process, which stays ended.  *)
LEMMA EndStep ==
  ~BadFrames /\ TypeOK /\ StartInv /\ EndInv /\ [Next]_vars => EndInv'
<1> SUFFICES ASSUME ~BadFrames, TypeOK, StartInv, EndInv, [Next]_vars
             PROVE  EndInv'
  OBVIOUS
<1>t. transport \in Transports /\ Transports \subseteq {"sse", "http", "stdio"}
  BY TypeParts, TransportsAssumption DEF TransportTypeOK
<1> USE DEF EndInv, Ended, Stdio
<1>1. CASE Initialize
  <2>1. reader = "off" /\ getPc = "off" /\ reader' \in {"off", "recv"}
    BY <1>1 DEF Initialize, StartInv
  <2> QED
    BY <1>1, <2>1 DEF Initialize, OpenStream, Spawn, Http
<1>2. CASE Notify
  BY <1>2 DEF Notify, MaybeStartNotifGet, Http
<1>3. ASSUME NEW c \in Calls, CallStep(c) PROVE EndInv'
  <2>1. transport' = transport
    BY <1>3 DEF CallStep, Begin, Register, Send, Arrive, PostFails,
       PostAccepted, PostHasBody, PostReturns, Written, Return, Expire,
       RemovePending
  <2> QED
    BY <1>3, <2>1, CallFrame DEF Http
<1>4. CASE ReadStep
  BY <1>4 DEF ReadStep, Dispatch, Deliver, RecvEOF, ReadFails, FailAll, FailOne
<1>5. CASE CloseStep
  BY <1>5 DEF CloseStep, CloseClient, CloseSwap, CloseTransport, CloseCancel,
              CloseWaits, CloseReap, CloseWake
<1>6. CASE TransportStep
  BY <1>6, TransportMoves DEF Sse
<1>7. CASE UNCHANGED vars
  BY <1>7 DEF vars
<1> QED
  BY <1>1, <1>2, <1>3, <1>4, <1>5, <1>6, <1>7, NextCases

(* A call under way keeps an owner of its channel or has its answer; and   *)
(* one that registers after the read loop has ended gets no further.       *)
LEMMA WakerStep ==
  /\ ~BadFrames /\ TypeOK /\ OwnerInv /\ StartInv /\ EndInv /\ WakerInv
  /\ [Next]_vars
  => WakerInv'
<1> SUFFICES ASSUME ~BadFrames, TypeOK, OwnerInv, StartInv, EndInv, WakerInv,
                    [Next]_vars
             PROVE  WakerInv'
  OBVIOUS
<1>t. /\ pc \in [Calls -> {"idle", "begun", "sending", "posting", "waiting",
                           "expired", "notify", "ok", "failed"}]
      /\ reply \in [Calls -> {"none", "open", "full", "closed"}]
      /\ pending \subseteq Calls /\ failing \subseteq Calls
      /\ closing \subseteq Calls /\ frame \in Calls \cup {NoFrame}
      /\ Hello \in Calls
  BY TypeParts, HelloAssumption DEF ClientTypeOK
<1> USE DEF WakerInv, Registered, Held
<1>s. Stdio' = Stdio
  BY TransportMoves, <1>t
     DEF Next, vars, Stdio, Initialize, OpenStream, Spawn, Notify, ReadStep,
         CloseStep, CallStep, Dispatch, Deliver, RecvEOF, FailAll, FailOne,
         CloseClient, CloseSwap, CloseTransport, CloseCancel, CloseWaits,
         CloseReap, CloseWake, Begin, Register, Send, Arrive, PostFails,
         PostAccepted, PostHasBody, PostReturns, Written, Return, Expire,
         RemovePending
<1>1. CASE Initialize
  <2>1. reader = "off" /\ reader' \in {"off", "recv"}
    BY <1>1 DEF Initialize, StartInv
  <2> QED
    BY <1>t, <1>1, <2>1 DEF Initialize, Goto
<1>2. CASE Notify
  BY <1>t, <1>2, <1>s DEF Notify, Goto, OwnerInv
<1>3. ASSUME NEW c \in Calls, CallStep(c) PROVE WakerInv'
  <2>1. CASE Register(c)
    BY <1>t, <1>s, <2>1 DEF Register, Goto, OwnerInv
  <2>2. CASE ~Register(c)
    <3>1. /\ \A d \in Calls : d # c => pc'[d] = pc[d]
          /\ UNCHANGED <<reply, readVars, closeVars>>
          /\ pending' \subseteq pending /\ pending \ {c} \subseteq pending'
      BY <1>3, <2>2, CallFrame
    <3>2. pc'[c] \in {"sending", "posting", "waiting", "expired"} =>
            pc[c] \in {"sending", "posting", "waiting", "expired"} /\ pending' = pending
      <4>1. CASE Begin(c) \/ Send(c)
        BY <1>t, <4>1 DEF Begin, Send, Goto
      <4>2. CASE \/ Arrive(c) \/ PostFails(c) \/ PostAccepted(c)
                 \/ PostHasBody(c) \/ PostReturns(c) \/ Written(c)
        BY <1>t, <4>2 DEF Arrive, PostFails, PostAccepted, PostHasBody,
                          PostReturns, Written, Goto
      <4>3. CASE Return(c) \/ Expire(c) \/ RemovePending(c)
        BY <1>t, <4>3 DEF Return, Expire, RemovePending, Goto
      <4> QED
        BY <1>3, <2>2, <4>1, <4>2, <4>3 DEF CallStep
    <3>3. ASSUME c \in pending', reader \in {"failing", "done"}
          PROVE  pc'[c] = "sending" \/ (Stdio /\ pc'[c] = "posting")
      <4>1. pc[c] = "sending" \/ (Stdio /\ pc[c] = "posting")
        BY <3>1, <3>3
      <4>2. Ended
        BY <3>3 DEF EndInv
      <4>3. CASE Begin(c) \/ Return(c) \/ Expire(c) \/ RemovePending(c)
        BY <4>1, <4>3 DEF Begin, Return, Expire, RemovePending
      <4>4. CASE Send(c)
        BY <1>t, <3>3, <4>2, <4>4 DEF Send, Ended, Goto
      <4>5. CASE Arrive(c) \/ PostHasBody(c)
        BY <4>1, <4>5 DEF Arrive, PostHasBody
      <4>6. CASE PostFails(c)
        BY <3>3, <4>6 DEF PostFails
      <4>7. CASE PostAccepted(c) \/ PostReturns(c) \/ Written(c)
        BY <4>1, <4>2, <4>7 DEF PostAccepted, PostReturns, Written, Ended,
                                Sse, Http, Stdio
      <4> QED
        BY <1>3, <2>2, <4>3, <4>4, <4>5, <4>6, <4>7 DEF CallStep
    <3> QED
      BY <1>t, <1>s, <3>1, <3>2, <3>3
  <2> QED
    BY <2>1, <2>2
<1>4. CASE Dispatch
  BY <1>t, <1>s, <1>4 DEF Dispatch
<1>5. CASE Deliver
  BY <1>t, <1>s, <1>5 DEF Deliver
<1>6. CASE RecvEOF \/ FailAll
  BY <1>t, <1>s, <1>6 DEF RecvEOF, FailAll, OwnerInv
<1>7. CASE FailOne
  BY <1>t, <1>s, <1>7 DEF FailOne
<1>8. CASE CloseClient
  BY <1>t, <1>s, <1>8 DEF CloseClient, OwnerInv
<1>9. CASE CloseSwap \/ CloseTransport \/ CloseWaits
  BY <1>t, <1>s, <1>9 DEF CloseSwap, CloseTransport, CloseWaits
<1>10. CASE CloseWake
  BY <1>t, <1>s, <1>10 DEF CloseWake
<1>11. CASE TransportStep \/ UNCHANGED vars
  BY <1>s, <1>11 DEF TransportStep, vars
<1> QED
  BY <1>1, <1>2, <1>3, <1>4, <1>5, <1>6, <1>7, <1>8, <1>9, <1>10, <1>11,
     NextCases DEF ReadStep, CloseStep

-----------------------------------------------------------------------------
(* Nothing has begun at the start.                                         *)
LEMMA McpInit == Init => McpInv
<1> SUFFICES ASSUME Init PROVE McpInv
  OBVIOUS
<1> USE DEF Init, TransportInit
<1>1. TypeOK
  <2>1. inbound \in Seq(Calls) /\ Len(inbound) <= InboundCap
    BY CapAssumption
  <2>2. RestType
    <3>1. reconnects \in 0 .. MaxReconnects
      BY ReconnectsAssumption
    <3>2. {tclosed, cancelled, inboundClosed, panicked} \subseteq BOOLEAN
      OBVIOUS
    <3>3. postPc \in [Calls -> {"off", "reading", "sending", "failed", "done"}]
      OBVIOUS
    <3> QED
      BY <3>1, <3>2, <3>3 DEF RestType
  <2>3. server \in [Calls -> {"none", "owed", "answered"}]
    OBVIOUS
  <2>4. ClientTypeOK
    BY DEF ClientTypeOK
  <2> QED
    BY <2>1, <2>2, <2>3, <2>4, TransportParts, TypeParts
<1>2. RetryInv /\ OwnerInv /\ StartInv
  BY HelloAssumption DEF RetryInv, OwnerInv, Held, StartInv
<1>3. AnswersInv
  BY EmptySequence, HelloAssumption DEF AnswersInv
<1>4. EndInv /\ WakerInv
  BY DEF EndInv, WakerInv, Registered
<1> QED
  BY <1>1, <1>2, <1>3, <1>4 DEF McpInv

(* McpInv is inductive, over each transport.                               *)
THEOREM McpInvariant == Spec => []McpInv
<1>1. McpInv /\ [Next]_vars => McpInv'
  BY TypeStep, RestStep, TypeParts, OwnerStep, StartStep, AnswersStep, EndStep,
     WakerStep DEF McpInv
<1> QED
  BY <1>1, McpInit, PTL DEF Spec

(* The client and its transport keep their types; inbound never holds more *)
(* than it can.                                                            *)
THEOREM TypeCorrect == Spec => []TypeOK
<1>1. McpInv => TypeOK
  BY DEF McpInv
<1> QED
  BY <1>1, McpInvariant, PTL

(* call, dispatch, failAll and Close never own a reply channel together,   *)
(* so that none is closed twice or sent on after its close.                *)
THEOREM ReplyHasOneOwner == Spec => []OneOwnerPerReply
<1>1. McpInv => OneOwnerPerReply
  BY TypeParts DEF McpInv, OwnerInv, OneOwnerPerReply, Owners, Held, ClientTypeOK
<1> QED
  BY <1>1, McpInvariant, PTL

(* A call that waits in the select of call has somebody to wake it, unless *)
(* a stdio server sends a frame that is too long: Recv then fails while    *)
(* the transport is open.                                                  *)
THEOREM WaiterIsWoken == ASSUME ~BadFrames PROVE Spec => []WaiterHasAWaker
<1>1. McpInv => WaiterHasAWaker
  <2> SUFFICES ASSUME McpInv, NEW c \in Calls, pc[c] = "waiting",
                      reply[c] = "open"
               PROVE  /\ Owners(c) # {}
                      /\ c \in pending => reader \in {"recv", "deliver", "eof"}
    BY DEF WaiterHasAWaker
  <2>1. c \in pending \cup failing \cup closing \cup Held
    BY DEF McpInv, WakerInv, Registered
  <2>2. Owners(c) # {}
    BY <2>1 DEF Owners, Held
  <2>3. reader \in {"off", "recv", "deliver", "eof", "failing", "done"}
    BY TypeParts DEF McpInv, ClientTypeOK
  <2>4. reader # "off"
    BY HelloAssumption DEF McpInv, StartInv
  <2>5. c \in pending => reader \notin {"failing", "done"}
    BY DEF McpInv, WakerInv
  <2> QED
    BY <2>2, <2>3, <2>4, <2>5
<1> QED
  BY <1>1, McpInvariant, PTL

-----------------------------------------------------------------------------
(* What Rpc sees of the client.                                            *)
Fresh == {c \in Calls : pc[c] \in {"idle", "begun"}}
Open == {c \in Calls : pc[c] \in {"sending", "posting", "waiting", "expired",
                                  "notify"}}
ServerAnswered == {c \in Calls : server[c] = "answered"}
Succeeded == {c \in Calls : pc[c] = "ok"}
Failed == {c \in Calls : pc[c] = "failed"}

(* A step of one call, on what Rpc sees.                                   *)
LEMMA ContractMove ==
  ASSUME TypeOK, NEW c \in Calls, \A d \in Calls : d # c => pc'[d] = pc[d],
         pc' \in [Calls -> {"idle", "begun", "sending", "posting", "waiting",
                            "expired", "notify", "ok", "failed"}],
         ServerAnswered' = ServerAnswered, closed' = closed,
         \/ pc'[c] = pc[c]
         \/ c \in Fresh /\ c \in Fresh'
         \/ c \in Fresh /\ c \in Open' /\ ~closed
         \/ c \in Open /\ c \in Open'
         \/ c \in Open /\ pc'[c] = "ok" /\ server[c] = "answered"
         \/ c \in Fresh \cup Open /\ pc'[c] = "failed"
  PROVE  [Contract!Next]_(Contract!rpcVars)
<1>t. pc \in [Calls -> {"idle", "begun", "sending", "posting", "waiting",
                        "expired", "notify", "ok", "failed"}]
  BY DEF TypeOK
<1> USE DEF Fresh, Open, Succeeded, Failed
<1>1. CASE \/ pc'[c] = pc[c]
           \/ c \in Fresh /\ c \in Fresh'
           \/ c \in Open /\ c \in Open'
  <2>1. /\ Fresh' = Fresh /\ Open' = Open
        /\ Succeeded' = Succeeded /\ Failed' = Failed
    BY <1>t, <1>1
  <2> QED
    BY <2>1 DEF Contract!rpcVars, ServerAnswered
<1>2. CASE c \in Fresh /\ c \in Open' /\ ~closed
  <2>1. /\ Fresh' = Fresh \ {c} /\ Open' = Open \cup {c}
        /\ Succeeded' = Succeeded /\ Failed' = Failed
    BY <1>t, <1>2
  <2> QED
    BY <1>2, <2>1 DEF Contract!Next, Contract!Open, ServerAnswered
<1>3. CASE c \in Open /\ pc'[c] = "ok" /\ server[c] = "answered"
  <2>1. /\ Fresh' = Fresh /\ Open' = Open \ {c}
        /\ Succeeded' = Succeeded \cup {c} /\ Failed' = Failed
    BY <1>t, <1>3
  <2> QED
    BY <1>3, <2>1 DEF Contract!Next, Contract!Succeed, ServerAnswered
<1>4. CASE c \in Fresh \cup Open /\ pc'[c] = "failed"
  <2>1. /\ Fresh' = Fresh \ {c} /\ Open' = Open \ {c}
        /\ Succeeded' = Succeeded /\ Failed' = Failed \cup {c}
    BY <1>t, <1>4
  <2> QED
    BY <1>4, <2>1 DEF Contract!Next, Contract!Fail, ServerAnswered
<1> QED
  BY <1>1, <1>2, <1>3, <1>4

(* Every step of the client is one of Rpc's, or changes nothing it sees.   *)
LEMMA ContractStep ==
  ASSUME McpInv, TypeOK', [Next]_vars
  PROVE  [Contract!Next]_(Contract!rpcVars)
<1>t. /\ TypeOK /\ OwnerInv /\ AnswersInv /\ TransportTypeOK /\ ClientTypeOK
      /\ Hello \in Calls
  BY TypeParts, HelloAssumption DEF McpInv
<1>p. /\ pc \in [Calls -> {"idle", "begun", "sending", "posting", "waiting",
                           "expired", "notify", "ok", "failed"}]
      /\ pc' \in [Calls -> {"idle", "begun", "sending", "posting", "waiting",
                            "expired", "notify", "ok", "failed"}]
  BY DEF McpInv, TypeOK
<1>1. ASSUME NEW c \in Calls, CallStep(c)
      PROVE  [Contract!Next]_(Contract!rpcVars)
  <2>1. ServerAnswered' = ServerAnswered
    <3>1. ASSUME NEW d \in Calls
          PROVE  server'[d] = "answered" <=> server[d] = "answered"
      <4>1. CASE UNCHANGED server
        BY <4>1
      <4>2. CASE Arrive(c) \/ Written(c)
        <5>1. server[c] = "none" /\ server' = [server EXCEPT ![c] = "owed"]
          BY <1>t, <4>2 DEF Arrive, Written, AnswersInv
        <5> QED
          BY <1>t, <5>1 DEF TransportTypeOK
      <4> QED
        BY <1>1, <4>1, <4>2 DEF CallStep, Begin, Register, Send, PostFails,
           PostAccepted, PostHasBody, PostReturns, Return, Expire, RemovePending
    <3> QED
      BY <3>1 DEF ServerAnswered
  <2>2. closed' = closed /\ \A d \in Calls : d # c => pc'[d] = pc[d]
    BY <1>t, <1>1, CallFrame
  <2>3. pc'[c] = "ok" => server[c] = "answered" /\ pc[c] = "waiting"
    BY <1>t, <1>1, CallPath DEF AnswersInv, Answered
  <2>4. \/ pc'[c] = pc[c]
        \/ c \in Fresh /\ c \in Fresh'
        \/ c \in Fresh /\ c \in Open' /\ ~closed
        \/ c \in Open /\ c \in Open'
        \/ c \in Open /\ pc'[c] = "ok" /\ server[c] = "answered"
        \/ c \in Fresh \cup Open /\ pc'[c] = "failed"
    BY <1>t, <1>p, <1>1, <2>3, CallPath DEF Fresh, Open
  <2> QED
    BY <1>t, <1>p, <2>1, <2>2, <2>4, ContractMove
<1>2. CASE Initialize \/ Notify
  <2>1. /\ server' = server /\ closed' = closed
        /\ \A d \in Calls : d # Hello => pc'[d] = pc[d]
    BY <1>p, <1>2 DEF Initialize, OpenStream, Spawn, Notify, MaybeStartNotifGet, Goto
  <2>2. \/ pc[Hello] = "idle" /\ pc'[Hello] \in {"begun", "failed"}
        \/ pc[Hello] = "notify" /\ pc'[Hello] \in {"ok", "failed"}
    BY <1>t, <1>p, <1>2 DEF Initialize, Notify, Goto
  <2>3. pc[Hello] = "notify" => server[Hello] = "answered"
    BY <1>t DEF AnswersInv, Answered
  <2>4. \/ Hello \in Fresh /\ Hello \in Fresh'
        \/ Hello \in Open /\ pc'[Hello] = "ok" /\ server[Hello] = "answered"
        \/ Hello \in Fresh \cup Open /\ pc'[Hello] = "failed"
    BY <1>t, <2>2, <2>3 DEF Fresh, Open
  <2> QED
    BY <1>t, <1>p, <2>1, <2>4, ContractMove DEF ServerAnswered
<1>3. CASE CloseClient
  <2>1. closed' = TRUE /\ UNCHANGED <<pc, server>>
    BY <1>3 DEF CloseClient
  <2> QED
    BY <2>1 DEF Contract!Next, Contract!Shut
<1>4. CASE (ReadStep \/ CloseStep) /\ ~CloseClient
  <2>1. UNCHANGED <<pc, server, closed>>
    BY <1>4 DEF ReadStep, Dispatch, Deliver, RecvEOF, FailAll, FailOne,
       CloseStep, CloseSwap, CloseTransport, CloseCancel, CloseWaits, CloseReap,
       CloseWake
  <2> QED
    BY <2>1 DEF Contract!rpcVars
<1>5. ASSUME UNCHANGED clientVars, NEW c \in Calls, Answers(c)
      PROVE  [Contract!Next]_(Contract!rpcVars)
  <2>1. pc' = pc /\ closed' = closed
    BY <1>5
  <2>2. server[c] = "owed" /\ server' = [server EXCEPT ![c] = "answered"]
    BY <1>5 DEF Answers
  <2>3. ServerAnswered' = ServerAnswered \cup {c}
    BY <1>t, <2>2 DEF ServerAnswered, TransportTypeOK
  <2>4. c \notin Fresh
    BY <1>t, <2>2 DEF AnswersInv, Fresh
  <2>5. Contract!Answer(c)
    BY <2>1, <2>3, <2>4 DEF Contract!Answer, ServerAnswered, Fresh
  <2> QED
    BY <2>5 DEF Contract!Next
<1>6. CASE UNCHANGED <<pc, server, closed>>
  BY <1>6 DEF Contract!rpcVars
<1>7. CASE TransportStep
  <2>1. UNCHANGED server \/ \E d \in Calls : Answers(d)
    BY <1>7 DEF TransportStep, SseStep, HttpStep, StdioStep, GetSend, GetEnd,
                GiveUp, GiveUpClose, Reconnect, CloserClose, GetRead, PostRead,
                PostSend, PostEnd, NotifSend, NotifEnd, NotifRetry,
                NotifDisabled, SleepThenClose, NotifRead, BodyRead, BodySend,
                BodyEnd, Exit, Reap, ServerWrites, StreamRead, StreamSend,
                StreamEnd, StreamRetry, CloseInbound
  <2>2. UNCHANGED clientVars
    BY <1>7, TransportMoves
  <2> QED
    BY <1>5, <1>6, <2>1, <2>2
<1>8. CASE UNCHANGED vars
  BY <1>6, <1>8 DEF vars
<1> QED
  BY <1>1, <1>2, <1>3, <1>4, <1>7, <1>8, NextCases

(* The client implements Rpc: call returns once, with the server's answer  *)
(* to its own request or a failure, and opens nothing after Close.         *)
THEOREM RefinesRpc == Spec => ImplementsRpc
<1>1. Init => Contract!Init
  BY DEF Init, TransportInit, Contract!Init
<1>2. McpInv /\ McpInv' /\ [Next]_vars => [Contract!Next]_(Contract!rpcVars)
  BY ContractStep DEF McpInv
<1> QED
  BY <1>1, <1>2, McpInvariant, PTL DEF Spec, ImplementsRpc, Contract!Spec

-----------------------------------------------------------------------------
(***************************************************************************)
(* The plugin host, as an instance: any plugins, declarations and calls of *)
(* handlers, its assumptions a hypothesis.                                 *)
(***************************************************************************)
CONSTANTS Plugins, Configured, MayDeclare, Builtins, Host, Handlers, CallOf, None,
          AsyncCap
VARIABLES phase, todo, script, loaded, host, owned, accepted, mu, registryMu, stage,
          requested, ui, sem, shutdown, shutting, closedPlugins

Plug == INSTANCE Plugins WITH
          Calls <- Handlers, pc <- stage, request <- requested,
          closer <- shutdown, closing <- shutting, shut <- closedPlugins

(* Plugins' assumptions, and what the handlers and the scripts are; ...    *)
Extensible ==
  /\ Configured \subseteq Plugins
  /\ {Host, None} \cap (Plugins \cup Handlers) = {}
  /\ \A r \in Builtins : r.owner = Host /\ r.kind \in Plug!Kinds
  /\ AsyncCap \in Nat \ {0}
  /\ IsFiniteSet(Handlers)
  /\ \A c \in Handlers : Plug!PluginOf(c) \in Plugins
  /\ \A d \in Plug!Declarations : d.kind \in Plug!Kinds /\ d # None

(* ... and no two plugins, nor a plugin and the host, have hooks of one    *)
(* name, which hook.Registry.Register accepts and Unregister removes all.  *)
HookNamesApart ==
  \A p \in Plugins : \A d \in MayDeclare[p] :
    d.kind = "hook" =>
      /\ \A r \in Builtins : r.kind = "hook" => r.name # d.name
      /\ \A q \in Plugins \ {p} : \A e \in MayDeclare[q] :
           e.kind = "hook" => e.name # d.name

Places == {"idle", "gate", "enter", "run", "ask", "register", "ran", "done"}

(* Handlers run, and plugins are closed, only after the last script.       *)
PhaseInv ==
  /\ script # None => phase \in {"startup", "admin", "hung"}
  /\ phase \in {"startup", "admin", "hung"} =>
       /\ \A c \in Handlers : stage[c] = "idle"
       /\ closedPlugins = {} /\ shutting = None /\ shutdown = "none"

(* What a call may be of, and what it registers.                           *)
RequestInv ==
  \A c \in Handlers :
    /\ stage[c] # "idle" => Plug!PluginOf(c) \in loaded
    /\ IF stage[c] = "register" THEN requested[c] \in MayDeclare[Plug!PluginOf(c)]
                                ELSE requested[c] = None

(* The semaphore counts the asynchronous hooks in flight.                  *)
InFlight ==
  {c \in Handlers : Plug!By(c) = "async" /\ stage[c] \notin {"idle", "done"}}
SemInv ==
  /\ sem = Cardinality(InFlight)
  /\ \A c \in Handlers : stage[c] = "gate" => Plug!By(c) = "tool"

(* Types and ranges.                                                       *)
StateInv ==
  /\ phase \in {"startup", "hung", "running", "admin", "quitting", "closed"}
  /\ todo \subseteq Plugins /\ loaded \subseteq Plugins
  /\ closedPlugins \subseteq loaded /\ shutting \in loaded \cup {None}
  /\ script \in Plugins \cup {None}
  /\ mu \in [Plugins -> Handlers \cup {None}]
  /\ registryMu \in BOOLEAN
  /\ stage \in [Handlers -> Places]
  /\ requested \in [Handlers -> Plug!Declarations \cup {None}]
  /\ ui \in Handlers \cup {None, "gone"}
  /\ sem \in 0..AsyncCap
  /\ shutdown \in {"none", "plugins", "agent", "bus", "done"}

(* Of a plugin: what it has had accepted, and what is between the host's   *)
(* registry and owned.                                                     *)
Registering(p) ==
  {Plug!Registration(p, requested[c]) :
     c \in {x \in Handlers : Plug!PluginOf(x) = p /\ requested[x] # None}}
Own(p) == {Plug!Registration(p, d) : d \in MayDeclare[p]}

(* Nothing in the host's registries is removed by the kind and name of     *)
(* something else, ...                                                     *)
NameInv ==
  \A r, s \in host : r.kind = s.kind /\ r.name = s.name /\ r.owner # Host => r = s

(* ... owned is what has been accepted, of plugins that are present, ...   *)
OwnInv ==
  /\ accepted \in [Plugins -> SUBSET owned]
  /\ owned = UNION {accepted[p] : p \in Plugins}
  /\ \A p \in Plugins :
       /\ accepted[p] \subseteq Own(p)
       /\ accepted[p] # {} => p \in loaded \/ p = script

(* ... and the registries hold that, the builtins and what is under way.   *)
HostInv ==
  host = Builtins \cup UNION {accepted[p] \cup Registering(p) : p \in Plugins}

RegInv == NameInv /\ OwnInv /\ HostInv
PluginInv == StateInv /\ PhaseInv /\ RequestInv /\ SemInv /\ RegInv

(* It holds before the first plugin is loaded.                             *)
LEMMA PluginInit ==
  ASSUME Extensible
  PROVE  Plug!Init => PluginInv
<1> SUFFICES ASSUME Plug!Init PROVE PluginInv
  OBVIOUS
<1>1. StateInv
  <2>1. sem \in 0..AsyncCap
    BY DEF Plug!Init, Extensible
  <2>2. mu \in [Plugins -> Handlers \cup {None}]
    BY DEF Plug!Init
  <2>3. stage \in [Handlers -> Places]
    BY DEF Plug!Init, Places
  <2>4. requested \in [Handlers -> Plug!Declarations \cup {None}]
    BY DEF Plug!Init
  <2>5. todo \subseteq Plugins
    BY DEF Plug!Init, Extensible
  <2> QED
    BY <2>1, <2>2, <2>3, <2>4, <2>5 DEF Plug!Init, StateInv
<1>2. PhaseInv
  BY DEF Plug!Init, PhaseInv
<1>3. RequestInv
  BY DEF Plug!Init, RequestInv
<1>4. InFlight = {}
  BY DEF Plug!Init, InFlight
<1>5. SemInv
  BY <1>4, FS_EmptySet DEF Plug!Init, SemInv
<1>6. NameInv
  BY DEF Plug!Init, NameInv, Extensible
<1>7. \A p \in Plugins : accepted[p] = {} /\ Registering(p) = {}
  BY DEF Plug!Init, Registering
<1>8. OwnInv
  BY <1>7 DEF Plug!Init, OwnInv
<1>9. HostInv
  BY <1>7 DEF Plug!Init, HostInv
<1> QED
  BY <1>1, <1>2, <1>3, <1>5, <1>6, <1>8, <1>9 DEF PluginInv, RegInv

(* Whatever is in the host's registries is the host's or some plugin's.    *)
LEMMA HostKnown ==
  ASSUME Extensible, PluginInv, NEW r \in host
  PROVE  \/ r \in Builtins
         \/ \E p \in Plugins : \E d \in MayDeclare[p] : r = Plug!Registration(p, d)
<1> SUFFICES ASSUME r \notin Builtins
             PROVE  \E p \in Plugins : \E d \in MayDeclare[p] : r = Plug!Registration(p, d)
  OBVIOUS
<1>1. PICK p \in Plugins : r \in accepted[p] \cup Registering(p)
  BY DEF PluginInv, RegInv, HostInv
<1>2. CASE r \in accepted[p]
  BY <1>2 DEF PluginInv, RegInv, OwnInv, Own
<1>3. CASE r \in Registering(p)
  <2>1. PICK c \in Handlers : /\ Plug!PluginOf(c) = p /\ requested[c] # None
                           /\ r = Plug!Registration(p, requested[c])
    BY <1>3 DEF Registering
  <2>2. requested[c] \in MayDeclare[p]
    BY <2>1 DEF PluginInv, RequestInv
  <2> QED
    BY <2>1, <2>2
<1> QED
  BY <1>1, <1>2, <1>3

(* A registration that is not refused is of a name of its own.             *)
LEMMA AddedName ==
  ASSUME Extensible, HookNamesApart, PluginInv, NEW p \in Plugins,
         NEW d \in MayDeclare[p],
         ~Plug!Refused(d), host' = host \cup {Plug!Registration(p, d)}
  PROVE  NameInv'
<1> DEFINE n == Plug!Registration(p, d)
<1>1. n.kind = d.kind /\ n.name = d.name /\ n.owner = p /\ p # Host
  BY DEF Plug!Registration, Extensible
<1>2. ASSUME NEW s \in host, s.kind = d.kind, s.name = d.name PROVE s = n
  <2>1. d.kind = "hook"
    BY <1>2 DEF Plug!Refused
  <2>2. CASE s \in Builtins
    BY <1>2, <2>1, <2>2 DEF HookNamesApart
  <2>3. CASE \E q \in Plugins : \E e \in MayDeclare[q] : s = Plug!Registration(q, e)
    <3>1. PICK q \in Plugins : \E e \in MayDeclare[q] : s = Plug!Registration(q, e)
      BY <2>3
    <3>2. PICK e \in MayDeclare[q] : s = Plug!Registration(q, e)
      BY <3>1
    <3>3. e.kind = d.kind /\ e.name = d.name
      BY <1>2, <3>2 DEF Plug!Registration
    <3>4. q = p
      BY <2>1, <3>3 DEF HookNamesApart
    <3> QED
      BY <3>2, <3>3, <3>4 DEF Plug!Registration
  <2> QED
    BY <2>2, <2>3, HostKnown
<1> HIDE DEF n
<1>3. \A r, s \in host : r.kind = s.kind /\ r.name = s.name /\ r.owner # Host => r = s
  BY DEF PluginInv, RegInv, NameInv
<1>4. host' = host \cup {n}
  BY DEF n
<1>5. ASSUME NEW r \in host', NEW s \in host', r.kind = s.kind, r.name = s.name,
             r.owner # Host
      PROVE  r = s
  <2>1. CASE r \in host /\ s \in host
    BY <1>3, <1>5, <2>1
  <2>2. CASE r = n /\ s \in host
    BY <1>1, <1>2, <1>5, <2>2
  <2>3. CASE r \in host /\ s = n
    BY <1>1, <1>2, <1>5, <2>3
  <2> QED
    BY <1>4, <2>1, <2>2, <2>3
<1> QED
  BY <1>5 DEF NameInv

(* While no handler runs, unregistering a plugin takes its own             *)
(* registrations out of the registries and nobody else's.                  *)
LEMMA Unregistered ==
  ASSUME Extensible, PluginInv, NEW p \in Plugins, Plug!UnregisterAll(p),
         phase \in {"startup", "admin"}, UNCHANGED requested
  PROVE  /\ NameInv' /\ HostInv'
         /\ accepted' \in [Plugins -> SUBSET owned']
         /\ owned' = UNION {accepted'[q] : q \in Plugins}
         /\ accepted'[p] = {}
         /\ \A q \in Plugins \ {p} : accepted'[q] = accepted[q]
<1>1. /\ accepted \in [Plugins -> SUBSET owned]
      /\ owned = UNION {accepted[q] : q \in Plugins}
      /\ \A q \in Plugins : accepted[q] \subseteq Own(q)
  BY DEF PluginInv, RegInv, OwnInv
<1>2. \A q \in Plugins : \A r \in accepted[q] : r.owner = q
  BY <1>1 DEF Own, Plug!Registration
<1>3. \A c \in Handlers : requested[c] = None
  BY DEF PluginInv, PhaseInv, RequestInv
<1>4. \A q \in Plugins : Registering(q) = {} /\ Registering(q)' = {}
  BY <1>3 DEF Registering
<1>5. host = Builtins \cup UNION {accepted[q] : q \in Plugins}
  BY <1>4 DEF PluginInv, RegInv, HostInv
<1>6. accepted' = [accepted EXCEPT ![p] = {}]
  BY DEF Plug!UnregisterAll
<1>7. accepted'[p] = {} /\ \A q \in Plugins \ {p} : accepted'[q] = accepted[q]
  BY <1>1, <1>6
<1>8. owned' = {o \in owned : o.owner # p}
  BY DEF Plug!UnregisterAll
<1>9. owned' = UNION {accepted'[q] : q \in Plugins}
  BY <1>1, <1>2, <1>7, <1>8
<1>10. accepted' \in [Plugins -> SUBSET owned']
  <2>1. accepted' \in [Plugins -> SUBSET owned]
    BY <1>1, <1>6
  <2>2. \A q \in Plugins : accepted'[q] \subseteq owned'
    BY <1>9
  <2> QED
    BY <2>1, <2>2
<1>11. \A r \in host : r \in Plug!HostWithout(p) <=> r \notin accepted[p]
  <2>1. ASSUME NEW r \in host, r \in accepted[p] PROVE r \notin Plug!HostWithout(p)
    BY <1>1, <1>2, <2>1 DEF Plug!HostWithout
  <2>2. ASSUME NEW r \in host, r \notin accepted[p] PROVE r \in Plug!HostWithout(p)
    <3> SUFFICES ASSUME NEW o \in owned, o.owner = p, o.kind = r.kind, o.name = r.name
                 PROVE  FALSE
      BY DEF Plug!HostWithout
    <3>1. PICK q \in Plugins : o \in accepted[q]
      BY <1>1
    <3>2. o \in accepted[p] /\ o \in host
      BY <1>2, <1>5, <3>1
    <3>3. o = r
      BY <3>2 DEF PluginInv, RegInv, NameInv, Extensible
    <3> QED
      BY <2>2, <3>2, <3>3
  <2> QED
    BY <2>1, <2>2
<1>12. host' = host \ accepted[p]
  BY <1>11 DEF Plug!UnregisterAll, Plug!HostWithout
<1>13. host' = Builtins \cup UNION {accepted'[q] : q \in Plugins}
  <2>1. \A r \in Builtins : r \notin accepted[p]
    BY <1>2 DEF Extensible
  <2>2. \A q \in Plugins \ {p} : \A r \in accepted[q] : r \notin accepted[p]
    BY <1>2
  <2> QED
    BY <1>5, <1>7, <1>12, <2>1, <2>2
<1>14. HostInv'
  BY <1>4, <1>13 DEF HostInv
<1>15. NameInv'
  BY <1>12 DEF PluginInv, RegInv, NameInv
<1> QED
  BY <1>7, <1>9, <1>10, <1>14, <1>15

(* Steps that register nothing and unregister nothing.                     *)
LEMMA RegistriesKept ==
  ASSUME PluginInv, UNCHANGED <<Plug!regVars, requested>>,
         \A p \in Plugins : p \in loaded \/ p = script => p \in loaded' \/ p = script'
  PROVE  RegInv'
<1>1. NameInv'
  BY DEF PluginInv, RegInv, NameInv, Plug!regVars
<1>2. OwnInv'
  BY DEF PluginInv, RegInv, OwnInv, Plug!regVars, Own, Plug!Registration
<1>3. HostInv'
  BY DEF PluginInv, RegInv, HostInv, Plug!regVars, Registering,
         Plug!Registration
<1> QED
  BY <1>1, <1>2, <1>3 DEF RegInv

(* Loading, updating and removing keep the registries in step, whatever    *)
(* fails half-way.                                                         *)
LEMMA LoadKeepsRegistries ==
  ASSUME Extensible, HookNamesApart, PluginInv, Plug!LoadStep
  PROVE  RegInv'
<1> USE DEF PluginInv
<1>1. ASSUME NEW p \in Plugins, Plug!LoadOne(p) PROVE RegInv'
  <2>1. script = None /\ None \notin Plugins
    BY <1>1 DEF Plug!LoadOne, Plug!Idle, Extensible
  <2>2. UNCHANGED <<Plug!regVars, requested>> /\ UNCHANGED loaded
    BY <1>1 DEF Plug!LoadOne, Plug!callVars
  <2> QED
    BY <2>1, <2>2, RegistriesKept
<1>2. ASSUME NEW p \in Plugins, NEW d \in MayDeclare[p], Plug!Declare(p, d) PROVE RegInv'
  <2>1. CASE Plug!Refused(d)
    BY <1>2, <2>1, RegistriesKept
       DEF Plug!Declare, Plug!Recorded, Plug!regVars, Plug!callVars,
           Plug!loadVars
  <2>2. CASE ~Plug!Refused(d)
    <3> DEFINE n == Plug!Registration(p, d)
    <3>1. /\ host' = host \cup {n} /\ owned' = owned \cup {n}
          /\ accepted' = [accepted EXCEPT ![p] = @ \cup {n}]
          /\ UNCHANGED <<requested, loaded, script>> /\ script = p
      BY <1>2, <2>2 DEF Plug!Declare, Plug!Recorded, Plug!InScript,
                        Plug!callVars, Plug!loadVars
    <3>2. n \in Own(p)
      BY DEF Own
    <3> HIDE DEF n
    <3>3. /\ accepted'[p] = accepted[p] \cup {n}
          /\ \A q \in Plugins \ {p} : accepted'[q] = accepted[q]
          /\ accepted' \in [Plugins -> SUBSET owned']
      BY <3>1 DEF RegInv, OwnInv
    <3>4. OwnInv'
      <4>1. owned' = UNION {accepted'[q] : q \in Plugins}
        BY <3>1, <3>3 DEF RegInv, OwnInv
      <4>2. \A q \in Plugins : accepted'[q] \subseteq Own(q)
        BY <3>2, <3>3 DEF RegInv, OwnInv
      <4>3. \A q \in Plugins : accepted'[q] # {} => q \in loaded' \/ q = script'
        BY <3>1, <3>3 DEF RegInv, OwnInv
      <4> QED
        BY <3>3, <4>1, <4>2, <4>3 DEF OwnInv, Own, Plug!Registration
    <3>5. HostInv'
      <4>1. \A q \in Plugins : Registering(q)' = Registering(q)
        BY <3>1 DEF Registering, Plug!Registration
      <4> QED
        BY <3>1, <3>3, <4>1 DEF RegInv, HostInv
    <3>6. NameInv'
      BY <2>2, <3>1, AddedName DEF n
    <3> QED
      BY <3>4, <3>5, <3>6 DEF RegInv
  <2> QED
    BY <2>1, <2>2
<1>3. CASE Plug!ScriptAsks
  BY <1>3, RegistriesKept DEF Plug!ScriptAsks, Plug!callVars, Plug!loadVars
<1>4. ASSUME NEW p \in Plugins, Plug!UnregisterAll(p), phase \in {"startup", "admin"},
             UNCHANGED requested,
             \A q \in Plugins \ {p} :
               q \in loaded \/ q = script => q \in loaded' \/ q = script'
      PROVE  RegInv'
  <2>1. /\ NameInv' /\ HostInv'
        /\ accepted' \in [Plugins -> SUBSET owned']
        /\ owned' = UNION {accepted'[q] : q \in Plugins}
        /\ accepted'[p] = {}
        /\ \A q \in Plugins \ {p} : accepted'[q] = accepted[q]
    BY <1>4, Unregistered
  <2>2. \A q \in Plugins : accepted'[q] \subseteq Own(q)
    BY <2>1 DEF RegInv, OwnInv
  <2>3. \A q \in Plugins : accepted'[q] # {} => q \in loaded' \/ q = script'
    BY <1>4, <2>1 DEF RegInv, OwnInv
  <2>4. OwnInv'
    BY <2>1, <2>2, <2>3 DEF OwnInv, Own, Plug!Registration
  <2> QED
    BY <2>1, <2>4 DEF RegInv
<1>5. ASSUME NEW p \in Plugins, Plug!ScriptFails(p) PROVE RegInv'
  <2>1. phase \in {"startup", "admin"}
    BY <1>5 DEF Plug!ScriptFails, Plug!InScript, PhaseInv, Extensible
  <2>2. Plug!UnregisterAll(p) /\ script = p /\ UNCHANGED <<requested, loaded>>
    BY <1>5 DEF Plug!ScriptFails, Plug!InScript, Plug!callVars
  <2> QED
    BY <1>4, <2>1, <2>2
<1>6. ASSUME NEW p \in Plugins, Plug!ScriptEnds(p) PROVE RegInv'
  <2>1. script = p /\ loaded' = loaded \cup {p} /\ UNCHANGED <<Plug!regVars, requested>>
    BY <1>6 DEF Plug!ScriptEnds, Plug!InScript, Plug!callVars
  <2> QED
    BY <2>1, RegistriesKept
<1>7. ASSUME NEW p \in Plugins, Plug!Update(p) \/ Plug!Remove(p) PROVE RegInv'
  <2>1. /\ Plug!UnregisterAll(p) /\ phase = "admin" /\ script = None
        /\ loaded' = loaded \ {p} /\ UNCHANGED requested
    BY <1>7 DEF Plug!Update, Plug!Remove, Plug!Idle, Plug!callVars
  <2>2. None \notin Plugins
    BY DEF Extensible
  <2> QED
    BY <1>4, <2>1, <2>2
<1>8. CASE Plug!Started
  BY <1>8, RegistriesKept DEF Plug!Started, Plug!callVars, Plug!loadVars
<1> QED
  BY <1>1, <1>2, <1>3, <1>5, <1>6, <1>7, <1>8 DEF Plug!LoadStep

(* So does a handler that registers something, whose owner is recorded     *)
(* later, ...                                                              *)
LEMMA RegisterKeepsRegistries ==
  ASSUME Extensible, HookNamesApart, PluginInv, NEW c \in Handlers, NEW d,
         Plug!Register(c, d)
  PROVE  RegInv'
<1> USE DEF PluginInv
<1> DEFINE p == Plug!PluginOf(c)
<1> DEFINE n == Plug!Registration(p, d)
<1>1. /\ p \in Plugins /\ d \in MayDeclare[p] /\ ~Plug!Refused(d) /\ stage[c] = "run"
      /\ host' = host \cup {n} /\ requested' = [requested EXCEPT ![c] = d]
      /\ UNCHANGED <<owned, accepted, loaded, script>>
  BY DEF Plug!Register, Extensible, Plug!loadVars
<1>2. /\ d # None /\ requested[c] = None
      /\ requested \in [Handlers -> Plug!Declarations \cup {None}]
  <2>1. d \in Plug!Declarations
    BY <1>1 DEF Plug!Declarations
  <2> QED
    BY <1>1, <2>1 DEF Extensible, RequestInv, StateInv
<1>3. NameInv'
  BY <1>1, AddedName
<1>4. OwnInv'
  BY <1>1 DEF RegInv, OwnInv, Own, Plug!Registration
<1> HIDE DEF p, n
<1>5. Registering(p)' = Registering(p) \cup {n}
  BY <1>1, <1>2 DEF Registering, p, n
<1>6. \A q \in Plugins \ {p} : Registering(q)' = Registering(q)
  BY <1>1, <1>2 DEF Registering, p, n
<1>7. HostInv'
  BY <1>1, <1>5, <1>6 DEF RegInv, HostInv
<1> QED
  BY <1>3, <1>4, <1>7 DEF RegInv

(* ... when it is.                                                         *)
LEMMA RecordKeepsRegistries ==
  ASSUME Extensible, PluginInv, NEW c \in Handlers, Plug!RecordOwned(c)
  PROVE  RegInv'
<1> USE DEF PluginInv
<1> DEFINE p == Plug!PluginOf(c)
<1> DEFINE n == Plug!Registration(p, requested[c])
<1>1. /\ p \in Plugins /\ requested[c] \in MayDeclare[p] /\ p \in loaded
      /\ owned' = owned \cup {n} /\ accepted' = [accepted EXCEPT ![p] = @ \cup {n}]
      /\ requested' = [requested EXCEPT ![c] = None]
      /\ UNCHANGED <<host, loaded, script>>
  BY DEF Plug!RecordOwned, Extensible, RequestInv, Plug!loadVars
<1>2. /\ requested[c] # None
      /\ requested \in [Handlers -> Plug!Declarations \cup {None}]
  <2>1. requested[c] \in Plug!Declarations
    BY <1>1 DEF Plug!Declarations
  <2> QED
    BY <2>1 DEF Extensible, StateInv
<1>3. NameInv'
  BY <1>1 DEF RegInv, NameInv
<1>4. n \in Own(p)
  BY <1>1 DEF Own
<1> HIDE DEF p, n
<1>5. /\ accepted'[p] = accepted[p] \cup {n}
      /\ \A q \in Plugins \ {p} : accepted'[q] = accepted[q]
      /\ accepted' \in [Plugins -> SUBSET owned']
  BY <1>1 DEF RegInv, OwnInv
<1>6. OwnInv'
  <2>1. owned' = UNION {accepted'[q] : q \in Plugins}
    BY <1>1, <1>5 DEF RegInv, OwnInv
  <2>2. \A q \in Plugins : accepted'[q] \subseteq Own(q)
    BY <1>4, <1>5 DEF RegInv, OwnInv
  <2>3. \A q \in Plugins : accepted'[q] # {} => q \in loaded' \/ q = script'
    BY <1>1, <1>5 DEF RegInv, OwnInv
  <2> QED
    BY <1>5, <2>1, <2>2, <2>3 DEF OwnInv, Own, Plug!Registration
<1>7. Registering(p)' \cup {n} = Registering(p)
  BY <1>1, <1>2 DEF Registering, p, n
<1>8. \A q \in Plugins \ {p} : Registering(q)' = Registering(q)
  BY <1>1, <1>2 DEF Registering, p, n
<1>9. accepted'[p] \cup Registering(p)' = accepted[p] \cup Registering(p)
  BY <1>5, <1>7
<1>10. \A q \in Plugins : accepted'[q] \cup Registering(q)' = accepted[q] \cup Registering(q)
  BY <1>5, <1>8, <1>9
<1>11. HostInv'
  BY <1>1, <1>10 DEF RegInv, HostInv
<1> QED
  BY <1>3, <1>6, <1>11 DEF RegInv

(* A handler that is registered is of a plugin that is present.            *)
LEMMA RegisteredIsLoaded ==
  ASSUME Extensible, PluginInv, NEW c \in Handlers, Plug!Registered(c),
         phase \in {"running", "quitting"}
  PROVE  Plug!PluginOf(c) \in loaded
<1> USE DEF PluginInv
<1> DEFINE p == Plug!PluginOf(c)
<1>1. p \in Plugins /\ p # Host
  BY DEF Extensible
<1>2. script = None /\ None \notin Plugins
  BY DEF PhaseInv, Extensible
<1>3. PICK r \in host : r.owner = p
  BY DEF Plug!Registered
<1>4. PICK q \in Plugins : r \in accepted[q] \cup Registering(q)
  BY <1>1, <1>3 DEF RegInv, HostInv, Extensible
<1>5. CASE r \in accepted[q]
  <2>1. r.owner = q
    BY <1>5 DEF RegInv, OwnInv, Own, Plug!Registration
  <2> QED
    BY <1>2, <1>3, <1>5, <2>1 DEF RegInv, OwnInv
<1>6. CASE r \in Registering(q)
  <2>1. PICK x \in Handlers : Plug!PluginOf(x) = q /\ requested[x] # None /\ r.owner = q
    BY <1>6 DEF Registering, Plug!Registration
  <2>2. stage[x] = "register"
    BY <2>1 DEF RequestInv
  <2> QED
    BY <1>3, <2>1, <2>2 DEF RequestInv
<1> QED
  BY <1>4, <1>5, <1>6

(* A call that moves enters or leaves the asynchronous hooks in flight.    *)
LEMMA CallMoves ==
  ASSUME Extensible, StateInv, NEW c \in Handlers, NEW place \in Places,
         Plug!Goes(c, place)
  PROVE  /\ stage' \in [Handlers -> Places]
         /\ stage'[c] = place /\ \A x \in Handlers \ {c} : stage'[x] = stage[x]
         /\ InFlight' = IF Plug!By(c) = "async" /\ place \notin {"idle", "done"}
                        THEN InFlight \cup {c} ELSE InFlight \ {c}
<1>1. stage \in [Handlers -> Places] /\ stage' = [stage EXCEPT ![c] = place]
  BY DEF StateInv, Plug!Goes
<1>2. /\ stage' \in [Handlers -> Places]
      /\ stage'[c] = place /\ \A x \in Handlers \ {c} : stage'[x] = stage[x]
  BY <1>1
<1>3. CASE Plug!By(c) = "async" /\ place \notin {"idle", "done"}
  BY <1>2, <1>3 DEF InFlight, Plug!By
<1>4. CASE ~(Plug!By(c) = "async" /\ place \notin {"idle", "done"})
  BY <1>2, <1>4 DEF InFlight, Plug!By
<1> QED
  BY <1>2, <1>3, <1>4

(* The semaphore follows them, if a call takes and releases it as it       *)
(* should.                                                                 *)
LEMMA SemaphoreCounts ==
  ASSUME Extensible, StateInv, SemInv, NEW c \in Handlers,
         \/ InFlight' = InFlight /\ sem' = sem
         \/ InFlight' = InFlight \cup {c} /\ c \notin InFlight /\ sem' = sem + 1
            /\ sem < AsyncCap
         \/ InFlight' = InFlight \ {c} /\ c \in InFlight /\ sem' = sem - 1
  PROVE  sem' = Cardinality(InFlight') /\ sem' \in 0..AsyncCap
<1>1. IsFiniteSet(InFlight)
  BY FS_Subset DEF Extensible, InFlight
<1>2. /\ sem = Cardinality(InFlight) /\ sem \in 0..AsyncCap
      /\ AsyncCap \in Nat /\ Cardinality(InFlight) \in Nat
  BY <1>1, FS_CardinalityType DEF SemInv, StateInv, Extensible
<1>3. CASE /\ InFlight' = InFlight \cup {c} /\ c \notin InFlight
           /\ sem' = sem + 1 /\ sem < AsyncCap
  <2>1. Cardinality(InFlight') = Cardinality(InFlight) + 1
    BY <1>1, <1>3, FS_AddElement
  <2> QED
    BY <1>2, <1>3, <2>1
<1>4. CASE InFlight' = InFlight \ {c} /\ c \in InFlight /\ sem' = sem - 1
  <2>1. Cardinality(InFlight') = Cardinality(InFlight) - 1
    BY <1>1, <1>4, FS_RemoveElement
  <2>2. InFlight # {}
    BY <1>4
  <2>3. Cardinality(InFlight) # 0
    BY <1>1, <2>2, FS_EmptySet
  <2> QED
    BY <1>2, <1>4, <2>1, <2>3
<1> QED
  BY <1>2, <1>3, <1>4

(* Loading, updating and removing find no handler running and nothing      *)
(* closed.                                                                 *)
LEMMA LoadKeepsState ==
  ASSUME Extensible, PluginInv, Plug!LoadStep
  PROVE  StateInv' /\ PhaseInv' /\ RequestInv' /\ SemInv'
<1> USE DEF PluginInv
<1>1. phase \in {"startup", "admin"}
  BY DEF Plug!LoadStep, Plug!LoadOne, Plug!ScriptFails, Plug!ScriptEnds,
         Plug!Update, Plug!Remove, Plug!Declare,
         Plug!ScriptAsks, Plug!Started, Plug!Idle, Plug!InScript, PhaseInv,
         Extensible
<1>2. UNCHANGED <<Plug!callVars, Plug!closeVars>>
  BY DEF Plug!LoadStep, Plug!LoadOne, Plug!ScriptFails, Plug!ScriptEnds,
         Plug!Update, Plug!Remove, Plug!Declare,
         Plug!ScriptAsks, Plug!Started
<1>3. /\ phase' \in {"startup", "hung", "running", "admin"}
      /\ todo' \subseteq todo /\ loaded' \subseteq Plugins
      /\ script' \in Plugins \cup {None}
      /\ phase' = "running" => script' = None
  <2>1. ASSUME NEW p \in Plugins,
               Plug!LoadOne(p) \/ Plug!Update(p) \/ Plug!Remove(p)
        PROVE  /\ UNCHANGED phase /\ todo' \subseteq todo /\ loaded' \subseteq loaded
               /\ script' \in Plugins \cup {None}
    BY <2>1 DEF Plug!LoadOne, Plug!Update, Plug!Remove, Plug!Idle, StateInv
  <2>2. ASSUME NEW p \in Plugins,
               Plug!ScriptFails(p) \/ Plug!ScriptEnds(p)
                    \/ \E d \in MayDeclare[p] : Plug!Declare(p, d)
        PROVE  /\ UNCHANGED <<phase, todo>> /\ loaded' \subseteq loaded \cup {p}
               /\ script' \in Plugins \cup {None}
    BY <2>2 DEF Plug!ScriptFails, Plug!ScriptEnds, Plug!Declare, StateInv,
                Plug!loadVars
  <2>3. CASE Plug!ScriptAsks
    BY <2>3 DEF Plug!ScriptAsks, Plug!loadVars, StateInv
  <2>4. CASE Plug!Started
    BY <2>4 DEF Plug!Started, Plug!loadVars, StateInv, Plug!Idle
  <2> QED
    BY <1>1, <2>1, <2>2, <2>3, <2>4 DEF Plug!LoadStep, StateInv
<1>4. script' # None => phase' \in {"startup", "admin", "hung"}
  BY <1>3
<1>5. /\ \A c \in Handlers : stage[c] = "idle" /\ requested[c] = None
      /\ closedPlugins = {} /\ shutting = None /\ shutdown = "none"
  BY <1>1 DEF PhaseInv, RequestInv
<1>6. StateInv'
  BY <1>2, <1>3, <1>5 DEF StateInv, Plug!callVars, Plug!closeVars
<1>7. PhaseInv'
  BY <1>2, <1>4, <1>5 DEF PhaseInv, Plug!callVars, Plug!closeVars
<1>8. RequestInv'
  BY <1>2, <1>5 DEF RequestInv, Plug!callVars
<1>9. SemInv'
  BY <1>2 DEF SemInv, InFlight, Plug!By, Plug!callVars
<1> QED
  BY <1>6, <1>7, <1>8, <1>9

(* Quitting and closing move no call.                                      *)
LEMMA CloseKeepsState ==
  ASSUME Extensible, PluginInv, Plug!Quit \/ Plug!CloseStep
  PROVE  StateInv' /\ PhaseInv' /\ RequestInv' /\ SemInv'
<1> USE DEF PluginInv
<1>1. UNCHANGED <<Plug!loadVars, mu, stage, requested, sem>>
  BY DEF Plug!Quit, Plug!CloseStep, Plug!CloseNext, Plug!ClosePlugin,
         Plug!CloseAgent, Plug!CloseBus, Plug!callVars
<1>2. /\ phase' \in {"running", "quitting", "closed"} /\ script = None
      /\ ui' \in {ui, "gone"} /\ registryMu' \in BOOLEAN
      /\ closedPlugins' \subseteq loaded /\ shutting' \in loaded \cup {None}
      /\ shutdown' \in {"none", "plugins", "agent", "bus", "done"}
  <2>1. CASE Plug!Quit
    BY <2>1 DEF Plug!Quit, StateInv, PhaseInv
  <2>2. CASE Plug!CloseStep
    <3>1. phase \in {"running", "quitting", "closed"} /\ script = None
      BY <2>2 DEF Plug!CloseStep, Plug!CloseNext, Plug!ClosePlugin,
                  Plug!CloseAgent, Plug!CloseBus,
                  StateInv, PhaseInv
    <3> QED
      BY <2>2, <3>1 DEF Plug!CloseStep, Plug!CloseNext, Plug!ClosePlugin,
                        Plug!CloseAgent, Plug!CloseBus,
                        StateInv, Plug!callVars
  <2> QED
    BY <2>1, <2>2
<1>3. StateInv'
  BY <1>1, <1>2 DEF StateInv, Plug!loadVars
<1>4. PhaseInv'
  BY <1>1, <1>2 DEF PhaseInv, Plug!loadVars
<1>5. RequestInv'
  BY <1>1 DEF RequestInv, Plug!loadVars
<1>6. SemInv'
  BY <1>1 DEF SemInv, InFlight, Plug!By
<1> QED
  BY <1>3, <1>4, <1>5, <1>6

CallAction(c) ==
  \/ Plug!Start(c) \/ Plug!CallStep(c) \/ Plug!Answer(c) \/ Plug!Exec(c)
  \/ \E d \in Plug!Declarations : Plug!Register(c, d)

(* A step of a handler moves that one, and keeps the books of its request  *)
(* and of the semaphore.                                                   *)
LEMMA CallKeepsState ==
  ASSUME Extensible, PluginInv, NEW c \in Handlers, CallAction(c)
  PROVE  StateInv' /\ PhaseInv' /\ RequestInv' /\ SemInv'
<1> USE DEF PluginInv
<1>1. UNCHANGED <<phase, Plug!loadVars, Plug!closeVars>>
  BY DEF CallAction, Plug!CallStep, Plug!Start, Plug!Enter, Plug!RecordOwned,
         Plug!Return, Plug!AskEnds, Plug!Answer,
         Plug!Exec, Plug!Register
<1>2. phase \notin {"startup", "admin", "hung"} /\ script = None
  <2>1. stage[c] # "idle" \/ phase \in {"running", "quitting"}
    BY DEF CallAction, Plug!CallStep, Plug!Start, Plug!Serving, Plug!Enter,
           Plug!RecordOwned, Plug!Return, Plug!AskEnds,
           Plug!Answer, Plug!Exec, Plug!Register
  <2> QED
    BY <2>1 DEF PhaseInv
<1>3. Plug!PluginOf(c) \in loaded
  <2>1. CASE Plug!Start(c)
    BY <2>1, RegisteredIsLoaded DEF Plug!Start, Plug!Serving
  <2>2. CASE stage[c] # "idle"
    BY <2>2 DEF RequestInv
  <2> QED
    BY <2>1, <2>2 DEF CallAction, Plug!CallStep, Plug!Enter, Plug!RecordOwned,
                      Plug!Return, Plug!AskEnds,
                      Plug!Answer, Plug!Exec, Plug!Register
<1>4. \E place \in Places : Plug!Goes(c, place)
  BY DEF CallAction, Plug!CallStep, Plug!Start, Plug!Enter, Plug!RecordOwned,
         Plug!Return, Plug!AskEnds, Plug!Answer,
         Plug!Exec, Plug!Register, Plug!Leaves, Places
<1>5. PICK place \in Places : Plug!Goes(c, place)
  BY <1>4
<1>6. /\ stage' \in [Handlers -> Places]
      /\ stage'[c] = place /\ \A x \in Handlers \ {c} : stage'[x] = stage[x]
      /\ InFlight' = IF Plug!By(c) = "async" /\ place \notin {"idle", "done"}
                     THEN InFlight \cup {c} ELSE InFlight \ {c}
  BY <1>5, CallMoves
<1>7. /\ place # "idle" /\ (place = "gate" => Plug!By(c) = "tool")
      /\ ui' \in Handlers \cup {None, "gone"}
      /\ mu' \in [Plugins -> Handlers \cup {None}]
  BY <1>6 DEF CallAction, Plug!CallStep, Plug!Start, Plug!Enter,
              Plug!RecordOwned, Plug!Return, Plug!AskEnds, Plug!Answer,
              Plug!Exec, Plug!Register, Plug!Leaves, Plug!Goes, StateInv,
              Plug!MutexReleased
<1>8. /\ requested' \in [Handlers -> Plug!Declarations \cup {None}]
      /\ \A x \in Handlers \ {c} : requested'[x] = requested[x]
      /\ IF place = "register" THEN requested'[c] \in MayDeclare[Plug!PluginOf(c)]
                               ELSE requested'[c] = None
  <2>1. CASE \E d \in Plug!Declarations : Plug!Register(c, d)
    <3>1. PICK d \in Plug!Declarations : Plug!Register(c, d)
      BY <2>1
    <3>2. /\ requested' = [requested EXCEPT ![c] = d] /\ d \in MayDeclare[Plug!PluginOf(c)]
          /\ stage' = [stage EXCEPT ![c] = "register"]
      BY <3>1 DEF Plug!Register, Plug!Goes
    <3> QED
      BY <1>6, <3>1, <3>2 DEF StateInv
  <2>2. CASE Plug!RecordOwned(c)
    <3>1. /\ requested' = [requested EXCEPT ![c] = None]
          /\ stage' = [stage EXCEPT ![c] = "ran"]
      BY <2>2 DEF Plug!RecordOwned, Plug!Goes
    <3> QED
      BY <1>6, <3>1 DEF StateInv
  <2>3. CASE Plug!Start(c) \/ Plug!Enter(c) \/ Plug!Return(c)
             \/ Plug!AskEnds(c) \/ Plug!Answer(c) \/ Plug!Exec(c)
    <3>1. UNCHANGED requested /\ stage[c] # "register"
      BY <2>3 DEF Plug!Start, Plug!Enter, Plug!Return, Plug!AskEnds,
                  Plug!Answer, Plug!Exec
    <3>2. stage'[c] # "register"
      BY <1>6, <2>3 DEF Plug!Start, Plug!Enter, Plug!Return, Plug!AskEnds,
                        Plug!Answer, Plug!Exec, Plug!Leaves, Plug!Goes,
                        StateInv
    <3> QED
      BY <1>6, <3>1, <3>2 DEF StateInv, RequestInv
  <2> QED
    BY <2>1, <2>2, <2>3 DEF CallAction, Plug!CallStep
<1>9. RequestInv'
  BY <1>1, <1>3, <1>6, <1>7, <1>8 DEF RequestInv, Plug!loadVars, Plug!PluginOf
<1>10. \/ InFlight' = InFlight /\ sem' = sem
       \/ InFlight' = InFlight \cup {c} /\ c \notin InFlight /\ sem' = sem + 1
          /\ sem < AsyncCap
       \/ InFlight' = InFlight \ {c} /\ c \in InFlight /\ sem' = sem - 1
  <2>1. c \in InFlight <=> Plug!By(c) = "async" /\ stage[c] \notin {"idle", "done"}
    BY DEF InFlight
  <2>2. CASE Plug!Start(c)
    <3>1. /\ stage[c] = "idle"
          /\ \/ Plug!By(c) # "async" /\ sem' = sem
             \/ Plug!By(c) = "async" /\ sem < AsyncCap /\ place = "enter" /\ sem' = sem + 1
             \/ Plug!By(c) = "async" /\ place = "done" /\ sem' = sem
      BY <1>6, <2>2 DEF Plug!Start, Plug!Goes, StateInv
    <3> QED
      BY <1>6, <2>1, <3>1
  <2>3. CASE Plug!Leaves(c) /\ stage[c] \in {"enter", "run", "ran"}
    <3>1. place = "done" /\ sem' = IF Plug!By(c) = "async" THEN sem - 1 ELSE sem
      BY <1>6, <2>3 DEF Plug!Leaves, Plug!Goes, StateInv
    <3> QED
      BY <1>6, <2>1, <2>3, <3>1
  <2>4. CASE /\ sem' = sem /\ stage[c] \notin {"idle", "done", "gate"}
             /\ place \notin {"idle", "done"}
    BY <1>6, <2>1, <2>4
  <2>5. CASE sem' = sem /\ stage[c] = "gate"
    BY <1>6, <2>1, <2>5 DEF SemInv
  <2>6. CASE Plug!Enter(c)
    <3>1. \/ Plug!Leaves(c)
          \/ sem' = sem /\ place = "run"
      BY <1>6, <2>6 DEF Plug!Enter, Plug!Goes, StateInv
    <3> QED
      BY <2>3, <2>4, <2>6, <3>1 DEF Plug!Enter
  <2>7. CASE Plug!Return(c)
    BY <2>3, <2>7 DEF Plug!Return
  <2>8. CASE Plug!RecordOwned(c) \/ Plug!Exec(c)
             \/ \E d \in Plug!Declarations : Plug!Register(c, d)
    <3>1. /\ sem' = sem /\ stage[c] \in {"register", "run"}
          /\ place \in {"ran", "ask", "register"}
      BY <1>6, <2>8 DEF Plug!RecordOwned, Plug!Exec, Plug!Register, Plug!Goes,
                        StateInv
    <3> QED
      BY <2>4, <3>1
  <2>9. CASE Plug!AskEnds(c) \/ Plug!Answer(c)
    <3>1. /\ sem' = sem
          /\ stage[c] = "gate" \/ (stage[c] = "ask" /\ place = "ran")
      BY <1>6, <2>9 DEF Plug!AskEnds, Plug!Answer, Plug!Goes, StateInv
    <3> QED
      BY <2>4, <2>5, <3>1
  <2> QED
    BY <2>2, <2>6, <2>7, <2>8, <2>9 DEF CallAction, Plug!CallStep
<1>11. sem' = Cardinality(InFlight') /\ sem' \in 0..AsyncCap
  BY <1>10, SemaphoreCounts
<1>12. SemInv'
  BY <1>6, <1>7, <1>11 DEF SemInv, Plug!By
<1>13. StateInv'
  BY <1>1, <1>6, <1>7, <1>8, <1>11 DEF StateInv, Plug!loadVars, Plug!closeVars
<1>14. PhaseInv'
  BY <1>1, <1>2 DEF PhaseInv, Plug!loadVars
<1> QED
  BY <1>9, <1>12, <1>13, <1>14

(* PluginInv is inductive.                                                 *)
LEMMA PluginStep ==
  ASSUME Extensible, HookNamesApart
  PROVE  PluginInv /\ [Plug!Next]_(Plug!vars) => PluginInv'
<1> SUFFICES ASSUME PluginInv, [Plug!Next]_(Plug!vars)
             PROVE  PluginInv'
  OBVIOUS
<1>1. CASE Plug!LoadStep
  BY <1>1, LoadKeepsRegistries, LoadKeepsState DEF PluginInv
<1>2. ASSUME NEW c \in Handlers, CallAction(c)
      PROVE  PluginInv'
  <2>1. RegInv'
    <3>1. CASE \E d \in Plug!Declarations : Plug!Register(c, d)
      BY <3>1, RegisterKeepsRegistries
    <3>2. CASE Plug!RecordOwned(c)
      BY <3>2, RecordKeepsRegistries
    <3>3. CASE Plug!Start(c) \/ Plug!Enter(c) \/ Plug!Return(c)
               \/ Plug!AskEnds(c) \/ Plug!Answer(c) \/ Plug!Exec(c)
      <4>1. UNCHANGED <<Plug!regVars, requested, loaded, script>>
        BY <3>3 DEF Plug!Start, Plug!Enter, Plug!Return, Plug!AskEnds,
                    Plug!Answer, Plug!Exec, Plug!loadVars
      <4> QED
        BY <4>1, RegistriesKept
    <3> QED
      BY <1>2, <3>1, <3>2, <3>3 DEF CallAction, Plug!CallStep
  <2> QED
    BY <1>2, <2>1, CallKeepsState DEF PluginInv
<1>3. CASE Plug!Quit \/ Plug!CloseStep
  <2>1. UNCHANGED <<Plug!regVars, requested, loaded, script>>
    BY <1>3 DEF Plug!Quit, Plug!CloseStep, Plug!CloseNext, Plug!ClosePlugin,
                Plug!CloseAgent, Plug!CloseBus,
                Plug!loadVars, Plug!callVars
  <2> QED
    BY <1>3, <2>1, RegistriesKept, CloseKeepsState DEF PluginInv
<1>4. CASE UNCHANGED Plug!vars
  <2>1. RegInv'
    BY <1>4, RegistriesKept DEF Plug!vars, Plug!loadVars, Plug!callVars
  <2>2. StateInv' /\ PhaseInv' /\ RequestInv' /\ SemInv'
    BY <1>4 DEF PluginInv, Plug!vars, Plug!loadVars, Plug!callVars,
                Plug!closeVars, StateInv, PhaseInv,
                RequestInv, SemInv, InFlight, Plug!By
  <2> QED
    BY <2>1, <2>2 DEF PluginInv
<1> QED
  BY <1>1, <1>2, <1>3, <1>4 DEF Plug!Next, CallAction

(* Every reachable state has it.                                           *)
LEMMA PluginInvariant ==
  ASSUME Extensible, HookNamesApart
  PROVE  Plug!Spec => []PluginInv
<1>1. Plug!Init => PluginInv
  BY PluginInit
<1>2. PluginInv /\ [Plug!Next]_(Plug!vars) => PluginInv'
  BY PluginStep
<1> QED
  BY <1>1, <1>2, PTL DEF Plug!Spec

(* The variables keep their types: the semaphore of the asynchronous hooks *)
(* stays within its capacity and never below zero, and only plugins that   *)
(* are loaded are closed.                                                  *)
THEOREM PluginTypes ==
  ASSUME Extensible, HookNamesApart
  PROVE  Plug!Spec => []Plug!TypeOK
<1>1. PluginInv => Plug!TypeOK
  <2> SUFFICES ASSUME PluginInv PROVE Plug!TypeOK
    OBVIOUS
  <2>1. \A r \in host \cup owned : r.kind \in Plug!Kinds
    <3>1. \A p \in Plugins : \A d \in MayDeclare[p] :
            Plug!Registration(p, d).kind \in Plug!Kinds
      BY DEF Extensible, Plug!Declarations, Plug!Registration
    <3>2. \A r \in host : r.kind \in Plug!Kinds
      BY <3>1, HostKnown DEF Extensible
    <3>3. \A r \in owned : r.kind \in Plug!Kinds
      BY <3>1 DEF PluginInv, RegInv, OwnInv, Own
    <3> QED
      BY <3>2, <3>3
  <2>2. accepted \in [Plugins -> SUBSET (host \cup owned)]
    BY DEF PluginInv, RegInv, OwnInv
  <2>3. shutting \in Plugins \cup {None}
    BY DEF PluginInv, StateInv
  <2> QED
    BY <2>1, <2>2, <2>3 DEF PluginInv, StateInv, Plug!TypeOK, Places
<1>2. Plug!Spec => []PluginInv
  BY PluginInvariant
<1> QED
  BY <1>1, <1>2, PTL

(* However loads, failures half-way, updates, removals, handlers that      *)
(* register and the shutdown interleave, the host's registries hold its    *)
(* own and what the plugins that are present have had accepted.  It needs  *)
(* hooks to have names of their own: two plugins that both name one        *)
(* "guard" lose both when either is removed.                               *)
THEOREM PluginsLeaveNothing ==
  ASSUME Extensible, HookNamesApart
  PROVE  Plug!Spec => []Plug!HostMatchesPlugins
<1>1. PluginInv => Plug!HostMatchesPlugins
  <2> SUFFICES ASSUME PluginInv PROVE Plug!HostMatchesPlugins
    OBVIOUS
  <2> DEFINE registering == {Plug!Registration(Plug!PluginOf(c), requested[c]) :
                               c \in {x \in Handlers : requested[x] # None}}
  <2> DEFINE present == loaded \cup ({script} \ {None})
  <2>1. registering = UNION {Registering(p) : p \in Plugins}
    BY DEF Registering, Extensible
  <2>2. present \subseteq Plugins
    BY DEF PluginInv, StateInv
  <2>3. \A p \in Plugins \ present : accepted[p] = {}
    BY DEF PluginInv, RegInv, OwnInv, Extensible
  <2>4. UNION {accepted[p] : p \in Plugins} = UNION {accepted[p] : p \in present}
    BY <2>2, <2>3
  <2>5. host = Builtins \cup registering \cup UNION {accepted[p] : p \in Plugins}
    BY <2>1 DEF PluginInv, RegInv, HostInv
  <2> QED
    BY <2>4, <2>5 DEF Plug!HostMatchesPlugins
<1>2. Plug!Spec => []PluginInv
  BY PluginInvariant
<1> QED
  BY <1>1, <1>2, PTL
=============================================================================
