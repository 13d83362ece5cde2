------------------------------ MODULE McpClient ------------------------------
(***************************************************************************)
(* The JSON-RPC client of an MCP server (src/internal/mcp/client.go) over  *)
(* any of its transports: concurrent calls, each with a reply channel of   *)
(* its own in the map of pending calls, one read loop that routes the      *)
(* answers, and Close.                                                     *)
(*                                                                         *)
(* A call stands for the id it draws: idCounter.Add never returns a number *)
(* twice.  Hello is the call of Initialize, Notify the notification that   *)
(* ends it.  A critical section of Client.mu is one step.                  *)
(***************************************************************************)
EXTENDS McpSse, McpHttp, McpStdio

CONSTANT Hello   \* the `initialize` request

ASSUME HelloAssumption == Hello \in Calls

VARIABLES
  pc,           \* where a call is, or how it returned: "ok", "failed"
  reply,        \* its reply channel: "none", "open", "full" or "closed"
  pending,      \* Client.pending
  closed,       \* Client.closed
  initialized,  \* Client.initialized
  reader,       \* where the read loop is
  frame,        \* the answer whose channel dispatch holds
  failing,      \* failAll's local pending
  closePc,      \* where Close is
  closing       \* Close's local pending

callVars == <<pc, reply, pending>>
readVars == <<reader, frame, failing>>
closeVars == <<closed, closePc, closing>>
clientVars == <<callVars, initialized, readVars, closeVars>>
vars == <<transportVars, clientVars>>

TypeOK ==
  /\ TransportTypeOK
  /\ pc \in [Calls -> {"idle", "begun", "sending", "posting", "waiting",
                       "expired", "notify", "ok", "failed"}]
  /\ reply \in [Calls -> {"none", "open", "full", "closed"}]
  /\ pending \subseteq Calls /\ failing \subseteq Calls /\ closing \subseteq Calls
  /\ {closed, initialized} \subseteq BOOLEAN
  /\ reader \in {"off", "recv", "deliver", "eof", "failing", "done"}
  /\ frame \in Calls \cup {NoFrame}
  /\ closePc \in {"idle", "swap", "cancel", "reap", "wake", "done"}

Init ==
  /\ TransportInit
  /\ pc = [c \in Calls |-> "idle"] /\ reply = [c \in Calls |-> "none"]
  /\ pending = {} /\ initialized = FALSE
  /\ reader = "off" /\ frame = NoFrame /\ failing = {}
  /\ closed = FALSE /\ closePc = "idle" /\ closing = {}

Goto(c, label) == pc' = [pc EXCEPT ![c] = label]

(***************************************************************************)
(* Calls.                                                                  *)
(***************************************************************************)
(* Initialize: refused on a closed client, or when the transport's Start   *)
(* fails; otherwise the read loop is started and the call made.  The       *)
(* streamable transport has nothing to open yet.                           *)
Initialize ==
  /\ pc[Hello] = "idle"
  /\ \/ /\ ~closed
        /\ OpenStream \/ Spawn \/ (Http /\ UNCHANGED transportVars)
        /\ reader' = "recv"
        /\ Goto(Hello, "begun")
     \/ /\ Goto(Hello, "failed")
        /\ UNCHANGED <<transportVars, reader>>
  /\ UNCHANGED <<reply, pending, initialized, frame, failing, closeVars>>

(* ensureInitialized, and call's first test of closed.                     *)
Begin(c) ==
  /\ pc[c] = "idle" /\ c # Hello
  /\ Goto(c, IF closed \/ ~initialized THEN "failed" ELSE "begun")
  /\ UNCHANGED <<transportVars, reply, pending, initialized, readVars, closeVars>>

(* Mutant: closed is not tested again under the lock.                      *)
RegisterUnchecked(c) ==
  /\ pc[c] = "begun"
  /\ Goto(c, "sending")
  /\ reply' = [reply EXCEPT ![c] = "open"]
  /\ pending' = pending \cup {c}
  /\ UNCHANGED <<transportVars, initialized, readVars, closeVars>>

(* The reply channel is made and registered under the lock.                *)
Register(c) ==
  /\ pc[c] = "begun"
  /\ IF closed
     THEN Goto(c, "failed") /\ UNCHANGED <<reply, pending>>
     ELSE /\ Goto(c, "sending")
          /\ reply' = [reply EXCEPT ![c] = "open"]
          /\ pending' = pending \cup {c}
  /\ UNCHANGED <<transportVars, initialized, readVars, closeVars>>

(* Mutant: Send does not look at the transport's closed flag.              *)
SendAnyway(c) ==
  /\ pc[c] = "sending" /\ Goto(c, "posting")
  /\ UNCHANGED <<transportVars, reply, pending, initialized, readVars, closeVars>>

(* transport.Send refuses on a closed transport: removePending.            *)
Send(c) ==
  /\ pc[c] = "sending"
  /\ IF tclosed THEN Goto(c, "failed") /\ pending' = pending \ {c}
                ELSE Goto(c, "posting") /\ UNCHANGED pending
  /\ UNCHANGED <<transportVars, reply, initialized, readVars, closeVars>>

(* The server has the request before its response's headers are back.      *)
Arrive(c) ==
  /\ ~Stdio
  /\ pc[c] = "posting" /\ server[c] = "none"
  /\ server' = [server EXCEPT ![c] = "owed"]
  /\ UNCHANGED <<flagVars, inbound, getVars, postPc, panicked, clientVars>>

(* Mutant: a POST does not look at the call's context.                     *)
PostIgnoresContext(c) ==
  /\ pc[c] = "posting" /\ Stdio /\ WriteFails
  /\ Goto(c, "failed") /\ pending' = pending \ {c}
  /\ UNCHANGED <<transportVars, reply, initialized, readVars, closeVars>>

(* The POST failed, or its context ended first; the write to the process   *)
(* failed: removePending.                                                  *)
PostFails(c) ==
  /\ pc[c] = "posting" /\ postPc[c] \notin {"sending", "done"}
  /\ Stdio => WriteFails
  /\ Goto(c, "failed") /\ pending' = pending \ {c}
  /\ postPc' = IF postPc[c] = "off" THEN postPc
                                    ELSE [postPc EXCEPT ![c] = "done"]
  /\ IF Http /\ postPc[c] = "off"
     THEN MaybeStartNotifGet \/ UNCHANGED getVars
     ELSE UNCHANGED getVars
  /\ UNCHANGED <<flagVars, inbound, server, panicked, reply, initialized,
                 readVars, closeVars>>

(* SSE: 202, the answer to come on the GET stream; or a stream of its own, *)
(* drained by a new goroutine that postDrainWG counts.                     *)
PostAccepted(c) ==
  /\ Sse /\ pc[c] = "posting" /\ server[c] # "none"
  /\ Goto(c, "waiting")
  /\ postPc' = IF c \in Streamed THEN [postPc EXCEPT ![c] = "reading"]
                                 ELSE postPc
  /\ UNCHANGED <<flagVars, inbound, server, getVars, panicked, reply,
                 pending, initialized, readVars, closeVars>>

(* Streamable: 200, and Send goes on with the body; 202, or the end of the *)
(* body, and it returns.                                                   *)
PostHasBody(c) ==
  /\ Http /\ pc[c] = "posting" /\ server[c] # "none"
  /\ c \in Streamed /\ postPc[c] = "off"
  /\ postPc' = [postPc EXCEPT ![c] = "reading"]
  /\ UNCHANGED <<flagVars, inbound, server, getVars, panicked, clientVars>>

PostReturns(c) ==
  /\ Http /\ pc[c] = "posting"
  /\ \/ c \notin Streamed /\ server[c] # "none"
     \/ postPc[c] = "done"
  /\ Goto(c, "waiting")
  /\ MaybeStartNotifGet
  /\ UNCHANGED <<flagVars, inbound, server, postPc, panicked, reply, pending,
                 initialized, readVars, closeVars>>

(* Stdio: the line is written, under sendMu.                               *)
Written(c) ==
  /\ Stdio /\ pc[c] = "posting" /\ getPc = "reading" /\ ~cancelled
  /\ server' = [server EXCEPT ![c] = "owed"]
  /\ Goto(c, "waiting")
  /\ UNCHANGED <<flagVars, inbound, getVars, postPc, panicked, reply, pending,
                 initialized, readVars, closeVars>>

(* The select of call: a reply (a result, or the server's error object) or *)
(* a closed channel ...                                                    *)
Return(c) ==
  /\ pc[c] = "waiting" /\ reply[c] \in {"full", "closed"}
  /\ IF reply[c] = "full"
     THEN Goto(c, IF c = Hello THEN "notify" ELSE "ok") \/ Goto(c, "failed")
     ELSE Goto(c, "failed")
  /\ UNCHANGED <<transportVars, reply, pending, initialized, readVars, closeVars>>

(* ... or the end of its context, and then removePending.                  *)
Expire(c) ==
  /\ pc[c] = "waiting"
  /\ Goto(c, "expired")
  /\ UNCHANGED <<transportVars, reply, pending, initialized, readVars, closeVars>>

RemovePending(c) ==
  /\ pc[c] = "expired"
  /\ Goto(c, "failed") /\ pending' = pending \ {c}
  /\ UNCHANGED <<transportVars, reply, initialized, readVars, closeVars>>

(* Initialize's notification and its last section.  The answer of a        *)
(* streamable server to it may be the first POST that succeeds.            *)
Notify ==
  /\ pc[Hello] = "notify"
  /\ \/ /\ ~tclosed
        /\ Goto(Hello, "ok") /\ initialized' = TRUE
        /\ IF Http THEN MaybeStartNotifGet ELSE UNCHANGED getVars
     \/ /\ Goto(Hello, "failed")
        /\ UNCHANGED <<initialized, getVars>>
  /\ UNCHANGED <<flagVars, inbound, server, postPc, panicked, reply, pending,
                 readVars, closeVars>>

(***************************************************************************)
(* The read loop.                                                          *)
(***************************************************************************)
(* Recv, and dispatch's section: the entry is looked up and deleted, an    *)
(* answer nobody waits for is dropped.                                     *)
Dispatch ==
  /\ reader = "recv" /\ inbound # <<>>
  /\ inbound' = Tail(inbound)
  /\ IF Head(inbound) \in pending
     THEN /\ reader' = "deliver" /\ frame' = Head(inbound)
          /\ pending' = pending \ {Head(inbound)}
     ELSE UNCHANGED <<reader, frame, pending>>
  /\ UNCHANGED <<flagVars, server, getVars, postPc, panicked, pc, reply,
                 initialized, failing, closeVars>>

Deliver ==
  /\ reader = "deliver"
  /\ reply' = [reply EXCEPT ![frame] = "full"]
  /\ reader' = "recv" /\ frame' = NoFrame
  /\ UNCHANGED <<transportVars, pc, pending, initialized, failing, closeVars>>

(* Recv returns EOF once inbound is closed and empty, or fails.            *)
RecvEOF ==
  /\ reader = "recv"
  /\ (inbound = <<>> /\ inboundClosed) \/ ReadFails
  /\ reader' = "eof"
  /\ UNCHANGED <<transportVars, callVars, initialized, frame, failing, closeVars>>

(* Mutant: the calls failAll wakes stay in the map.                        *)
FailAllKeepsPending ==
  /\ reader = "eof"
  /\ failing' = pending /\ reader' = "failing"
  /\ UNCHANGED <<transportVars, callVars, initialized, frame, closeVars>>

(* failAll: the pending calls are taken over, then woken one by one.       *)
FailAll ==
  /\ reader = "eof"
  /\ failing' = pending /\ pending' = {} /\ reader' = "failing"
  /\ UNCHANGED <<transportVars, pc, reply, initialized, frame, closeVars>>

FailOne ==
  /\ reader = "failing"
  /\ IF failing = {}
     THEN reader' = "done" /\ UNCHANGED <<reply, failing>>
     ELSE \E c \in failing :
            /\ reply' = [reply EXCEPT ![c] = "closed"]
            /\ failing' = failing \ {c}
            /\ UNCHANGED reader
  /\ UNCHANGED <<transportVars, pc, pending, initialized, frame, closeVars>>

(***************************************************************************)
(* Close.  The program closes a client once Initialize has returned: after *)
(* a failure, in the goroutine that called it, and at shutdown after       *)
(* waiting for those goroutines.                                           *)
(***************************************************************************)
CloseClient ==
  /\ closePc = "idle" /\ pc[Hello] \in {"ok", "failed"}
  /\ closed' = TRUE /\ closing' = pending /\ pending' = {} /\ closePc' = "swap"
  /\ UNCHANGED <<transportVars, pc, reply, initialized, readVars>>

(* transport.Close: nothing more to do when the transport is closed, or    *)
(* the process was never started.                                          *)
CloseSwap ==
  /\ closePc = "swap"
  /\ tclosed' = TRUE
  /\ closePc' = IF tclosed \/ (Stdio /\ getPc = "off") THEN "wake" ELSE "cancel"
  /\ UNCHANGED <<transport, cancelled, inboundClosed, closer, inbound, server,
                 getVars, postPc, panicked, callVars, initialized, readVars,
                 closed, closing>>

(* The HTTP transports leave the rest to a goroutine, stdio waits for the  *)
(* process.                                                                *)
CloseTransport ==
  /\ closePc = "cancel"
  /\ CloseCancel
  /\ closePc' = IF Stdio THEN "reap" ELSE "wake"
  /\ UNCHANGED <<callVars, initialized, readVars, closed, closing>>

CloseWaits ==
  /\ closePc = "reap"
  /\ CloseReap
  /\ closePc' = "wake"
  /\ UNCHANGED <<callVars, initialized, readVars, closed, closing>>

CloseWake ==
  /\ closePc = "wake"
  /\ IF closing = {}
     THEN closePc' = "done" /\ UNCHANGED <<reply, closing>>
     ELSE \E c \in closing :
            /\ reply' = [reply EXCEPT ![c] = "closed"]
            /\ closing' = closing \ {c}
            /\ UNCHANGED closePc
  /\ UNCHANGED <<transportVars, pc, pending, initialized, readVars, closed>>

CallStep(c) ==
  \/ Begin(c) \/ Register(c) \/ Send(c) \/ Arrive(c) \/ PostFails(c)
  \/ PostAccepted(c) \/ PostHasBody(c) \/ PostReturns(c) \/ Written(c)
  \/ Return(c) \/ Expire(c) \/ RemovePending(c)

ReadStep == Dispatch \/ Deliver \/ RecvEOF \/ FailAll \/ FailOne

CloseStep ==
  CloseClient \/ CloseSwap \/ CloseTransport \/ CloseWaits \/ CloseWake

TransportStep == (SseStep \/ HttpStep \/ StdioStep) /\ UNCHANGED clientVars

Next ==
  /\ ~panicked
  /\ \/ Initialize \/ Notify \/ ReadStep \/ CloseStep
     \/ \E c \in Calls : CallStep(c)
     \/ TransportStep

Spec == Init /\ [][Next]_vars

(***************************************************************************)
(* Fairness: a goroutine that can go on does; the client is not bound to   *)
(* make a call or to close.  A stream ends when its context is cancelled,  *)
(* not of itself: the server may keep it open.  A process ends once Close  *)
(* has begun: SIGKILL is the last resort.  A call over HTTP ends with its  *)
(* context, which the request timeout bounds.                              *)
(***************************************************************************)
Going(A) == ~panicked /\ A

CallGoesOn(c) ==
  \/ Register(c) \/ Send(c) \/ PostFails(c) \/ PostReturns(c)
  \/ Return(c) \/ Expire(c) \/ RemovePending(c)
  \/ ~Stdio /\ c = Hello /\ Notify

Fairness ==
  /\ WF_vars(Going(ReadStep))
  /\ WF_vars(Going(CloseSwap \/ CloseTransport \/ CloseWaits \/ CloseWake))
  /\ WF_vars(Going((CloserClose \/ SleepThenClose \/ Reap \/ (cancelled /\ Exit))
                   /\ UNCHANGED clientVars))
  /\ WF_vars(Going((GetSend \/ GiveUp \/ GiveUpClose \/ Reconnect)
                   /\ UNCHANGED clientVars))
  /\ \A c \in Calls :
       /\ WF_vars(Going(CallGoesOn(c)))
       /\ WF_vars(Going((PostSend(c) \/ BodySend(c)) /\ UNCHANGED clientVars))
       /\ WF_vars(Going(cancelled /\ PostEnd(c) /\ UNCHANGED clientVars))

FairSpec == Spec /\ Fairness

(***************************************************************************)
(* Properties.                                                             *)
(***************************************************************************)
(* Every reply channel belongs to one party at a time: the map, the        *)
(* dispatcher, failAll or Close.  So none is sent on after its close,      *)
(* filled twice, or closed twice, whichever of timeout, answer, end of the *)
(* read loop and Close come first.                                         *)
Owners(c) ==
  {o \in {"map", "dispatch", "failAll", "close"} :
     \/ o = "map" /\ c \in pending
     \/ o = "dispatch" /\ reader = "deliver" /\ frame = c
     \/ o = "failAll" /\ c \in failing
     \/ o = "close" /\ c \in closing}

OneOwnerPerReply ==
  \A c \in Calls :
    /\ \A o1, o2 \in Owners(c) : o1 = o2
    /\ Owners(c) # {} => reply[c] = "open"

(* A call that waits has someone bound to wake it: an entry is in the map  *)
(* only while the read loop still looks at the map.  A call made after the *)
(* loop has ended is refused by the transport, not left to its timeout.    *)
WaiterHasAWaker ==
  \A c \in Calls : pc[c] = "waiting" /\ reply[c] = "open" =>
    /\ Owners(c) # {}
    /\ c \in pending => reader \in {"recv", "deliver", "eof"}

(* Close stops the read loop: the POST drains end, or the process does,    *)
(* inbound is closed, and the loop reads what is left and fails the rest.  *)
(* (Both ends are for good, so this is `closed leads to stopped'.)         *)
CloseStopsReader ==
  <>[](closePc = "done" => panicked \/ reader \in {"off", "done"})

(* A call that has begun returns, whether or not it is answered, also when *)
(* the server goes silent in the middle of a response, the GET stream is   *)
(* given up, or Close runs.  Only a write to a process that does not read  *)
(* may last: it does not look at the context.  (A call is made once.)      *)
CallsReturn ==
  <>[] \A c \in Calls : \/ pc[c] \in {"idle", "ok", "failed"} \/ panicked
                        \/ Stdio /\ pc[c] \in {"posting", "notify"}

(* The comment of call: it respects the context and the request timeout.   *)
(* Refuted over stdio, whose Send ignores its context.                     *)
TimeoutEndsCall ==
  <>[] \A c \in Calls : pc[c] \in {"idle", "ok", "failed"} \/ panicked

(* The comment in Close: inbound is closed after the drains have stopped,  *)
(* so that no send can race with the close.                                *)
NoSendOnClosedInbound == ~panicked

Contract == INSTANCE Rpc WITH
  fresh <- {c \in Calls : pc[c] \in {"idle", "begun"}},
  open <- {c \in Calls : pc[c] \in {"sending", "posting", "waiting", "expired",
                                    "notify"}},
  answered <- {c \in Calls : server[c] = "answered"},
  succeeded <- {c \in Calls : pc[c] = "ok"},
  failed <- {c \in Calls : pc[c] = "failed"},
  shut <- closed

(* The client implements Rpc: a call returns once, with an answer to its   *)
(* own request, and none is opened after Close.                            *)
ImplementsRpc == Contract!Spec
=============================================================================
