---------------------------- MODULE McpTransport ----------------------------
(***************************************************************************)
(* What the three transports of an MCP connection share (src/internal/mcp: *)
(* sse.go, streamable.go, stdio.go).  A run has one, chosen at the start.  *)
(*                                                                         *)
(* Frames reach the client through one bounded queue, inbound: a Go        *)
(* channel of the HTTP transports, the pipe of stdio.  A frame is an       *)
(* answer, named by the call it answers.  What the server does is external: *)
(* it answers a request it has received at most once, at any time, on the  *)
(* long-lived GET stream (or standard output) or on the request's own POST *)
(* response.                                                               *)
(***************************************************************************)
EXTENDS Naturals, Sequences

CONSTANTS
  Transports,     \* the transports a run may use
  Calls,          \* requests of a run
  Streamed,       \* those the server answers on their own POST response
  InboundCap,     \* capacity of inbound (64 in the code)
  MaxReconnects   \* SSEOptions.MaxReconnects, StreamableOptions.MaxReconnects

ASSUME TransportsAssumption == Transports \subseteq {"sse", "http", "stdio"}
ASSUME StreamedAssumption == Streamed \subseteq Calls
ASSUME CapAssumption == InboundCap \in Nat \ {0}
ASSUME ReconnectsAssumption == MaxReconnects \in Nat

VARIABLES
  transport,      \* the transport of this connection
  tclosed,        \* the transport's closed flag
  cancelled,      \* Close has cancelled the streams (stdio: closed stdin)
  inbound,        \* the frames queued
  inboundClosed,  \* the channel (stdio: the pipe's reading end) is closed
  server,         \* external: what the server knows of each request
  getPc,          \* where the GET goroutine (stdio: the process) is
  getFrame,       \* the frame it holds between its check and its send
  reconnects,     \* the count of the GET goroutine
  postPc,         \* where the reader of a POST response is
  closer,         \* where the goroutine started by Close is
  panicked        \* a goroutine has sent on the closed channel

flagVars == <<transport, tclosed, cancelled, inboundClosed, closer>>
getVars == <<getPc, getFrame, reconnects>>
transportVars ==
  <<flagVars, inbound, server, getVars, postPc, panicked>>

NoFrame == "none"

TransportTypeOK ==
  /\ transport \in Transports
  /\ {tclosed, cancelled, inboundClosed, panicked} \subseteq BOOLEAN
  /\ inbound \in Seq(Calls) /\ Len(inbound) <= InboundCap
  /\ server \in [Calls -> {"none", "owed", "answered"}]
  /\ getPc \in {"off", "reading", "sending", "giveup", "closing", "backoff",
                "done"}
  /\ getFrame \in Calls \cup {NoFrame}
  /\ reconnects \in 0 .. MaxReconnects
  /\ postPc \in [Calls -> {"off", "reading", "sending", "failed", "done"}]
  /\ closer \in {"off", "waiting", "done"}

TransportInit ==
  /\ transport \in Transports
  /\ tclosed = FALSE /\ cancelled = FALSE /\ inboundClosed = FALSE
  /\ inbound = <<>> /\ server = [c \in Calls |-> "none"]
  /\ getPc = "off" /\ getFrame = NoFrame /\ reconnects = 0
  /\ postPc = [c \in Calls |-> "off"]
  /\ closer = "off" /\ panicked = FALSE

Answers(c) ==
  /\ server[c] = "owed"
  /\ server' = [server EXCEPT ![c] = "answered"]

(* `t.inbound <- data` in a select, the other case being a context that has *)
(* ended: Go picks any case that is ready, and a send on a closed channel  *)
(* counts as ready.                                                        *)
SelectSend(frame, ended, Sent, Left) ==
  \/ /\ ~inboundClosed /\ Len(inbound) < InboundCap
     /\ inbound' = Append(inbound, frame)
     /\ Sent
     /\ UNCHANGED panicked
  \/ /\ inboundClosed
     /\ panicked' = TRUE
     /\ Left
     /\ UNCHANGED inbound
  \/ /\ ended
     /\ Left
     /\ UNCHANGED <<inbound, panicked>>

(***************************************************************************)
(* The GET goroutine, alike in drainStream and runNotifGet.                *)
(***************************************************************************)
(* A message event has been read; closed is loaded before the send.        *)
StreamRead(c) ==
  /\ getPc = "reading" /\ c \notin Streamed /\ Answers(c)
  /\ IF tclosed THEN getPc' = "done" /\ UNCHANGED getFrame
                ELSE getPc' = "sending" /\ getFrame' = c
  /\ UNCHANGED <<flagVars, inbound, reconnects, postPc, panicked>>

StreamSend ==
  /\ getPc = "sending"
  /\ SelectSend(getFrame, cancelled, getPc' = "reading", getPc' = "done")
  /\ getFrame' = NoFrame
  /\ UNCHANGED <<flagVars, server, reconnects, postPc>>

(* The stream ended, or could not be opened, or its context was cancelled. *)
StreamEnd(exhausted) ==
  /\ getPc = "reading"
  /\ getPc' = CASE tclosed \/ cancelled -> "done"
                [] OTHER -> IF reconnects >= MaxReconnects THEN exhausted
                                                           ELSE "backoff"
  /\ UNCHANGED <<flagVars, inbound, server, getFrame, reconnects, postPc,
                 panicked>>

(* The timer, then a new GET; or the end of the context.                   *)
StreamRetry ==
  /\ getPc = "backoff"
  /\ \/ /\ cancelled /\ getPc' = "done" /\ UNCHANGED reconnects
     \/ /\ getPc' = "reading" /\ reconnects' = reconnects + 1
  /\ UNCHANGED <<flagVars, inbound, server, getFrame, postPc, panicked>>

(***************************************************************************)
(* Close, after the flag has been set: the streams are cancelled and a     *)
(* goroutine is left to close inbound.                                     *)
(***************************************************************************)
(* Mutant: Close leaves the streams open.                                  *)
CloseCancelsNothing ==
  /\ closer' = "waiting"
  /\ UNCHANGED <<transport, tclosed, cancelled, inboundClosed, inbound,
                 server, getVars, postPc, panicked>>

CloseCancel ==
  /\ cancelled' = TRUE /\ closer' = "waiting"
  /\ UNCHANGED <<transport, tclosed, inboundClosed, inbound, server, getVars,
                 postPc, panicked>>

CloseInbound ==
  /\ closer = "waiting"
  /\ inboundClosed' = TRUE /\ closer' = "done"
  /\ UNCHANGED <<transport, tclosed, cancelled, inbound, server, getVars,
                 postPc, panicked>>
=============================================================================
