------------------------------- MODULE McpSse -------------------------------
(***************************************************************************)
(* The SSE transport (src/internal/mcp/sse.go).  Frames come from the GET  *)
(* goroutine, which reopens its stream a bounded number of times, and from *)
(* one goroutine per POST whose response is a stream.  inbound is closed   *)
(* by the GET goroutine when it gives up, or by a goroutine that Close     *)
(* starts.                                                                 *)
(***************************************************************************)
EXTENDS McpTransport

Sse == transport = "sse"

(* Start: the handshake has delivered the endpoint event.                  *)
OpenStream ==
  /\ Sse
  /\ getPc' = "reading"
  /\ UNCHANGED <<flagVars, inbound, server, getFrame, reconnects, postPc,
                 panicked>>

(* drainStream.                                                            *)
GetRead(c) == Sse /\ StreamRead(c)
GetSend == Sse /\ StreamSend
GetEnd == Sse /\ StreamEnd("giveup")

(* A failed GET is drained by scheduleRetry as an empty stream: one that   *)
(* ends (GetEnd) before it carries anything.                               *)
Reconnect == Sse /\ StreamRetry

(* t.closed.Store(true), and then closeInbound.                            *)
GiveUp ==
  /\ Sse /\ getPc = "giveup"
  /\ tclosed' = TRUE /\ getPc' = "closing"
  /\ UNCHANGED <<transport, cancelled, inboundClosed, closer, inbound, server,
                 getFrame, reconnects, postPc, panicked>>

GiveUpClose ==
  /\ Sse /\ getPc = "closing"
  /\ inboundClosed' = TRUE /\ getPc' = "done"
  /\ UNCHANGED <<transport, tclosed, cancelled, closer, inbound, server,
                 getFrame, reconnects, postPc, panicked>>

(* drainPOSTResponse, one goroutine per request answered with a stream.    *)
PostRead(c) ==
  /\ Sse /\ postPc[c] = "reading" /\ Answers(c)
  /\ postPc' = [postPc EXCEPT ![c] = IF tclosed THEN "done" ELSE "sending"]
  /\ UNCHANGED <<flagVars, inbound, getVars, panicked>>

PostSend(c) ==
  /\ Sse /\ postPc[c] = "sending"
  /\ SelectSend(c, cancelled, postPc' = [postPc EXCEPT ![c] = "reading"],
                              postPc' = [postPc EXCEPT ![c] = "done"])
  /\ UNCHANGED <<flagVars, server, getVars>>

PostEnd(c) ==
  /\ Sse /\ postPc[c] = "reading"
  /\ postPc' = [postPc EXCEPT ![c] = "done"]
  /\ UNCHANGED <<flagVars, inbound, server, getVars, panicked>>

(* Close's goroutine waits for the POST drains.                            *)
CloserClose ==
  /\ Sse
  /\ \A c \in Calls : postPc[c] \notin {"reading", "sending"}
  /\ CloseInbound

SseStep ==
  \/ GetSend \/ GetEnd \/ GiveUp \/ GiveUpClose \/ Reconnect
  \/ CloserClose
  \/ \E c \in Calls : GetRead(c) \/ PostRead(c) \/ PostSend(c) \/ PostEnd(c)
=============================================================================
