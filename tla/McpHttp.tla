------------------------------- MODULE McpHttp -------------------------------
(***************************************************************************)
(* The streamable HTTP transport (src/internal/mcp/streamable.go).  The    *)
(* body of a POST is read by the caller itself, inside Send; a GET stream  *)
(* for what the server sends of its own is opened after the first POST     *)
(* that succeeds, and given up silently.  Close leaves ten milliseconds,   *)
(* which is any time, and closes inbound.                                  *)
(***************************************************************************)
EXTENDS McpTransport

Http == transport = "http"

(* maybeStartNotifGet: notifStarted and closed are tested under mu.        *)
MaybeStartNotifGet ==
  /\ getPc' = IF getPc = "off" /\ ~tclosed THEN "reading" ELSE getPc
  /\ UNCHANGED <<getFrame, reconnects>>

(* runNotifGet and retryNotifGet: out of retries the goroutine just ends,  *)
(* as it does when the server does not offer the stream (405).             *)
NotifRead(c) == Http /\ StreamRead(c)
NotifSend == Http /\ StreamSend
NotifEnd == Http /\ StreamEnd("done")
NotifRetry == Http /\ StreamRetry

NotifDisabled ==
  /\ Http /\ getPc = "reading"
  /\ getPc' = "done"
  /\ UNCHANGED <<flagVars, inbound, server, getFrame, reconnects, postPc,
                 panicked>>

(* The body of a POST: one JSON document, or a stream (drainPostSSE).      *)
(* closed is not looked at; the context is the caller's, which may end at  *)
(* any time.                                                               *)
BodyRead(c) ==
  /\ Http /\ postPc[c] = "reading" /\ Answers(c)
  /\ postPc' = [postPc EXCEPT ![c] = "sending"]
  /\ UNCHANGED <<flagVars, inbound, getVars, panicked>>

BodySend(c) ==
  /\ Http /\ postPc[c] = "sending"
  /\ SelectSend(c, TRUE, postPc' = [postPc EXCEPT ![c] = "reading"],
                         postPc' = [postPc EXCEPT ![c] = "failed"])
  /\ UNCHANGED <<flagVars, server, getVars>>

(* The end of the body, or its [DONE] event.                               *)
BodyEnd(c) ==
  /\ Http /\ postPc[c] = "reading"
  /\ postPc' = [postPc EXCEPT ![c] = "done"]
  /\ UNCHANGED <<flagVars, inbound, server, getVars, panicked>>

SleepThenClose == Http /\ CloseInbound

HttpStep ==
  \/ NotifSend \/ NotifEnd \/ NotifRetry \/ NotifDisabled \/ SleepThenClose
  \/ \E c \in Calls : NotifRead(c) \/ BodyRead(c) \/ BodySend(c) \/ BodyEnd(c)
=============================================================================
