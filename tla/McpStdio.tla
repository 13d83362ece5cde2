------------------------------ MODULE McpStdio ------------------------------
(***************************************************************************)
(* The stdio transport (src/internal/mcp/stdio.go): a child process and    *)
(* its two pipes.  getPc is the process ("reading" while it runs), inbound *)
(* the pipe of its standard output, inboundClosed that its reading end is  *)
(* closed.  The goroutine that waits for the process closes that end as    *)
(* soon as the process has exited, whether or not it has been read.        *)
(***************************************************************************)
EXTENDS McpTransport

CONSTANT BadFrames   \* a line may be longer than maxFrameSize

ASSUME BadFramesAssumption == BadFrames \in BOOLEAN

Stdio == transport = "stdio"

(* Start: the process is spawned and a goroutine waits for it.             *)
Spawn ==
  /\ Stdio
  /\ getPc' = "reading"
  /\ UNCHANGED <<flagVars, inbound, server, getFrame, reconnects, postPc,
                 panicked>>

(* External: the process writes an answer once there is room in the pipe.  *)
ServerWrites(c) ==
  /\ Stdio /\ getPc = "reading" /\ Answers(c)
  /\ Len(inbound) < InboundCap /\ inbound' = Append(inbound, c)
  /\ UNCHANGED <<flagVars, getVars, postPc, panicked>>

(* External: it exits, by itself, because its input ended, or killed.      *)
Exit ==
  /\ Stdio /\ getPc = "reading"
  /\ getPc' = "done"
  /\ UNCHANGED <<flagVars, inbound, server, getFrame, reconnects, postPc,
                 panicked>>

(* cmd.Wait returns: what the buffered reader has not taken is lost.       *)
Reap ==
  /\ Stdio /\ getPc = "done" /\ ~inboundClosed
  /\ inboundClosed' = TRUE
  /\ \E n \in 0 .. Len(inbound) : inbound' = SubSeq(inbound, 1, n)
  /\ UNCHANGED <<transport, tclosed, cancelled, closer, server, getVars,
                 postPc, panicked>>

(* Recv fails at the end of the pipe, or on a line that is too long.       *)
ReadFails ==
  /\ Stdio
  /\ \/ inbound = <<>> /\ getPc = "done"
     \/ BadFrames

(* A write to a process that is gone, or to the pipe Close has closed,     *)
(* fails; another waits until the process has read it, without a timeout.  *)
WriteFails == Stdio /\ (getPc # "reading" \/ cancelled)

(* Close waits for waitDone: three seconds, SIGTERM, three more, SIGKILL.  *)
CloseReap ==
  /\ Stdio /\ closer = "waiting" /\ inboundClosed
  /\ closer' = "done"
  /\ UNCHANGED <<transport, tclosed, cancelled, inboundClosed, inbound,
                 server, getVars, postPc, panicked>>

StdioStep ==
  \/ Exit \/ Reap \/ \E c \in Calls : ServerWrites(c)
=============================================================================
