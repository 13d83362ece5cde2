--------------------------------- MODULE Rpc ---------------------------------
(***************************************************************************)
(* What an MCP client promises its callers (Client.call and Client.Close,  *)
(* src/internal/mcp/client.go), without channels, goroutines or transport: *)
(*   - a call returns once, with an answer the server gave to that call or *)
(*     with a failure;                                                     *)
(*   - no call is opened on a closed client.                               *)
(***************************************************************************)
CONSTANT Calls   \* the calls of a run; a call stands for the id it draws

VARIABLES
  fresh,      \* not made yet
  open,       \* made, not returned
  answered,   \* the server has answered
  succeeded,  \* returned the answer
  failed,     \* returned an error
  shut        \* Close has been called

rpcVars == <<fresh, open, answered, succeeded, failed, shut>>

Init ==
  /\ fresh = Calls
  /\ open = {} /\ answered = {} /\ succeeded = {} /\ failed = {}
  /\ shut = FALSE

Open(c) ==
  /\ c \in fresh /\ ~shut
  /\ fresh' = fresh \ {c} /\ open' = open \cup {c}
  /\ UNCHANGED <<answered, succeeded, failed, shut>>

Answer(c) ==
  /\ c \notin fresh
  /\ answered' = answered \cup {c}
  /\ UNCHANGED <<fresh, open, succeeded, failed, shut>>

Succeed(c) ==
  /\ c \in open \cap answered
  /\ open' = open \ {c} /\ succeeded' = succeeded \cup {c}
  /\ UNCHANGED <<fresh, answered, failed, shut>>

Fail(c) ==
  /\ c \in fresh \cup open
  /\ fresh' = fresh \ {c} /\ open' = open \ {c} /\ failed' = failed \cup {c}
  /\ UNCHANGED <<answered, succeeded, shut>>

Shut ==
  /\ shut' = TRUE
  /\ UNCHANGED <<fresh, open, answered, succeeded, failed>>

Next == Shut \/ \E c \in Calls : Open(c) \/ Answer(c) \/ Succeed(c) \/ Fail(c)

Spec == Init /\ [][Next]_rpcVars
=============================================================================
