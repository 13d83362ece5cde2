-------------------------------- MODULE MCMcp --------------------------------
(* Instances of McpClient for TLC.                                         *)
EXTENDS McpClient

CONSTANTS hello, c1, c2
=============================================================================
