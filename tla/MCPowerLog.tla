------------------------------ MODULE MCPowerLog ------------------------------
(* Small instances of PowerLog: buffers of two samples, three writers. *)
EXTENDS PowerLog

=============================================================================
