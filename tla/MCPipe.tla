------------------------------- MODULE MCPipe ------------------------------
(* The instance of Pipe for TLC; the constants are given in MCPipe.cfg.    *)
EXTENDS Pipe
=============================================================================
