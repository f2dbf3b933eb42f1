----------------------------- MODULE MCDebugSession -----------------------------
(* One instruction that can have a breakpoint.                                   *)
EXTENDS DebugSession
================================================================================
