--------------------------- MODULE MCDebugConnection ---------------------------
(* Three clients, in turn or at once.                                          *)
EXTENDS DebugConnection

================================================================================
