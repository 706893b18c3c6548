--------------------------- MODULE MCProcessSlots ---------------------------
(* A small instance of ProcessSlots for TLC: two of three pids coincide.      *)
EXTENDS ProcessSlots, TLC

CONSTANTS p1, p2, p3, h1

MCProc == {p1, p2, p3}
MCPidOf == p1 :> 1 @@ p2 :> 1 @@ p3 :> 2
============================================================================
