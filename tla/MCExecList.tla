------------------------------ MODULE MCExecList ------------------------------
(***************************************************************************)
(* Four nodes, two of one priority: enqueue meets equal, higher and lower  *)
(* priorities, in lists of up to four.                                     *)
(***************************************************************************)
EXTENDS ExecList, TLC

CONSTANTS a, b, c, d

MCPriority == (a :> 5) @@ (b :> 0) @@ (c :> 0) @@ (d :> -10)
=============================================================================
