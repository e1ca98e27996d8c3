---------------------------- MODULE MCWriteLog ----------------------------
(* Small instances of WriteLog for TLC.                                    *)
EXTENDS WriteLog, TLC

CONSTANTS
  w1, w2,  \* writes
  h1, h2,  \* operations
  r1, r2   \* readers

\* The inner call of h2 reverts; the check may do anything with its body.
MCOpOf == (w1 :> h1) @@ (w2 :> h2)
MCPolicyOf == (w1 :> {"allowed"}) @@ (w2 :> Verdicts)
=============================================================================
