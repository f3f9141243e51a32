----------------------------- MODULE MCRuntime -----------------------------
(* A small instance of Runtime for TLC.                                    *)
EXTENDS Runtime

CONSTANTS r1, r2, c1, c2, k1, k2

\* Every placement, up to the names of the runtimes and of the close()s, that
\* closes runtimes with a call only: the first call is on r1.
MCPlacements ==
  {p \in [call : [Calls -> Runtimes], close : [Closers -> Runtimes]] :
     /\ p.call[c1] = r1
     /\ \A k \in Closers : \E c \in Calls : p.close[k] = p.call[c]
     /\ p.close[k1] = r2 => p.close[k2] = r2}
=============================================================================
