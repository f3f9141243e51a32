--------------------------- MODULE MCPreLlmHook ---------------------------
(* A small instance of PreLlmHook for TLC.                                 *)
EXTENDS PreLlmHook

\* Two models: the efforts of one are not well formed, the other is configured
\* for one reasoning effort of two.
MCModels ==
  [l \in {"cheap", "coding"} |->
     [identity |-> l, default |-> "high",
      allowed |-> IF l = "cheap" THEN <<"high", "low", "high">> ELSE <<"high">>]]
=============================================================================
