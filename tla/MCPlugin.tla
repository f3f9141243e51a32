------------------------------- MODULE MCPlugin -------------------------------
(***************************************************************************)
(* Plugin with two instances, two callbacks and two checks.                *)
(***************************************************************************)
EXTENDS Plugin, Limits

CONSTANTS i1, i2, c1, c2, plain, other, secret

\* The same call with other arguments, the same arguments in another call, one
\* without a session, one with a secret, one of the plugin's own tool.
const_ToolCalls ==
  LET make(own, args, id, identified) ==
        [own |-> own, args |-> args, id |-> id, identified |-> identified]
  IN {make(FALSE, plain, 1, TRUE), make(FALSE, other, 1, TRUE),
      make(FALSE, plain, 2, TRUE), make(FALSE, plain, 1, FALSE),
      make(FALSE, secret, 1, TRUE), make(TRUE, plain, 1, TRUE)}

const_Checks == <<"exfiltration", "destruction">>

\* Guarding on a reviewed host; on one that cannot unload and refuses a hook,
\* with suggestions on.
const_Contexts ==
  LET make(can, refused, suggesting) ==
        [harness |-> TRUE, unload |-> can, refused |-> refused,
         preLlm |-> suggesting, guard |-> TRUE]
  IN {make(TRUE, {}, FALSE), make(FALSE, {"final"}, TRUE)}

\* Heaps of three containers that may contain each other and themselves.
const_Heaps ==
  LET boxes(kinds, n, values) ==
        [kind : kinds, items : UNION {[1..k -> values] : k \in 0..n}]
      containers == {"state", "questions", "third"}
  IN [state     : boxes({"list", "dict"}, 3, containers \cup {"ok"})
                    \cup boxes({"oddKeys"}, 1, {"ok", "odd"}),
      questions : boxes({"list", "dict"}, 2, containers \cup {"ok"}),
      third     : boxes({"list", "dict", "oddKeys"}, 1, {"third", "ok", "odd"})]

Symm == Permutations({i1, i2}) \cup Permutations({c1, c2})
=============================================================================
