--------------------------- MODULE MCSkillFiles ----------------------------
(* A small instance of SkillFiles for TLC: a skill and a plugin's skill,   *)
(* which a frontmatter may both call "a".                                  *)
EXTENDS SkillFiles, TLC

CONSTANTS p, q

MCNames   == <<"a", "x:a">>
MCBare(n) == "a"

\* A directory for each path and one for neither, each with a file of its own,
\* or one file linked from both.
MCTrees ==
  {[dir     |-> (p :> 1) @@ (q :> 2),
    held    |-> <<1, f, 3>>,
    content |-> <<<<"a", "a">>, <<"a", "b">>, <<"a", "b", "b">>>>] : f \in {1, 2}}

\* No entry, two for one name or two, or three for one name, by priority.
MCLists ==
  {<<>>} \cup
  {<<[name |-> "a", path |-> p, priority |-> i],
     [name |-> n, path |-> r, priority |-> 1]>> :
        i \in 0..2, n \in {"a", "x:a"}, r \in {p, q}}
  \cup {<<[name |-> "a", path |-> p, priority |-> i],
          [name |-> "a", path |-> q, priority |-> j],
          [name |-> "a", path |-> p, priority |-> 1]>> : i, j \in 0..2}
=============================================================================
