------------------------------- MODULE Limits -------------------------------
(***************************************************************************)
(* The bounded walk of limits.py over what a caller gives, which may share *)
(* containers and contain itself, and preflight_request, which walks the   *)
(* state alone and then the envelope with everything in it.                *)
(*                                                                         *)
(* A value is "ok", "odd" (a scalar that _check_scalar refuses, or an      *)
(* object of another type) or the identity of a container in the heap:     *)
(* [kind |-> "list", "dict" or "oddKeys", items |-> its values].  Encoded  *)
(* sizes and what _questions asks of a question are left out.              *)
(***************************************************************************)
EXTENDS Naturals, SequencesExt

CONSTANTS
  MaxDepth, MaxNodes, MaxItems,    \* MAX_CONTAINER_DEPTH, _JSON_NODES, _ITEMS
  Heaps                            \* with "state" and "questions" among others

Scalars == {"ok", "odd"}

\* A count of nodes that no walk goes on from.
Refused == MaxNodes + 1

\* The node an item's key costs, in a dict.
CountKey(heap, v, nodes) ==
  IF nodes = Refused \/ heap[v].kind = "list" THEN nodes
  ELSE IF heap[v].kind = "oddKeys" \/ nodes + 1 > MaxNodes THEN Refused
  ELSE nodes + 1

\* _walk_json: walk.nodes when it returns, or Refused.
RECURSIVE Walk(_, _, _, _, _)
Walk(heap, v, depth, nodes, active) ==
  IF nodes + 1 > MaxNodes \/ v = "odd" THEN Refused
  ELSE IF v \in Scalars THEN nodes + 1
  ELSE IF depth > MaxDepth \/ Len(heap[v].items) > MaxItems \/ v \in active
  THEN Refused
  ELSE FoldLeft(LAMBDA n, item :
                  LET counted == CountKey(heap, v, n) IN
                  IF counted = Refused THEN Refused
                  ELSE Walk(heap, item, depth + 1, counted, active \cup {v}),
                nodes + 1, heap[v].items)

\* {"state": state, "questions": questions, "model": model}
Envelope(heap) ==
  [id \in DOMAIN heap \cup {"envelope"} |->
     IF id \in DOMAIN heap THEN heap[id]
     ELSE [kind |-> "dict", items |-> <<"state", "questions", "ok">>]]

Preflight(heap) ==
  /\ Walk(heap, "state", 0, 0, {}) # Refused
  /\ Walk(Envelope(heap), "envelope", 0, 0, {}) # Refused

-----------------------------------------------------------------------------
(* What the limits mean: the value written out as a tree, in which what is *)
(* shared stands at every place it is reached from.                        *)

\* The value at a place, a sequence of positions; "none" if there is none.
Place(heap, v, place) ==
  FoldLeft(LAMBDA w, i : IF w \in Scalars \cup {"none"} THEN "none"
                         ELSE IF i \in DOMAIN heap[w].items
                         THEN heap[w].items[i] ELSE "none",
           v, place)

\* The places down to one below the deepest a container may have.
Tree(heap, v) ==
  LET widest == 1..(MaxItems + 1)
      all == UNION {[1..n -> widest] : n \in 0..(MaxDepth + 1)} IN
  {place \in all : Place(heap, v, place) # "none"}

Bounded(heap, v) ==
  LET tree == Tree(heap, v)
      value == [place \in tree |-> Place(heap, v, place)]
      inner == {place \in tree : value[place] \notin Scalars}
      keyed == {place \in tree : /\ Len(place) > 0
                                 /\ heap[value[Front(place)]].kind = "dict"} IN
  /\ \A place \in inner : /\ Len(place) <= MaxDepth
                          /\ Len(heap[value[place]].items) <= MaxItems
                          /\ heap[value[place]].kind = "oddKeys"
                               => heap[value[place]].items = <<>>
  /\ \A place \in tree : value[place] # "odd"
  /\ Cardinality(tree) + Cardinality(keyed) <= MaxNodes

\* preflight_request accepts a state exactly if the request, written out as
\* the tree it is on the wire, keeps the limits: a container that contains
\* itself is never accepted and never followed without end, and a shared one is
\* accepted but counted each time.  TLC evaluates it over the given heaps.
ASSUME PreflightKeepsLimits ==
  \A heap \in Heaps : Preflight(heap) <=> Bounded(Envelope(heap), "envelope")
=============================================================================
