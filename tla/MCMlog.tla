-------------------------------- MODULE MCMlog --------------------------------
(* An instance of MlogPasses for TLC: all short programs over two sets of  *)
(* nodes, one for the labels and assertions, one for the saved variables.  *)
EXTENDS MlogProps

Node(k, l, v, f, m) == [kind |-> k, label |-> l, var |-> v, from |-> f, n |-> m]

LabelNodes ==
  {Node(k, l, None, None, 0) : k \in {"label", "jump"}, l \in Labels}
    \union {Node(k, None, None, None, 0) : k \in {"plain", "end_assert_length"}}
    \union {Node("start_assert_length", None, None, None, m) : m \in {-1, 1, 2}}
    \union {Node("assert_counter", None, None, None, 1)}

SavedNodes ==
  {Node(k, None, None, None, 0) : k \in {"start_fetch", "end_fetch"}}
    \union {Node("fetch", None, v, f, 0) : v \in Variables, f \in Variables}
    \union {Node(k, None, v, None, 0) : k \in {"write", "push_saved", "pop_saved"}, v \in Variables}

Kept(tree) == Len(tree) >= 2 /\ tree[1].kind = "start_fetch" /\ tree[Len(tree)].kind # "end_fetch"

AllPrograms ==
  UNION {[1..k -> LabelNodes] : k \in 0..4}
    \union {t \in UNION {[1..k -> SavedNodes] : k \in 2..5} : Kept(t)}
===============================================================================
