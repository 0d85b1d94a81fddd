------------------------------ MODULE MlogProps ------------------------------
(* What the passes over a worker promise about the code they accept.       *)
EXTENDS MlogPasses

StatementsBefore(tree, k) == Cardinality({j \in 1..(k - 1) : IsStatement(tree[j])})

(* label l of the tree is at address a: the last node that defines it has  *)
(* a statements before it.                                                 *)
LabelAt(tree, l, a) ==
  \E k \in DOMAIN tree :
    /\ tree[k].kind = "label" /\ tree[k].label = l
    /\ a = StatementsBefore(tree, k)
    /\ \A j \in DOMAIN tree : j > k => ~(tree[j].kind = "label" /\ tree[j].label = l)

Accepted == pass \in {"replace", "verify", "done"}

(* worker_labels holds the address of every label, counted in statements:  *)
(* blank nodes, labels and directives in between do not shift it.          *)
LabelsResolve ==
  Accepted => \A l \in Labels :
    IF \E k \in DOMAIN ast : ast[k].kind = "label" /\ ast[k].label = l
    THEN LabelAt(ast, l, labels[l])
    ELSE labels[l] = -1

Brackets(tree) == {k \in DOMAIN tree : tree[k].kind \in {"start_assert_length", "end_assert_length"}}

(* Code that is accepted has start_assert_length n and end_assert_length   *)
(* in turns, n statements apart: op add ret @counter n returns to the      *)
(* statement after the region.  assert_counter n stands at address n.      *)
LengthsHold ==
  Accepted =>
    /\ \A k \in Brackets(ast) :
         IF ast[k].kind = "start_assert_length"
         THEN \E e \in Brackets(ast) :
                /\ e > k /\ ast[e].kind = "end_assert_length"
                /\ \A j \in Brackets(ast) : ~(k < j /\ j < e)
                /\ StatementsBefore(ast, e) - StatementsBefore(ast, k) = ast[k].n
         ELSE \E s \in Brackets(ast) :
                /\ s < k /\ ast[s].kind = "start_assert_length"
                /\ \A j \in Brackets(ast) : ~(s < j /\ j < k)
    /\ \A k \in DOMAIN ast : ast[k].kind = "assert_counter" => ast[k].n = StatementsBefore(ast, k)

(* The finished code is the original with every reference replaced by the  *)
(* address of its label, and nothing else moved, lost or doubled; so the   *)
(* sanity checks at the end of replace_symbolic_labels never fail.         *)
RewriteExact ==
  /\ pass # "mismatch"
  /\ pass \in {"verify", "done"} =>
    /\ Len(source) = Len(ast)
    /\ \A k \in DOMAIN ast :
         IF ast[k].kind = "jump"
         THEN source[k].kind = "address" /\ LabelAt(source, ast[k].label, source[k].n)
         ELSE source[k] = ast[k]

Marks == {"start_fetch", "end_fetch"}
Under(k, mark) ==
  \E m \in 1..(k - 1) :
    ast[m].kind = mark /\ \A j \in (m + 1)..(k - 1) : ast[j].kind \notin Marks

Restored(k, v) ==
  \E j \in 1..(k - 1) :
    Under(j, "start_fetch") /\ ast[j].kind = "fetch" /\ ast[j].var = v /\ ast[j].from = v

Pushed(k, v) ==
  \E j \in 1..(k - 1) :
    /\ ast[j].kind = "push_saved" /\ ast[j].var = v
    /\ \A m \in (j + 1)..(k - 1) : ~(ast[m].kind = "pop_saved" /\ ast[m].var = v)

(* If the check prints no warning, every variable written after end_fetch  *)
(* is fetched from the previous worker under its own name, or declared     *)
(* with push_saved where it is written: no value is lost when the next     *)
(* worker takes over (module Handoff, Coherent).                           *)
SilenceMeansSaved ==
  pass \notin {"check", "error"} /\ warned = {} /\ suspicious = {} =>
    \A k \in DOMAIN ast :
      ast[k].kind \in {"write", "fetch"} /\ Under(k, "end_fetch") =>
        Restored(k, ast[k].var) \/ Pushed(k, ast[k].var)
===============================================================================
