----------------------------- MODULE MCLocalVars -----------------------------
(* An instance of LocalVars for TLC.                                       *)
EXTENDS LocalVars

Hiddens == {ns \in Hidden \X Hidden : ns[1] # ns[2]}

(* worker.mlog.jinja 59-67: local_variable() and local_variable(i) in      *)
(* pairs, right after a reset.                                             *)
FetchVariables ==
  <<Step("reset", 1), Step("anonymous", 0), Step("numbered", 1),
    Step("anonymous", 0), Step("numbered", 2)>>

TemplateCalls ==
  {<<Step("reset", i)>> : i \in 0..2}
    \union {DeclareLocals(ns, 1, reset) : ns \in Hiddens, reset \in BOOLEAN}
    \union {DeclareList(ns, 2) : ns \in Hiddens}
    \union {DeclareLocals(<<n>>, 2, TRUE) : n \in Names}
    \union {FreeLocals(<<n>>) : n \in Names}
    \union {FreeLocals(ns) : ns \in Hiddens}
    \union {FetchVariables, <<Step("anonymous", 0)>>}

TemplateTexts == UNION {[1..k -> Names \union {Plain}] : k \in 1..3}
===============================================================================
