------------------------------ MODULE MlogPasses ------------------------------
(***************************************************************************)
(* What the preprocessor does to a rendered worker (app.py 264-278): it    *)
(* checks that variables survive the hand-over to the next worker, finds   *)
(* the address of every label while it checks the length assertions that   *)
(* the return addresses of the worker rely on, replaces the symbolic       *)
(* labels by addresses and compares the result with the original.  One     *)
(* step is one iteration of a pass over the syntax tree.                   *)
(*                                                                         *)
(* A node is a label, a statement (one that fetches a variable from        *)
(* prev_proc, writes one, refers to a label, or none of these) or a        *)
(* directive.  An argument that is no number, or a negative length, is -1. *)
(***************************************************************************)
EXTENDS Integers, Sequences, FiniteSets

CONSTANTS Labels, Variables, None,
          Programs     \* the syntax trees that templates are rendered to

Statements == {"fetch", "write", "jump", "plain", "address"}
Directives == {"start_fetch", "end_fetch", "push_saved", "pop_saved",
               "start_assert_length", "end_assert_length", "assert_counter", "ignored"}

(* label: the label defined or referred to; var: the variable written,     *)
(* pushed or popped; from: the name it is fetched under; n: a number.      *)
Nodes ==
  [kind : {"label", "jump"}, label : Labels, var : {None}, from : {None}, n : {0}]
    \union [kind : {"fetch"}, label : {None}, var : Variables, from : Variables, n : {0}]
    \union [kind : {"write", "push_saved", "pop_saved"}, label : {None},
            var : Variables, from : {None}, n : {0}]
    \union [kind : (Statements \union Directives) \ {"jump", "fetch", "write", "push_saved", "pop_saved"},
            label : {None}, var : {None}, from : {None}, n : Int]

ASSUME ProgramsAssumption == Programs \subseteq Seq(Nodes)
ASSUME NoneAssumption == None \notin Labels /\ None \notin Variables /\ None \notin Nat \X Nat

VARIABLES ast,        \* the tree the template was rendered to
          source,     \* the tree that iter_labels reads
          pass, i,    \* the pass being made, and the node it is at
          region,     \* check_unsaved_variables: state
          saved,      \* saved_variables, without @counter, which is always in it
          warned,     \* warned_variables
          suspicious, \* restorations it complained about
          counter,    \* iter_labels: statements so far
          assertion,  \* length_assertion: <<length, start counter>> or None
          found,      \* labels of this traversal, -1 for one not seen
          labels,     \* worker_labels
          start, parts \* replace_symbolic_labels

checkVars == <<region, saved, warned, suspicious>>
labelVars == <<counter, assertion, found>>
replaceVars == <<start, parts>>
vars == <<ast, source, pass, i, checkVars, labelVars, labels, replaceVars>>

IsStatement(node) == node.kind \in Statements
NoLabels == [l \in Labels |-> -1]

CountStatements(tree) == Cardinality({k \in DOMAIN tree : IsStatement(tree[k])})

Init ==
  /\ ast \in Programs /\ source = ast
  /\ pass = "check" /\ i = 1
  /\ region = "init" /\ saved = {} /\ warned = {} /\ suspicious = {}
  /\ counter = 0 /\ assertion = None /\ found = NoLabels
  /\ labels = NoLabels
  /\ start = 1 /\ parts = <<>>

Error == pass' = "error" /\ UNCHANGED <<i, checkVars, labelVars>>
Proceed == i' = i + 1 /\ UNCHANGED pass

-----------------------------------------------------------------------------
(* check_unsaved_variables                                                 *)

(* read var prev_proc "from" between start_fetch and end_fetch.            *)
Restore(node) ==
  /\ node.kind = "fetch" /\ region = "fetch"
  /\ suspicious' = IF node.var # node.from \/ node.var \in saved
                   THEN suspicious \union {node.var} ELSE suspicious
  /\ saved' = saved \union {node.var}
  /\ Proceed /\ UNCHANGED <<region, warned>>

(* Mutant: the wrong region is checked. *)
WarnIfUnsavedInFetch(v) ==
  /\ warned' = IF region = "fetch" /\ v \notin saved THEN warned \union {v} ELSE warned
  /\ UNCHANGED <<saved, suspicious>>

WarnIfUnsaved(v) ==
  /\ warned' = IF region = "check" /\ v \notin saved THEN warned \union {v} ELSE warned
  /\ UNCHANGED <<saved, suspicious>>

CheckWrite(node) ==
  /\ node.kind = "write" \/ (node.kind = "fetch" /\ region # "fetch")
  /\ WarnIfUnsaved(node.var)
  /\ Proceed /\ UNCHANGED region

EnterRegion(node) ==
  /\ node.kind \in {"start_fetch", "end_fetch"}
  /\ region' = IF node.kind = "start_fetch" THEN "fetch" ELSE "check"
  /\ Proceed /\ UNCHANGED <<saved, warned, suspicious>>

(* set.remove raises KeyError for a variable that is not in the set.       *)
PopSaved(node) ==
  /\ node.kind = "pop_saved"
  /\ IF node.var \in saved
     THEN saved' = saved \ {node.var} /\ Proceed /\ UNCHANGED <<region, warned, suspicious>>
     ELSE Error /\ UNCHANGED labelVars

PushSaved(node) ==
  /\ node.kind = "push_saved"
  /\ saved' = saved \union {node.var}
  /\ Proceed /\ UNCHANGED <<region, warned, suspicious>>

CheckOther(node) ==
  /\ node.kind \notin {"fetch", "write", "start_fetch", "end_fetch", "push_saved", "pop_saved"}
  /\ Proceed /\ UNCHANGED checkVars

Check ==
  /\ pass = "check"
  /\ IF i <= Len(ast)
     THEN LET node == ast[i] IN
            \/ Restore(node) \/ CheckWrite(node) \/ EnterRegion(node)
            \/ PushSaved(node) \/ PopSaved(node) \/ CheckOther(node)
     ELSE pass' = "labels" /\ i' = 1 /\ UNCHANGED checkVars
  /\ UNCHANGED <<ast, source, labelVars, labels, replaceVars>>

-----------------------------------------------------------------------------
(* iter_labels, collected in a dict: a later label replaces an earlier one *)

Define(node) ==
  /\ node.kind = "label"
  /\ found' = [found EXCEPT ![node.label] = counter]
  /\ Proceed /\ UNCHANGED <<counter, assertion>>

(* Mutant: a jump is not counted as an instruction. *)
CountOneNotJumps(node) ==
  /\ IsStatement(node)
  /\ counter' = IF node.kind = "jump" THEN counter ELSE counter + 1
  /\ Proceed /\ UNCHANGED <<assertion, found>>

CountOne(node) ==
  /\ IsStatement(node)
  /\ counter' = counter + 1
  /\ Proceed /\ UNCHANGED <<assertion, found>>

(* Mutant: an open assertion is replaced. *)
StartAssertNested(node) ==
  /\ node.kind = "start_assert_length"
  /\ IF node.n < 0 THEN Error
     ELSE assertion' = <<node.n, counter>> /\ Proceed /\ UNCHANGED <<counter, found>>

StartAssert(node) ==
  /\ node.kind = "start_assert_length"
  /\ IF assertion # None \/ node.n < 0 THEN Error
     ELSE assertion' = <<node.n, counter>> /\ Proceed /\ UNCHANGED <<counter, found>>

EndAssert(node) ==
  /\ node.kind = "end_assert_length"
  /\ IF assertion = None \/ (assertion # None /\ counter - assertion[2] # assertion[1]) THEN Error
     ELSE assertion' = None /\ Proceed /\ UNCHANGED <<counter, found>>

AssertCounter(node) ==
  /\ node.kind = "assert_counter"
  /\ IF node.n # counter THEN Error ELSE Proceed /\ UNCHANGED labelVars

Skip(node) ==
  /\ node.kind \in Directives \ {"start_assert_length", "end_assert_length", "assert_counter"}
  /\ Proceed /\ UNCHANGED labelVars

(* The traversal ends; the first one yields worker_labels, the second one  *)
(* is the sanity check of the rewritten code.                              *)
EndLabels ==
  /\ IF assertion # None THEN Error /\ UNCHANGED labels
     ELSE /\ counter' = 0 /\ assertion' = None /\ found' = NoLabels
          /\ IF pass = "labels"
             THEN pass' = "replace" /\ i' = 1 /\ labels' = found
             ELSE /\ pass' = IF found = labels /\ CountStatements(ast) = CountStatements(source)
                             THEN "done" ELSE "mismatch"
                  /\ UNCHANGED <<i, labels>>
          /\ UNCHANGED checkVars

IterLabels ==
  /\ pass \in {"labels", "verify"}
  /\ IF i <= Len(source)
     THEN /\ LET node == source[i] IN
               \/ Define(node) \/ CountOne(node) \/ StartAssert(node)
               \/ EndAssert(node) \/ AssertCounter(node) \/ Skip(node)
          /\ UNCHANGED <<checkVars, labels>>
     ELSE EndLabels
  /\ UNCHANGED <<ast, source, replaceVars>>

-----------------------------------------------------------------------------
(* replace_symbolic_labels: the text up to the next reference, the address *)
(* instead of the reference, and so on; then the new text is parsed.       *)

(* Mutant: the address is one too high. *)
AddressOff(k) == [kind |-> "address", label |-> None, var |-> None, from |-> None, n |-> k + 1]

Address(k) == [kind |-> "address", label |-> None, var |-> None, from |-> None, n |-> k]

NextRef(k) ==
  /\ k \in DOMAIN ast /\ k >= start /\ ast[k].kind = "jump"
  /\ \A j \in start..(k - 1) : ast[j].kind # "jump"

ReplaceOne(k) ==
  IF labels[ast[k].label] = -1 THEN pass' = "error" /\ UNCHANGED <<source, i, replaceVars>>
  ELSE /\ parts' = parts \o SubSeq(ast, start, k - 1) \o <<Address(labels[ast[k].label])>>
       /\ start' = k + 1
       /\ UNCHANGED <<pass, source, i>>

ReplaceRest ==
  /\ parts' = parts \o SubSeq(ast, start, Len(ast))
  /\ start' = Len(ast) + 1
  /\ source' = parts'
  /\ pass' = "verify" /\ i' = 1

Replace ==
  /\ pass = "replace"
  /\ \/ \E k \in start..Len(ast) : NextRef(k) /\ ReplaceOne(k)
     \/ (\A k \in start..Len(ast) : ~NextRef(k)) /\ ReplaceRest
  /\ UNCHANGED <<ast, checkVars, labelVars, labels>>

Ended == pass \in {"done", "error", "mismatch"} /\ UNCHANGED vars

Next == Check \/ IterLabels \/ Replace \/ Ended

Spec == Init /\ [][Next]_vars
===============================================================================
