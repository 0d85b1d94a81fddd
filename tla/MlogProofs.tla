------------------------------ MODULE MlogProofs ------------------------------
(***************************************************************************)
(* The passes over a worker are right for every program: the loop          *)
(* invariants of check_unsaved_variables, iter_labels and                  *)
(* replace_symbolic_labels, and what follows from them at the end.         *)
(***************************************************************************)
EXTENDS MlogProps, FiniteSetTheorems, SequenceTheorems, WellFoundedInduction, TLAPS

(* Induction over the naturals, for a set: the least number that is not in *)
(* S cannot be 0 and cannot be a successor.                                *)
LEMMA SetInduction ==
  ASSUME NEW S, 0 \in S, \A n \in Nat : n \in S => n + 1 \in S
  PROVE  Nat \subseteq S
<1> SUFFICES ASSUME Nat \ S # {} PROVE FALSE OBVIOUS
<1> DEFINE R == OpToRel(<, Nat)
<1>1. \A x, y \in Nat : <<x, y>> \in R <=> x < y BY DEF OpToRel
<1>2. IsWellFoundedOn(R, Nat) BY NatLessThanWellFounded
<1> HIDE DEF R
<1>3. PICK x \in Nat \ S : \A y \in Nat \ S : ~ (<<y, x>> \in R)
  BY <1>2, WFMin
<1>4. x # 0 /\ x - 1 \in Nat /\ (x - 1) + 1 = x /\ x - 1 < x OBVIOUS
<1>5. x - 1 \in S BY <1>1, <1>3, <1>4
<1> QED BY <1>4, <1>5

(* What the kind of a node says about its fields.                          *)
LEMMA NodeFacts ==
  ASSUME NEW node \in Nodes
  PROVE  /\ node.kind \in {"label"} \union Statements \union Directives
         /\ node.kind \in {"label", "jump"} => node.label \in Labels
         /\ node.n \in Int
BY DEF Nodes, Statements, Directives

(* The number of statements before a node is what iter_labels counts, one  *)
(* node at a time.                                                         *)
LEMMA StatementsStep ==
  ASSUME NEW tree, NEW k \in Nat \ {0}
  PROVE  /\ StatementsBefore(tree, 1) = 0
         /\ StatementsBefore(tree, k) \in Nat
         /\ StatementsBefore(tree, k + 1) =
              IF IsStatement(tree[k]) THEN StatementsBefore(tree, k) + 1
              ELSE StatementsBefore(tree, k)
<1> DEFINE S(m) == {j \in 1..(m - 1) : IsStatement(tree[j])}
<1>1. S(1) = {} OBVIOUS
<1>2. IsFiniteSet(1..(k - 1)) BY FS_Interval
<1>3. IsFiniteSet(S(k)) BY <1>2, FS_Subset
<1>4. S(k + 1) = IF IsStatement(tree[k]) THEN S(k) \union {k} ELSE S(k) OBVIOUS
<1>5. k \notin S(k) OBVIOUS
<1>6. Cardinality(S(1)) = 0 BY <1>1, FS_EmptySet
<1>7. Cardinality(S(k)) \in Nat BY <1>3, FS_CardinalityType
<1>8. Cardinality(S(k) \union {k}) = Cardinality(S(k)) + 1
  BY <1>3, <1>5, FS_AddElement
<1>9. \A m : StatementsBefore(tree, m) = Cardinality(S(m)) BY DEF StatementsBefore
<1> HIDE DEF S
<1> QED BY <1>4, <1>6, <1>7, <1>8, <1>9

-----------------------------------------------------------------------------
(* Types, and how far a pass has come.                                     *)
TypeOK ==
  /\ ast \in Seq(Nodes) /\ source \in Seq(Nodes)
  /\ i \in Nat \ {0} /\ counter \in Nat
  /\ assertion \in (Nat \X Nat) \union {None}
  /\ found \in [Labels -> Int] /\ labels \in [Labels -> Int]
  /\ start \in 1..(Len(ast) + 1) /\ parts \in Seq(Nodes)
  /\ pass \in {"check", "labels", "replace", "verify", "done", "error", "mismatch"}
  /\ pass = "check" => i <= Len(ast) + 1
  /\ pass \in {"labels", "verify"} => i <= Len(source) + 1

(* check_unsaved_variables: the region is that of the last mark, what it  *)
(* takes for saved is, and what it has passed in silence was covered.     *)
Covered(k, v) == Restored(k, v) \/ Pushed(k, v)
Written(k) == ast[k].kind \in {"write", "fetch"} /\ Under(k, "end_fetch")

CheckInv ==
  /\ pass = "check" =>
       /\ region = "init" <=> (\A j \in 1..(i - 1) : ast[j].kind \notin Marks)
       /\ region = "fetch" <=> Under(i, "start_fetch")
       /\ region = "check" <=> Under(i, "end_fetch")
       /\ region \in {"init", "fetch", "check"}
       /\ suspicious = {} => \A v \in saved : Covered(i, v)
       /\ warned = {} /\ suspicious = {} =>
            \A k \in 1..(i - 1) : Written(k) => Covered(k, ast[k].var)
  /\ pass \notin {"check", "error"} => SilenceMeansSaved

(* iter_labels over tree, at node n: the last label of each name so far,  *)
(* and the brackets so far, the last of which may be open.                *)
Defines(node, l) == node.kind = "label" /\ node.label = l
LastLabel(tree, l, a, n) ==
  \E k \in 1..(n - 1) :
    /\ Defines(tree[k], l) /\ a = StatementsBefore(tree, k)
    /\ \A j \in (k + 1)..(n - 1) : ~Defines(tree[j], l)
LabelsUpTo(tree, f, n) ==
  \A l \in Labels : IF \E k \in 1..(n - 1) : Defines(tree[k], l)
                    THEN LastLabel(tree, l, f[l], n) ELSE f[l] = -1

IsStart(node) == node.kind = "start_assert_length"
IsEnd(node) == node.kind = "end_assert_length"
NoBracket(tree, k, n) == \A j \in (k + 1)..(n - 1) : ~IsStart(tree[j]) /\ ~IsEnd(tree[j])
Closes(tree, k, e) ==
  /\ IsEnd(tree[e]) /\ NoBracket(tree, k, e)
  /\ StatementsBefore(tree, e) - StatementsBefore(tree, k) = tree[k].n
Opened(tree, k, n) == IsStart(tree[k]) /\ NoBracket(tree, k, n)
BracketsUpTo(tree, a, n) ==
  /\ \A k \in 1..(n - 1) :
       /\ IsStart(tree[k]) => NoBracket(tree, k, n) \/ \E e \in (k + 1)..(n - 1) : Closes(tree, k, e)
       /\ IsEnd(tree[k]) => \E s \in 1..(k - 1) : Opened(tree, s, k)
       /\ tree[k].kind = "assert_counter" => tree[k].n = StatementsBefore(tree, k)
  /\ a = None => \A k \in 1..(n - 1) : ~Opened(tree, k, n)
  /\ a # None => \E k \in 1..(n - 1) : Opened(tree, k, n) /\ a = <<tree[k].n, StatementsBefore(tree, k)>>

LabelInv ==
  /\ pass \in {"check", "labels"} => source = ast
  /\ pass \in {"check", "replace"} => counter = 0 /\ assertion = None /\ found = NoLabels
  /\ pass \in {"labels", "verify"} =>
       /\ counter = StatementsBefore(source, i)
       /\ LabelsUpTo(source, found, i) /\ BracketsUpTo(source, assertion, i)
  /\ Accepted \/ pass = "mismatch" =>
       LabelsUpTo(ast, labels, Len(ast) + 1) /\ BracketsUpTo(ast, None, Len(ast) + 1)

(* replace_symbolic_labels: parts is the rewritten text up to start.      *)
Rewritten(node) == IF node.kind = "jump" THEN Address(labels[node.label]) ELSE node
IsRewritten(text, n) ==
  /\ Len(text) = n
  /\ \A k \in 1..n :
       /\ text[k] = Rewritten(ast[k])
       /\ ast[k].kind = "jump" => labels[ast[k].label] # -1

ReplaceInv ==
  /\ pass \in {"check", "labels"} => start = 1 /\ parts = <<>>
  /\ pass = "replace" => IsRewritten(parts, start - 1)
  /\ pass \in {"verify", "done", "mismatch"} => IsRewritten(source, Len(ast))
  /\ pass # "mismatch"

IInv == TypeOK /\ CheckInv /\ LabelInv /\ ReplaceInv

(* The invariant holds when the check begins.                              *)
LEMMA InitHolds == Init => IInv
<1> SUFFICES ASSUME Init PROVE IInv OBVIOUS
<1>1. ast \in Seq(Nodes) /\ Len(ast) \in Nat BY ProgramsAssumption DEF Init
<1>2. StatementsBefore(source, 1) = 0 BY StatementsStep
<1>3. TypeOK BY <1>1 DEF TypeOK, Init, NoLabels
<1>4. CheckInv BY DEF CheckInv, Init, Under
<1>5. LabelInv BY DEF LabelInv, Init, Accepted
<1>6. ReplaceInv BY DEF ReplaceInv, Init
<1> QED BY <1>3, <1>4, <1>5, <1>6 DEF IInv

(* Which mark a node is under depends on the node before it alone.         *)
LEMMA UnderStep ==
  ASSUME NEW k \in Nat \ {0}, NEW m \in Marks
  PROVE  Under(k + 1, m) <=> ast[k].kind = m \/ (ast[k].kind \notin Marks /\ Under(k, m))
<1>1. ASSUME ast[k].kind = m PROVE Under(k + 1, m)
  <2>1. k \in 1..((k + 1) - 1) /\ \A j \in (k + 1)..((k + 1) - 1) : FALSE OBVIOUS
  <2> QED BY <1>1, <2>1 DEF Under
<1>2. ASSUME ast[k].kind \notin Marks, Under(k, m) PROVE Under(k + 1, m)
  <2>1. PICK n \in 1..(k - 1) : ast[n].kind = m /\ \A j \in (n + 1)..(k - 1) : ast[j].kind \notin Marks
    BY <1>2 DEF Under
  <2>2. n \in 1..((k + 1) - 1) /\ \A j \in (n + 1)..((k + 1) - 1) : ast[j].kind \notin Marks
    BY <1>2, <2>1
  <2> QED BY <2>1, <2>2 DEF Under
<1>3. ASSUME Under(k + 1, m), ast[k].kind # m
      PROVE  ast[k].kind \notin Marks /\ Under(k, m)
  <2>1. PICK n \in 1..((k + 1) - 1) :
          ast[n].kind = m /\ \A j \in (n + 1)..((k + 1) - 1) : ast[j].kind \notin Marks
    BY <1>3 DEF Under
  <2>2. n \in 1..(k - 1) BY <1>3, <2>1
  <2>3. k \in (n + 1)..((k + 1) - 1) /\ \A j \in (n + 1)..(k - 1) : j \in (n + 1)..((k + 1) - 1)
    BY <2>2
  <2> QED BY <2>1, <2>2, <2>3 DEF Under
<1> QED BY <1>1, <1>2, <1>3

(* A variable stays restored or pushed from one node to the next unless it *)
(* is popped there, and becomes so by a push or by a fetch under its own   *)
(* name.                                                                   *)
LEMMA CoveredStep ==
  ASSUME NEW k \in Nat \ {0}, NEW v
  PROVE  /\ Covered(k, v) /\ ~(ast[k].kind = "pop_saved" /\ ast[k].var = v) => Covered(k + 1, v)
         /\ ast[k].kind = "push_saved" /\ ast[k].var = v => Covered(k + 1, v)
         /\ Under(k, "start_fetch") /\ ast[k].kind = "fetch" /\ ast[k].var = v /\ ast[k].from = v
              => Covered(k + 1, v)
<1>1. \A j \in 1..(k - 1) : j \in 1..((k + 1) - 1) OBVIOUS
<1>2. k \in 1..((k + 1) - 1) /\ \A j \in (k + 1)..((k + 1) - 1) : FALSE OBVIOUS
<1>3. Restored(k, v) => Restored(k + 1, v) BY <1>1 DEF Restored
<1>4. ASSUME Pushed(k, v), ~(ast[k].kind = "pop_saved" /\ ast[k].var = v) PROVE Pushed(k + 1, v)
  <2>1. PICK j \in 1..(k - 1) :
          /\ ast[j].kind = "push_saved" /\ ast[j].var = v
          /\ \A m \in (j + 1)..(k - 1) : ~(ast[m].kind = "pop_saved" /\ ast[m].var = v)
    BY <1>4 DEF Pushed
  <2>2. \A m \in (j + 1)..((k + 1) - 1) : m \in (j + 1)..(k - 1) \/ m = k OBVIOUS
  <2> QED BY <1>1, <1>4, <2>1, <2>2 DEF Pushed
<1> QED BY <1>2, <1>3, <1>4 DEF Covered, Pushed, Restored

(* An iteration of check_unsaved_variables, or its end, keeps the          *)
(* invariant.                                                              *)
LEMMA CheckKeeps == IInv /\ Check => IInv'
<1> SUFFICES ASSUME IInv, Check PROVE IInv' OBVIOUS
<1> USE DEF IInv
<1>1. pass = "check" /\ ast' = ast /\ source' = source /\ UNCHANGED <<labelVars, labels, replaceVars>>
  BY DEF Check
<1>t. ast \in Seq(Nodes) /\ Len(ast) \in Nat /\ i \in Nat \ {0} /\ DOMAIN ast = 1..Len(ast)
  BY DEF TypeOK
<1>u. \A k, m : Under(k, m)' <=> Under(k, m) BY <1>1 DEF Under
<1>v. \A k, v : Covered(k, v)' <=> Covered(k, v)
  BY <1>1, <1>u DEF Covered, Restored, Pushed
<1>2. CASE i > Len(ast)
  <2>1. pass' = "labels" /\ i' = 1 /\ UNCHANGED checkVars BY <1>2, <1>t DEF Check
  <2>2. TypeOK' BY <1>1, <1>t, <2>1 DEF TypeOK, labelVars, replaceVars
  <2>3. i = Len(ast) + 1
    <3>1. i <= Len(ast) + 1 BY <1>1 DEF TypeOK
    <3> QED BY <1>2, <1>t, <3>1
  <2>4. SilenceMeansSaved'
    <3>1. warned = {} /\ suspicious = {} =>
            \A k \in 1..(i - 1) : Written(k) => Covered(k, ast[k].var)
      BY <1>1 DEF CheckInv
    <3>2. 1..(i - 1) = DOMAIN ast BY <1>t, <2>3
    <3>3. warned' = warned /\ suspicious' = suspicious BY <2>1 DEF checkVars
    <3>4. warned = {} /\ suspicious = {} =>
            \A k \in DOMAIN ast :
              ast[k].kind \in {"write", "fetch"} /\ Under(k, "end_fetch") =>
                Restored(k, ast[k].var) \/ Pushed(k, ast[k].var)
      BY <3>1, <3>2 DEF Written, Covered
    <3> QED BY <1>1, <3>3, <3>4 DEF SilenceMeansSaved, Under, Restored, Pushed
  <2>5. CheckInv' BY <2>1, <2>4 DEF CheckInv
  <2>6. LabelInv'
    <3>1. StatementsBefore(ast, 1) = 0 BY StatementsStep
    <3>2. counter' = 0 /\ assertion' = None /\ found' = NoLabels /\ source' = ast /\ i' = 1
      BY <1>1, <2>1 DEF LabelInv, labelVars
    <3>3. LabelsUpTo(ast, NoLabels, 1) BY DEF LabelsUpTo, NoLabels
    <3>4. BracketsUpTo(ast, None, 1) BY DEF BracketsUpTo
    <3>5. (StatementsBefore(source, i) = 0)' /\ LabelsUpTo(source, found, i)' /\ BracketsUpTo(source, assertion, i)'
      BY <3>1, <3>2, <3>3, <3>4, <1>1
    <3> QED BY <1>1, <2>1, <3>2, <3>5 DEF LabelInv, Accepted
  <2>7. ReplaceInv' BY <1>1, <2>1 DEF ReplaceInv, replaceVars
  <2> QED BY <2>2, <2>5, <2>6, <2>7
<1>3. CASE i <= Len(ast)
  <2> DEFINE node == ast[i]
  <2>n. node \in Nodes /\ i \in DOMAIN ast BY <1>3, <1>t
  <2>0. \/ Restore(node) \/ CheckWrite(node) \/ EnterRegion(node)
        \/ PushSaved(node) \/ PopSaved(node) \/ CheckOther(node)
    BY <1>3, <1>t DEF Check
  <2>1. pass' = "error" \/ (pass' = "check" /\ i' = i + 1)
    BY <1>1, <2>0 DEF Restore, CheckWrite, EnterRegion, PushSaved, PopSaved, CheckOther, Error, Proceed
  <2>2. TypeOK'
    <3>1. i' \in Nat \ {0} /\ (pass' = "check" => i' <= Len(ast) + 1) /\ pass' \in {"check", "error"}
      BY <1>1, <1>3, <1>t, <2>0, <2>1 DEF Restore, CheckWrite, EnterRegion, PushSaved, PopSaved, CheckOther, Error, Proceed
    <3> QED BY <1>1, <3>1 DEF TypeOK, labelVars, replaceVars
  <2>3. LabelInv' BY <1>1, <2>1 DEF LabelInv, labelVars, Accepted
  <2>4. ReplaceInv' BY <1>1, <2>1 DEF ReplaceInv, replaceVars
  <2>5. CheckInv'
    <3>1. CASE pass' = "error" BY <3>1 DEF CheckInv
    <3>2. CASE pass' = "check" /\ i' = i + 1
      <4>1. Under(i + 1, "start_fetch") <=>
              node.kind = "start_fetch" \/ (node.kind \notin Marks /\ Under(i, "start_fetch"))
        BY <1>t, UnderStep DEF Marks
      <4>2. Under(i + 1, "end_fetch") <=>
              node.kind = "end_fetch" \/ (node.kind \notin Marks /\ Under(i, "end_fetch"))
        BY <1>t, UnderStep DEF Marks
      <4>3. (\A j \in 1..((i + 1) - 1) : ast[j].kind \notin Marks) <=>
              node.kind \notin Marks /\ \A j \in 1..(i - 1) : ast[j].kind \notin Marks
        BY <1>t
      <4>s. (node.kind \notin Marks => region' = region)
            /\ (node.kind = "start_fetch" => region' = "fetch")
            /\ (node.kind = "end_fetch" => region' = "check")
            /\ region' \in {region, "fetch", "check"}
        BY <2>0, <3>2, <1>1 DEF Restore, CheckWrite, EnterRegion, PushSaved, PopSaved, CheckOther, Error, Proceed, Marks, checkVars, WarnIfUnsaved
      <4>4. /\ (region = "init" <=> (\A j \in 1..(i - 1) : ast[j].kind \notin Marks))
            /\ (region = "fetch" <=> Under(i, "start_fetch"))
            /\ (region = "check" <=> Under(i, "end_fetch"))
            /\ region \in {"init", "fetch", "check"}
            /\ (suspicious = {} => \A v \in saved : Covered(i, v))
            /\ (warned = {} /\ suspicious = {} =>
                 \A k \in 1..(i - 1) : Written(k) => Covered(k, ast[k].var))
        BY <1>1 DEF CheckInv
      <4>5. /\ (region' = "init" <=> (\A j \in 1..((i + 1) - 1) : ast[j].kind \notin Marks))
            /\ (region' = "fetch" <=> Under(i + 1, "start_fetch"))
            /\ (region' = "check" <=> Under(i + 1, "end_fetch"))
            /\ region' \in {"init", "fetch", "check"}
        BY <4>1, <4>2, <4>3, <4>4, <4>s DEF Marks
      <4>6. suspicious' = {} => suspicious = {}
        BY <2>0, <3>2, <1>1 DEF Restore, CheckWrite, EnterRegion, PushSaved, PopSaved, CheckOther, Error, Proceed, checkVars, WarnIfUnsaved
      <4>7. warned' = {} => warned = {}
        BY <2>0, <3>2, <1>1 DEF Restore, CheckWrite, EnterRegion, PushSaved, PopSaved, CheckOther, Error, Proceed, checkVars, WarnIfUnsaved
      <4>8. ASSUME suspicious' = {}, NEW v \in saved' PROVE Covered(i + 1, v)
        <5>0. v \in saved => Covered(i, v) BY <4>4, <4>6, <4>8
        <5>1. CASE Restore(node)
          <6>1. node.var = node.from /\ region = "fetch" /\ node.kind = "fetch" /\ saved' = saved \union {node.var}
            BY <4>8, <5>1 DEF Restore
          <6> QED BY <1>t, <5>0, <6>1, <4>4, <4>8, CoveredStep
        <5>2. CASE PushSaved(node)
          BY <1>t, <5>0, <5>2, <4>8, CoveredStep DEF PushSaved
        <5>3. CASE PopSaved(node)
          <6>1. v \in saved /\ ~(node.kind = "pop_saved" /\ node.var = v)
            BY <1>1, <3>2, <5>3, <4>8 DEF PopSaved, Error
          <6> QED BY <1>t, <5>0, <6>1, CoveredStep
        <5>4. CASE CheckWrite(node) \/ EnterRegion(node) \/ CheckOther(node)
          <6>1. saved' = saved /\ node.kind # "pop_saved"
            BY <5>4 DEF CheckWrite, EnterRegion, CheckOther, WarnIfUnsaved, checkVars
          <6> QED BY <1>t, <5>0, <6>1, <4>8, CoveredStep
        <5> QED BY <2>0, <5>1, <5>2, <5>3, <5>4
      <4>9. ASSUME warned' = {}, suspicious' = {}, NEW k \in 1..((i + 1) - 1), Written(k)
            PROVE  Covered(k, ast[k].var)
        <5>1. CASE k \in 1..(i - 1) BY <5>1, <4>4, <4>6, <4>7, <4>9
        <5>2. CASE k = i
          <6>1. node.kind \in {"write", "fetch"} /\ region = "check"
            BY <4>4, <4>9, <5>2 DEF Written
          <6>2. CheckWrite(node)
            BY <2>0, <6>1 DEF Restore, EnterRegion, PushSaved, PopSaved, CheckOther
          <6>3. node.var \in saved
            BY <6>1, <6>2, <4>9 DEF CheckWrite, WarnIfUnsaved
          <6> QED BY <6>3, <4>4, <4>6, <4>9, <5>2
        <5> QED BY <1>t, <5>1, <5>2
      <4>10. \A k : Written(k)' <=> Written(k) BY <1>1, <1>u DEF Written
      <4> QED BY <1>1, <1>u, <1>v, <3>2, <4>5, <4>8, <4>9, <4>10 DEF CheckInv
    <3> QED BY <2>1, <3>1, <3>2
  <2> QED BY <2>2, <2>3, <2>4, <2>5
<1> QED BY <1>2, <1>3, <1>t

-----------------------------------------------------------------------------
(* Defining the label at node n, or passing a node that is no label, keeps *)
(* found right.                                                            *)
LEMMA LabelsStep ==
  ASSUME NEW tree \in Seq(Nodes), NEW n \in DOMAIN tree, NEW f \in [Labels -> Int], LabelsUpTo(tree, f, n)
  PROVE  /\ tree[n].kind = "label" =>
              LabelsUpTo(tree, [f EXCEPT ![tree[n].label] = StatementsBefore(tree, n)], n + 1)
         /\ tree[n].kind # "label" => LabelsUpTo(tree, f, n + 1)
<1>1. n \in Nat \ {0} /\ tree[n] \in Nodes OBVIOUS
<1>2. ASSUME NEW l \in Labels, NEW a, ~Defines(tree[n], l)
      PROVE  /\ LastLabel(tree, l, a, n) => LastLabel(tree, l, a, n + 1)
             /\ (\E k \in 1..((n + 1) - 1) : Defines(tree[k], l)) <=> (\E k \in 1..(n - 1) : Defines(tree[k], l))
  <2>1. \A k \in 1..((n + 1) - 1) : k = n \/ k \in 1..(n - 1) BY <1>1
  <2>2. \A k \in 1..(n - 1) : k \in 1..((n + 1) - 1) BY <1>1
  <2>3. \A k \in 1..(n - 1) : \A j \in (k + 1)..((n + 1) - 1) : j = n \/ j \in (k + 1)..(n - 1) BY <1>1
  <2> QED BY <1>2, <2>1, <2>2, <2>3 DEF LastLabel
<1>3. ASSUME NEW l \in Labels, Defines(tree[n], l)
      PROVE  /\ LastLabel(tree, l, StatementsBefore(tree, n), n + 1)
             /\ \E k \in 1..((n + 1) - 1) : Defines(tree[k], l)
  <2>1. n \in 1..((n + 1) - 1) /\ \A j \in (n + 1)..((n + 1) - 1) : FALSE BY <1>1
  <2> QED BY <1>3, <2>1 DEF LastLabel
<1>4. CASE tree[n].kind = "label"
  <2> DEFINE g == [f EXCEPT ![tree[n].label] = StatementsBefore(tree, n)]
  <2>1. tree[n].label \in Labels BY <1>1, <1>4, NodeFacts
  <2>2. \A l \in Labels : g[l] = IF Defines(tree[n], l) THEN StatementsBefore(tree, n) ELSE f[l]
    BY <1>4, <2>1 DEF Defines
  <2> HIDE DEF g
  <2>3. ASSUME NEW l \in Labels
        PROVE  IF \E k \in 1..((n + 1) - 1) : Defines(tree[k], l)
               THEN LastLabel(tree, l, g[l], n + 1) ELSE g[l] = -1
    <3>1. CASE Defines(tree[n], l) BY <1>3, <2>2, <3>1
    <3>2. CASE ~Defines(tree[n], l)
      <4>1. g[l] = f[l] BY <2>2, <3>2
      <4>2. IF \E k \in 1..(n - 1) : Defines(tree[k], l)
               THEN LastLabel(tree, l, f[l], n) ELSE f[l] = -1 BY DEF LabelsUpTo
      <4> QED BY <1>2, <3>2, <4>1, <4>2
    <3> QED BY <3>1, <3>2
  <2>4. LabelsUpTo(tree, g, n + 1) BY <2>3 DEF LabelsUpTo
  <2> QED BY <1>4, <2>4 DEF g
<1>5. CASE tree[n].kind # "label"
  <2>1. \A l \in Labels : ~Defines(tree[n], l) BY <1>5 DEF Defines
  <2> QED BY <1>2, <1>5, <2>1 DEF LabelsUpTo
<1> QED BY <1>4, <1>5

(* So do the three ways in which iter_labels passes a node without raising *)
(* an error for the length assertions.                                     *)
LEMMA BracketsStep ==
  ASSUME NEW tree \in Seq(Nodes), NEW n \in DOMAIN tree, NEW a \in (Nat \X Nat) \union {None},
         BracketsUpTo(tree, a, n)
  PROVE  /\ ~IsStart(tree[n]) /\ ~IsEnd(tree[n])
              /\ (tree[n].kind = "assert_counter" => tree[n].n = StatementsBefore(tree, n))
              => BracketsUpTo(tree, a, n + 1)
         /\ IsStart(tree[n]) /\ a = None /\ tree[n].n \in Nat
              => BracketsUpTo(tree, <<tree[n].n, StatementsBefore(tree, n)>>, n + 1)
         /\ IsEnd(tree[n]) /\ a # None /\ StatementsBefore(tree, n) - a[2] = a[1]
              => BracketsUpTo(tree, None, n + 1)
<1>0. n \in Nat \ {0} OBVIOUS
<1>1. n \in Nat \ {0} /\ StatementsBefore(tree, n) \in Nat BY <1>0, StatementsStep
<1>2. 1..((n + 1) - 1) = 1..n /\ \A k \in 1..n : k = n \/ k \in 1..(n - 1) BY <1>1
<1>3. \A k \in 1..n : NoBracket(tree, k, n + 1) <=>
        k = n \/ (NoBracket(tree, k, n) /\ ~IsStart(tree[n]) /\ ~IsEnd(tree[n]))
  <2> TAKE k \in 1..n
  <2>1. \A j \in (k + 1)..((n + 1) - 1) : (k # n /\ j = n) \/ j \in (k + 1)..(n - 1) BY <1>1
  <2>2. \A j \in (k + 1)..(n - 1) : j \in (k + 1)..((n + 1) - 1) BY <1>1
  <2>3. k # n => n \in (k + 1)..((n + 1) - 1) BY <1>1
  <2>4. k = n => (k + 1)..((n + 1) - 1) = {} BY <1>1
  <2> QED BY <2>1, <2>2, <2>3, <2>4 DEF NoBracket
<1>4. \A k \in 1..(n - 1) :
        /\ IsStart(tree[k]) => NoBracket(tree, k, n) \/ \E e \in (k + 1)..(n - 1) : Closes(tree, k, e)
        /\ IsEnd(tree[k]) => \E s \in 1..(k - 1) : Opened(tree, s, k)
        /\ tree[k].kind = "assert_counter" => tree[k].n = StatementsBefore(tree, k)
  BY DEF BracketsUpTo
<1>5. \A k \in 1..(n - 1) :
        (\E e \in (k + 1)..(n - 1) : Closes(tree, k, e)) => \E e \in (k + 1)..((n + 1) - 1) : Closes(tree, k, e)
  <2>1. \A k \in 1..(n - 1) : \A e \in (k + 1)..(n - 1) : e \in (k + 1)..((n + 1) - 1) BY <1>1
  <2> QED BY <2>1
<1>6. ASSUME ~IsStart(tree[n]), ~IsEnd(tree[n]),
             tree[n].kind = "assert_counter" => tree[n].n = StatementsBefore(tree, n)
      PROVE  BracketsUpTo(tree, a, n + 1)
  <2>1. \A k \in 1..n :
          /\ IsStart(tree[k]) => NoBracket(tree, k, n + 1) \/ \E e \in (k + 1)..((n + 1) - 1) : Closes(tree, k, e)
          /\ IsEnd(tree[k]) => \E s \in 1..(k - 1) : Opened(tree, s, k)
          /\ tree[k].kind = "assert_counter" => tree[k].n = StatementsBefore(tree, k)
    BY <1>2, <1>3, <1>4, <1>5, <1>6
  <2>2. \A k \in 1..n : Opened(tree, k, n + 1) <=> k # n /\ Opened(tree, k, n)
    BY <1>3, <1>6 DEF Opened
  <2>3. \A k \in 1..(n - 1) : k \in 1..n /\ k # n BY <1>1
  <2>4. a = None => \A k \in 1..n : ~Opened(tree, k, n + 1) BY <1>2, <2>2 DEF BracketsUpTo
  <2>5. a # None => \E k \in 1..n : Opened(tree, k, n + 1) /\ a = <<tree[k].n, StatementsBefore(tree, k)>>
    <3>1. SUFFICES ASSUME a # None
                   PROVE  \E k \in 1..n : Opened(tree, k, n + 1) /\ a = <<tree[k].n, StatementsBefore(tree, k)>>
      OBVIOUS
    <3>2. PICK k \in 1..(n - 1) : Opened(tree, k, n) /\ a = <<tree[k].n, StatementsBefore(tree, k)>>
      BY <3>1 DEF BracketsUpTo
    <3> QED BY <2>2, <2>3, <3>2
  <2> QED BY <1>2, <2>1, <2>4, <2>5 DEF BracketsUpTo
<1>7. ASSUME IsStart(tree[n]), a = None, tree[n].n \in Nat
      PROVE  BracketsUpTo(tree, <<tree[n].n, StatementsBefore(tree, n)>>, n + 1)
  <2>0. ~IsEnd(tree[n]) /\ tree[n].kind # "assert_counter" BY <1>7 DEF IsStart, IsEnd
  <2>1. <<tree[n].n, StatementsBefore(tree, n)>> # None BY <1>1, <1>7, NoneAssumption
  <2>2. NoBracket(tree, n, n + 1) /\ n \in 1..n BY <1>1, <1>3
  <2>3. Opened(tree, n, n + 1) BY <1>7, <2>2 DEF Opened
  <2>4. \A k \in 1..(n - 1) : ~Opened(tree, k, n) BY <1>7 DEF BracketsUpTo
  <2>5. \A k \in 1..n :
          /\ IsStart(tree[k]) => NoBracket(tree, k, n + 1) \/ \E e \in (k + 1)..((n + 1) - 1) : Closes(tree, k, e)
          /\ IsEnd(tree[k]) => \E s \in 1..(k - 1) : Opened(tree, s, k)
          /\ tree[k].kind = "assert_counter" => tree[k].n = StatementsBefore(tree, k)
    BY <1>2, <1>4, <1>5, <2>0, <2>2, <2>4 DEF Opened
  <2> QED BY <1>2, <2>1, <2>2, <2>3, <2>5 DEF BracketsUpTo
<1>8. ASSUME IsEnd(tree[n]), a # None, StatementsBefore(tree, n) - a[2] = a[1]
      PROVE  BracketsUpTo(tree, None, n + 1)
  <2>0. ~IsStart(tree[n]) /\ tree[n].kind # "assert_counter" BY <1>8 DEF IsStart, IsEnd
  <2>1. PICK s \in 1..(n - 1) : Opened(tree, s, n) /\ a = <<tree[s].n, StatementsBefore(tree, s)>>
    BY <1>8 DEF BracketsUpTo
  <2>2. Closes(tree, s, n)
    BY <1>8, <2>1 DEF Closes, Opened
  <2>3. ASSUME NEW k \in 1..(n - 1), IsStart(tree[k]), NoBracket(tree, k, n)
        PROVE  k = s
    <3>1. ~(k < s) /\ ~(s < k)
      <4>1. k < s => s \in (k + 1)..(n - 1) BY <1>1
      <4>2. s < k => k \in (s + 1)..(n - 1) BY <1>1
      <4> QED BY <2>1, <2>3, <4>1, <4>2 DEF Opened, NoBracket
    <3> QED BY <3>1, <1>1
  <2>4. \A k \in 1..(n - 1) : n \in (k + 1)..((n + 1) - 1) BY <1>1
  <2>5. \A k \in 1..n :
          /\ IsStart(tree[k]) => NoBracket(tree, k, n + 1) \/ \E e \in (k + 1)..((n + 1) - 1) : Closes(tree, k, e)
          /\ IsEnd(tree[k]) => \E t \in 1..(k - 1) : Opened(tree, t, k)
          /\ tree[k].kind = "assert_counter" => tree[k].n = StatementsBefore(tree, k)
    BY <1>2, <1>4, <1>5, <2>0, <2>1, <2>2, <2>3, <2>4
  <2>6. \A k \in 1..n : ~Opened(tree, k, n + 1) BY <1>2, <1>3, <1>8, <2>0 DEF Opened
  <2> QED BY <1>2, <2>5, <2>6 DEF BracketsUpTo
<1> QED BY <1>6, <1>7, <1>8

(* A label has one address.                                                *)
LEMMA LastLabelUnique ==
  ASSUME NEW tree, NEW n \in Nat, NEW l, NEW a, NEW b, LastLabel(tree, l, a, n), LastLabel(tree, l, b, n)
  PROVE  a = b
<1>1. PICK k \in 1..(n - 1) : Defines(tree[k], l) /\ a = StatementsBefore(tree, k)
                              /\ \A j \in (k + 1)..(n - 1) : ~Defines(tree[j], l)
  BY DEF LastLabel
<1>2. PICK m \in 1..(n - 1) : Defines(tree[m], l) /\ b = StatementsBefore(tree, m)
                              /\ \A j \in (m + 1)..(n - 1) : ~Defines(tree[j], l)
  BY DEF LastLabel
<1>3. (k < m => m \in (k + 1)..(n - 1)) /\ (m < k => k \in (m + 1)..(n - 1)) OBVIOUS
<1>4. k = m BY <1>1, <1>2, <1>3
<1> QED BY <1>1, <1>2, <1>4

(* Replacing references by addresses moves no label and no statement.      *)
LEMMA RewriteSame ==
  ASSUME TypeOK, IsRewritten(source, Len(ast))
  PROVE  /\ CountStatements(source) = CountStatements(ast)
         /\ \A k \in 1..(Len(ast) + 1) : StatementsBefore(source, k) = StatementsBefore(ast, k)
         /\ \A l \in Labels : \A k \in 1..Len(ast) : Defines(source[k], l) <=> Defines(ast[k], l)
         /\ \A l \in Labels : \A a :
              LastLabel(source, l, a, Len(ast) + 1) <=> LastLabel(ast, l, a, Len(ast) + 1)
<1>1. Len(ast) \in Nat /\ DOMAIN ast = 1..Len(ast) /\ DOMAIN source = 1..Len(ast)
  BY DEF TypeOK, IsRewritten
<1>2. \A k \in 1..Len(ast) : /\ IsStatement(source[k]) <=> IsStatement(ast[k])
                             /\ \A l \in Labels : Defines(source[k], l) <=> Defines(ast[k], l)
  <2> TAKE k \in 1..Len(ast)
  <2>1. source[k] = IF ast[k].kind = "jump" THEN Address(labels[ast[k].label]) ELSE ast[k]
    BY DEF IsRewritten, Rewritten
  <2>2. ast[k].kind = "jump" => source[k].kind = "address"
    BY <2>1 DEF Address
  <2> QED BY <2>1, <2>2 DEF IsStatement, Statements, Defines
<1>3. {k \in DOMAIN source : IsStatement(source[k])} = {k \in DOMAIN ast : IsStatement(ast[k])}
  BY <1>1, <1>2
<1>4. ASSUME NEW k \in 1..(Len(ast) + 1)
      PROVE  {j \in 1..(k - 1) : IsStatement(source[j])} = {j \in 1..(k - 1) : IsStatement(ast[j])}
  <2>1. \A j \in 1..(k - 1) : j \in 1..Len(ast) BY <1>1
  <2> QED BY <1>2, <2>1
<1>5. \A k \in 1..(Len(ast) + 1) : StatementsBefore(source, k) = StatementsBefore(ast, k)
  BY <1>4 DEF StatementsBefore
<1>6. ASSUME NEW l \in Labels, NEW a
      PROVE  LastLabel(source, l, a, Len(ast) + 1) <=> LastLabel(ast, l, a, Len(ast) + 1)
  <2>1. \A k \in 1..((Len(ast) + 1) - 1) :
          /\ k \in 1..Len(ast) /\ k \in 1..(Len(ast) + 1)
          /\ \A j \in (k + 1)..((Len(ast) + 1) - 1) : j \in 1..Len(ast)
    BY <1>1
  <2> QED BY <1>2, <1>5, <2>1 DEF LastLabel
<1> QED BY <1>2, <1>3, <1>5, <1>6 DEF CountStatements

(* An iteration of iter_labels, or its end, keeps the invariant; the       *)
(* comparison at the end of the second traversal finds no difference.      *)
LEMMA IterKeeps == IInv /\ IterLabels => IInv'
<1> SUFFICES ASSUME IInv, IterLabels PROVE IInv' OBVIOUS
<1> USE DEF IInv
<1>1. pass \in {"labels", "verify"} /\ ast' = ast /\ source' = source /\ UNCHANGED replaceVars
  BY DEF IterLabels
<1>2. /\ ast \in Seq(Nodes) /\ Len(ast) \in Nat /\ DOMAIN source = 1..Len(source)
      /\ source \in Seq(Nodes) /\ Len(source) \in Nat /\ i \in Nat \ {0} /\ i <= Len(source) + 1
      /\ counter \in Nat /\ assertion \in (Nat \X Nat) \union {None}
      /\ found \in [Labels -> Int] /\ labels \in [Labels -> Int]
  BY <1>1 DEF TypeOK
<1>3. /\ counter = StatementsBefore(source, i)
      /\ LabelsUpTo(source, found, i) /\ BracketsUpTo(source, assertion, i)
  BY <1>1 DEF LabelInv
<1>4. UNCHANGED checkVars
  BY DEF IterLabels, EndLabels, Error
<1>5. CheckInv'
  <2>1. pass' # "check"
    BY <1>1 DEF IterLabels, EndLabels, Error, Define, CountOne, StartAssert, EndAssert, AssertCounter, Skip, Proceed
  <2>2. SilenceMeansSaved BY <1>1 DEF CheckInv
  <2>3. SilenceMeansSaved'
    BY <1>1, <1>4, <2>2 DEF SilenceMeansSaved, checkVars, Under, Restored, Pushed
  <2> QED BY <2>1, <2>3 DEF CheckInv
<1>6. CASE i <= Len(source)
  <2> DEFINE node == source[i]
  <2>0. i \in DOMAIN source /\ node \in Nodes BY <1>2, <1>6
  <2>1. /\ \/ Define(node) \/ CountOne(node) \/ StartAssert(node)
           \/ EndAssert(node) \/ AssertCounter(node) \/ Skip(node)
        /\ labels' = labels
    BY <1>2, <1>6 DEF IterLabels
  <2>2. CASE pass' = "error"
    <3>1. UNCHANGED <<i, labelVars>>
      BY <1>1, <2>1, <2>2 DEF Error, Define, CountOne, StartAssert, EndAssert, AssertCounter, Skip, Proceed
    <3>2. TypeOK' BY <1>1, <2>1, <2>2, <3>1 DEF TypeOK, labelVars, replaceVars
    <3>3. LabelInv' BY <2>2 DEF LabelInv, Accepted
    <3>4. ReplaceInv' BY <2>2 DEF ReplaceInv
    <3> QED BY <1>5, <3>2, <3>3, <3>4
  <2>3. CASE pass' # "error"
    <3>1. pass' = pass /\ i' = i + 1
      BY <2>1, <2>3 DEF Error, Define, CountOne, StartAssert, EndAssert, AssertCounter, Skip, Proceed
    <3>2. node.kind \in {"label"} \union Statements \union Directives
          /\ (node.kind = "label" => node.label \in Labels) /\ node.n \in Int
      BY <2>0, NodeFacts
    <3>3. /\ StatementsBefore(source, i + 1) =
               IF IsStatement(node) THEN StatementsBefore(source, i) + 1 ELSE StatementsBefore(source, i)
      BY <1>2, StatementsStep
    <3>4. counter' = IF IsStatement(node) THEN counter + 1 ELSE counter
      BY <2>1, <2>3, <3>2 DEF Error, Define, CountOne, StartAssert, EndAssert, AssertCounter, Skip, Proceed, labelVars, IsStatement, Statements, Directives
    <3>5. counter' = StatementsBefore(source, i + 1) /\ counter' \in Nat BY <1>2, <1>3, <3>3, <3>4
    <3>6. found' = IF node.kind = "label" THEN [found EXCEPT ![node.label] = counter] ELSE found
      BY <2>1, <2>3, <3>2 DEF Error, Define, CountOne, StartAssert, EndAssert, AssertCounter, Skip, Proceed, labelVars, IsStatement, Statements, Directives
    <3>7. LabelsUpTo(source, found', i + 1)
      BY <1>2, <1>3, <2>0, <3>6, LabelsStep
    <3>8. found' \in [Labels -> Int] BY <1>2, <3>2, <3>6
    <3>9. BracketsUpTo(source, assertion', i + 1) /\ assertion' \in (Nat \X Nat) \union {None}
      <4>1. CASE StartAssert(node)
        <5>1. IsStart(node) /\ assertion = None /\ node.n \in Nat /\ assertion' = <<node.n, counter>>
          BY <2>3, <3>2, <4>1 DEF StartAssert, Error, IsStart
        <5> QED BY <1>2, <1>3, <2>0, <5>1, BracketsStep
      <4>2. CASE EndAssert(node)
        <5>1. IsEnd(node) /\ assertion # None /\ counter - assertion[2] = assertion[1] /\ assertion' = None
          BY <2>3, <4>2 DEF EndAssert, Error, IsEnd
        <5> QED BY <1>2, <1>3, <2>0, <5>1, BracketsStep
      <4>3. CASE Define(node) \/ CountOne(node) \/ AssertCounter(node) \/ Skip(node)
        <5>1. /\ ~IsStart(node) /\ ~IsEnd(node) /\ assertion' = assertion
              /\ (node.kind = "assert_counter" => node.n = counter)
          BY <2>3, <4>3 DEF Define, CountOne, AssertCounter, Skip, Error, IsStart, IsEnd, labelVars,
            IsStatement, Statements, Directives
        <5> QED BY <1>2, <1>3, <2>0, <5>1, BracketsStep
      <4> QED BY <2>1, <4>1, <4>2, <4>3
    <3>10. TypeOK'
      <4>1. i' \in Nat \ {0} /\ i' <= Len(source) + 1 BY <1>2, <1>6, <3>1
      <4> QED BY <1>1, <2>1, <3>1, <3>5, <3>8, <3>9, <4>1 DEF TypeOK, replaceVars
    <3>11. LabelInv'
      <4>1. /\ (counter = StatementsBefore(source, i))'
            /\ LabelsUpTo(source, found, i)' /\ BracketsUpTo(source, assertion, i)'
        BY <1>1, <3>1, <3>5, <3>7, <3>9
      <4>2. (pass = "labels" => source = ast) /\ (pass = "verify" =>
              LabelsUpTo(ast, labels, Len(ast) + 1) /\ BracketsUpTo(ast, None, Len(ast) + 1))
        BY DEF LabelInv, Accepted
      <4>3. pass' = "verify" => LabelsUpTo(ast, labels, Len(ast) + 1)' /\ BracketsUpTo(ast, None, Len(ast) + 1)'
        BY <1>1, <2>1, <3>1, <4>2
      <4> QED BY <1>1, <3>1, <4>1, <4>2, <4>3 DEF LabelInv, Accepted
    <3>12. ReplaceInv'
      BY <1>1, <2>1, <3>1 DEF ReplaceInv, replaceVars, IsRewritten, Rewritten
    <3> QED BY <1>5, <3>10, <3>11, <3>12
  <2> QED BY <2>2, <2>3
<1>7. CASE i > Len(source)
  <2>0. i = Len(source) + 1 BY <1>2, <1>7
  <2>1. EndLabels BY <1>2, <1>7 DEF IterLabels
  <2>2. CASE assertion # None
    <3>1. pass' = "error" /\ UNCHANGED <<i, labelVars, labels>> BY <2>1, <2>2 DEF EndLabels, Error
    <3>2. TypeOK' BY <1>1, <3>1 DEF TypeOK, labelVars, replaceVars
    <3>3. LabelInv' BY <3>1 DEF LabelInv, Accepted
    <3>4. ReplaceInv' BY <3>1 DEF ReplaceInv
    <3> QED BY <1>5, <3>2, <3>3, <3>4
  <2>3. CASE assertion = None /\ pass = "labels"
    <3>1. pass' = "replace" /\ i' = 1 /\ labels' = found /\ counter' = 0 /\ assertion' = None /\ found' = NoLabels
      BY <2>1, <2>3 DEF EndLabels
    <3>2. TypeOK' BY <1>1, <3>1 DEF TypeOK, replaceVars, NoLabels
    <3>3. source = ast BY <2>3 DEF LabelInv
    <3>4. LabelsUpTo(ast, labels, Len(ast) + 1)' /\ BracketsUpTo(ast, None, Len(ast) + 1)'
      BY <1>1, <1>3, <2>0, <2>3, <3>1, <3>3
    <3>5. LabelInv' BY <3>1, <3>4 DEF LabelInv, Accepted
    <3>6. start' = 1 /\ parts' = <<>> BY <1>1, <2>3 DEF ReplaceInv, replaceVars
    <3>7. IsRewritten(parts, start - 1)' BY <3>6 DEF IsRewritten
    <3>8. ReplaceInv' BY <3>1, <3>7 DEF ReplaceInv
    <3> QED BY <1>5, <3>2, <3>5, <3>8
  <2>4. CASE assertion = None /\ pass = "verify"
    <3>0. IsRewritten(source, Len(ast)) BY <2>4 DEF ReplaceInv
    <3>1. Len(source) = Len(ast) BY <3>0 DEF IsRewritten
    <3>2. LabelsUpTo(ast, labels, Len(ast) + 1) /\ BracketsUpTo(ast, None, Len(ast) + 1)
      BY <2>4 DEF LabelInv, Accepted
    <3>3. found = labels
      <4>1. ASSUME NEW l \in Labels PROVE found[l] = labels[l]
        <5>1. IF \E k \in 1..((Len(ast) + 1) - 1) : Defines(source[k], l)
              THEN LastLabel(source, l, found[l], Len(ast) + 1) ELSE found[l] = -1
          BY <1>3, <2>0, <3>1 DEF LabelsUpTo
        <5>2. IF \E k \in 1..((Len(ast) + 1) - 1) : Defines(ast[k], l)
              THEN LastLabel(ast, l, labels[l], Len(ast) + 1) ELSE labels[l] = -1
          BY <3>2 DEF LabelsUpTo
        <5>3. 1..((Len(ast) + 1) - 1) = 1..Len(ast) /\ Len(ast) + 1 \in Nat BY <1>2
        <5> QED BY <3>0, <5>1, <5>2, <5>3, RewriteSame, LastLabelUnique
      <4> QED BY <1>2, <4>1
    <3>4. CountStatements(ast) = CountStatements(source) BY <3>0, RewriteSame
    <3>5. pass' = "done" /\ i' = i /\ labels' = labels /\ counter' = 0 /\ assertion' = None /\ found' = NoLabels
      BY <2>1, <2>4, <3>3, <3>4 DEF EndLabels
    <3>6. TypeOK' BY <1>1, <3>5 DEF TypeOK, replaceVars, NoLabels
    <3>7. LabelsUpTo(ast, labels, Len(ast) + 1)' /\ BracketsUpTo(ast, None, Len(ast) + 1)'
      BY <1>1, <3>2, <3>5
    <3>8. LabelInv' BY <3>5, <3>7 DEF LabelInv, Accepted
    <3>9. ReplaceInv' BY <1>1, <3>0, <3>5 DEF ReplaceInv, IsRewritten, Rewritten
    <3> QED BY <1>5, <3>6, <3>8, <3>9
  <2> QED BY <1>1, <2>2, <2>3, <2>4
<1> QED BY <1>2, <1>6, <1>7

(* Concatenation of trees.                                                 *)
LEMMA ConcatNodes ==
  ASSUME NEW s \in Seq(Nodes), NEW t \in Seq(Nodes)
  PROVE  /\ s \o t \in Seq(Nodes) /\ Len(s \o t) = Len(s) + Len(t)
         /\ \A j \in 1..(Len(s) + Len(t)) : (s \o t)[j] = IF j <= Len(s) THEN s[j] ELSE t[j - Len(s)]
BY ConcatProperties

(* Copying the text up to the node before the next reference.              *)
LEMMA CopyKeeps ==
  ASSUME TypeOK, pass = "replace", IsRewritten(parts, start - 1), NEW k \in (start - 1)..Len(ast),
         \A j \in start..k : ast[j].kind # "jump"
  PROVE  /\ IsRewritten(parts \o SubSeq(ast, start, k), k)
         /\ parts \o SubSeq(ast, start, k) \in Seq(Nodes)
<1>1. /\ ast \in Seq(Nodes) /\ parts \in Seq(Nodes) /\ Len(ast) \in Nat /\ Len(parts) = start - 1
      /\ start \in 1..(Len(ast) + 1) /\ k \in Int
  BY DEF TypeOK, IsRewritten
<1> DEFINE s == SubSeq(ast, start, k)
<1>2. s \in Seq(Nodes) /\ Len(s) = k - (start - 1) /\ \A j \in 1..Len(s) : s[j] = ast[start + j - 1]
  <2>1. start \in Int /\ k \in Int /\ \A j \in start..k : j \in 1..Len(ast) BY <1>1
  <2>2. \A j \in start..k : ast[j] \in Nodes BY <1>1, <2>1
  <2>3. /\ s \in Seq(Nodes) /\ Len(s) = IF start <= k THEN k - start + 1 ELSE 0
        /\ \A j \in 1..(k - start + 1) : s[j] = ast[start + j - 1]
    BY <2>1, <2>2, SubSeqProperties
  <2>4. Len(s) = k - start + 1 /\ k - start + 1 = k - (start - 1) BY <1>1, <2>3
  <2> QED BY <2>3, <2>4
<1> HIDE DEF s
<1>3. /\ parts \o s \in Seq(Nodes) /\ Len(parts \o s) = k
      /\ \A j \in 1..(Len(parts) + Len(s)) : (parts \o s)[j] = IF j <= Len(parts) THEN parts[j] ELSE s[j - Len(parts)]
  <2>1. Len(parts) + Len(s) = k BY <1>1, <1>2
  <2> QED BY <1>1, <1>2, <2>1, ConcatNodes
<1>4. ASSUME NEW j \in 1..k
      PROVE  (parts \o s)[j] = Rewritten(ast[j]) /\ (ast[j].kind = "jump" => labels[ast[j].label] # -1)
  <2>1. CASE j <= start - 1
    <3>0. j \in 1..(start - 1) /\ j \in 1..(Len(parts) + Len(s)) /\ j <= Len(parts) BY <1>1, <1>2, <2>1
    <3>1. j \in 1..(start - 1) /\ (parts \o s)[j] = parts[j] BY <1>3, <3>0
    <3> QED BY <3>1 DEF IsRewritten
  <2>2. CASE j > start - 1
    <3>0. j \in 1..(Len(parts) + Len(s)) /\ ~(j <= Len(parts)) /\ j - Len(parts) \in 1..Len(s)
          /\ start + (j - Len(parts)) - 1 = j /\ j \in start..k
      <4>1. Len(parts) = start - 1 /\ Len(s) = k - (start - 1) /\ start \in Int /\ k \in Int /\ 1 <= start
        BY <1>1, <1>2
      <4> QED BY <2>2, <4>1
    <3>1. (parts \o s)[j] = s[j - Len(parts)] BY <1>3, <3>0
    <3>2. (parts \o s)[j] = ast[j] BY <1>2, <3>0, <3>1
    <3> QED BY <3>0, <3>2 DEF Rewritten
  <2>3. j \in Int /\ start - 1 \in Int /\ (j <= start - 1 \/ j > start - 1) BY <1>1
  <2> QED BY <2>1, <2>2, <2>3
<1> QED BY <1>3, <1>4 DEF IsRewritten, s

(* The last label of a whole traversal is the one LabelAt speaks of.       *)
LEMMA LastLabelIsAt ==
  ASSUME NEW tree \in Seq(Nodes), NEW l, NEW a, LastLabel(tree, l, a, Len(tree) + 1)
  PROVE  LabelAt(tree, l, a)
<1>1. Len(tree) \in Nat /\ DOMAIN tree = 1..Len(tree) /\ 1..((Len(tree) + 1) - 1) = DOMAIN tree OBVIOUS
<1>2. PICK k \in DOMAIN tree : Defines(tree[k], l) /\ a = StatementsBefore(tree, k)
                  /\ \A j \in (k + 1)..((Len(tree) + 1) - 1) : ~Defines(tree[j], l)
  BY <1>1 DEF LastLabel
<1>3. \A j \in DOMAIN tree : j > k => j \in (k + 1)..((Len(tree) + 1) - 1) BY <1>1
<1> QED BY <1>2, <1>3 DEF LabelAt, Defines

(* If there is no next reference, no reference is left: otherwise there    *)
(* would be a first one.                                                   *)
LEMMA NoRefLeft ==
  ASSUME ast \in Seq(Nodes), start \in Nat \ {0}, \A k \in start..Len(ast) : ~NextRef(k)
  PROVE  \A k \in start..Len(ast) : ast[k].kind # "jump"
<1> DEFINE S == {n \in Nat : \A k \in start..Len(ast) : k < start + n => ast[k].kind # "jump"}
<1>1. 0 \in S OBVIOUS
<1>2. ASSUME NEW n \in Nat, n \in S PROVE n + 1 \in S
  <2> SUFFICES ASSUME NEW k \in start..Len(ast), k < start + (n + 1) PROVE ast[k].kind # "jump" OBVIOUS
  <2>1. CASE k < start + n BY <1>2, <2>1
  <2>2. CASE k = start + n
    <3>1. \A j \in start..(k - 1) : ast[j].kind # "jump" BY <1>2, <2>2
    <3>2. k \in DOMAIN ast /\ k >= start OBVIOUS
    <3> QED BY <3>1, <3>2 DEF NextRef
  <2> QED BY <2>1, <2>2
<1>3. Nat \subseteq S BY <1>1, <1>2, SetInduction
<1> TAKE k \in start..Len(ast)
<1>4. k - start + 1 \in S /\ k < start + (k - start + 1) BY <1>3
<1> QED BY <1>4

(* A step of replace_symbolic_labels keeps the invariant.                  *)
LEMMA ReplaceKeeps == IInv /\ Replace => IInv'
<1> SUFFICES ASSUME IInv, Replace PROVE IInv' OBVIOUS
<1> USE DEF IInv
<1>1. pass = "replace" /\ ast' = ast /\ UNCHANGED <<checkVars, labelVars, labels>> BY DEF Replace
<1>2. /\ ast \in Seq(Nodes) /\ parts \in Seq(Nodes) /\ Len(ast) \in Nat /\ DOMAIN ast = 1..Len(ast)
      /\ start \in 1..(Len(ast) + 1) /\ labels \in [Labels -> Int]
  BY DEF TypeOK
<1>3. IsRewritten(parts, start - 1) BY <1>1 DEF ReplaceInv
<1>4. LabelsUpTo(ast, labels, Len(ast) + 1) /\ BracketsUpTo(ast, None, Len(ast) + 1)
      /\ counter = 0 /\ assertion = None /\ found = NoLabels
  BY <1>1 DEF LabelInv, Accepted
<1>5. LabelsUpTo(ast, labels, Len(ast) + 1)' /\ BracketsUpTo(ast, None, Len(ast) + 1)'
      /\ counter' = 0 /\ assertion' = None /\ found' = NoLabels
  BY <1>1, <1>4 DEF labelVars
<1>6. pass' \in {"replace", "verify", "error"} BY <1>1 DEF Replace, ReplaceOne, ReplaceRest
<1>7. CheckInv'
  <2>1. SilenceMeansSaved BY <1>1 DEF CheckInv
  <2>2. SilenceMeansSaved'
    BY <1>1, <2>1 DEF SilenceMeansSaved, checkVars, Under, Restored, Pushed
  <2> QED BY <1>6, <2>2 DEF CheckInv
<1>8. ASSUME NEW k \in start..Len(ast), NextRef(k), ReplaceOne(k)
      PROVE  IInv'
  <2>1. k \in 1..Len(ast) /\ ast[k].kind = "jump" /\ \A j \in start..(k - 1) : ast[j].kind # "jump"
    BY <1>2, <1>8 DEF NextRef
  <2>2. CASE labels[ast[k].label] = -1
    <3>1. pass' = "error" /\ UNCHANGED <<source, i, replaceVars>> BY <1>8, <2>2 DEF ReplaceOne
    <3>2. TypeOK' BY <1>1, <3>1 DEF TypeOK, labelVars, replaceVars
    <3>3. LabelInv' BY <3>1 DEF LabelInv, Accepted
    <3>4. ReplaceInv' BY <3>1 DEF ReplaceInv
    <3> QED BY <1>7, <3>2, <3>3, <3>4
  <2>3. CASE labels[ast[k].label] # -1
    <3> DEFINE copy == parts \o SubSeq(ast, start, k - 1)
               addr == Address(labels[ast[k].label])
    <3>1. parts' = copy \o <<addr>> /\ start' = k + 1 /\ UNCHANGED <<pass, source, i>>
      BY <1>8, <2>3 DEF ReplaceOne
    <3>2. k - 1 \in (start - 1)..Len(ast) BY <1>2, <2>1
    <3>3. IsRewritten(copy, k - 1) /\ copy \in Seq(Nodes)
      BY <1>1, <1>3, <2>1, <3>2, CopyKeeps
    <3>4. ast[k] \in Nodes /\ ast[k].label \in Labels
      <4>1. ast[k] \in Nodes BY <1>2, <2>1
      <4> QED BY <2>1, <4>1, NodeFacts
    <3>5. addr \in Nodes
      <4>1. labels[ast[k].label] \in Int BY <1>2, <3>4
      <4> QED BY <4>1 DEF Address, Nodes, Statements, Directives
    <3>a. addr = Rewritten(ast[k]) BY <2>1 DEF Rewritten
    <3> HIDE DEF copy, addr
    <3>6. /\ parts' \in Seq(Nodes) /\ Len(parts') = k
          /\ \A j \in 1..k : parts'[j] = IF j <= k - 1 THEN copy[j] ELSE addr
      <4>1. Len(copy) = k - 1 BY <3>3 DEF IsRewritten
      <4>2. <<addr>> \in Seq(Nodes) /\ Len(<<addr>>) = 1 /\ <<addr>>[1] = addr BY <3>5
      <4>3. /\ copy \o <<addr>> \in Seq(Nodes) /\ Len(copy \o <<addr>>) = k
            /\ \A j \in 1..(Len(copy) + Len(<<addr>>)) :
                 (copy \o <<addr>>)[j] = IF j <= Len(copy) THEN copy[j] ELSE <<addr>>[j - Len(copy)]
        <5>1. Len(copy) + Len(<<addr>>) = k BY <2>1, <4>1, <4>2
        <5> QED BY <3>3, <4>2, <5>1, ConcatNodes
      <4>4. \A j \in 1..k : ~(j <= k - 1) => j - Len(copy) = 1 BY <2>1, <4>1
      <4> QED BY <2>1, <3>1, <4>1, <4>2, <4>3, <4>4
    <3>7. IsRewritten(parts', k)
      <4>1. ASSUME NEW j \in 1..k
            PROVE  parts'[j] = Rewritten(ast[j]) /\ (ast[j].kind = "jump" => labels[ast[j].label] # -1)
        <5>1. CASE j = k
          <6>1. parts'[j] = addr BY <2>1, <3>6, <5>1
          <6> QED BY <2>3, <3>a, <5>1, <6>1
        <5>2. CASE j # k
          <6>1. j \in 1..(k - 1) /\ parts'[j] = copy[j] BY <2>1, <3>6, <5>2
          <6> QED BY <3>3, <6>1 DEF IsRewritten
        <5> QED BY <5>1, <5>2
      <4> QED BY <3>6, <4>1 DEF IsRewritten
    <3>8. TypeOK'
      <4>1. start' \in 1..(Len(ast) + 1) BY <1>2, <2>1, <3>1
      <4> QED BY <1>1, <3>1, <3>6, <4>1 DEF TypeOK, labelVars
    <3>9. IsRewritten(parts, start - 1)'
      <4>1. start' - 1 = k BY <2>1, <3>1
      <4> QED BY <1>1, <3>7, <4>1 DEF IsRewritten, Rewritten
    <3>10. ReplaceInv' BY <1>1, <3>1, <3>9 DEF ReplaceInv
    <3>11. LabelInv' BY <1>1, <1>5, <3>1 DEF LabelInv, Accepted
    <3> QED BY <1>7, <3>8, <3>10, <3>11
  <2> QED BY <2>2, <2>3
<1>9. ASSUME \A k \in start..Len(ast) : ~NextRef(k), ReplaceRest
      PROVE  IInv'
  <2>1. /\ parts' = parts \o SubSeq(ast, start, Len(ast)) /\ start' = Len(ast) + 1
        /\ source' = parts' /\ pass' = "verify" /\ i' = 1
    BY <1>9 DEF ReplaceRest
  <2>2. \A j \in start..Len(ast) : ast[j].kind # "jump"
    BY <1>2, <1>9, NoRefLeft
  <2>3. Len(ast) \in (start - 1)..Len(ast) BY <1>2
  <2>4. IsRewritten(parts', Len(ast)) /\ parts' \in Seq(Nodes)
    BY <1>1, <1>3, <2>1, <2>2, <2>3, CopyKeeps
  <2>5. TypeOK'
    <3>1. Len(parts') = Len(ast) BY <2>4 DEF IsRewritten
    <3> QED BY <1>1, <1>2, <2>1, <2>4, <3>1 DEF TypeOK, labelVars
  <2>6. IsRewritten(source, Len(ast))' BY <1>1, <2>1, <2>4 DEF IsRewritten, Rewritten
  <2>7. ReplaceInv' BY <2>1, <2>6 DEF ReplaceInv
  <2>8. /\ (counter = StatementsBefore(source, i))'
        /\ LabelsUpTo(source, found, i)' /\ BracketsUpTo(source, assertion, i)'
    <3>1. StatementsBefore(source', 1) = 0 BY StatementsStep
    <3>2. LabelsUpTo(source', NoLabels, 1) BY DEF LabelsUpTo, NoLabels
    <3>3. BracketsUpTo(source', None, 1) BY DEF BracketsUpTo
    <3> QED BY <1>5, <2>1, <3>1, <3>2, <3>3
  <2>9. LabelInv' BY <1>5, <2>1, <2>8 DEF LabelInv, Accepted
  <2> QED BY <1>7, <2>5, <2>7, <2>9
<1> QED BY <1>8, <1>9 DEF Replace

-----------------------------------------------------------------------------
(* The invariant of the three passes over any program.                     *)
THEOREM PassesInvariant == Spec => []IInv
<1>1. IInv /\ [Next]_vars => IInv'
  <2> SUFFICES ASSUME IInv, [Next]_vars PROVE IInv' OBVIOUS
  <2>1. CASE Check BY <2>1, CheckKeeps
  <2>2. CASE IterLabels BY <2>2, IterKeeps
  <2>3. CASE Replace BY <2>3, ReplaceKeeps
  <2>4. CASE UNCHANGED vars
    <3>1. TypeOK' BY <2>4 DEF vars, checkVars, labelVars, replaceVars, IInv, TypeOK
    <3>2. CheckInv'
      BY <2>4 DEF vars, checkVars, IInv, CheckInv, SilenceMeansSaved, Under, Restored, Pushed, Covered, Written
    <3>3. LabelInv' BY <2>4 DEF vars, labelVars, IInv, LabelInv, Accepted
    <3>4. ReplaceInv' BY <2>4 DEF vars, replaceVars, IInv, ReplaceInv, IsRewritten, Rewritten
    <3> QED BY <3>1, <3>2, <3>3, <3>4 DEF IInv
  <2> QED BY <2>1, <2>2, <2>3, <2>4 DEF Next, Ended
<1> QED BY <1>1, InitHolds, PTL DEF Spec

(* For every program: worker_labels holds the address of every label,      *)
(* counted in statements (iter_labels).                                    *)
THEOREM LabelsAreResolved == Spec => []LabelsResolve
<1>1. IInv => LabelsResolve
  <2> SUFFICES ASSUME IInv, Accepted, NEW l \in Labels
               PROVE  IF \E k \in DOMAIN ast : ast[k].kind = "label" /\ ast[k].label = l
                      THEN LabelAt(ast, l, labels[l]) ELSE labels[l] = -1
    BY DEF LabelsResolve
  <2>1. ast \in Seq(Nodes) /\ Len(ast) \in Nat /\ DOMAIN ast = 1..Len(ast) BY DEF IInv, TypeOK
  <2>2. LabelsUpTo(ast, labels, Len(ast) + 1) BY DEF IInv, LabelInv
  <2>3. 1..((Len(ast) + 1) - 1) = DOMAIN ast BY <2>1
  <2>4. LastLabel(ast, l, labels[l], Len(ast) + 1) => LabelAt(ast, l, labels[l])
    BY <2>1, <2>3, LastLabelIsAt
  <2> QED BY <2>2, <2>3, <2>4 DEF LabelsUpTo, Defines
<1> QED BY <1>1, PassesInvariant, PTL

(* For every program that iter_labels accepts: the length assertions are   *)
(* properly nested and exact, and assert_counter stands at its address.    *)
THEOREM LengthsAreChecked == Spec => []LengthsHold
<1>1. IInv => LengthsHold
  <2> SUFFICES ASSUME IInv, Accepted PROVE LengthsHold BY DEF LengthsHold
  <2>1. ast \in Seq(Nodes) /\ Len(ast) \in Nat /\ DOMAIN ast = 1..Len(ast) BY DEF IInv, TypeOK
  <2>2. BracketsUpTo(ast, None, Len(ast) + 1) BY DEF IInv, LabelInv
  <2>3. 1..((Len(ast) + 1) - 1) = DOMAIN ast BY <2>1
  <2>4. \A k \in Brackets(ast) : k \in DOMAIN ast /\ k \in Nat /\ (IsStart(ast[k]) \/ IsEnd(ast[k]))
    BY <2>1 DEF Brackets, IsStart, IsEnd
  <2>5. \A k \in DOMAIN ast : IsStart(ast[k]) \/ IsEnd(ast[k]) => k \in Brackets(ast)
    BY DEF Brackets, IsStart, IsEnd
  <2>6. ASSUME NEW k \in Brackets(ast), IsStart(ast[k])
        PROVE  \E e \in Brackets(ast) :
                 /\ e > k /\ ast[e].kind = "end_assert_length"
                 /\ \A j \in Brackets(ast) : ~(k < j /\ j < e)
                 /\ StatementsBefore(ast, e) - StatementsBefore(ast, k) = ast[k].n
    <3>1. ~Opened(ast, k, Len(ast) + 1) BY <2>2, <2>3, <2>4 DEF BracketsUpTo
    <3>2. PICK e \in (k + 1)..((Len(ast) + 1) - 1) : Closes(ast, k, e)
      BY <2>2, <2>3, <2>4, <2>6, <3>1 DEF BracketsUpTo, Opened
    <3>3. e \in DOMAIN ast /\ e > k /\ k \in Nat BY <2>1, <2>4, <3>2
    <3>4. \A j \in Brackets(ast) : k < j /\ j < e => j \in (k + 1)..(e - 1) BY <2>1, <2>4, <3>3
    <3> QED BY <2>4, <2>5, <3>2, <3>3, <3>4 DEF Closes, NoBracket, IsEnd
  <2>7. ASSUME NEW k \in Brackets(ast), IsEnd(ast[k])
        PROVE  \E s \in Brackets(ast) :
                 /\ s < k /\ ast[s].kind = "start_assert_length"
                 /\ \A j \in Brackets(ast) : ~(s < j /\ j < k)
    <3>1. PICK s \in 1..(k - 1) : Opened(ast, s, k) BY <2>2, <2>3, <2>4, <2>7 DEF BracketsUpTo
    <3>3. s \in DOMAIN ast /\ s < k /\ k \in Nat BY <2>1, <2>4, <3>1
    <3>4. \A j \in Brackets(ast) : s < j /\ j < k => j \in (s + 1)..(k - 1) BY <2>1, <2>4, <3>3
    <3> QED BY <2>4, <2>5, <3>1, <3>3, <3>4 DEF Opened, NoBracket, IsStart
  <2>8. \A k \in DOMAIN ast : ast[k].kind = "assert_counter" => ast[k].n = StatementsBefore(ast, k)
    BY <2>2, <2>3 DEF BracketsUpTo
  <2>9. \A k \in Brackets(ast) : ast[k].kind # "start_assert_length" => IsEnd(ast[k])
    BY <2>4 DEF IsStart
  <2> QED BY <2>6, <2>7, <2>8, <2>9 DEF LengthsHold, IsStart
<1> QED BY <1>1, PassesInvariant, PTL

(* For every program: replace_symbolic_labels replaces each reference by   *)
(* the address of its label, changes nothing else, and never fails its own *)
(* sanity checks.                                                          *)
THEOREM RewriteIsExact == Spec => []RewriteExact
<1>1. IInv => RewriteExact
  <2> SUFFICES ASSUME IInv PROVE RewriteExact OBVIOUS
  <2>0. pass # "mismatch" BY DEF IInv, ReplaceInv
  <2>1. ASSUME pass \in {"verify", "done"}, NEW k \in DOMAIN ast
        PROVE  IF ast[k].kind = "jump"
               THEN source[k].kind = "address" /\ LabelAt(source, ast[k].label, source[k].n)
               ELSE source[k] = ast[k]
    <3>1. IsRewritten(source, Len(ast)) /\ TypeOK BY <2>1 DEF IInv, ReplaceInv
    <3>2. ast \in Seq(Nodes) /\ Len(ast) \in Nat /\ DOMAIN ast = 1..Len(ast) /\ ast[k] \in Nodes
          /\ source \in Seq(Nodes) /\ Len(source) = Len(ast) /\ DOMAIN source = 1..Len(source)
      BY <3>1 DEF TypeOK, IsRewritten
    <3>3. source[k] = Rewritten(ast[k]) /\ (ast[k].kind = "jump" => labels[ast[k].label] # -1)
      BY <3>1, <3>2 DEF IsRewritten
    <3>4. CASE ast[k].kind = "jump"
      <4>1. ast[k].label \in Labels BY <3>2, <3>4, NodeFacts
      <4>2. source[k].kind = "address" /\ source[k].n = labels[ast[k].label]
        BY <3>3, <3>4 DEF Rewritten, Address
      <4>3. LabelsUpTo(ast, labels, Len(ast) + 1) BY <2>1 DEF IInv, LabelInv, Accepted
      <4>4. LastLabel(ast, ast[k].label, labels[ast[k].label], Len(ast) + 1)
        BY <3>3, <3>4, <4>1, <4>3 DEF LabelsUpTo
      <4>5. LastLabel(source, ast[k].label, labels[ast[k].label], Len(ast) + 1)
        BY <3>1, <4>1, <4>4, RewriteSame
      <4> QED BY <3>2, <3>4, <4>2, <4>5, LastLabelIsAt
    <3>5. CASE ast[k].kind # "jump" BY <3>3, <3>5 DEF Rewritten
    <3> QED BY <3>4, <3>5
  <2>2. pass \in {"verify", "done"} => Len(source) = Len(ast)
    BY DEF IInv, ReplaceInv, IsRewritten
  <2> QED BY <2>0, <2>1, <2>2 DEF RewriteExact
<1> QED BY <1>1, PassesInvariant, PTL

(* For every program: if check_unsaved_variables prints nothing, every     *)
(* variable written after end_fetch is fetched under its own name or       *)
(* declared.                                                               *)
THEOREM SilenceIsSafe == Spec => []SilenceMeansSaved
<1>1. IInv => SilenceMeansSaved BY DEF IInv, CheckInv, SilenceMeansSaved
<1> QED BY <1>1, PassesInvariant, PTL
===============================================================================
