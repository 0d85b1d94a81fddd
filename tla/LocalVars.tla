------------------------------ MODULE LocalVars ------------------------------
(***************************************************************************)
(* The LocalVariables extension of the template preprocessor: it gives the *)
(* names $a, $b, ... of a template the slots local1, local2, ... of the    *)
(* worker, reuses the slots that free_locals returns, and forgets all      *)
(* names at reset_locals.  The list freed_local_variables is kept sorted   *)
(* in reverse so that pop() yields its least element: here it is a set.    *)
(* A call with several names is the sequence `todo` of the steps its loop  *)
(* makes; nothing else runs before the sequence is used up.  anon and base *)
(* are history: slots handed out without a name, and the argument of the   *)
(* last reset.                                                             *)
(***************************************************************************)
EXTENDS Integers, Sequences

CONSTANTS Names,      \* names of locals in a template
          Hidden,     \* the ones written $$x, to be declared ahead of time
          Plain,      \* a piece of template text that is no local
          Calls,      \* the calls a template may make: sequences of steps
          Texts,      \* the data tokens of a template
          MaxIndex    \* bound: slots handed out before a reset

ASSUME NamesAssumption == Hidden \subseteq Names /\ Plain \notin Names \union Nat
ASSUME TextsAssumption == Texts \subseteq Seq(Names \union {Plain})

(* What one iteration of a call does.                                      *)
Steps ==
  [op : {"declare", "free"}, arg : Names]
    \union [op : {"reset", "anonymous", "numbered"}, arg : Int]
ASSUME CallsAssumption == Calls \subseteq Seq(Steps)

VARIABLES index,      \* local_variable_index
          largest,    \* largest_local_variable
          cache,      \* local_variable_cache, 0 for a name that is not in it
          freed,      \* freed_local_variables
          todo,       \* rest of the call that is being evaluated
          text, pos,  \* the data token being filtered, and how far
          out,        \* what it has been rendered to
          failed,     \* a ValueError has ended the rendering
          anon, base

slots == <<index, largest, cache, freed, anon, base>>
filter == <<text, pos, out>>
vars == <<slots, filter, todo, failed>>

Step(op, arg) == [op |-> op, arg |-> arg]

(* The steps of the calls.  A list among the arguments of declare_locals   *)
(* is declared by a recursive call with the default arguments, which reset *)
(* again.                                                                  *)
DeclareLocals(ns, i, reset) ==
  (IF reset THEN <<Step("reset", i)>> ELSE <<>>)
    \o [k \in 1..Len(ns) |-> Step("declare", ns[k])]
DeclareList(ns, i) == <<Step("reset", i)>> \o DeclareLocals(ns, 1, TRUE)
FreeLocals(ns) == [k \in 1..Len(ns) |-> Step("free", ns[k])]

NoNames == [n \in Names |-> 0]

Fresh ==
  /\ index' = 1 /\ largest' = 0 /\ cache' = NoNames /\ freed' = {}
  /\ anon' = {} /\ base' = 1

Init ==
  /\ index = 1 /\ largest = 0 /\ cache = NoNames /\ freed = {}
  /\ anon = {} /\ base = 1
  /\ todo = <<>> /\ text = <<>> /\ pos = 1 /\ out = <<>>
  /\ failed = FALSE

Idle == todo = <<>> /\ pos = Len(text) + 1 /\ ~failed

Fail == failed' = TRUE /\ UNCHANGED slots

-----------------------------------------------------------------------------
(* Mutant: the free list survives a reset. *)
ResetLocalsKeepsFreed(i) ==
  IF i < 1 THEN Fail
  ELSE /\ index' = i /\ cache' = NoNames /\ base' = i /\ anon' = {}
       /\ UNCHANGED <<largest, failed, freed>>

ResetLocals(i) ==
  IF i < 1 THEN Fail
  ELSE /\ index' = i /\ cache' = NoNames /\ freed' = {} /\ base' = i /\ anon' = {}
       /\ UNCHANGED <<largest, failed>>

(* Mutant: a slot that is taken stays free. *)
TakeKeepsFreed(s) ==
  \/ /\ s \in freed /\ \A t \in freed : s <= t
     /\ UNCHANGED <<freed, index>>
  \/ freed = {} /\ s = index /\ index' = index + 1 /\ UNCHANGED freed

(* A freed slot comes first, the least one; then the next new one.         *)
Take(s) ==
  \/ /\ s \in freed /\ \A t \in freed : s <= t
     /\ freed' = freed \ {s} /\ UNCHANGED index
  \/ freed = {} /\ s = index /\ index' = index + 1 /\ UNCHANGED freed

LargestOf(s) == IF s > largest THEN s ELSE largest

(* Mutant: a known name gets a new slot. *)
LocalVariableNoCache(n, declare) ==
  \E s \in freed \union {index} :
    /\ Take(s)
    /\ IF n \in Hidden /\ ~declare
       THEN failed' = TRUE /\ UNCHANGED <<cache, largest>>
       ELSE /\ cache' = [cache EXCEPT ![n] = s]
            /\ largest' = LargestOf(s)
            /\ UNCHANGED failed
    /\ UNCHANGED <<anon, base>>

(* local_variable(name): a name in the cache keeps its slot.  A hidden     *)
(* name that nobody declared is noticed only after its slot was taken.     *)
LocalVariable(n, declare) ==
  IF cache[n] # 0 THEN UNCHANGED <<slots, failed>>
  ELSE \E s \in freed \union {index} :
         /\ Take(s)
         /\ IF n \in Hidden /\ ~declare
            THEN failed' = TRUE /\ UNCHANGED <<cache, largest>>
            ELSE /\ cache' = [cache EXCEPT ![n] = s]
                 /\ largest' = LargestOf(s)
                 /\ UNCHANGED failed
         /\ UNCHANGED <<anon, base>>

(* local_variable(): the next slot, without a name.                        *)
Anonymous ==
  \E s \in freed \union {index} :
    Take(s) /\ anon' = anon \union {s} /\ UNCHANGED <<cache, largest, base, failed>>

(* local_variable(i): slot i whatever it holds, and i + 1 is next.         *)
Numbered(i) ==
  /\ index' = i + 1 /\ anon' = anon \union {i}
  /\ UNCHANGED <<cache, largest, freed, base, failed>>

Declare(n) == IF n \in Hidden THEN LocalVariable(n, TRUE) ELSE Fail

Free(n) ==
  IF cache[n] = 0 THEN Fail
  ELSE /\ cache' = [cache EXCEPT ![n] = 0]
       /\ freed' = freed \union {cache[n]}
       /\ UNCHANGED <<index, largest, anon, base, failed>>

-----------------------------------------------------------------------------
(* The template makes a call; each step of it is evaluated.                *)
Call(c) ==
  /\ Idle /\ index + Len(c) <= MaxIndex
  /\ todo' = c
  /\ UNCHANGED <<slots, filter, failed>>

(* The templates write local_variable(i) only next to the call that handed *)
(* out slot i: read {{local_variable()}} prev_proc "{{local_variable(1)}}" *)
Evaluate ==
  /\ todo # <<>> /\ ~failed
  /\ LET s == Head(todo) IN
       \/ s.op = "reset" /\ ResetLocals(s.arg)
       \/ s.op = "declare" /\ Declare(s.arg)
       \/ s.op = "free" /\ Free(s.arg)
       \/ s.op = "anonymous" /\ Anonymous
       \/ s.op = "numbered" /\ s.arg \in anon /\ s.arg = index - 1 /\ Numbered(s.arg)
  /\ todo' = Tail(todo)
  /\ UNCHANGED filter

(* filter_stream: a data token becomes the text between the matches of     *)
(* $name, and for each match a call local_variable("name").                *)
Data(t) ==
  /\ Idle /\ index + Len(t) <= MaxIndex
  /\ text' = t /\ pos' = 0 /\ out' = <<>>
  /\ UNCHANGED <<slots, todo, failed>>

Matches == {k \in DOMAIN text : k > pos /\ text[k] \in Names}

(* Mutant: a match is rendered again. *)
FilterMatchTwice ==
  \E k \in Matches :
    /\ \A j \in Matches : k <= j
    /\ LocalVariable(text[k], FALSE)
    /\ out' = out \o SubSeq(text, pos + 1, k) \o <<cache'[text[k]]>>
    /\ pos' = k
    /\ UNCHANGED <<text, todo>>

FilterMatch ==
  \E k \in Matches :
    /\ \A j \in Matches : k <= j
    /\ LocalVariable(text[k], FALSE)
    /\ out' = out \o SubSeq(text, pos + 1, k - 1) \o <<cache'[text[k]]>>
    /\ pos' = k
    /\ UNCHANGED <<text, todo>>

FilterRest ==
  /\ pos <= Len(text) /\ Matches = {}
  /\ out' = out \o SubSeq(text, pos + 1, Len(text))
  /\ pos' = Len(text) + 1
  /\ UNCHANGED <<slots, text, todo, failed>>

Filter == todo = <<>> /\ ~failed /\ (FilterMatch \/ FilterRest)

(* Another template is rendered in an environment of its own.              *)
NewEnvironment ==
  /\ Idle \/ failed
  /\ Fresh
  /\ todo' = <<>> /\ text' = <<>> /\ pos' = 1 /\ out' = <<>> /\ failed' = FALSE

Next ==
  \/ \E c \in Calls : Call(c)
  \/ \E t \in Texts : Data(t)
  \/ Evaluate \/ Filter \/ NewEnvironment

Spec == Init /\ [][Next]_vars

-----------------------------------------------------------------------------
(* The environment's fields keep their types; slots count from 1.          *)
TypeOK ==
  /\ index \in Nat \ {0} /\ largest \in Nat /\ base \in Nat \ {0}
  /\ cache \in [Names -> Nat]
  /\ freed \subseteq Nat \ {0} /\ anon \subseteq Nat \ {0}
  /\ failed \in BOOLEAN

Live == {cache[n] : n \in {m \in Names : cache[m] # 0}}

(* Two names in use never share a slot, and a name never shares one with   *)
(* an anonymous local: local_variable hands out what nobody holds, however *)
(* declarations, frees and uses are mixed.                                 *)
NoAlias ==
  \A m \in Names : cache[m] # 0 =>
    /\ cache[m] \notin anon
    /\ \A n \in Names : cache[n] = cache[m] => n = m

(* The assertion in free_locals, "variable was freed twice", never fires.  *)
FreeSound == \A n \in Names : cache[n] \notin freed

(* No slot is leaked or free while in use: every slot handed out since the *)
(* last reset is held by a name, anonymous or waiting in                   *)
(* freed_local_variables, and none that waits there is held.               *)
NoLeak ==
  /\ FreeSound
  /\ ~failed => base..(index - 1) = Live \union freed \union anon

(* The reported local variable count covers every named local.             *)
LargestCovers == \A n \in Names : cache[n] <= largest

Keeps(n) ==
  \/ cache'[n] = cache[n]
  \/ cache' = NoNames
  \/ todo # <<>> /\ Head(todo) = Step("free", n)

(* A name keeps its slot until it is freed or everything is reset.         *)
KeepsSlot == [][\A n \in Names : cache[n] # 0 => Keeps(n)]_vars

(* A filtered token has lost, doubled and moved nothing: its text is where *)
(* it was, a name is a slot, the one the name holds, and two places show   *)
(* the same slot exactly if they name the same local.                      *)
RenderExact ==
  ~failed /\ pos # 0 =>
    /\ Len(out) = (IF pos < Len(text) THEN pos ELSE Len(text))
    /\ \A k \in DOMAIN out :
         /\ out[k] = Plain <=> text[k] = Plain
         /\ text[k] # Plain /\ pos <= Len(text) => out[k] = cache[text[k]]
         /\ \A j \in DOMAIN out : out[j] = out[k] <=> text[j] = text[k]
===============================================================================
