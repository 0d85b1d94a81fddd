--------------------------- MODULE LocalVarsProofs ---------------------------
(***************************************************************************)
(* Proofs that the slots of LocalVars are handed out correctly, for every  *)
(* set of names and every sequence of calls and texts.                     *)
(***************************************************************************)
EXTENDS LocalVars, SequenceTheorems, TLAPS

(* A slot somebody may be using, or that waits for reuse.                  *)
Held(s) == s \in freed \/ s \in anon \/ \E n \in Names : cache[n] = s

Bounded ==
  /\ base <= index
  /\ \A n \in Names : cache[n] < index
  /\ \A s \in freed : s < index
  /\ \A s \in anon : s < index

Apart == \A s \in anon : s \notin freed

Exact == ~failed => \A s \in Nat \ {0} : Held(s) <=> (base <= s /\ s < index)

Good == TypeOK /\ NoAlias /\ FreeSound /\ LargestCovers /\ Bounded /\ Apart /\ Exact

IInv == Good /\ todo \in Seq(Steps)

(* What the caller of Take may rely on.                                    *)
LEMMA TakeIsFresh ==
  ASSUME Good, NEW s \in freed \union {index}, Take(s)
  PROVE  /\ s \in Nat \ {0} /\ index' \in Nat \ {0} /\ index <= index'
         /\ freed' \subseteq Nat \ {0}
         /\ s < index' /\ s \notin anon /\ s \notin freed'
         /\ \A n \in Names : cache[n] # s
         /\ \A t \in freed' : t \in freed /\ t < index'
         /\ \A t \in Nat \ {0} : (t \in freed \/ t = s) <=> (t \in freed' \/ t = s)
         /\ \A t \in Nat \ {0} : t < index' <=> (t < index \/ t = s)
         /\ base <= s \/ failed
<1>1. CASE s \in freed /\ freed' = freed \ {s} /\ UNCHANGED index
  BY <1>1 DEF Good, TypeOK, FreeSound, Bounded, Apart, Exact, Held
<1>2. CASE freed = {} /\ s = index /\ index' = index + 1 /\ UNCHANGED freed
  BY <1>2 DEF Good, TypeOK, FreeSound, Bounded, Apart, Exact, Held
<1> QED BY <1>1, <1>2 DEF Take

LEMMA SlotsUnchangedGood == ASSUME Good, UNCHANGED <<slots, failed>> PROVE Good'
  BY DEF slots, Good, TypeOK, NoAlias, FreeSound, LargestCovers, Bounded, Apart, Exact, Held

LEMMA FailGood == ASSUME Good, Fail PROVE Good'
  BY DEF Fail, slots, Good, TypeOK, NoAlias, FreeSound, LargestCovers, Bounded, Apart, Exact

LEMMA ResetGood ==
  ASSUME Good, NEW i \in Int, ResetLocals(i)
  PROVE  Good'
<1>1. CASE i < 1
  BY <1>1, FailGood DEF ResetLocals
<1>2. CASE i >= 1
  <2>1. /\ index' = i /\ cache' = NoNames /\ freed' = {} /\ base' = i /\ anon' = {}
        /\ UNCHANGED <<largest, failed>>
    BY <1>2 DEF ResetLocals
  <2> QED BY <1>2, <2>1 DEF NoNames, Good, TypeOK, NoAlias, FreeSound, LargestCovers,
            Bounded, Apart, Exact, Held
<1> QED BY <1>1, <1>2

LEMMA LocalVariableGood ==
  ASSUME Good, ~failed, NEW n \in Names, NEW declare \in BOOLEAN, LocalVariable(n, declare)
  PROVE  Good'
<1>1. CASE cache[n] # 0
  BY <1>1, SlotsUnchangedGood DEF LocalVariable
<1>2. CASE cache[n] = 0
  <2>1. PICK s \in freed \union {index} :
          /\ Take(s)
          /\ IF n \in Hidden /\ ~declare
             THEN failed' = TRUE /\ UNCHANGED <<cache, largest>>
             ELSE /\ cache' = [cache EXCEPT ![n] = s]
                  /\ largest' = LargestOf(s)
                  /\ UNCHANGED failed
          /\ UNCHANGED <<anon, base>>
    BY <1>2 DEF LocalVariable
  <2>2. /\ s \in Nat \ {0} /\ index' \in Nat \ {0} /\ index <= index'
        /\ freed' \subseteq Nat \ {0}
        /\ s < index' /\ s \notin anon /\ s \notin freed'
        /\ \A m \in Names : cache[m] # s
        /\ \A t \in freed' : t \in freed /\ t < index'
        /\ \A t \in Nat \ {0} : (t \in freed \/ t = s) <=> (t \in freed' \/ t = s)
        /\ \A t \in Nat \ {0} : t < index' <=> (t < index \/ t = s)
        /\ base <= s
    BY <2>1, TakeIsFresh
  <2>3. CASE n \in Hidden /\ ~declare
    BY <2>1, <2>2, <2>3 DEF Good, TypeOK, NoAlias, FreeSound, LargestCovers, Bounded, Apart, Exact
  <2>4. CASE ~(n \in Hidden /\ ~declare)
    <3>1. /\ cache' = [cache EXCEPT ![n] = s] /\ largest' = LargestOf(s)
          /\ UNCHANGED <<failed, anon, base>>
      BY <2>1, <2>4
    <3>2. TypeOK' /\ Bounded' /\ Apart' /\ FreeSound' /\ LargestCovers'
      BY <2>2, <3>1 DEF Good, TypeOK, FreeSound, LargestCovers, Bounded, Apart, LargestOf
    <3>3. NoAlias'
      BY <2>2, <3>1 DEF Good, TypeOK, NoAlias
    <3>4. ASSUME NEW t \in Nat \ {0} PROVE Held(t)' <=> (Held(t) \/ t = s)
      BY <1>2, <2>2, <3>1 DEF Held, Good, TypeOK
    <3>5. Exact'
      BY <2>2, <3>1, <3>4 DEF Exact, Good, TypeOK, Bounded
    <3> QED BY <3>2, <3>3, <3>5 DEF Good
  <2> QED BY <2>3, <2>4
<1> QED BY <1>1, <1>2

LEMMA AnonymousGood == ASSUME Good, ~failed, Anonymous PROVE Good'
<1>1. PICK s \in freed \union {index} :
        Take(s) /\ anon' = anon \union {s} /\ UNCHANGED <<cache, largest, base, failed>>
  BY DEF Anonymous
<1>2. /\ s \in Nat \ {0} /\ index' \in Nat \ {0} /\ index <= index'
      /\ freed' \subseteq Nat \ {0}
      /\ s < index' /\ s \notin anon /\ s \notin freed'
      /\ \A m \in Names : cache[m] # s
      /\ \A t \in freed' : t \in freed /\ t < index'
      /\ \A t \in Nat \ {0} : (t \in freed \/ t = s) <=> (t \in freed' \/ t = s)
      /\ \A t \in Nat \ {0} : t < index' <=> (t < index \/ t = s)
      /\ base <= s
  BY <1>1, TakeIsFresh
<1>3. TypeOK' /\ Bounded' /\ Apart' /\ FreeSound' /\ LargestCovers' /\ NoAlias'
  BY <1>1, <1>2 DEF Good, TypeOK, NoAlias, FreeSound, LargestCovers, Bounded, Apart
<1>4. ASSUME NEW t \in Nat \ {0} PROVE Held(t)' <=> (Held(t) \/ t = s)
  BY <1>1, <1>2 DEF Held, Good, TypeOK
<1>5. Exact'
  BY <1>1, <1>2, <1>4 DEF Exact, Good, TypeOK, Bounded
<1> QED BY <1>3, <1>5 DEF Good

LEMMA FreeGood == ASSUME Good, ~failed, NEW n \in Names, Free(n) PROVE Good'
<1>1. CASE cache[n] = 0
  BY <1>1, FailGood DEF Free
<1>2. CASE cache[n] # 0
  <2>1. /\ cache' = [cache EXCEPT ![n] = 0]
        /\ freed' = freed \union {cache[n]}
        /\ UNCHANGED <<index, largest, anon, base, failed>>
    BY <1>2 DEF Free
  <2>2. TypeOK'
    BY <1>2, <2>1 DEF Good, TypeOK
  <2>6. Bounded' /\ Apart' /\ LargestCovers' /\ NoAlias'
    BY <1>2, <2>1 DEF Good, TypeOK, NoAlias, LargestCovers, Bounded, Apart
  <2>3. FreeSound'
    BY <1>2, <2>1 DEF Good, TypeOK, NoAlias, FreeSound
  <2>4. ASSUME NEW t \in Nat \ {0} PROVE Held(t)' <=> Held(t)
    <3>1. CASE t = cache[n]
      BY <1>2, <2>1, <3>1 DEF Held
    <3>2. CASE t # cache[n]
      <4>1. \A m \in Names : cache'[m] = t <=> cache[m] = t
        BY <2>1, <3>2, <2>4 DEF Good, TypeOK
      <4> QED BY <2>1, <3>2, <4>1 DEF Held
    <3> QED BY <3>1, <3>2
  <2>5. Exact'
    BY <2>1, <2>4 DEF Exact, Good, TypeOK
  <2> QED BY <2>2, <2>3, <2>5, <2>6 DEF Good
<1> QED BY <1>1, <1>2

LEMMA NumberedGood ==
  ASSUME Good, NEW i \in Int, i \in anon, i = index - 1, Numbered(i)
  PROVE  Good'
<1>1. index' = index /\ anon' = anon /\ UNCHANGED <<cache, largest, freed, base, failed>>
  BY DEF Numbered, Good, TypeOK
<1> QED BY <1>1 DEF Good, TypeOK, NoAlias, FreeSound, LargestCovers, Bounded, Apart, Exact, Held

LEMMA InitIInv == Init => IInv
<1> SUFFICES ASSUME Init PROVE IInv
  OBVIOUS
<1>1. \A n \in Names : cache[n] = 0
  BY DEF Init, NoNames
<1>5. failed \in BOOLEAN /\ ~failed
  BY DEF Init
<1>2. TypeOK /\ todo \in Seq(Steps) /\ Apart
  BY <1>5 DEF Init, NoNames, TypeOK, Apart
<1>3. NoAlias /\ FreeSound /\ LargestCovers /\ Bounded
  BY <1>1 DEF Init, NoAlias, FreeSound, LargestCovers, Bounded
<1>4. Exact
  BY <1>1 DEF Init, Exact, Held
<1> QED BY <1>2, <1>3, <1>4 DEF IInv, Good

LEMMA NextIInv == IInv /\ [Next]_vars => IInv'
<1> SUFFICES ASSUME IInv, [Next]_vars PROVE IInv'
  OBVIOUS
<1>1. ASSUME NEW c \in Calls, Call(c) PROVE IInv'
  BY <1>1, SlotsUnchangedGood, CallsAssumption DEF Call, IInv
<1>2. ASSUME NEW t \in Texts, Data(t) PROVE IInv'
  BY <1>2, SlotsUnchangedGood DEF Data, IInv
<1>3. CASE Evaluate
  <2> DEFINE s == Head(todo)
  <2>1. s \in Steps /\ todo' \in Seq(Steps) /\ ~failed
    BY <1>3 DEF Evaluate, IInv
  <2>2. CASE s.op = "reset" /\ ResetLocals(s.arg)
    BY <2>1, <2>2, ResetGood DEF Steps, IInv
  <2>3. CASE s.op = "declare" /\ Declare(s.arg)
    BY <2>1, <2>3, LocalVariableGood, FailGood, NamesAssumption DEF Steps, Declare, IInv
  <2>4. CASE s.op = "free" /\ Free(s.arg)
    BY <2>1, <2>4, FreeGood DEF Steps, IInv
  <2>5. CASE s.op = "anonymous" /\ Anonymous
    BY <2>1, <2>5, AnonymousGood DEF IInv
  <2>6. CASE s.op = "numbered" /\ s.arg \in anon /\ s.arg = index - 1 /\ Numbered(s.arg)
    BY <2>1, <2>6, NumberedGood DEF Steps, IInv
  <2> QED BY <1>3, <2>2, <2>3, <2>4, <2>5, <2>6 DEF Evaluate
<1>4. CASE Filter
  <2>1. CASE FilterMatch
    <3>1. PICK k \in Matches : LocalVariable(text[k], FALSE) /\ UNCHANGED todo
      BY <2>1 DEF FilterMatch
    <3>2. text[k] \in Names
      BY DEF Matches
    <3> QED BY <1>4, <3>1, <3>2, LocalVariableGood DEF Filter, IInv
  <2>2. CASE FilterRest
    BY <2>2, SlotsUnchangedGood DEF FilterRest, IInv
  <2> QED BY <1>4, <2>1, <2>2 DEF Filter
<1>5. CASE NewEnvironment
  <2>1. /\ index' = 1 /\ largest' = 0 /\ cache' = NoNames /\ freed' = {}
        /\ anon' = {} /\ base' = 1 /\ todo' = <<>> /\ failed' = FALSE
    BY <1>5 DEF NewEnvironment, Fresh
  <2>2. \A n \in Names : cache'[n] = 0
    BY <2>1 DEF NoNames
  <2>6. failed' \in BOOLEAN
    BY <2>1
  <2>3. TypeOK' /\ todo' \in Seq(Steps) /\ Apart'
    BY <2>1, <2>6 DEF NoNames, TypeOK, Apart
  <2>4. NoAlias' /\ FreeSound' /\ LargestCovers' /\ Bounded'
    BY <2>1, <2>2 DEF NoAlias, FreeSound, LargestCovers, Bounded
  <2>5. Exact'
    BY <2>1, <2>2 DEF Exact, Held
  <2> QED BY <2>3, <2>4, <2>5 DEF IInv, Good
<1>6. CASE UNCHANGED vars
  BY <1>6, SlotsUnchangedGood DEF vars, IInv
<1> QED BY <1>1, <1>2, <1>3, <1>4, <1>5, <1>6 DEF Next

(* The environment's fields keep their types.                              *)
THEOREM TypeCorrect == Spec => []TypeOK
<1>1. IInv => TypeOK
  BY DEF IInv, Good
<1> QED BY <1>1, InitIInv, NextIInv, PTL DEF Spec

(* local_variable never hands out a slot that is in use.                   *)
THEOREM SlotsAreNotShared == Spec => []NoAlias
<1>1. IInv => NoAlias
  BY DEF IInv, Good
<1> QED BY <1>1, InitIInv, NextIInv, PTL DEF Spec

(* largest_local_variable covers every named local.                        *)
THEOREM CountCovers == Spec => []LargestCovers
<1>1. IInv => LargestCovers
  BY DEF IInv, Good
<1> QED BY <1>1, InitIInv, NextIInv, PTL DEF Spec

(* Every slot handed out since the last reset is accounted for, and        *)
(* free_locals never meets one that is free already.                       *)
THEOREM NothingIsLeaked == Spec => []NoLeak
<1>1. IInv => NoLeak
  <2> SUFFICES ASSUME IInv, ~failed
               PROVE  base..(index - 1) = Live \union freed \union anon
    BY DEF NoLeak, IInv, Good
  <2>1. \A s : s \in Live \union freed \union anon => s \in Nat \ {0} /\ Held(s)
    BY DEF Live, Held, IInv, Good, TypeOK
  <2>2. \A s \in Nat \ {0} : Held(s) => s \in Live \union freed \union anon
    BY DEF Live, Held, IInv, Good, TypeOK
  <2>3. \A s \in Nat \ {0} : Held(s) <=> s \in base..(index - 1)
    BY DEF IInv, Good, Exact, TypeOK
  <2>4. \A s \in base..(index - 1) : s \in Nat \ {0}
    BY DEF IInv, Good, TypeOK
  <2> QED BY <2>1, <2>2, <2>3, <2>4
<1> QED BY <1>1, InitIInv, NextIInv, PTL DEF Spec

(* A name keeps its slot until it is freed or all names are forgotten.     *)
THEOREM SlotsAreKept == Spec => KeepsSlot
<1>1. ASSUME NEW n \in Names, NEW m \in Names, NEW declare \in BOOLEAN,
             cache \in [Names -> Nat], cache[n] # 0, LocalVariable(m, declare)
      PROVE  cache'[n] = cache[n]
  <2>1. CASE cache[m] # 0
    BY <1>1, <2>1 DEF LocalVariable, slots
  <2>2. CASE cache[m] = 0
    BY <1>1, <2>2 DEF LocalVariable
  <2> QED BY <2>1, <2>2
<1>2. IInv /\ [Next]_vars => [\A n \in Names : cache[n] # 0 => Keeps(n)]_vars
  <2> SUFFICES ASSUME IInv, Next, NEW n \in Names, cache[n] # 0 PROVE Keeps(n)
    OBVIOUS
  <2> USE DEF Keeps
  <2>1. cache \in [Names -> Nat]
    BY DEF IInv, Good, TypeOK
  <2>2. ASSUME NEW c \in Calls, Call(c) PROVE Keeps(n)
    BY <2>2 DEF Call, slots
  <2>3. ASSUME NEW t \in Texts, Data(t) PROVE Keeps(n)
    BY <2>3 DEF Data, slots
  <2>4. CASE Evaluate
    <3> DEFINE s == Head(todo)
    <3>1. s \in Steps /\ todo # <<>>
      BY <2>4 DEF Evaluate, IInv
    <3>2. CASE s.op = "reset" /\ ResetLocals(s.arg)
      BY <3>2 DEF ResetLocals, Fail, slots
    <3>3. CASE s.op = "declare" /\ Declare(s.arg)
      BY <3>3, <1>1, <2>1, NamesAssumption DEF Declare, Fail, slots
    <3>4. CASE s.op = "free" /\ Free(s.arg)
      <4>1. CASE s.arg = n
        BY <3>1, <3>4, <4>1 DEF Steps, Step
      <4>2. CASE s.arg # n
        BY <3>4, <4>2, <2>1 DEF Free, Fail, slots
      <4> QED BY <4>1, <4>2
    <3>5. CASE s.op = "anonymous" /\ Anonymous
      BY <3>5 DEF Anonymous
    <3>6. CASE s.op = "numbered" /\ Numbered(s.arg)
      BY <3>6 DEF Numbered
    <3> QED BY <2>4, <3>2, <3>3, <3>4, <3>5, <3>6 DEF Evaluate
  <2>5. CASE Filter
    <3>1. CASE FilterMatch
      <4>1. PICK k \in Matches : LocalVariable(text[k], FALSE)
        BY <3>1 DEF FilterMatch
      <4>2. text[k] \in Names
        BY DEF Matches
      <4> QED BY <4>1, <4>2, <1>1, <2>1
    <3>2. CASE FilterRest
      BY <3>2 DEF FilterRest, slots
    <3> QED BY <2>5, <3>1, <3>2 DEF Filter
  <2>6. CASE NewEnvironment
    BY <2>6 DEF NewEnvironment, Fresh
  <2> QED BY <2>2, <2>3, <2>4, <2>5, <2>6 DEF Next
<1> QED BY <1>2, InitIInv, NextIInv, PTL DEF Spec, KeepsSlot

-----------------------------------------------------------------------------
(* Pieces of a text and of what it is rendered to.                         *)
Pieces == Names \union {Plain} \union Nat

(* The first p pieces of t have been rendered with the slots c.            *)
Renders(o, t, c, p) ==
  /\ Len(o) = p
  /\ \A k \in 1..p : IF t[k] = Plain THEN o[k] = Plain ELSE c[t[k]] # 0 /\ o[k] = c[t[k]]

(* Nothing of the first p pieces of t is lost, and places agree as before. *)
Faithful(o, t, p) ==
  \A k \in 1..p : /\ o[k] = Plain <=> t[k] = Plain
                  /\ \A j \in 1..p : o[j] = o[k] <=> t[j] = t[k]

(* While a token is filtered no call is evaluated, so the slots shown so   *)
(* far are still those of their names; afterwards the names may change,    *)
(* and what has been rendered does not.                                    *)
FilterInv ==
  /\ text \in Seq(Names \union {Plain}) /\ out \in Seq(Pieces)
  /\ pos \in Nat /\ pos <= Len(text) + 1
  /\ ~failed /\ pos <= Len(text) => todo = <<>> /\ Renders(out, text, cache, pos)
  /\ ~failed /\ pos = Len(text) + 1 => Len(out) = Len(text) /\ Faithful(out, text, Len(text))

(* Slots that are not shared tell the names apart.                         *)
LEMMA RenderedIsFaithful ==
  ASSUME NEW c \in [Names -> Nat], \A m, n \in Names : c[m] # 0 /\ c[m] = c[n] => m = n,
         NEW t \in Seq(Names \union {Plain}), NEW o, NEW p \in Nat, p <= Len(t), Renders(o, t, c, p)
  PROVE  Faithful(o, t, p)
<1>1. ASSUME NEW k \in 1..p PROVE t[k] \in Names \union {Plain} OBVIOUS
<1>2. \A n \in Names : c[n] \in Nat /\ c[n] # Plain BY NamesAssumption
<1>3. \A k \in 1..p : IF t[k] = Plain THEN o[k] = Plain ELSE c[t[k]] # 0 /\ o[k] = c[t[k]]
  BY DEF Renders
<1>4. ASSUME NEW k \in 1..p PROVE o[k] = Plain <=> t[k] = Plain BY <1>1, <1>2, <1>3
<1>5. ASSUME NEW k \in 1..p, NEW j \in 1..p PROVE o[j] = o[k] <=> t[j] = t[k]
  <2>1. CASE t[j] = Plain \/ t[k] = Plain BY <1>3, <1>4, <2>1
  <2>2. CASE t[j] # Plain /\ t[k] # Plain
    <3>1. t[j] \in Names /\ t[k] \in Names BY <1>1, <2>2
    <3>2. o[j] = c[t[j]] /\ o[k] = c[t[k]] /\ c[t[j]] # 0 BY <1>3, <2>2
    <3> QED BY <3>1, <3>2
  <2> QED BY <2>1, <2>2
<1> QED BY <1>4, <1>5 DEF Faithful

(* The text up to the next match is appended.                              *)
LEMMA AppendText ==
  ASSUME NEW E, NEW o \in Seq(E), NEW t \in Seq(E), NEW m \in Nat, Len(o) <= m, m <= Len(t)
  PROVE  /\ o \o SubSeq(t, Len(o) + 1, m) \in Seq(E) /\ Len(o \o SubSeq(t, Len(o) + 1, m)) = m
         /\ \A j \in 1..m : (o \o SubSeq(t, Len(o) + 1, m))[j] = IF j <= Len(o) THEN o[j] ELSE t[j]
<1> DEFINE p == Len(o)
           u == SubSeq(t, p + 1, m)
<1>1. p \in Nat /\ p <= m OBVIOUS
<1> HIDE DEF p
<1>2. u \in Seq(E) /\ Len(u) = m - p /\ \A j \in 1..(m - p) : u[j] = t[p + j] BY <1>1, SubSeqProperties
<1> HIDE DEF u
<1>3. o \o u \in Seq(E) /\ Len(o \o u) = m BY <1>1, <1>2 DEF p
<1>4. ASSUME NEW j \in 1..m PROVE (o \o u)[j] = IF j <= p THEN o[j] ELSE t[j]
  <2>1. CASE j <= p BY <1>1, <1>2, <2>1 DEF p
  <2>2. CASE ~(j <= p)
    <3>1. j - p \in 1..(m - p) /\ p + (j - p) = j BY <1>1, <2>2
    <3>2. (o \o u)[j] = u[j - p] BY <1>1, <1>2, <2>2, <3>1 DEF p
    <3> QED BY <1>2, <2>2, <3>1, <3>2
  <2> QED BY <2>1, <2>2
<1> QED BY <1>3, <1>4 DEF p, u

(* A slot is appended.                                                     *)
LEMMA AppendSlot ==
  ASSUME NEW E, NEW o \in Seq(E), NEW e \in E
  PROVE  o \o <<e>> \in Seq(E) /\ Len(o \o <<e>>) = Len(o) + 1
         /\ \A j \in 1..(Len(o) + 1) : (o \o <<e>>)[j] = IF j <= Len(o) THEN o[j] ELSE e
<1>1. o \o <<e>> \in Seq(E) /\ Len(o \o <<e>>) = Len(o) + 1 OBVIOUS
<1> QED BY <1>1

(* local_variable gives the name a slot and leaves those of the others.    *)
LEMMA LocalVariableKeeps ==
  ASSUME Good, NEW n \in Names, NEW declare \in BOOLEAN, LocalVariable(n, declare), ~failed'
  PROVE  /\ cache' \in [Names -> Nat] /\ cache'[n] # 0
         /\ \A m \in Names : cache[m] # 0 => cache'[m] = cache[m]
<1>1. CASE cache[n] # 0 BY <1>1 DEF LocalVariable, slots, Good, TypeOK
<1>2. CASE cache[n] = 0
  <2>1. PICK s \in freed \union {index} : cache' = [cache EXCEPT ![n] = s]
    BY <1>2 DEF LocalVariable
  <2>2. s \in Nat \ {0} BY DEF Good, TypeOK
  <2> QED BY <1>2, <2>1, <2>2 DEF Good, TypeOK
<1> QED BY <1>1, <1>2

(* A match is rendered, with the text before it.                           *)
LEMMA FilterMatchKeeps ==
  ASSUME IInv, FilterInv, todo = <<>>, ~failed, FilterMatch
  PROVE  FilterInv'
<1>1. PICK k \in Matches :
        /\ \A j \in Matches : k <= j
        /\ LocalVariable(text[k], FALSE)
        /\ out' = out \o SubSeq(text, pos + 1, k - 1) \o <<cache'[text[k]]>>
        /\ pos' = k /\ UNCHANGED <<text, todo>>
  BY DEF FilterMatch
<1>2. /\ text \in Seq(Names \union {Plain}) /\ out \in Seq(Pieces) /\ pos \in Nat /\ pos <= Len(text) + 1
  BY DEF FilterInv
<1>3. k \in 1..Len(text) /\ k > pos /\ text[k] \in Names BY <1>2 DEF Matches
<1>4. todo = <<>> /\ Len(out) = pos
      /\ \A j \in 1..pos : IF text[j] = Plain THEN out[j] = Plain ELSE cache[text[j]] # 0 /\ out[j] = cache[text[j]]
  BY <1>2, <1>3 DEF FilterInv, Renders
<1>5. ASSUME NEW j \in 1..Len(text), pos < j, j < k PROVE text[j] = Plain
  <2>1. j \notin Matches BY <1>1, <1>3, <1>5
  <2> QED BY <1>2, <1>5, <2>1 DEF Matches
<1>6. cache' \in [Names -> Nat] BY <1>1, <1>3, LocalVariableGood DEF IInv, Good, TypeOK
<1> DEFINE e == cache'[text[k]]
           o == out \o SubSeq(text, pos + 1, k - 1)
<1>7. e \in Pieces BY <1>3, <1>6 DEF Pieces
<1>8. text \in Seq(Pieces) BY <1>2, SeqMonotonic DEF Pieces
<1>9. /\ o \in Seq(Pieces) /\ Len(o) = k - 1
      /\ \A j \in 1..(k - 1) : o[j] = IF j <= pos THEN out[j] ELSE text[j]
  <2>1. k - 1 \in Nat /\ pos <= k - 1 /\ k - 1 <= Len(text) BY <1>2, <1>3
  <2> QED BY <1>2, <1>4, <1>8, <2>1, AppendText
<1> HIDE DEF o, e
<1>10. /\ out' \in Seq(Pieces) /\ Len(out') = k
       /\ \A j \in 1..k : out'[j] = IF j <= k - 1 THEN o[j] ELSE e
  <2>1. out' = o \o <<e>> BY <1>1 DEF o, e
  <2>2. Len(o) + 1 = k BY <1>3, <1>9
  <2>3. /\ o \o <<e>> \in Seq(Pieces) /\ Len(o \o <<e>>) = Len(o) + 1
        /\ \A j \in 1..(Len(o) + 1) : (o \o <<e>>)[j] = IF j <= Len(o) THEN o[j] ELSE e
    BY <1>7, <1>9, AppendSlot
  <2> QED BY <1>9, <2>1, <2>2, <2>3
<1>11. ASSUME ~failed' PROVE Renders(out', text', cache', pos')
  <2>1. /\ cache'[text[k]] # 0 /\ \A m \in Names : cache[m] # 0 => cache'[m] = cache[m]
    BY <1>1, <1>3, <1>11, LocalVariableKeeps DEF IInv
  <2>2. ASSUME NEW j \in 1..k
        PROVE  IF text[j] = Plain THEN out'[j] = Plain ELSE cache'[text[j]] # 0 /\ out'[j] = cache'[text[j]]
    <3>0. j \in 1..Len(text) /\ text[j] \in Names \union {Plain} BY <1>2, <1>3, <2>2
    <3>1. CASE j = k
      <4>1. out'[j] = e BY <1>3, <1>10, <3>1
      <4>2. text[j] # Plain BY <1>3, <3>1, NamesAssumption
      <4> QED BY <2>1, <3>1, <4>1, <4>2 DEF e
    <3>2. CASE j # k /\ j <= pos
      <4>1. j \in 1..pos /\ out'[j] = out[j] BY <1>2, <1>3, <1>9, <1>10, <3>2
      <4> QED BY <1>4, <2>1, <3>0, <4>1
    <3>3. CASE j # k /\ ~(j <= pos)
      <4>1. out'[j] = text[j] BY <1>2, <1>3, <1>9, <1>10, <3>3
      <4>2. text[j] = Plain BY <1>2, <1>3, <1>5, <3>0, <3>3
      <4> QED BY <4>1, <4>2
    <3> QED BY <3>1, <3>2, <3>3
  <2> QED BY <1>1, <1>10, <2>2 DEF Renders
<1>12. pos' \in Nat /\ pos' <= Len(text') /\ text' = text /\ todo' = <<>> BY <1>1, <1>2, <1>3, <1>4
<1>13. pos' # Len(text') + 1 BY <1>2, <1>12
<1> QED BY <1>2, <1>10, <1>11, <1>12, <1>13 DEF FilterInv

(* The text after the last match is rendered.                              *)
LEMMA FilterRestKeeps ==
  ASSUME IInv, FilterInv, todo = <<>>, ~failed, FilterRest
  PROVE  FilterInv'
<1>1. /\ pos <= Len(text) /\ Matches = {}
      /\ out' = out \o SubSeq(text, pos + 1, Len(text)) /\ pos' = Len(text) + 1
      /\ UNCHANGED <<index, largest, cache, freed, anon, base, text, todo, failed>>
  BY DEF FilterRest, slots
<1>2. /\ text \in Seq(Names \union {Plain}) /\ out \in Seq(Pieces) /\ pos \in Nat
  BY DEF FilterInv
<1>3. /\ Len(out) = pos
      /\ \A j \in 1..pos : IF text[j] = Plain THEN out[j] = Plain ELSE cache[text[j]] # 0 /\ out[j] = cache[text[j]]
  BY <1>1 DEF FilterInv, Renders
<1>4. ASSUME NEW j \in 1..Len(text), pos < j PROVE text[j] = Plain BY <1>1, <1>2, <1>4 DEF Matches
<1>5. text \in Seq(Pieces) BY <1>2, SeqMonotonic DEF Pieces
<1>6. /\ out' \in Seq(Pieces) /\ Len(out') = Len(text)
      /\ \A j \in 1..Len(text) : out'[j] = IF j <= pos THEN out[j] ELSE text[j]
  <2> DEFINE m == Len(text)
  <2>1. m \in Nat /\ Len(out) <= m /\ m <= Len(text) BY <1>1, <1>2, <1>3
  <2>2. out' = out \o SubSeq(text, Len(out) + 1, m) BY <1>1, <1>3
  <2> HIDE DEF m
  <2>3. /\ out' \in Seq(Pieces) /\ Len(out') = m
        /\ \A j \in 1..m : out'[j] = IF j <= Len(out) THEN out[j] ELSE text[j]
    BY <1>2, <1>5, <2>1, <2>2, AppendText
  <2> QED BY <1>3, <2>3 DEF m
<1>7. ASSUME NEW j \in 1..Len(text)
      PROVE  IF text[j] = Plain THEN out'[j] = Plain ELSE cache'[text[j]] # 0 /\ out'[j] = cache'[text[j]]
  <2>1. CASE j <= pos
    <3>1. j \in 1..pos BY <1>2, <2>1
    <3> QED BY <1>1, <1>3, <1>6, <1>7, <2>1, <3>1
  <2>2. CASE ~(j <= pos) BY <1>2, <1>4, <1>6, <1>7, <2>2
  <2> QED BY <2>1, <2>2
<1>8. Renders(out', text', cache', Len(text)) BY <1>1, <1>6, <1>7 DEF Renders
<1>9. Faithful(out', text', Len(text))
  <2>1. cache' \in [Names -> Nat] /\ \A m, n \in Names : cache'[m] # 0 /\ cache'[m] = cache'[n] => m = n
    BY <1>1 DEF IInv, Good, TypeOK, NoAlias
  <2>2. text' \in Seq(Names \union {Plain}) /\ Len(text) \in Nat /\ Len(text) <= Len(text') BY <1>1, <1>2
  <2> QED BY <1>8, <2>1, <2>2, RenderedIsFaithful
<1> QED BY <1>1, <1>2, <1>6, <1>9 DEF FilterInv

(* What is rendered stays as it is while the template makes calls.         *)
LEMMA FilterStays ==
  ASSUME FilterInv, UNCHANGED filter, pos = Len(text) + 1 \/ failed, failed => failed'
  PROVE  FilterInv'
<1>1. text' = text /\ out' = out /\ pos' = pos BY DEF filter
<1>2. ~failed' => pos = Len(text) + 1 /\ ~failed OBVIOUS
<1>3. text \in Seq(Names \union {Plain}) /\ pos \in Nat BY DEF FilterInv
<1>4. pos = Len(text) + 1 => ~(pos <= Len(text)) BY <1>3
<1> QED BY <1>1, <1>2, <1>4 DEF FilterInv

(* Every step keeps the invariant of the filter.                           *)
LEMMA FilterNextKeeps == ASSUME IInv, FilterInv, [Next]_vars PROVE FilterInv'
<1>0. text \in Seq(Names \union {Plain}) /\ pos \in Nat /\ pos <= Len(text) + 1 BY DEF FilterInv
<1>1. ASSUME NEW c \in Calls, Call(c) PROVE FilterInv'
  BY <1>1, FilterStays DEF Call, Idle
<1>2. ASSUME NEW t \in Texts, Data(t) PROVE FilterInv'
  <2>1. text' = t /\ pos' = 0 /\ out' = <<>> /\ todo' = <<>> BY <1>2 DEF Data, Idle
  <2>2. t \in Seq(Names \union {Plain}) BY TextsAssumption
  <2>3. Renders(out', text', cache', pos') BY <2>1 DEF Renders
  <2>4. out' \in Seq(Pieces) /\ pos' \in Nat /\ pos' <= Len(text') + 1 /\ pos' # Len(text') + 1 BY <2>1, <2>2
  <2> QED BY <2>1, <2>2, <2>3, <2>4 DEF FilterInv
<1>3. CASE Evaluate
  <2>1. todo # <<>> /\ ~failed /\ UNCHANGED filter BY <1>3 DEF Evaluate
  <2>2. pos = Len(text) + 1 BY <1>0, <2>1 DEF FilterInv
  <2> QED BY <2>1, <2>2, FilterStays
<1>4. CASE Filter BY <1>4, FilterMatchKeeps, FilterRestKeeps DEF Filter
<1>5. CASE NewEnvironment
  <2>1. text' = <<>> /\ pos' = 1 /\ out' = <<>> BY <1>5 DEF NewEnvironment
  <2>2. Faithful(out', text', Len(text')) BY <2>1 DEF Faithful
  <2> QED BY <2>1, <2>2 DEF FilterInv
<1>6. CASE UNCHANGED vars
  BY <1>6 DEF vars, slots, filter, FilterInv
<1> QED BY <1>1, <1>2, <1>3, <1>4, <1>5, <1>6 DEF Next

(* A filtered token has lost, doubled and moved nothing, and two places    *)
(* show the same slot exactly if they name the same local, for every text  *)
(* (RenderExact).                                                          *)
THEOREM RenderingIsExact == Spec => []RenderExact
<1>1. Init => FilterInv
  <2> SUFFICES ASSUME Init PROVE FilterInv OBVIOUS
  <2>1. text = <<>> /\ pos = 1 /\ out = <<>> BY DEF Init
  <2>2. Faithful(out, text, Len(text)) BY <2>1 DEF Faithful
  <2> QED BY <2>1, <2>2 DEF FilterInv
<1>2. IInv /\ FilterInv /\ [Next]_vars => FilterInv' BY FilterNextKeeps
<1>3. IInv /\ FilterInv => RenderExact
  <2> SUFFICES ASSUME IInv, FilterInv, ~failed, pos # 0
               PROVE  /\ Len(out) = (IF pos < Len(text) THEN pos ELSE Len(text))
                      /\ \A k \in DOMAIN out :
                           /\ out[k] = Plain <=> text[k] = Plain
                           /\ text[k] # Plain /\ pos <= Len(text) => out[k] = cache[text[k]]
                           /\ \A j \in DOMAIN out : out[j] = out[k] <=> text[j] = text[k]
    BY DEF RenderExact
  <2>0. /\ text \in Seq(Names \union {Plain}) /\ pos \in Nat /\ pos <= Len(text) + 1 /\ out \in Seq(Pieces)
        /\ Len(text) \in Nat /\ DOMAIN out = 1..Len(out)
    BY DEF FilterInv
  <2>1. CASE pos <= Len(text)
    <3>1. Renders(out, text, cache, pos) BY <2>1 DEF FilterInv
    <3>2. cache \in [Names -> Nat] /\ \A m, n \in Names : cache[m] # 0 /\ cache[m] = cache[n] => m = n
      BY DEF IInv, Good, TypeOK, NoAlias
    <3>3. Faithful(out, text, pos) BY <2>0, <2>1, <3>1, <3>2, RenderedIsFaithful
    <3>4. Len(out) = pos /\ \A k \in 1..pos : text[k] # Plain => out[k] = cache[text[k]] BY <3>1 DEF Renders
    <3> QED BY <2>0, <2>1, <3>3, <3>4 DEF Faithful
  <2>2. CASE pos = Len(text) + 1
    <3>1. Len(out) = Len(text) /\ Faithful(out, text, Len(text)) BY <2>2 DEF FilterInv
    <3> DEFINE m == Len(text)
    <3>2. m \in Nat /\ ~(pos < m) /\ ~(pos <= m) BY <2>0, <2>2
    <3>3. DOMAIN out = 1..m BY <2>0, <3>1
    <3> HIDE DEF m
    <3>4. \A k \in 1..m : /\ out[k] = Plain <=> text[k] = Plain
                          /\ \A j \in 1..m : out[j] = out[k] <=> text[j] = text[k]
      BY <3>1 DEF Faithful, m
    <3> QED BY <3>1, <3>2, <3>3, <3>4 DEF m
  <2>3. pos <= Len(text) \/ pos = Len(text) + 1
    <3> DEFINE m == Len(text)
    <3>1. m \in Nat /\ pos \in Nat /\ pos <= m + 1 BY <2>0
    <3> HIDE DEF m
    <3>2. pos <= m \/ pos = m + 1 BY <3>1
    <3> QED BY <3>2 DEF m
  <2> QED BY <2>1, <2>2, <2>3
<1> QED BY <1>1, <1>2, <1>3, InitIInv, NextIInv, PTL DEF Spec
===============================================================================
