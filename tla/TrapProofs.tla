------------------------------ MODULE TrapProofs ------------------------------
(***************************************************************************)
(* Proofs about Trap, for every set of interrupts, exceptions, addresses   *)
(* and writable words.  Each invariant is inductive relative to TypeOK and *)
(* EffectiveModeFresh, so the three are proved one after the other.        *)
(***************************************************************************)
EXTENDS TrapProps, TLAPS

(* A trap from a mode that may not be delegated goes to M-mode.            *)
LEMMA TargetIsHandler ==
  ASSUME NEW cause, NEW deleg
  PROVE  /\ Target(cause, deleg) \in Handlers
         /\ Target(cause, deleg) = "S" => priv # "M"
BY DEF Target, Handlers

(* What trap does to the typed state: the new mstatus and context are      *)
(* well formed because SPP only ever records U or S.                       *)
LEMMA TrapToTypes ==
  ASSUME TypeOK, NEW t \in Handlers, t = "S" => priv # "M", TrapTo(t)
  PROVE  /\ pc' \in Pcs /\ priv' \in Modes /\ eff' \in Modes
         /\ mstatus' \in Status
         /\ epc' \in [Handlers -> Pcs]
         /\ phase' = "end"
         /\ ctx' \in [Handlers -> Contexts]
<1>1. mstatus \in Status /\ priv \in Modes /\ pc \in Pcs
  BY DEF TypeOK
<1>2. TrapStatus(t) \in Status
  BY <1>1 DEF TrapStatus, Status, Modes, Handlers
<1>3. EffectiveMode(t, TrapStatus(t)) \in Modes
  BY <1>2 DEF EffectiveMode, Status, Modes, Handlers
<1>4. Enabled(t) \in BOOLEAN
  BY <1>1 DEF Enabled, Status
<1>5. [priv |-> priv, pc |-> pc, ie |-> Enabled(t)] \in Contexts
  BY <1>1, <1>4 DEF Contexts
<1>6. ctx' \in [Handlers -> Contexts]
  BY <1>5 DEF TrapTo, TypeOK
<1>7. epc' \in [Handlers -> Pcs]
  BY <1>1 DEF TrapTo, TypeOK
<1> QED
  BY <1>2, <1>3, <1>6, <1>7, PcsAssumption DEF TrapTo, Modes, Handlers

(* xRET keeps mstatus well formed.                                         *)
LEMMA ReturnToTypes ==
  ASSUME TypeOK, NEW x \in Handlers, NEW m \in Modes, NEW st \in Status,
         ReturnTo(m, st, x)
  PROVE  TypeOK'
<1> DEFINE w == [st EXCEPT !.MPRV = st.MPRV /\ m = "M"]
<1>1. w \in Status
  BY DEF Status
<1>2. EffectiveMode(m, w) \in Modes
  BY <1>1 DEF EffectiveMode, Status
<1>3. ctx' \in [Handlers -> Contexts]
  BY DEF TypeOK, ReturnTo, Contexts
<1>4. mstatus' \in Status /\ eff' \in Modes
  BY <1>1, <1>2 DEF ReturnTo
<1> QED
  BY <1>3, <1>4 DEF TypeOK, ReturnTo, csrs

(* The status that SRET and MRET hand to xRET is well formed.              *)
LEMMA ReturnStatus ==
  ASSUME mstatus \in Status
  PROVE  /\ [mstatus EXCEPT !.SPP = "U", !.SIE = mstatus.SPIE, !.SPIE = TRUE] \in Status
         /\ [mstatus EXCEPT !.MPP = "U", !.MIE = mstatus.MPIE, !.MPIE = TRUE] \in Status
         /\ mstatus.SPP \in Modes /\ mstatus.MPP \in Modes
BY DEF Status, Modes

(* A word software writes to mstatus becomes well formed.                  *)
LEMMA LegalIsStatus == \A w \in StatusWords : Legal(w) \in Status
<1> SUFFICES ASSUME NEW w \in RawStatus PROVE Legal(w) \in Status
  BY StatusAssumption
<1> QED
  BY DEF Legal, RawStatus, Status, Modes

-----------------------------------------------------------------------------
(* Type correctness is inductive.                                          *)
LEMMA TypeInit == Init => TypeOK
<1> SUFFICES ASSUME Init PROVE TypeOK
  OBVIOUS
<1>1. mstatus \in Status
  BY DEF Init, Status, Modes
<1>2. ctx \in [Handlers -> Contexts]
  BY DEF Init, Contexts
<1> QED
  BY <1>1, <1>2, PcsAssumption DEF Init, TypeOK, Polled, Modes

(* Every step keeps the types.                                             *)
LEMMA TypeStep == TypeOK /\ [Next]_vars => TypeOK'
<1> SUFFICES ASSUME TypeOK, [Next]_vars PROVE TypeOK'
  OBVIOUS
<1>1. CASE PollInterrupts
  BY <1>1 DEF PollInterrupts, TypeOK, csrs, history, Polled
<1>2. CASE FireNothing
  BY <1>2 DEF FireNothing, TypeOK, csrs
<1>3. CASE FireInterrupt
  <2>1. PICK i \in Takeable : TrapTo(Target(i, mideleg))
    BY <1>3 DEF FireInterrupt
  <2>2. flags' = flags \ {"fire"} /\ reclaimed' = {} /\ UNCHANGED <<mip, csrs, src>>
    BY <1>3 DEF FireInterrupt
  <2> QED
    BY <2>1, <2>2, TargetIsHandler, TrapToTypes DEF TypeOK, csrs
<1>4. ASSUME NEW n \in Pcs, Plain(n) PROVE TypeOK'
  BY <1>4 DEF Plain, TypeOK, csrs, history
<1>5. ASSUME NEW e \in Exceptions, RaiseException(e) PROVE TypeOK'
  BY <1>5, TargetIsHandler, TrapToTypes DEF RaiseException, TypeOK, csrs
<1>6. CASE Sret
  BY <1>6, ReturnStatus, ReturnToTypes DEF Sret, TypeOK, Handlers
<1>7. CASE Mret
  BY <1>7, ReturnStatus, ReturnToTypes DEF Mret, TypeOK, Handlers
<1>8. ASSUME NEW w \in StatusWords, WriteMstatus(w) PROVE TypeOK'
  <2>1. Legal(w) \in Status
    BY LegalIsStatus
  <2>2. mstatus' \in Status /\ eff' \in Modes
    BY <1>8, <2>1 DEF WriteMstatus, EffectiveMode, Status, TypeOK
  <2>3. ctx' \in [Handlers -> Contexts]
    BY <1>8 DEF WriteMstatus, Contexts
  <2> QED
    BY <1>8, <2>2, <2>3 DEF WriteMstatus, EndAndFire, TypeOK, csrs
<1>9. ASSUME NEW sie \in BOOLEAN, NEW spie \in BOOLEAN, NEW spp \in {"U", "S"},
             WriteSstatus(sie, spie, spp)
      PROVE  TypeOK'
  <2>1. mstatus' \in Status
    BY <1>9 DEF WriteSstatus, Status, TypeOK
  <2>2. eff' \in Modes
    BY <1>9, <2>1 DEF WriteSstatus, EffectiveMode, Status, TypeOK
  <2>3. ctx' \in [Handlers -> Contexts]
    BY <1>9 DEF WriteSstatus, Contexts, TypeOK
  <2> QED
    BY <1>9, <2>1, <2>2, <2>3 DEF WriteSstatus, EndAndFire, TypeOK, csrs
<1>10. ASSUME NEW s \in SUBSET Interrupts,
              WriteMie(s) \/ WriteSie(s) \/ WriteMip(s) \/ WriteSip(s)
       PROVE  TypeOK'
  BY <1>10 DEF WriteMie, WriteSie, WriteMip, WriteSip, EndAndFire, TypeOK, csrs, history
<1>11. ASSUME NEW d \in DelegWords, WriteDeleg(d) PROVE TypeOK'
  BY <1>11, DelegAssumption DEF WriteDeleg, EndPlain, TypeOK
<1>12. ASSUME NEW x \in Handlers, NEW a \in Pcs, WriteEpc(x, a) PROVE TypeOK'
  <2>1. ctx' \in [Handlers -> Contexts]
    BY <1>12 DEF WriteEpc, Contexts, TypeOK
  <2> QED
    BY <1>12, <2>1 DEF WriteEpc, EndPlain, TypeOK, csrs
<1>13. ASSUME NEW s \in SUBSET Polled, WriteTimer(s) \/ ControllerTick(s) PROVE TypeOK'
  BY <1>13 DEF WriteTimer, ControllerTick, EndAndPoll, TypeOK, csrs, history
<1>14. CASE ReadUartStatus \/ WriteUartControl
  BY <1>14 DEF ReadUartStatus, WriteUartControl, EndPlain, TypeOK, csrs, history
<1>15. CASE UNCHANGED vars
  BY <1>15 DEF vars, TypeOK, csrs, history, Contexts
<1> QED
  BY <1>1, <1>2, <1>3, <1>4, <1>5, <1>6, <1>7, <1>8, <1>9, <1>10, <1>11, <1>12,
     <1>13, <1>14, <1>15 DEF Next, Instruction

(* Every variable keeps its type, whatever words software writes.          *)
THEOREM TypeCorrect == Spec => []TypeOK
<1> QED
  BY TypeInit, TypeStep, PTL DEF Spec

-----------------------------------------------------------------------------
(* The steps that leave the mode and mstatus alone.                        *)
Quiet ==
  \/ PollInterrupts \/ FireNothing
  \/ \E n \in Pcs : Plain(n)
  \/ \E s \in SUBSET Interrupts : WriteMie(s) \/ WriteSie(s) \/ WriteMip(s) \/ WriteSip(s)
  \/ \E d \in DelegWords : WriteDeleg(d)
  \/ \E x \in Handlers, a \in Pcs : WriteEpc(x, a)
  \/ \E s \in SUBSET Polled : WriteTimer(s) \/ ControllerTick(s)
  \/ ReadUartStatus \/ WriteUartControl

(* They do leave them alone.                                               *)
LEMMA QuietLeavesMode ==
  ASSUME Quiet
  PROVE  UNCHANGED <<priv, eff, mstatus>>
BY DEF Quiet, PollInterrupts, FireNothing, Plain, WriteMie, WriteSie, WriteMip, WriteSip,
       WriteDeleg, WriteEpc, WriteTimer, ControllerTick, ReadUartStatus, WriteUartControl

(* What the proofs below distinguish in a step: a trap, a return, a write  *)
(* of a status CSR, a quiet step, or none.                                 *)
LEMMA StepKinds ==
  ASSUME [Next]_vars
  PROVE  \/ \E t \in Handlers : (t = "S" => priv # "M") /\ TrapTo(t)
         \/ Sret \/ Mret
         \/ \E w \in StatusWords : WriteMstatus(w)
         \/ \E sie, spie \in BOOLEAN, spp \in {"U", "S"} : WriteSstatus(sie, spie, spp)
         \/ Quiet \/ UNCHANGED vars
<1>1. FireInterrupt => \E t \in Handlers : (t = "S" => priv # "M") /\ TrapTo(t)
  BY TargetIsHandler DEF FireInterrupt
<1>2. (\E e \in Exceptions : RaiseException(e))
        => \E t \in Handlers : (t = "S" => priv # "M") /\ TrapTo(t)
  BY TargetIsHandler DEF RaiseException
<1> QED
  BY <1>1, <1>2 DEF Next, Instruction, Quiet

(* The cached effective mode is inductive, relative to types: a trap to    *)
(* S-mode starts below M-mode, where MPRV is already clear, and xRET       *)
(* clears it on the way down.                                              *)
LEMMA FreshStep == TypeOK /\ EffectiveModeFresh /\ [Next]_vars => EffectiveModeFresh'
<1> SUFFICES ASSUME TypeOK, EffectiveModeFresh, [Next]_vars PROVE EffectiveModeFresh'
  OBVIOUS
<1>0. mstatus \in Status /\ priv \in Modes
  BY DEF TypeOK
<1>1. ASSUME NEW t \in Handlers, t = "S" => priv # "M", TrapTo(t)
      PROVE  EffectiveModeFresh'
  <2>1. TrapStatus(t).MPRV = mstatus.MPRV
    BY <1>0 DEF TrapStatus, Status
  <2>2. t # "M" => ~TrapStatus(t).MPRV
    BY <1>1, <2>1 DEF Handlers, EffectiveModeFresh
  <2> QED
    BY <1>1, <2>2 DEF TrapTo, EffectiveModeFresh, EffectiveMode
<1>2. ASSUME NEW m, NEW st \in Status, NEW x, ReturnTo(m, st, x)
      PROVE  EffectiveModeFresh'
  <2>1. [st EXCEPT !.MPRV = st.MPRV /\ m = "M"].MPRV = (st.MPRV /\ m = "M")
    BY DEF Status
  <2>2. priv' = m /\ eff' = EffectiveMode(m, mstatus') /\ (m # "M" => ~mstatus'.MPRV)
    BY <1>2, <2>1 DEF ReturnTo
  <2> QED
    BY <2>2 DEF EffectiveModeFresh, EffectiveMode
<1>3. CASE Sret \/ Mret
  BY <1>0, <1>2, <1>3, ReturnStatus DEF Sret, Mret
<1>4. ASSUME NEW w \in StatusWords, WriteMstatus(w) PROVE EffectiveModeFresh'
  BY <1>4 DEF WriteMstatus, EffectiveModeFresh, EffectiveMode
<1>5. ASSUME NEW sie \in BOOLEAN, NEW spie \in BOOLEAN, NEW spp \in {"U", "S"},
             WriteSstatus(sie, spie, spp)
      PROVE  EffectiveModeFresh'
  <2>1. mstatus'.MPRV = mstatus.MPRV /\ mstatus'.MPP = mstatus.MPP
    BY <1>0, <1>5 DEF WriteSstatus, Status
  <2> QED
    BY <1>5, <2>1 DEF WriteSstatus, EffectiveModeFresh, EffectiveMode
<1>6. CASE Quiet
  BY <1>6, QuietLeavesMode DEF EffectiveModeFresh, EffectiveMode
<1>7. CASE UNCHANGED vars
  BY <1>7 DEF vars, EffectiveModeFresh, EffectiveMode
<1> QED
  BY <1>1, <1>3, <1>4, <1>5, <1>6, <1>7, StepKinds

(* effective_privilege_mode is never stale, and MPRV never survives below  *)
(* M-mode.                                                                 *)
THEOREM EffectiveModeIsFresh == Spec => []EffectiveModeFresh
<1>1. Init => EffectiveModeFresh
  BY DEF Init, EffectiveModeFresh, EffectiveMode
<1> QED
  BY <1>1, FreshStep, TypeCorrect, PTL DEF Spec

-----------------------------------------------------------------------------
(* The context a handler will return to is inductive, relative to types.   *)
LEMMA ContextStep == TypeOK /\ HandlerContext /\ [Next]_vars => HandlerContext'
<1> SUFFICES ASSUME TypeOK, HandlerContext, [Next]_vars,
                    NEW x \in Handlers, ctx'[x] # NoContext
             PROVE  /\ epc'[x] = ctx'[x].pc
                    /\ ctx'[x].priv = IF x = "S" THEN mstatus'.SPP ELSE mstatus'.MPP
                    /\ ctx'[x].ie = IF x = "S" THEN mstatus'.SPIE ELSE mstatus'.MPIE
  BY DEF HandlerContext
<1>0. /\ mstatus \in Status /\ epc \in [Handlers -> Pcs]
      /\ ctx \in [Handlers -> Contexts]
  BY DEF TypeOK
<1> DEFINE Same ==
      /\ epc'[x] = epc[x] /\ ctx'[x] = ctx[x]
      /\ x = "S" => mstatus'.SPP = mstatus.SPP /\ mstatus'.SPIE = mstatus.SPIE
      /\ x = "M" => mstatus'.MPP = mstatus.MPP /\ mstatus'.MPIE = mstatus.MPIE
<1>same. SUFFICES ASSUME ~Same
                  PROVE  /\ epc'[x] = ctx'[x].pc
                         /\ ctx'[x].priv = IF x = "S" THEN mstatus'.SPP ELSE mstatus'.MPP
                         /\ ctx'[x].ie = IF x = "S" THEN mstatus'.SPIE ELSE mstatus'.MPIE
  BY DEF HandlerContext, Handlers
<1>1. ASSUME NEW t \in Handlers, TrapTo(t)
      PROVE  /\ epc'[x] = ctx'[x].pc
             /\ ctx'[x].priv = IF x = "S" THEN mstatus'.SPP ELSE mstatus'.MPP
             /\ ctx'[x].ie = IF x = "S" THEN mstatus'.SPIE ELSE mstatus'.MPIE
  <2>1. CASE x = t
    <3>1. epc'[x] = pc /\ ctx'[x] = [priv |-> priv, pc |-> pc, ie |-> Enabled(t)]
      BY <1>0, <1>1, <2>1 DEF TrapTo
    <3>2. t = "S" => mstatus'.SPP = priv /\ mstatus'.SPIE = mstatus.SIE
      BY <1>0, <1>1 DEF TrapTo, TrapStatus, Status
    <3>3. t = "M" => mstatus'.MPP = priv /\ mstatus'.MPIE = mstatus.MIE
      BY <1>0, <1>1 DEF TrapTo, TrapStatus, Status
    <3> QED
      BY <2>1, <3>1, <3>2, <3>3 DEF Enabled, Handlers
  <2>2. CASE x # t
    <3>1. epc'[x] = epc[x] /\ ctx'[x] = ctx[x]
      BY <1>0, <1>1, <2>2 DEF TrapTo
    <3>2. x = "S" => mstatus'.SPP = mstatus.SPP /\ mstatus'.SPIE = mstatus.SPIE
      BY <1>0, <1>1, <2>2 DEF TrapTo, TrapStatus, Status, Handlers
    <3>3. x = "M" => mstatus'.MPP = mstatus.MPP /\ mstatus'.MPIE = mstatus.MPIE
      BY <1>0, <1>1, <2>2 DEF TrapTo, TrapStatus, Status, Handlers
    <3> QED
      BY <3>1, <3>2, <3>3, <1>same
  <2> QED
    BY <2>1, <2>2
<1>2. CASE Sret
  <2>1. x = "M"
    BY <1>0, <1>2 DEF Sret, ReturnTo, Handlers
  <2>2. mstatus'.MPP = mstatus.MPP /\ mstatus'.MPIE = mstatus.MPIE
    BY <1>0, <1>2 DEF Sret, ReturnTo, Status
  <2>3. epc'[x] = epc[x] /\ ctx'[x] = ctx[x]
    BY <1>0, <1>2, <2>1 DEF Sret, ReturnTo, Handlers
  <2> QED
    BY <2>1, <2>2, <2>3, <1>same
<1>3. CASE Mret
  <2>1. x = "S"
    BY <1>0, <1>3 DEF Mret, ReturnTo, Handlers
  <2>2. mstatus'.SPP = mstatus.SPP /\ mstatus'.SPIE = mstatus.SPIE
    BY <1>0, <1>3 DEF Mret, ReturnTo, Status
  <2>3. epc'[x] = epc[x] /\ ctx'[x] = ctx[x]
    BY <1>0, <1>3, <2>1 DEF Mret, ReturnTo, Handlers
  <2> QED
    BY <2>1, <2>2, <2>3, <1>same
<1>4. ASSUME NEW w \in StatusWords PROVE ~WriteMstatus(w)
  BY DEF WriteMstatus
<1>5. ASSUME NEW sie \in BOOLEAN, NEW spie \in BOOLEAN, NEW spp \in {"U", "S"},
             WriteSstatus(sie, spie, spp)
      PROVE  FALSE
  <2>1. x = "M"
    BY <1>0, <1>5 DEF WriteSstatus, Handlers
  <2>2. mstatus'.MPP = mstatus.MPP /\ mstatus'.MPIE = mstatus.MPIE
    BY <1>0, <1>5 DEF WriteSstatus, Status
  <2>3. epc'[x] = epc[x] /\ ctx'[x] = ctx[x]
    BY <1>0, <1>5, <2>1 DEF WriteSstatus, Handlers
  <2> QED
    BY <2>1, <2>2, <2>3, <1>same
<1>6. CASE Quiet
  <2>1. \/ epc'[x] = epc[x] /\ ctx'[x] = ctx[x]
        \/ ctx'[x] = NoContext
    <3>1. CASE \E y \in Handlers, a \in Pcs : WriteEpc(y, a)
      BY <1>0, <3>1 DEF WriteEpc
    <3>2. CASE ~ \E y \in Handlers, a \in Pcs : WriteEpc(y, a)
      BY <1>6, <3>2
         DEF Quiet, PollInterrupts, FireNothing, Plain, WriteMie, WriteSie, WriteMip,
             WriteSip, WriteDeleg, WriteTimer, ControllerTick, ReadUartStatus,
             WriteUartControl, history
    <3> QED
      BY <3>1, <3>2
  <2> QED
    BY <1>6, <2>1, <1>same, QuietLeavesMode
<1>7. CASE UNCHANGED vars
  BY <1>7, <1>same DEF vars, history
<1> QED
  BY <1>1, <1>2, <1>3, <1>4, <1>5, <1>6, <1>7, StepKinds

(* xepc, xPP and xPIE hold what the latest trap to x interrupted, until    *)
(* software overwrites them or returns.                                    *)
THEOREM ContextIsKept == Spec => []HandlerContext
<1>1. Init => HandlerContext
  BY DEF Init, HandlerContext
<1> QED
  BY <1>1, ContextStep, TypeCorrect, PTL DEF Spec

(* A return restores the interrupted address, mode and interrupt enable.   *)
THEOREM ReturnsAreExact == Spec => ReturnsRestore
<1>1. ASSUME TypeOK, HandlerContext
      PROVE  /\ Sret /\ ctx["S"] # NoContext => Restores("S", ctx["S"])
             /\ Mret /\ ctx["M"] # NoContext => Restores("M", ctx["M"])
  <2>0. mstatus \in Status
    BY <1>1 DEF TypeOK
  <2>1. ASSUME Sret, ctx["S"] # NoContext PROVE Restores("S", ctx["S"])
    <3>1. mstatus'.SIE = mstatus.SPIE
      BY <2>0, <2>1 DEF Sret, ReturnTo, Status
    <3> QED
      BY <1>1, <2>1, <3>1 DEF Sret, ReturnTo, Restores, HandlerContext, Handlers
  <2>2. ASSUME Mret, ctx["M"] # NoContext PROVE Restores("M", ctx["M"])
    <3>1. mstatus'.MIE = mstatus.MPIE
      BY <2>0, <2>2 DEF Mret, ReturnTo, Status
    <3> QED
      BY <1>1, <2>2, <3>1 DEF Mret, ReturnTo, Restores, HandlerContext, Handlers
  <2> QED
    BY <2>1, <2>2
<1> QED
  BY <1>1, TypeCorrect, ContextIsKept, PTL DEF ReturnsRestore

-----------------------------------------------------------------------------
(* Nothing above the hart's mode is reached but through a trap.            *)
LEMMA RisesStep ==
  ASSUME TypeOK, [Next]_vars, Rank(priv') > Rank(priv)
  PROVE  /\ pc' = IF priv' = "S" THEN stvec ELSE mtvec
         /\ epc'[priv'] = pc
         /\ IF priv' = "S" THEN ~mstatus'.SIE ELSE ~mstatus'.MIE
<1>0. mstatus \in Status /\ priv \in Modes /\ epc \in [Handlers -> Pcs]
  BY DEF TypeOK
<1>1. ASSUME NEW t \in Handlers, TrapTo(t)
      PROVE  /\ pc' = IF priv' = "S" THEN stvec ELSE mtvec
             /\ epc'[priv'] = pc
             /\ IF priv' = "S" THEN ~mstatus'.SIE ELSE ~mstatus'.MIE
  <2>1. t = "S" => ~mstatus'.SIE
    BY <1>0, <1>1 DEF TrapTo, TrapStatus, Status
  <2>2. t = "M" => ~mstatus'.MIE
    BY <1>0, <1>1 DEF TrapTo, TrapStatus, Status
  <2> QED
    BY <1>0, <1>1, <2>1, <2>2 DEF TrapTo, Handlers
<1>2. ASSUME NEW w \in StatusWords PROVE ~WriteMstatus(w)
  BY <1>0 DEF WriteMstatus, Rank, Modes
<1>3. ASSUME NEW sie \in BOOLEAN, NEW spie \in BOOLEAN, NEW spp \in {"U", "S"}
      PROVE  ~WriteSstatus(sie, spie, spp)
  BY <1>0 DEF WriteSstatus, Rank, Modes
<1>4. ~Quiet
  BY <1>0, QuietLeavesMode DEF Rank, Modes
<1>5. ~Sret
  <2>1. Sret => priv' \in {"U", "S"} /\ priv \in {"S", "M"}
    BY <1>0 DEF Sret, ReturnTo, Status
  <2> QED
    BY <2>1 DEF Rank
<1>6. ~Mret
  <2>1. Mret => priv' \in Modes /\ priv = "M"
    BY <1>0 DEF Mret, ReturnTo, Status
  <2> QED
    BY <2>1 DEF Rank, Modes
<1>7. ~ UNCHANGED vars
  BY <1>0 DEF vars, Rank, Modes
<1> QED
  BY <1>1, <1>2, <1>3, <1>4, <1>5, <1>6, <1>7, StepKinds

(* The mode rises only by a trap, to that mode's vector and with its       *)
(* interrupts off.                                                         *)
THEOREM ModeRisesByTrap == Spec => RisesByTrap
<1>1. TypeOK /\ [Next]_vars =>
        [ Rank(priv') > Rank(priv) =>
            /\ pc' = IF priv' = "S" THEN stvec ELSE mtvec
            /\ epc'[priv'] = pc
            /\ IF priv' = "S" THEN ~mstatus'.SIE ELSE ~mstatus'.MIE ]_vars
  BY RisesStep
<1> QED
  BY <1>1, TypeCorrect, PTL DEF Spec, RisesByTrap

-----------------------------------------------------------------------------
(* Right after a trap its mode's interrupts are off: nothing is takeable.  *)
LEMMA TrapMasks ==
  ASSUME mstatus \in Status, NEW t \in Handlers, TrapTo(t)
  PROVE  Takeable' = {}
<1>1. t = "S" => ~mstatus'.SIE
  BY DEF TrapTo, TrapStatus, Status
<1>2. t = "M" => ~mstatus'.MIE
  BY DEF TrapTo, TrapStatus, Status
<1>3. Unmasked' = {}
  BY <1>1, <1>2 DEF TrapTo, Unmasked, Handlers
<1> QED
  BY <1>3 DEF Takeable

(* NoMissedInterrupt is inductive: a step either sets a flag, or leaves    *)
(* the takeable interrupts as they are, or is a trap, or writes mideleg in *)
(* M-mode.                                                                 *)
LEMMA MissedStep == TypeOK /\ NoMissedInterrupt /\ [Next]_vars => NoMissedInterrupt'
<1> SUFFICES ASSUME TypeOK, NoMissedInterrupt, [Next]_vars, (Ready /\ flags = {})'
             PROVE  (Takeable \subseteq (IF priv = "M" THEN reclaimed ELSE {}))'
  BY DEF NoMissedInterrupt
<1> DEFINE Goal == (Takeable \subseteq (IF priv = "M" THEN reclaimed ELSE {}))'
<1> DEFINE Same == UNCHANGED <<priv, mstatus, mip, mie, mideleg, reclaimed>>
<1>0. flags' = {} /\ phase' # "fire_interrupts"
  BY DEF Ready
<1>same. Same /\ Ready /\ flags = {} => Goal
  BY DEF NoMissedInterrupt, Takeable, Unmasked
<1>1. ~PollInterrupts
  BY <1>0 DEF PollInterrupts
<1>2. CASE FireNothing
  BY <1>2 DEF FireNothing, Takeable, Unmasked, csrs
<1>3. CASE FireInterrupt \/ \E e \in Exceptions : RaiseException(e)
  <2>1. PICK t \in Handlers : TrapTo(t)
    BY <1>3, TargetIsHandler DEF FireInterrupt, RaiseException
  <2> QED
    BY <2>1, TrapMasks DEF TypeOK
<1>4. CASE (\E n \in Pcs : Plain(n)) \/ WriteUartControl \/ \E x \in Handlers, a \in Pcs : WriteEpc(x, a)
  BY <1>0, <1>4, <1>same DEF Plain, WriteUartControl, WriteEpc, EndPlain, csrs, history
<1>5. CASE \E d \in DelegWords : WriteDeleg(d)
  <2>1. PICK d \in DelegWords : WriteDeleg(d)
    BY <1>5
  <2>2. Ready /\ flags = {} /\ priv = "M" /\ priv' = "M"
    BY <1>0, <2>1 DEF WriteDeleg, EndPlain
  <2>3. Takeable \subseteq reclaimed
    BY <2>2 DEF NoMissedInterrupt
  <2>4. mideleg' = d[2] /\ reclaimed' = reclaimed \union (mideleg \ d[2])
        /\ UNCHANGED <<mstatus, mip, mie>>
    BY <2>1 DEF WriteDeleg
  <2>5. Takeable' \subseteq Takeable \union (mideleg \ mideleg')
    BY <2>2, <2>4 DEF Takeable, Unmasked
  <2> QED
    BY <2>2, <2>3, <2>4, <2>5
<1>6. ~Sret /\ ~Mret
  BY <1>0 DEF Sret, Mret, ReturnTo
<1>7. /\ \A w \in StatusWords : ~WriteMstatus(w)
      /\ \A sie, spie \in BOOLEAN, spp \in {"U", "S"} : ~WriteSstatus(sie, spie, spp)
      /\ \A s \in SUBSET Interrupts :
           ~WriteMie(s) /\ ~WriteSie(s) /\ ~WriteMip(s) /\ ~WriteSip(s)
  BY <1>0 DEF WriteMstatus, WriteSstatus, WriteMie, WriteSie, WriteMip, WriteSip, EndAndFire
<1>8. /\ \A s \in SUBSET Polled : ~WriteTimer(s) /\ ~ControllerTick(s)
      /\ ~ReadUartStatus
  BY <1>0 DEF WriteTimer, ControllerTick, ReadUartStatus, EndAndPoll
<1>9. CASE UNCHANGED vars
  BY <1>9, <1>same DEF vars, Ready, csrs, history
<1> QED
  BY <1>1, <1>2, <1>3, <1>4, <1>5, <1>6, <1>7, <1>8, <1>9 DEF Next, Instruction

(* No instruction runs past an interrupt that should be taken.             *)
THEOREM InterruptsAreTaken == Spec => []NoMissedInterrupt
<1>1. Init => NoMissedInterrupt
  BY DEF Init, NoMissedInterrupt
<1> QED
  BY <1>1, MissedStep, TypeCorrect, PTL DEF Spec
===============================================================================
