--------------------------------- MODULE Trap ---------------------------------
(***************************************************************************)
(* Privilege modes, traps and interrupts of the hart, one action per       *)
(* RISC-V instruction or per pass of the code between two instructions     *)
(* (module Handoff shows that a change of workers inside them is           *)
(* invisible).                                                             *)
(*   worker.mlog.jinja: poll_interrupts, fire_interrupts, end_instruction, *)
(*                      interrupt, trap, PRIV, the CSR handlers            *)
(*   cpu.yaml:          which bits of a CSR are writable                   *)
(* xcause and xtval are written and never read by this code; an unset trap *)
(* vector halts the hart and is in module Handoff.                         *)
(***************************************************************************)
EXTENDS Naturals

CONSTANTS
  Interrupts,     \* the interrupt causes in use
  Exceptions,     \* the other causes: illegal instruction, ecall, faults
  Pcs,            \* the addresses of instructions
  resetPc,        \* the reset vector, address 0
  mtvec, stvec,   \* the trap vectors software has set
  StatusWords,    \* the mstatus values M-mode software writes
  DelegWords,     \* the <<medeleg, mideleg>> values M-mode software writes
  NoContext       \* the value of ctx of a context that is gone

AllInterrupts == {"MEI", "MTI", "SEI", "SSI", "STI"}
Modes == {"U", "S", "M"}
Handlers == {"S", "M"}     \* the modes that trap handlers run in
Rank(m) == CASE m = "U" -> 0 [] m = "S" -> 1 [] m = "M" -> 3

(* The implemented fields of mstatus that traps depend on.                 *)
Status ==
  [SIE : BOOLEAN, MIE : BOOLEAN, SPIE : BOOLEAN, MPIE : BOOLEAN,
   SPP : {"U", "S"}, MPP : Modes, MPRV : BOOLEAN, TSR : BOOLEAN]

(* What software may write there: MPP has one encoding that is no mode.    *)
RawStatus ==
  [SIE : BOOLEAN, MIE : BOOLEAN, SPIE : BOOLEAN, MPIE : BOOLEAN,
   SPP : {"U", "S"}, MPP : Modes \union {"reserved"}, MPRV : BOOLEAN, TSR : BOOLEAN]

ASSUME InterruptsAssumption == Interrupts \subseteq AllInterrupts
ASSUME PcsAssumption == {resetPc, mtvec, stvec} \subseteq Pcs
ASSUME StatusAssumption == StatusWords \subseteq RawStatus
ASSUME DelegAssumption == DelegWords \subseteq (SUBSET Exceptions) \X (SUBSET Interrupts)
ASSUME ContextAssumption == NoContext \notin [priv : Modes, pc : Pcs, ie : BOOLEAN]

VARIABLES
  pc, priv,          \* pc and privilege_mode
  eff,               \* effective_privilege_mode, cached
  mstatus, epc,      \* mstatus; sepc and mepc
  mip, mie,          \* the two interrupt CSRs, without the internal flags
  medeleg, mideleg,
  flags,             \* the internal flags in mip: "poll" and "fire"
  src,               \* what poll_interrupts would find: UART, mtimecmp, stimecmp
  phase,             \* "end" of an instruction, "fire_interrupts" or "main"
  ctx,               \* history: what each handler has interrupted
  reclaimed          \* history: interrupts M-mode has taken back from S-mode
                     \* since fire_interrupts last ran

history == <<ctx, reclaimed>>
csrs == <<mie, medeleg, mideleg>>
vars == <<pc, priv, eff, mstatus, epc, mip, csrs, flags, src, phase, history>>

(* Interrupts whose pending bit poll_interrupts computes.                  *)
Polled == Interrupts \intersect {"MEI", "MTI", "STI"}

(* get_effective_privilege_mode                                            *)
EffectiveMode(p, st) == IF st.MPRV THEN st.MPP ELSE p

-----------------------------------------------------------------------------
(* Taking a trap to mode t: trap__check_mxdeleg, trap__machine, common.    *)
Target(cause, deleg) == IF priv # "M" /\ cause \in deleg THEN "S" ELSE "M"

TrapStatus(t) ==
  IF t = "S" THEN [mstatus EXCEPT !.SPIE = mstatus.SIE, !.SIE = FALSE, !.SPP = priv]
             ELSE [mstatus EXCEPT !.MPIE = mstatus.MIE, !.MIE = FALSE, !.MPP = priv]

Enabled(t) == IF t = "S" THEN mstatus.SIE ELSE mstatus.MIE

TrapTo(t) ==
  /\ mstatus' = TrapStatus(t)
  /\ epc' = [epc EXCEPT ![t] = pc]
  /\ pc' = IF t = "S" THEN stvec ELSE mtvec
  /\ priv' = t
  /\ eff' = EffectiveMode(t, TrapStatus(t))
  /\ phase' = "end"
  /\ ctx' = [ctx EXCEPT ![t] = [priv |-> priv, pc |-> pc, ie |-> Enabled(t)]]

-----------------------------------------------------------------------------
(* Between two instructions                                                *)

PollInterrupts ==
  /\ phase = "end" /\ "poll" \in flags
  /\ mip' = (mip \ Polled) \union src
  /\ flags' = flags \ {"poll"}
  /\ phase' = "fire_interrupts"
  /\ UNCHANGED <<pc, priv, eff, mstatus, epc, csrs, src, history>>

Firing == phase = "fire_interrupts" \/ (phase = "end" /\ flags = {"fire"})

(* The interrupts this mode takes: none, all, or in M-mode the ones that   *)
(* are not delegated.                                                      *)
Unmasked ==
  CASE priv = "U" -> Interrupts
    [] priv = "S" -> IF mstatus.SIE THEN Interrupts ELSE {}
    [] priv = "M" -> IF mstatus.MIE THEN Interrupts \ mideleg ELSE {}

Takeable == mip \intersect mie \intersect Unmasked

(* interrupt priority order: MEI, MTI, SEI, SSI, STI                       *)
Priority(i) ==
  CASE i = "MEI" -> 5 [] i = "MTI" -> 4 [] i = "SEI" -> 3 [] i = "SSI" -> 2 [] i = "STI" -> 1

FireNothing ==
  /\ Firing /\ Takeable = {}
  /\ flags' = flags \ {"fire"}
  /\ phase' = "main"
  /\ reclaimed' = {}
  /\ UNCHANGED <<pc, priv, eff, mstatus, epc, mip, csrs, src, ctx>>

FireInterrupt ==
  /\ Firing
  /\ \E i \in Takeable :
       /\ \A j \in Takeable : Priority(j) <= Priority(i)
       /\ TrapTo(Target(i, mideleg))
  /\ flags' = flags \ {"fire"}
  /\ reclaimed' = {}
  /\ UNCHANGED <<mip, csrs, src>>

-----------------------------------------------------------------------------
(* Instructions                                                            *)

(* end_instruction goes straight to main if no flag is set.                *)
Ready == phase = "main" \/ (phase = "end" /\ flags = {})

(* Anything that does not touch this state.                                *)
Plain(n) ==
  /\ Ready
  /\ pc' = n /\ phase' = "end"
  /\ UNCHANGED <<priv, eff, mstatus, epc, mip, csrs, flags, src, history>>

RaiseException(e) ==
  /\ Ready
  /\ TrapTo(Target(e, medeleg))
  /\ UNCHANGED <<mip, csrs, flags, src, reclaimed>>

(* Mutant: MPRV survives the return. *)
ReturnToKeepsMprv(m, st, x) ==
  /\ priv' = m /\ mstatus' = st /\ eff' = EffectiveMode(m, st)
  /\ pc' = epc[x] /\ phase' = "end"
  /\ flags' = flags \union {"fire"}
  /\ ctx' = [ctx EXCEPT ![x] = NoContext]
  /\ UNCHANGED <<epc, mip, csrs, src, reclaimed>>

(* Mutant: interrupt_flags.fire is not set. *)
ReturnToWithoutFire(m, st, x) ==
  /\ priv' = m
  /\ mstatus' = [st EXCEPT !.MPRV = @ /\ m = "M"]
  /\ eff' = EffectiveMode(m, [st EXCEPT !.MPRV = @ /\ m = "M"])
  /\ pc' = epc[x] /\ phase' = "end"
  /\ ctx' = [ctx EXCEPT ![x] = NoContext]
  /\ UNCHANGED <<epc, mip, csrs, flags, src, reclaimed>>

(* SRET, MRET and their common end xRET: the mode m and the status st.     *)
ReturnTo(m, st, x) ==
  /\ priv' = m
  /\ mstatus' = [st EXCEPT !.MPRV = @ /\ m = "M"]
  /\ eff' = EffectiveMode(m, [st EXCEPT !.MPRV = @ /\ m = "M"])
  /\ pc' = epc[x]
  /\ flags' = flags \union {"fire"}
  /\ phase' = "end"
  /\ ctx' = [ctx EXCEPT ![x] = NoContext]
  /\ UNCHANGED <<epc, mip, csrs, src, reclaimed>>

(* Mutant: the privilege checks are missing. *)
SretUnprivileged ==
  /\ Ready
  /\ ReturnTo(mstatus.SPP,
              [mstatus EXCEPT !.SPP = "U", !.SIE = mstatus.SPIE, !.SPIE = TRUE], "S")

(* Mutant: SIE stays cleared. *)
SretLosesEnable ==
  /\ Ready
  /\ priv = "M" \/ (priv = "S" /\ ~mstatus.TSR)
  /\ ReturnTo(mstatus.SPP,
              [mstatus EXCEPT !.SPP = "U", !.SIE = FALSE, !.SPIE = TRUE], "S")

Sret ==
  /\ Ready
  /\ priv = "M" \/ (priv = "S" /\ ~mstatus.TSR)
  /\ ReturnTo(mstatus.SPP,
              [mstatus EXCEPT !.SPP = "U", !.SIE = mstatus.SPIE, !.SPIE = TRUE], "S")

Mret ==
  /\ Ready
  /\ priv = "M"
  /\ ReturnTo(mstatus.MPP,
              [mstatus EXCEPT !.MPP = "U", !.MIE = mstatus.MPIE, !.MPIE = TRUE], "M")

(* end_instruction_with_rd_and_fire_interrupts, ..._and_poll_interrupts    *)
EndAndFire == pc' \in Pcs /\ phase' = "end" /\ flags' = flags \union {"fire"}
EndAndPoll == pc' \in Pcs /\ phase' = "end" /\ flags' = flags \union {"poll", "fire"}
EndPlain == pc' \in Pcs /\ phase' = "end" /\ UNCHANGED flags

(* if MPP was set to 10 (reserved), set it to 0                            *)
Legal(w) == [w EXCEPT !.MPP = IF @ = "reserved" THEN "U" ELSE @]

(* csr_write_mstatus and csr_write_sstatus recompute the effective mode.   *)
WriteMstatus(w) ==
  /\ Ready /\ priv = "M"
  /\ mstatus' = Legal(w) /\ eff' = EffectiveMode(priv, Legal(w))
  /\ EndAndFire
  /\ ctx' = [x \in Handlers |-> NoContext]
  /\ UNCHANGED <<priv, epc, mip, csrs, src, reclaimed>>

WriteSstatus(sie, spie, spp) ==
  LET w == [mstatus EXCEPT !.SIE = sie, !.SPIE = spie, !.SPP = spp]
  IN /\ Ready /\ priv \in Handlers
     /\ mstatus' = w /\ eff' = EffectiveMode(priv, w)
     /\ EndAndFire
     /\ ctx' = [ctx EXCEPT !["S"] = NoContext]
     /\ UNCHANGED <<priv, epc, mip, csrs, src, reclaimed>>

(* mie and mip, or their delegated part seen as sie and sip.               *)
WriteMie(s) ==
  /\ Ready /\ priv = "M"
  /\ mie' = s
  /\ EndAndFire
  /\ UNCHANGED <<priv, eff, mstatus, epc, mip, medeleg, mideleg, src, history>>

WriteSie(s) ==
  /\ Ready /\ priv \in Handlers
  /\ mie' = (mie \ mideleg) \union (s \intersect mideleg)
  /\ EndAndFire
  /\ UNCHANGED <<priv, eff, mstatus, epc, mip, medeleg, mideleg, src, history>>

WriteMip(s) ==
  /\ Ready /\ priv = "M"
  /\ mip' = (mip \ {"SEI", "SSI"}) \union (s \intersect {"SEI", "SSI"})
  /\ EndAndFire
  /\ UNCHANGED <<priv, eff, mstatus, epc, csrs, src, history>>

WriteSip(s) ==
  /\ Ready /\ priv \in Handlers
  /\ mip' = (mip \ mideleg) \union (s \intersect mideleg)
  /\ EndAndFire
  /\ UNCHANGED <<priv, eff, mstatus, epc, csrs, src, history>>

(* medeleg and mideleg are plain CSRs, csr_write_csrs: no flag is set.     *)
WriteDeleg(d) ==
  /\ Ready /\ priv = "M"
  /\ medeleg' = d[1] /\ mideleg' = d[2]
  /\ EndPlain
  /\ reclaimed' = reclaimed \union (mideleg \ d[2])
  /\ UNCHANGED <<priv, eff, mstatus, epc, mip, mie, src, ctx>>

WriteEpc(x, a) ==
  /\ Ready /\ Rank(priv) >= Rank(x)
  /\ epc' = [epc EXCEPT ![x] = a]
  /\ EndPlain
  /\ ctx' = [ctx EXCEPT ![x] = NoContext]
  /\ UNCHANGED <<priv, eff, mstatus, mip, csrs, src, reclaimed>>

(* A new mtime, mtimecmp or stimecmp may raise or lower the timers.  The   *)
(* 32-bit store does not look at the mode.                                 *)
WriteTimer(s) ==
  /\ Ready
  /\ src' = (src \intersect {"MEI"}) \union (s \ {"MEI"})
  /\ EndAndPoll
  /\ UNCHANGED <<priv, eff, mstatus, epc, mip, csrs, history>>

(* Reading a pending port's Status; writing a port's Control.              *)
ReadUartStatus ==
  /\ Ready /\ "MEI" \in Polled
  /\ src' \in {src, src \ {"MEI"}}
  /\ pc' \in Pcs /\ phase' = "end" /\ flags' = flags \union {"poll"}
  /\ UNCHANGED <<priv, eff, mstatus, epc, mip, csrs, history>>

WriteUartControl ==
  /\ Ready /\ "MEI" \in Polled
  /\ src' \in {src \union {"MEI"}, src \ {"MEI"}}
  /\ EndPlain
  /\ UNCHANGED <<priv, eff, mstatus, epc, mip, csrs, history>>

(* The controller's tick: time passes, bytes arrive.  It may come between  *)
(* the end of an instruction and the poll, or between the poll and the     *)
(* firing: workers are stopped anywhere.                                   *)
ControllerTick(s) ==
  /\ src' = src \union s
  /\ flags' = {"poll", "fire"}
  /\ UNCHANGED <<pc, priv, eff, mstatus, epc, mip, csrs, phase, history>>

-----------------------------------------------------------------------------
Init ==
  /\ pc = resetPc /\ priv = "M" /\ eff = "M"
  /\ mstatus = [SIE |-> FALSE, MIE |-> FALSE, SPIE |-> FALSE, MPIE |-> FALSE,
                SPP |-> "U", MPP |-> "U", MPRV |-> FALSE, TSR |-> FALSE]
  /\ epc \in [Handlers -> Pcs]
  /\ mip = {} /\ mie = {} /\ medeleg = {} /\ mideleg = {}
  /\ flags = {"poll", "fire"} /\ phase = "end"
  /\ src = Polled \ {"MEI"}       \* mtime, mtimecmp and stimecmp are 0
  /\ ctx = [x \in Handlers |-> NoContext] /\ reclaimed = {}

Instruction ==
  \/ \E n \in Pcs : Plain(n)
  \/ \E e \in Exceptions : RaiseException(e)
  \/ Sret \/ Mret
  \/ \E w \in StatusWords : WriteMstatus(w)
  \/ \E sie, spie \in BOOLEAN, spp \in {"U", "S"} : WriteSstatus(sie, spie, spp)
  \/ \E s \in SUBSET Interrupts : WriteMie(s) \/ WriteSie(s) \/ WriteMip(s) \/ WriteSip(s)
  \/ \E d \in DelegWords : WriteDeleg(d)
  \/ \E x \in Handlers, a \in Pcs : WriteEpc(x, a)
  \/ \E s \in SUBSET Polled : WriteTimer(s)
  \/ ReadUartStatus \/ WriteUartControl

Next ==
  \/ PollInterrupts \/ FireNothing \/ FireInterrupt \/ Instruction
  \/ \E s \in SUBSET Polled : ControllerTick(s)

Spec == Init /\ [][Next]_vars
===============================================================================
