------------------------------- MODULE TrapProps -------------------------------
(***************************************************************************)
(* What makes traps and interrupts correct.                                *)
(***************************************************************************)
EXTENDS Trap

(* Every variable has its type.                                            *)
Contexts == [priv : Modes, pc : Pcs, ie : BOOLEAN] \union {NoContext}

TypeOK ==
  /\ pc \in Pcs /\ priv \in Modes /\ eff \in Modes
  /\ mstatus \in Status
  /\ epc \in [Handlers -> Pcs]
  /\ mip \subseteq Interrupts /\ mie \subseteq Interrupts
  /\ medeleg \subseteq Exceptions /\ mideleg \subseteq Interrupts
  /\ flags \subseteq {"poll", "fire"}
  /\ src \subseteq Polled
  /\ phase \in {"end", "fire_interrupts", "main"}
  /\ ctx \in [Handlers -> Contexts] /\ reclaimed \subseteq Interrupts

(* An instruction never runs past an interrupt that fire_interrupts would  *)
(* take: whatever changes mip, mie, mstatus or the mode (CSR writes, xRET, *)
(* traps, the poll) has set interrupt_flags.fire, and nothing has cleared  *)
(* it since without looking.  The one exception is mideleg: an interrupt   *)
(* that M-mode takes back from S-mode while MIE is set waits for the next  *)
(* tick, but not past a return from M-mode.                                *)
NoMissedInterrupt ==
  (Ready /\ flags = {}) => Takeable \subseteq (IF priv = "M" THEN reclaimed ELSE {})

(* The cached effective_privilege_mode is what mstatus and the mode say,   *)
(* and MPRV is never left set below M-mode, which is why                   *)
(* get_effective_privilege_mode need not look at the mode ("we don't need  *)
(* to check the current privilege mode here because MRET/SRET clear MPRV   *)
(* if leaving M-mode", worker.mlog.jinja:472).  A trap to S-mode or a      *)
(* write of sstatus relies on it.                                          *)
EffectiveModeFresh ==
  /\ eff = EffectiveMode(priv, mstatus)
  /\ priv # "M" => ~mstatus.MPRV /\ eff = priv

(* The mode rises only through a trap vector, with the interrupted address *)
(* in xepc and interrupts of that mode off: no return, and no CSR that     *)
(* software can write, raises it.                                          *)
RisesByTrap ==
  [][ Rank(priv') > Rank(priv) =>
        /\ pc' = IF priv' = "S" THEN stvec ELSE mtvec
        /\ epc'[priv'] = pc
        /\ IF priv' = "S" THEN ~mstatus'.SIE ELSE ~mstatus'.MIE ]_vars

(* What xRET will restore is what the trap to x interrupted, through any   *)
(* nesting: a trap to M-mode inside an S-mode handler, its return, and     *)
(* writes of the other mode's part of mstatus leave it intact.             *)
HandlerContext ==
  \A x \in Handlers : ctx[x] # NoContext =>
    /\ epc[x] = ctx[x].pc
    /\ ctx[x].priv = IF x = "S" THEN mstatus.SPP ELSE mstatus.MPP
    /\ ctx[x].ie = IF x = "S" THEN mstatus.SPIE ELSE mstatus.MPIE

(* A return goes back to the interrupted instruction, in its mode, with    *)
(* that handler's interrupt enable as it was.                              *)
Restores(x, c) ==
  priv' = c.priv /\ pc' = c.pc
    /\ c.ie = IF x = "S" THEN mstatus'.SIE ELSE mstatus'.MIE

ReturnsRestore ==
  [][ /\ Sret /\ ctx["S"] # NoContext => Restores("S", ctx["S"])
      /\ Mret /\ ctx["M"] # NoContext => Restores("M", ctx["M"]) ]_vars
===============================================================================
