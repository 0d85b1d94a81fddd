-------------------------------- MODULE MCTrap --------------------------------
(* A small instance of Trap for TLC.                                        *)
EXTENDS TrapProps

(* MPRV and MPP, with the S-mode part of mstatus left to sstatus.  TSR is   *)
(* off: it only disables Sret.                                             *)
ContextWords ==
  {w \in RawStatus :
     /\ w.SPP = "U" /\ ~w.SPIE /\ ~w.SIE /\ ~w.MIE /\ w.MPIE
     /\ ~w.TSR /\ w.MPP \in IF w.MPRV THEN {"S"} ELSE {"S", "reserved"}}

(* Everything in M-mode, or the exception and the software interrupt in    *)
(* S-mode.                                                                 *)
ContextDelegs == {<<{}, {}>>, <<{"ecall"}, {"SSI"}>>}
===============================================================================
