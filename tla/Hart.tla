--------------------------------- MODULE Hart ---------------------------------
(***************************************************************************)
(* The one RISC-V hart that software sees, however many Mindustry          *)
(* processors take turns at executing it: it is off, booting, running,     *)
(* stalled by PAUSE/WFI or stopped at a breakpoint.  Only a running hart   *)
(* executes, one instruction after the other, and only a boot resets it.   *)
(***************************************************************************)
EXTENDS Naturals

CONSTANT Modulus   \* instructions are counted modulo this
VARIABLES mode, instret

Init == mode = "halt" /\ instret = 0

Execute == mode = "running" /\ instret' = (instret + 1) % Modulus /\ UNCHANGED mode

(* A halted hart may be switched on, a booting one starts from scratch.    *)
Boot == mode \in {"halt", "reset"} /\ mode' = "reset" /\ instret' \in {instret, 0}
Start == mode = "reset" /\ mode' = "running" /\ instret = 0 /\ UNCHANGED instret

(* Stall, breakpoint and the way back.                                     *)
Suspend == mode = "running" /\ mode' \in {"pause", "breakpoint"} /\ UNCHANGED instret
(* The instruction a stall belongs to completes when the stall ends.       *)
Resume ==
  \/ mode = "breakpoint" /\ mode' = "running" /\ UNCHANGED instret
  \/ mode = "pause" /\ mode' = "running" /\ instret' = (instret + 1) % Modulus

(* Power off, Syscon, an unhandled trap, a reboot.                         *)
Stop == mode' \in {"halt", "reset"} /\ UNCHANGED instret

Next == Execute \/ Boot \/ Start \/ Suspend \/ Resume \/ Stop

Spec == Init /\ [][Next]_<<mode, instret>>
===============================================================================
