------------------------------ MODULE UartDriver ------------------------------
(***************************************************************************)
(* The UART under an interrupt-driven receiver, the way the interrupt is   *)
(* documented to be used: software enables the port's interrupt, sleeps    *)
(* until MEIP, and its handler alternates Status and RX reads until Status *)
(* says that the RX FIFO is empty.                                         *)
(***************************************************************************)
EXTENDS Uart

CONSTANTS
  port,             \* the port the driver serves
  MaxReadsPerTick   \* bound: the bytes the hart can read between two polls

EnableWord == [ie |-> TRUE, rst_rx |-> FALSE, rst_tx |-> FALSE]

ASSUME DriverAssumption ==
  /\ port \in Ports /\ MaxReadsPerTick \in Nat \ {0}
  /\ {<<"store", "CONTROL">>, <<"load", "STATUS">>, <<"load", "RX">>} \subseteq Accesses[port]
  /\ Controls = {EnableWord}

VARIABLES
  drv,     \* where the driver is: boot, idle (WFI), or in the handler
  seen,    \* "valid" of the Status word the handler obtained
  reads,   \* RX reads since the controller's last poll
  cleared, \* history: the last Status read has cleared an announcement that
           \* came after it had read the pointers, of data it did not show
  lapped   \* history: a whole turn of the FIFO was read between two polls, so
           \* the pointer is back where the controller last announced it

lost == <<cleared, lapped>>
drvVars == <<drv, seen, reads, lost>>
allVars == <<vars, drvVars>>

DriverInit ==
  Init /\ drv = "boot" /\ seen = FALSE /\ reads = 0 /\ cleared = FALSE /\ lapped = FALSE

Boot ==
  /\ drv = "boot"
  /\ AccessUart(port, "store", "CONTROL", 0, EnableWord)
  /\ drv' = "idle"
  /\ UNCHANGED <<seen, reads, lost>>

(* The interrupt is taken at an instruction boundary, after the poll.      *)
TakeInterrupt ==
  /\ drv = "idle" /\ acc.pc = "main" /\ ~csr_mip.poll /\ csr_mip.meip
  /\ drv' = "status"
  /\ UNCHANGED <<vars, seen, reads, lost>>

HandlerReadStatus ==
  /\ drv = "status"
  /\ AccessUart(port, "load", "STATUS", 0, NoControl)
  /\ drv' = "decide" /\ cleared' = FALSE
  /\ UNCHANGED <<seen, reads, lapped>>

HandlerReadRx ==
  /\ drv = "decide" /\ seen
  /\ reads < MaxReadsPerTick
  /\ AccessUart(port, "load", "RX", 0, NoControl)
  /\ drv' = "status"
  /\ reads' = reads + 1
  /\ UNCHANGED <<seen, lost>>

HandlerReturn ==
  /\ drv = "decide" /\ ~seen /\ acc.pc = "main"
  /\ drv' = "idle"
  /\ UNCHANGED <<vars, seen, reads, lost>>

DriverStep ==
  Boot \/ TakeInterrupt \/ HandlerReadStatus \/ HandlerReadRx \/ HandlerReturn

(* The hart's own steps; the Status load also delivers "valid".            *)
Hart ==
  /\ HartStep
  /\ seen' = IF acc.pc = "load" /\ acc.reg = "STATUS" THEN StatusWord(acc).valid ELSE seen
  /\ cleared' = IF acc.pc = "clear_ip"
                 THEN ~seen /\ rx_read[port] # rx_write[port] /\ rx_ptrs[port] = rx_read[port]
                 ELSE cleared
  /\ lapped' = IF acc.pc = "rx_advance" THEN rx_read'[port] = rx_ptrs[port] ELSE lapped
  /\ UNCHANGED <<drv, reads>>

Tick ==
  /\ ControllerTick
  /\ reads' = 0 /\ lapped' = (lapped /\ rx_read[port] # rx_write[port])
  /\ UNCHANGED <<drv, seen, cleared>>

Peer == PeerStep /\ UNCHANGED drvVars

DriverNext == DriverStep \/ Hart \/ Tick \/ Peer

(* Every processor gets a turn in every game tick, so the hart and the     *)
(* controller never stop; the peers owe nothing.  A worker's turn is long  *)
(* enough to execute an instruction after the poll the controller asked    *)
(* for, so ticks cannot starve the driver: strong fairness.                *)
DriverSpec ==
  /\ DriverInit /\ [][DriverNext]_allVars
  /\ SF_allVars(DriverStep) /\ WF_allVars(Hart) /\ WF_allVars(Tick)

(* A byte that reaches the RX FIFO of a port whose interrupt is enabled is *)
(* eventually read, although the controller announces a non-empty FIFO     *)
(* only once per read-pointer value and the Status read that clears the    *)
(* announcement may race with new data.  There are two ways to lose it,    *)
(* and no other: the announcement falls between the pointer reads of       *)
(* access_uart and the end of load_mmio_word, which clears it; or so many  *)
(* bytes are read between two polls that the pointer is back where the     *)
(* controller last saw it.                                                 *)
RxIsServed ==
  \A i \in Idx :
    (rx_read[port] = i /\ rx_write[port] # i) ~> (rx_read[port] # i \/ cleared \/ lapped)

(* The same as a state predicate: a driver that sleeps on a port whose     *)
(* data the controller has already announced has the interrupt pending,    *)
(* unless the announcement was lost in one of these two ways.              *)
NoLostWakeup ==
  (drv = "idle" /\ acc.pc = "main" /\ port \in uart_flags.ie
     /\ rx_read[port] # rx_write[port] /\ rx_ptrs[port] = rx_read[port])
  => port \in uart_flags.ip \/ cleared \/ lapped

(* What the README promises, "interrupts for RX FIFO non-empty": a         *)
(* receiver that reads Status and RX until the FIFO is empty, and then     *)
(* sleeps until the interrupt, is never left asleep with data.             *)
RxIsAlwaysServed ==
  \A i \in Idx :
    (rx_read[port] = i /\ rx_write[port] # i) ~> (rx_read[port] # i)
===============================================================================
