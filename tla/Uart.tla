--------------------------------- MODULE Uart ---------------------------------
(***************************************************************************)
(* The emulated UART Lite ports of mlogv32.  A port is one memory bank     *)
(* holding two circular buffers (RX towards the hart, TX away from it).    *)
(* Four kinds of processors share the banks without any lock:              *)
(*   - the hart, i.e. whichever worker currently executes it               *)
(*     (worker.mlog.jinja: access_uart, load_mmio_word, store_mmio_word);  *)
(*   - the controller, which polls the pointers once per tick              *)
(*     (controller.mlog.jinja: update_uart_flags);                         *)
(*   - a uart_link processor that copies bytes between two banks           *)
(*     (uart_link.mlog);                                                   *)
(*   - the server plugin's serial endpoint (UartAccess.kt).                *)
(*                                                                         *)
(* A Mindustry processor may be suspended after any instruction, so an     *)
(* action here is a maximal run of instructions with at most one access to *)
(* bank memory another processor writes.  The controller's poll fits in    *)
(* one turn, and UartAccess runs on the game's main thread: both are       *)
(* atomic.                                                                 *)
(***************************************************************************)
EXTENDS Naturals

CONSTANTS
  Ports,             \* the UARTs of the hart
  Data,              \* the values a FIFO slot may hold
  Capacity,          \* UART_FIFO_MODULO - 1
  Accesses,          \* the <<kind, register>> pairs software uses on each port
  Controls,          \* the Control words software writes
  bank1, bank2,      \* the two banks joined by uart_link (not ports if unlinked)
  TurnEndsInAccess   \* may a worker's turn end in the middle of a UART access?

ASSUME PortsAssumption == Ports # {}
ASSUME CapacityAssumption == Capacity \in 1..253
ASSUME DataAssumption == 0 \in Data
ASSUME AccessesAssumption ==
  Accesses \in [Ports -> SUBSET ({"load", "store", "rmw"} \X {"RX", "TX", "STATUS", "CONTROL"})]
ASSUME ControlsAssumption ==
  Controls \subseteq [ie : BOOLEAN, rst_rx : BOOLEAN, rst_tx : BOOLEAN]
ASSUME LinkAssumption ==
  (bank1 \in Ports <=> bank2 \in Ports) /\ (bank1 \in Ports => bank1 # bank2)
ASSUME TurnAssumption == TurnEndsInAccess \in BOOLEAN

VARIABLES
  rxBuf, rx_read, rx_write,  \* bank cells 0.., 254, 255 of every port
  txBuf, tx_read, tx_write,  \* bank cells 256.., 510, 511 of every port
  uart_flags,                \* [ip, ie]: the two nibbles, as sets of ports
  csr_mip,                   \* [poll, meip]: two bits of the hart's mip
  rx_ptrs, tx_ptrs,          \* the controller's uart_{rx,tx}_interrupt_ptrs
  acc,                       \* the hart's access in progress and its locals
  txRoom,                    \* ports whose last Status said "TX not full"
  link                       \* the uart_link processor

bankVars == <<rxBuf, rx_read, rx_write, txBuf, tx_read, tx_write>>
hartVars == <<uart_flags, csr_mip, acc, txRoom>>
ctrlVars == <<rx_ptrs, tx_ptrs>>
vars == <<bankVars, hartVars, ctrlVars, link>>

-----------------------------------------------------------------------------
(* Circular buffers                                                        *)

Idx == 0..Capacity

(* Mutant: the pointer does not wrap. *)
SuccUnwrapped(i) == i + 1

Succ(i) == (i + 1) % (Capacity + 1)
NoPtr == 255

(* The slots from r up to, not including, w: what the buffer holds.        *)
Live(i, r, w) ==
  IF r <= w THEN r <= i /\ i < w ELSE r <= i \/ i < w

(* A position a pointer moving from r towards w passes, both ends included. *)
Between(i, r, w) == Live(i, r, w) \/ i = w

-----------------------------------------------------------------------------
(* The hart's MMIO accesses                                                *)

Regs == {"RX", "TX", "STATUS", "CONTROL"}
Kinds == {"load", "store", "rmw"}   \* rmw: SB/SH, which load the word first

NoControl == [ie |-> FALSE, rst_rx |-> FALSE, rst_tx |-> FALSE]
NoAccess ==
  [pc |-> "main", kind |-> "load", reg |-> "RX", port |-> CHOOSE p \in Ports : TRUE,
   val |-> 0, ctl |-> NoControl, storing |-> FALSE,
   rx_read |-> 0, rx_write |-> 0, tx_read |-> 0, tx_write |-> 0,
   byte |-> 0]

(* A load or store instruction reaches access_uart.  A pending poll is     *)
(* served before the next instruction.  Software writes the TX FIFO only   *)
(* after a Status word told it there is room (README, "UART").             *)
AccessUart(p, kind, reg, val, ctl) ==
  /\ acc.pc = "main"
  /\ ~csr_mip.poll
  /\ (kind # "load" /\ reg = "TX") => p \in txRoom
  /\ acc' = [NoAccess EXCEPT !.pc = "rx_ptrs", !.kind = kind, !.reg = reg, !.port = p,
                             !.val = val, !.ctl = ctl, !.storing = (kind = "store")]
  /\ UNCHANGED <<bankVars, uart_flags, csr_mip, txRoom, ctrlVars, link>>

(* access_uart reads the four pointers; a worker change may fall between.  *)
ReadRxPtrs ==
  /\ acc.pc = "rx_ptrs"
  /\ acc' = [acc EXCEPT !.pc = "tx_ptrs", !.rx_read = rx_read[acc.port],
                        !.rx_write = rx_write[acc.port]]
  /\ UNCHANGED <<bankVars, uart_flags, csr_mip, txRoom, ctrlVars, link>>

ReadTxPtrs ==
  /\ acc.pc = "tx_ptrs"
  /\ acc' = [acc EXCEPT !.pc = IF acc.storing THEN "store" ELSE "load",
                        !.tx_read = tx_read[acc.port],
                        !.tx_write = tx_write[acc.port]]
  /\ UNCHANGED <<bankVars, uart_flags, csr_mip, txRoom, ctrlVars, link>>

(* The load returns: the instruction ends, or SB/SH goes on to the store.  *)
EndLoad(a) ==
  IF a.kind = "rmw" THEN [a EXCEPT !.pc = "rx_ptrs", !.storing = TRUE]
                    ELSE NoAccess

(* TX and Control read as zero; so do an empty RX FIFO and, with mcause=7, *)
(* an RX FIFO that is only loaded as part of a narrow store.               *)
LoadZero ==
  /\ acc.pc = "load"
  /\ \/ acc.reg \in {"TX", "CONTROL"}
     \/ acc.reg = "RX" /\ (acc.rx_read = acc.rx_write \/ acc.kind = "rmw")
  /\ acc' = EndLoad(acc)
  /\ UNCHANGED <<bankVars, uart_flags, csr_mip, txRoom, ctrlVars, link>>

LoadRxData ==
  /\ acc.pc = "load" /\ acc.reg = "RX"
  /\ acc.rx_read # acc.rx_write /\ acc.kind # "rmw"
  /\ acc' = [acc EXCEPT !.pc = "rx_advance", !.byte = rxBuf[acc.port][acc.rx_read]]
  /\ UNCHANGED <<bankVars, uart_flags, csr_mip, txRoom, ctrlVars, link>>

LoadRxAdvance ==
  /\ acc.pc = "rx_advance"
  /\ rx_read' = [rx_read EXCEPT ![acc.port] = Succ(acc.rx_read)]
  /\ acc' = EndLoad(acc)
  /\ UNCHANGED <<rxBuf, rx_write, txBuf, tx_read, tx_write, uart_flags, csr_mip,
                 txRoom, ctrlVars, link>>

(* Mutant: "TX full" is not seen where the write pointer wraps. *)
StatusWordUnwrapped(a) ==
  [valid    |-> a.rx_read # a.rx_write,
   rx_full  |-> a.rx_read = Succ(a.rx_write),
   tx_empty |-> a.tx_read = a.tx_write,
   tx_full  |-> a.tx_read = a.tx_write + 1]

StatusWord(a) ==
  [valid    |-> a.rx_read # a.rx_write,
   rx_full  |-> a.rx_read = Succ(a.rx_write),
   tx_empty |-> a.tx_read = a.tx_write,
   tx_full  |-> a.tx_read = Succ(a.tx_write)]

(* Status is computed from the locals.  Only a load hands it to software.  *)
LoadStatus ==
  LET room == IF StatusWord(acc).tx_full THEN txRoom \ {acc.port}
                                         ELSE txRoom \union {acc.port}
  IN /\ acc.pc = "load" /\ acc.reg = "STATUS"
     /\ acc' = IF acc.port \in uart_flags.ip THEN [acc EXCEPT !.pc = "clear_ip"]
                                             ELSE EndLoad(acc)
     /\ txRoom' = IF acc.kind = "load" THEN room ELSE txRoom
     /\ UNCHANGED <<bankVars, uart_flags, csr_mip, ctrlVars, link>>

(* Mutant: the hart is not asked to poll again. *)
ClearInterruptWithoutPoll ==
  /\ acc.pc = "clear_ip"
  /\ uart_flags' = [uart_flags EXCEPT !.ip = @ \ {acc.port}]
  /\ acc' = EndLoad(acc)
  /\ UNCHANGED <<bankVars, csr_mip, txRoom, ctrlVars, link>>

ClearInterrupt ==
  /\ acc.pc = "clear_ip"
  /\ uart_flags' = [uart_flags EXCEPT !.ip = @ \ {acc.port}]
  /\ csr_mip' = [csr_mip EXCEPT !.poll = TRUE]
  /\ acc' = EndLoad(acc)
  /\ UNCHANGED <<bankVars, txRoom, ctrlVars, link>>

(* Stores to the read-only registers are ignored.                          *)
StoreIgnored ==
  /\ acc.pc = "store" /\ acc.reg \in {"RX", "STATUS"}
  /\ acc' = NoAccess
  /\ UNCHANGED <<bankVars, uart_flags, csr_mip, txRoom, ctrlVars, link>>

StoreTxData ==
  /\ acc.pc = "store" /\ acc.reg = "TX"
  /\ txBuf' = [txBuf EXCEPT ![acc.port][acc.tx_write] = acc.val]
  /\ acc' = [acc EXCEPT !.pc = "tx_advance"]
  /\ UNCHANGED <<rxBuf, rx_read, rx_write, tx_read, tx_write, uart_flags, csr_mip,
                 txRoom, ctrlVars, link>>

StoreTxAdvance ==
  /\ acc.pc = "tx_advance"
  /\ tx_write' = [tx_write EXCEPT ![acc.port] = Succ(acc.tx_write)]
  /\ txRoom' = txRoom \ {acc.port}
  /\ acc' = NoAccess
  /\ UNCHANGED <<rxBuf, rx_read, rx_write, txBuf, tx_read, uart_flags, csr_mip,
                 ctrlVars, link>>

(* Control: the enable bit, then the two FIFO resets from the locals.      *)
StoreControl ==
  /\ acc.pc = "store" /\ acc.reg = "CONTROL"
  /\ uart_flags' = [uart_flags EXCEPT !.ie = IF acc.ctl.ie THEN @ \union {acc.port}
                                                          ELSE @ \ {acc.port}]
  /\ acc' = [acc EXCEPT !.pc = "reset_rx"]
  /\ UNCHANGED <<bankVars, csr_mip, txRoom, ctrlVars, link>>

(* Mutant: the read pointer is zeroed instead of caught up. *)
ResetRxToZero ==
  /\ acc.pc = "reset_rx"
  /\ rx_read' = IF acc.ctl.rst_rx THEN [rx_read EXCEPT ![acc.port] = 0] ELSE rx_read
  /\ acc' = [acc EXCEPT !.pc = "reset_tx"]
  /\ UNCHANGED <<rxBuf, rx_write, txBuf, tx_read, tx_write, uart_flags, csr_mip,
                 txRoom, ctrlVars, link>>

ResetRx ==
  /\ acc.pc = "reset_rx"
  /\ rx_read' = IF acc.ctl.rst_rx THEN [rx_read EXCEPT ![acc.port] = acc.rx_write]
                                  ELSE rx_read
  /\ acc' = [acc EXCEPT !.pc = "reset_tx"]
  /\ UNCHANGED <<rxBuf, rx_write, txBuf, tx_read, tx_write, uart_flags, csr_mip,
                 txRoom, ctrlVars, link>>

ResetTx ==
  /\ acc.pc = "reset_tx"
  /\ tx_write' = IF acc.ctl.rst_tx THEN [tx_write EXCEPT ![acc.port] = acc.tx_read]
                                   ELSE tx_write
  /\ acc' = NoAccess
  /\ UNCHANGED <<rxBuf, rx_read, rx_write, txBuf, tx_read, uart_flags, csr_mip,
                 txRoom, ctrlVars, link>>

(* poll_interrupts, the MEIP part, at the next instruction boundary.       *)
PollInterrupts ==
  /\ acc.pc = "main"
  /\ csr_mip.poll
  /\ csr_mip' = [poll |-> FALSE, meip |-> uart_flags.ip \intersect uart_flags.ie # {}]
  /\ UNCHANGED <<bankVars, uart_flags, acc, txRoom, ctrlVars, link>>

HartStep ==
  \/ ReadRxPtrs \/ ReadTxPtrs \/ LoadZero \/ LoadRxData \/ LoadRxAdvance
  \/ LoadStatus \/ ClearInterrupt \/ StoreIgnored \/ StoreTxData \/ StoreTxAdvance
  \/ StoreControl \/ ResetRx \/ ResetTx \/ PollInterrupts

-----------------------------------------------------------------------------
(* The other processors run when the hart's current turn has ended.        *)
TurnBoundary == acc.pc = "main" \/ TurnEndsInAccess

(* update_uart_flags, given the flags and pointers it starts from.         *)
RxFires(p, ptrs) == rx_read[p] # rx_write[p] /\ ptrs[p] # rx_read[p]
TxFires(p, ptrs) == tx_read[p] = tx_write[p] /\ ptrs[p] # tx_write[p]

(* Mutant: an empty RX FIFO does not re-arm the interrupt. *)
UpdateUartFlagsWithoutRearm(flags, rptrs, tptrs) ==
  /\ uart_flags' = [flags EXCEPT !.ip =
                      @ \union {p \in Ports : RxFires(p, rptrs) \/ TxFires(p, tptrs)}]
  /\ rx_ptrs' = [p \in Ports |-> rx_read[p]]
  /\ tx_ptrs' = [p \in Ports |-> IF tx_read[p] # tx_write[p] THEN NoPtr ELSE tx_write[p]]

UpdateUartFlags(flags, rptrs, tptrs) ==
  /\ uart_flags' = [flags EXCEPT !.ip =
                      @ \union {p \in Ports : RxFires(p, rptrs) \/ TxFires(p, tptrs)}]
  /\ rx_ptrs' = [p \in Ports |-> IF rx_read[p] = rx_write[p] THEN NoPtr ELSE rx_read[p]]
  /\ tx_ptrs' = [p \in Ports |-> IF tx_read[p] # tx_write[p] THEN NoPtr ELSE tx_write[p]]

(* Mutant: the flags are written back, the hart is not asked to poll. *)
ControllerTickWithoutPoll ==
  /\ TurnBoundary
  /\ UpdateUartFlags(uart_flags, rx_ptrs, tx_ptrs)
  /\ UNCHANGED <<bankVars, acc, txRoom, link, csr_mip>>

(* The controller's tick: fetch the flags, update them, write them back,   *)
(* and ask the hart to poll.                                               *)
ControllerTick ==
  /\ TurnBoundary
  /\ UpdateUartFlags(uart_flags, rx_ptrs, tx_ptrs)
  /\ csr_mip' = [csr_mip EXCEPT !.poll = TRUE]
  /\ UNCHANGED <<bankVars, acc, txRoom, link>>

(* Power cycle or reboot: the access in progress is abandoned, the banks   *)
(* keep their contents, and the first worker polls before it executes.     *)
ControllerReset ==
  /\ TurnBoundary
  /\ UpdateUartFlags([ip |-> {}, ie |-> {}],
                     [p \in Ports |-> NoPtr], [p \in Ports |-> NoPtr])
  /\ csr_mip' = [poll |-> TRUE, meip |-> FALSE]
  /\ acc' = NoAccess
  /\ txRoom' = {}
  /\ UNCHANGED <<bankVars, link>>

(* uart_link: one byte from src's TX to dst's RX, then the other way.      *)
Src == IF link.dir = 1 THEN bank1 ELSE bank2
Dst == IF link.dir = 1 THEN bank2 ELSE bank1

(* switch1 on: the two checks; either one may skip to the other direction. *)
LinkCheckTx ==
  /\ TurnBoundary
  /\ bank1 \in Ports
  /\ link.pc = "check_tx"
  /\ link' = IF tx_read[Src] = tx_write[Src] THEN [link EXCEPT !.dir = 3 - @]
                                             ELSE [link EXCEPT !.pc = "check_rx"]
  /\ UNCHANGED <<bankVars, hartVars, ctrlVars>>

(* Mutant: the destination may be full. *)
LinkCheckRxSkipped ==
  /\ TurnBoundary
  /\ link.pc = "check_rx"
  /\ link' = [link EXCEPT !.pc = "byte"]
  /\ UNCHANGED <<bankVars, hartVars, ctrlVars>>

LinkCheckRx ==
  /\ TurnBoundary
  /\ link.pc = "check_rx"
  /\ link' = IF rx_read[Dst] = Succ(rx_write[Dst])
               THEN [link EXCEPT !.pc = "check_tx", !.dir = 3 - @]
               ELSE [link EXCEPT !.pc = "byte"]
  /\ UNCHANGED <<bankVars, hartVars, ctrlVars>>

LinkReadByte ==
  /\ TurnBoundary
  /\ link.pc = "byte"
  /\ link' = [link EXCEPT !.pc = "advance", !.byte = txBuf[Src][tx_read[Src]]]
  /\ UNCHANGED <<bankVars, hartVars, ctrlVars>>

LinkAdvance ==
  /\ TurnBoundary
  /\ link.pc = "advance"
  /\ tx_read' = [tx_read EXCEPT ![Src] = Succ(@)]
  /\ link' = [link EXCEPT !.pc = "put"]
  /\ UNCHANGED <<rxBuf, rx_read, rx_write, txBuf, tx_write, hartVars, ctrlVars>>

LinkWriteByte ==
  /\ TurnBoundary
  /\ link.pc = "put"
  /\ rxBuf' = [rxBuf EXCEPT ![Dst][rx_write[Dst]] = link.byte]
  /\ link' = [link EXCEPT !.pc = "commit"]
  /\ UNCHANGED <<rx_read, rx_write, txBuf, tx_read, tx_write, hartVars, ctrlVars>>

LinkCommit ==
  /\ TurnBoundary
  /\ link.pc = "commit"
  /\ rx_write' = [rx_write EXCEPT ![Dst] = Succ(@)]
  /\ link' = [pc |-> "check_tx", dir |-> 3 - link.dir, byte |-> 0]
  /\ UNCHANGED <<rxBuf, rx_read, txBuf, tx_read, tx_write, hartVars, ctrlVars>>

LinkStep ==
  LinkCheckTx \/ LinkCheckRx \/ LinkReadByte \/ LinkAdvance \/ LinkWriteByte \/ LinkCommit

(* UartAccess.write and UartAccess.read on a port that has no uart_link.   *)
SerialPorts == Ports \ {bank1, bank2}

SerialWrite(p, b) ==
  /\ TurnBoundary
  /\ Succ(rx_write[p]) # rx_read[p]
  /\ rxBuf' = [rxBuf EXCEPT ![p][rx_write[p]] = b]
  /\ rx_write' = [rx_write EXCEPT ![p] = Succ(@)]
  /\ UNCHANGED <<rx_read, txBuf, tx_read, tx_write, hartVars, ctrlVars, link>>

SerialRead(p) ==
  /\ TurnBoundary
  /\ tx_read[p] # tx_write[p]
  /\ tx_read' = [tx_read EXCEPT ![p] = Succ(@)]
  /\ UNCHANGED <<rxBuf, rx_read, rx_write, txBuf, tx_write, hartVars, ctrlVars, link>>

PeerStep ==
  LinkStep \/ \E p \in SerialPorts : SerialRead(p) \/ \E b \in Data : SerialWrite(p, b)

-----------------------------------------------------------------------------
Init ==
  /\ rxBuf = [p \in Ports |-> [i \in Idx |-> 0]]
  /\ txBuf = [p \in Ports |-> [i \in Idx |-> 0]]
  /\ rx_read = [p \in Ports |-> 0] /\ rx_write = [p \in Ports |-> 0]
  /\ tx_read = [p \in Ports |-> 0] /\ tx_write = [p \in Ports |-> 0]
  /\ uart_flags = [ip |-> Ports, ie |-> {}]
  /\ csr_mip = [poll |-> TRUE, meip |-> FALSE]
  /\ rx_ptrs = [p \in Ports |-> NoPtr] /\ tx_ptrs = [p \in Ports |-> 0]
  /\ acc = NoAccess
  /\ txRoom = {}
  /\ link = [pc |-> "check_tx", dir |-> 1, byte |-> 0]

Access ==
  \E p \in Ports, val \in Data, ctl \in Controls \union {NoControl} : \E a \in Accesses[p] :
    /\ a[1] = "load" \/ a[2] # "TX" => val = 0
    /\ a[1] = "load" \/ a[2] # "CONTROL" => ctl = NoControl
    /\ AccessUart(p, a[1], a[2], val, ctl)

Next == Access \/ HartStep \/ ControllerTick \/ ControllerReset \/ PeerStep

Spec == Init /\ [][Next]_vars
===============================================================================
