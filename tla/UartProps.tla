------------------------------ MODULE UartProps ------------------------------
(***************************************************************************)
(* What the UART model is checked for.                                     *)
(***************************************************************************)
EXTENDS Uart, Sequences

Pcs == {"main", "rx_ptrs", "tx_ptrs", "load", "rx_advance", "clear_ip", "store",
        "tx_advance", "reset_rx", "reset_tx"}

ControlWords == [ie : BOOLEAN, rst_rx : BOOLEAN, rst_tx : BOOLEAN]

AccType ==
  [pc : Pcs, kind : Kinds, reg : Regs, port : Ports, val : Data, ctl : ControlWords,
   storing : BOOLEAN, rx_read : Idx, rx_write : Idx, tx_read : Idx, tx_write : Idx,
   byte : Data]

LinkType ==
  [pc : {"check_tx", "check_rx", "byte", "advance", "put", "commit"},
   dir : {1, 2}, byte : Data]

(* The pointers stay inside the buffers (the banks' cells 254, 255, 510    *)
(* and 511 are never used as data), and every processor's locals are       *)
(* pointers, bytes and words of the right kind.                            *)
TypeOK ==
  /\ rxBuf \in [Ports -> [Idx -> Data]] /\ txBuf \in [Ports -> [Idx -> Data]]
  /\ rx_read \in [Ports -> Idx] /\ rx_write \in [Ports -> Idx]
  /\ tx_read \in [Ports -> Idx] /\ tx_write \in [Ports -> Idx]
  /\ uart_flags \in [ip : SUBSET Ports, ie : SUBSET Ports]
  /\ csr_mip \in [poll : BOOLEAN, meip : BOOLEAN]
  /\ rx_ptrs \in [Ports -> Idx \union {NoPtr}]
  /\ tx_ptrs \in [Ports -> Idx \union {NoPtr}]
  /\ acc \in AccType
  /\ txRoom \subseteq Ports
  /\ link \in LinkType

(* The byte handed over is the byte removed: between reading the oldest    *)
(* slot and advancing the read pointer (load_mmio_word and uart_link both  *)
(* do these in separate steps) no other processor may replace that slot or *)
(* move that pointer.                                                      *)
ByteIsHead ==
  /\ acc.pc = "rx_advance" =>
       /\ rx_read[acc.port] # rx_write[acc.port]
       /\ acc.byte = rxBuf[acc.port][rx_read[acc.port]]
  /\ link.pc = "advance" =>
       /\ tx_read[Src] # tx_write[Src]
       /\ link.byte = txBuf[Src][tx_read[Src]]

(* A buffer step as its two ends may see it: either the producer publishes *)
(* one slot and the buffer was not full, or the consumer moves the read    *)
(* pointer forward over live slots; a live slot that is not consumed keeps *)
(* its byte.                                                               *)
FifoStep(buf, r, w, buf2, r2, w2) ==
  /\ \/ w2 = w /\ Between(r2, r, w)
     \/ r2 = r /\ w2 = Succ(w) /\ Succ(w) # r
  /\ \A i \in Idx : Live(i, r, w) => buf2[i] = buf[i]

(* No step of any processor, however the turns interleave, overwrites      *)
(* unread data or moves a pointer past the other one: the processor's      *)
(* check is made on pointers read earlier and acted upon later.            *)
FifoSafe ==
  [][\A p \in Ports :
       /\ FifoStep(rxBuf[p], rx_read[p], rx_write[p], rxBuf'[p], rx_read'[p], rx_write'[p])
       /\ FifoStep(txBuf[p], tx_read[p], tx_write[p], txBuf'[p], tx_read'[p], tx_write'[p])]_vars

(* Writing Control with the TX reset bit leaves the TX FIFO empty: the     *)
(* hart is its only producer, so nothing may be left, let alone come back  *)
(* from slots the other end has already consumed.                          *)
TxResetEmpties ==
  [][(ResetTx /\ acc.ctl.rst_tx) => tx_read'[acc.port] = tx_write'[acc.port]]_vars

(* mip.MEIP as the hart sees it at an instruction boundary never outlives  *)
(* the interrupt: reading Status clears ip and forces a poll, so software  *)
(* that read the last pending port's Status is not interrupted again.      *)
NoSpuriousMeip ==
  (acc.pc = "main" /\ ~csr_mip.poll /\ csr_mip.meip) => uart_flags.ip # {}

(* What a buffer holds, oldest item first.                                 *)
Contents(buf, r, w) ==
  [k \in 1..((w + Capacity + 1 - r) % (Capacity + 1)) |->
     buf[(r + k - 1) % (Capacity + 1)]]

RxQueue(p) == Contents(rxBuf[p], rx_read[p], rx_write[p])
TxQueue(p) == Contents(txBuf[p], tx_read[p], tx_write[p])

Channels == {"rx", "tx"} \X Ports
Queue == [c \in Channels |-> IF c[1] = "rx" THEN RxQueue(c[2]) ELSE TxQueue(c[2])]

Buffers ==
  INSTANCE BoundedFifo WITH
    Channels <- Channels, Items <- Data, Size <- Capacity, queue <- Queue

(* Each buffer of each port implements the abstract bounded queue: nothing *)
(* is lost, duplicated, reordered or overwritten between the two ends.     *)
PortsAreFifos == Buffers!Spec

(* The byte uart_link has taken from port s and not yet handed over.       *)
Carried(s) == IF link.pc \in {"put", "commit"} /\ Src = s THEN <<link.byte>> ELSE << >>

(* Everything sent on port s and not yet read on port d.                   *)
InFlight(s, d) == RxQueue(d) \o Carried(s) \o TxQueue(s)

Cables == {<<bank1, bank2>>, <<bank2, bank1>>}
CableQueue == [c \in Cables |-> InFlight(c[1], c[2])]

Wires ==
  INSTANCE BoundedFifo WITH
    Channels <- Cables, Items <- Data, Size <- 2 * Capacity + 1, queue <- CableQueue

(* Two ports joined by uart_link form one queue from either port's TX      *)
(* register to the other one's RX register: nothing is lost, duplicated or *)
(* reordered on the way, whatever the interleaving of the link's steps     *)
(* with the two ends.                                                      *)
LinkIsFifo == Wires!Spec
===============================================================================
