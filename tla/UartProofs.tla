------------------------------ MODULE UartProofs ------------------------------
(***************************************************************************)
(* Proofs about the UART for every number of ports, every FIFO capacity    *)
(* the README allows, every data type and every interleaving.              *)
(***************************************************************************)
EXTENDS UartProps, UartDriver, SequenceTheorems, TLAPS

-----------------------------------------------------------------------------
(* Circular pointers                                                       *)

(* The code's (i + 1) % UART_FIFO_MODULO, without the modulo.              *)
LEMMA SuccDef ==
  ASSUME NEW i \in Idx
  PROVE  Succ(i) = IF i = Capacity THEN 0 ELSE i + 1
BY CapacityAssumption DEF Idx, Succ

(* Advancing a pointer keeps it inside the buffer.                         *)
LEMMA SuccType == ASSUME NEW i \in Idx PROVE Succ(i) \in Idx
BY SuccDef, CapacityAssumption DEF Idx

(* Two different pointers stay different when both advance.                *)
LEMMA SuccInjective ==
  ASSUME NEW i \in Idx, NEW j \in Idx, Succ(i) = Succ(j) PROVE i = j
BY SuccDef, CapacityAssumption DEF Idx

(* A read pointer lies on the way to the write pointer.                    *)
LEMMA BetweenStart ==
  ASSUME NEW r \in Idx, NEW w \in Idx PROVE Between(r, r, w)
BY CapacityAssumption DEF Idx, Between, Live

(* Consuming one slot of a non-empty buffer stays on the way.              *)
LEMMA BetweenAdvance ==
  ASSUME NEW i \in Idx, NEW r \in Idx, NEW w \in Idx, Between(i, r, w), i # w
  PROVE  Between(Succ(i), r, w)
BY SuccDef, CapacityAssumption DEF Idx, Between, Live

(* Publishing a slot of a buffer that is not full extends the way.         *)
LEMMA BetweenExtend ==
  ASSUME NEW i \in Idx, NEW r \in Idx, NEW w \in Idx, Between(i, r, w), Succ(w) # r
  PROVE  Between(i, r, Succ(w))
BY SuccDef, CapacityAssumption DEF Idx, Between, Live

(* A buffer that was not full is not full after its reader moved forward.  *)
LEMMA BetweenNotFull ==
  ASSUME NEW i \in Idx, NEW r \in Idx, NEW w \in Idx, Between(i, r, w), Succ(w) # r
  PROVE  Succ(w) # i
BY SuccDef, CapacityAssumption DEF Idx, Between, Live

(* The slot the producer fills is not live, the oldest one is.             *)
LEMMA LiveEnds ==
  ASSUME NEW r \in Idx, NEW w \in Idx
  PROVE  ~Live(w, r, w) /\ (r # w => Live(r, r, w))
BY CapacityAssumption DEF Idx, Live

-----------------------------------------------------------------------------
(* Type correctness                                                        *)

(* The idle access and the initial state are well typed.                   *)
LEMMA NoAccessType == NoAccess \in AccType
BY PortsAssumption, CapacityAssumption, DataAssumption
   DEF NoAccess, AccType, Pcs, Kinds, Regs, ControlWords, NoControl, Idx

(* The initial state is well typed.                                        *)
LEMMA InitType == Init => TypeOK
BY NoAccessType, PortsAssumption, CapacityAssumption, DataAssumption
   DEF Init, TypeOK, Idx, NoPtr, LinkType

(* Ending a load leaves a well-typed access.                               *)
LEMMA EndLoadType == ASSUME NEW a \in AccType PROVE EndLoad(a) \in AccType
BY NoAccessType DEF EndLoad, AccType, Pcs

(* update_uart_flags keeps the flags and the remembered pointers typed.    *)
LEMMA UpdateType ==
  ASSUME TypeOK, NEW flags \in [ip : SUBSET Ports, ie : SUBSET Ports],
         NEW rptrs, NEW tptrs, UpdateUartFlags(flags, rptrs, tptrs)
  PROVE  /\ uart_flags' \in [ip : SUBSET Ports, ie : SUBSET Ports]
         /\ rx_ptrs' \in [Ports -> Idx \union {NoPtr}]
         /\ tx_ptrs' \in [Ports -> Idx \union {NoPtr}]
BY DEF UpdateUartFlags, TypeOK

(* The ports at the two ends of the link, in either direction.             *)
LEMMA LinkEnds ==
  ASSUME TypeOK, bank1 \in Ports
  PROVE  Src \in Ports /\ Dst \in Ports /\ Src # Dst
BY LinkAssumption DEF TypeOK, LinkType, Src, Dst

(* The steps of the hart, of the controller and of the peers keep TypeOK.  *)
LEMMA HartType == ASSUME TypeOK, Access \/ HartStep PROVE TypeOK'
<1> USE DEF TypeOK
<1>a. acc.port \in Ports /\ acc.rx_read \in Idx /\ acc.rx_write \in Idx
      /\ acc.tx_read \in Idx /\ acc.tx_write \in Idx /\ acc.val \in Data
  BY DEF AccType
<1>1. CASE Access
  <2>1. PICK p \in Ports, val \in Data, ctl \in Controls \union {NoControl} :
          \E a \in Accesses[p] : AccessUart(p, a[1], a[2], val, ctl)
    BY <1>1 DEF Access
  <2>2. PICK a \in Accesses[p] : AccessUart(p, a[1], a[2], val, ctl)
    BY <2>1
  <2>3. a[1] \in Kinds /\ a[2] \in Regs
    BY AccessesAssumption DEF Kinds, Regs
  <2>4. ctl \in ControlWords
    <3>1. NoControl \in ControlWords
      BY DEF ControlWords, NoControl
    <3> QED BY <3>1, ControlsAssumption DEF ControlWords
  <2>5. acc' \in AccType
    BY <2>2, <2>3, <2>4, NoAccessType DEF AccessUart, AccType, Pcs
  <2> QED BY <2>2, <2>5 DEF AccessUart, bankVars, ctrlVars
<1>2. CASE ReadRxPtrs
  <2>1. acc' \in AccType BY <1>2, <1>a DEF ReadRxPtrs, AccType, Pcs
  <2> QED BY <1>2, <2>1 DEF ReadRxPtrs, bankVars, ctrlVars
<1>3. CASE ReadTxPtrs
  <2>1. acc' \in AccType BY <1>3, <1>a DEF ReadTxPtrs, AccType, Pcs
  <2> QED BY <1>3, <2>1 DEF ReadTxPtrs, bankVars, ctrlVars
<1>4. CASE LoadZero
  BY <1>4, EndLoadType DEF LoadZero, bankVars, ctrlVars
<1>5. CASE LoadRxData
  <2>0. rxBuf[acc.port][acc.rx_read] \in Data BY <1>a
  <2>1. acc' \in AccType BY <1>5, <2>0 DEF LoadRxData, AccType, Pcs
  <2> QED BY <1>5, <2>1 DEF LoadRxData, bankVars, ctrlVars
<1>6. CASE LoadRxAdvance
  BY <1>6, <1>a, EndLoadType, SuccType DEF LoadRxAdvance, ctrlVars
<1>7. CASE LoadStatus
  <2>1. [acc EXCEPT !.pc = "clear_ip"] \in AccType BY DEF AccType, Pcs
  <2> QED BY <1>7, <1>a, <2>1, EndLoadType DEF LoadStatus, bankVars, ctrlVars
<1>8. CASE ClearInterrupt
  BY <1>8, EndLoadType DEF ClearInterrupt, bankVars, ctrlVars
<1>9. CASE StoreIgnored
  BY <1>9, NoAccessType DEF StoreIgnored, bankVars, ctrlVars
<1>10. CASE StoreTxData
  <2>1. acc' \in AccType BY <1>10 DEF StoreTxData, AccType, Pcs
  <2> QED BY <1>10, <1>a, <2>1 DEF StoreTxData, ctrlVars
<1>11. CASE StoreTxAdvance
  BY <1>11, <1>a, NoAccessType, SuccType DEF StoreTxAdvance, ctrlVars
<1>12. CASE StoreControl
  <2>1. acc' \in AccType BY <1>12 DEF StoreControl, AccType, Pcs
  <2> QED BY <1>12, <1>a, <2>1 DEF StoreControl, bankVars, ctrlVars
<1>13. CASE ResetRx
  <2>1. acc' \in AccType BY <1>13 DEF ResetRx, AccType, Pcs
  <2> QED BY <1>13, <1>a, <2>1 DEF ResetRx, ctrlVars
<1>14. CASE ResetTx
  BY <1>14, <1>a, NoAccessType DEF ResetTx, ctrlVars
<1>15. CASE PollInterrupts
  BY <1>15 DEF PollInterrupts, bankVars, ctrlVars
<1> QED
  BY <1>1, <1>2, <1>3, <1>4, <1>5, <1>6, <1>7, <1>8, <1>9, <1>10, <1>11, <1>12,
     <1>13, <1>14, <1>15 DEF HartStep

(* The controller's poll and reset keep the types.                         *)
LEMMA ControllerType ==
  ASSUME TypeOK, ControllerTick \/ ControllerReset PROVE TypeOK'
<1>1. CASE ControllerTick
  <2>1. UpdateUartFlags(uart_flags, rx_ptrs, tx_ptrs)
    BY <1>1 DEF ControllerTick
  <2>2. csr_mip' \in [poll : BOOLEAN, meip : BOOLEAN]
    BY <1>1 DEF ControllerTick, TypeOK
  <2>3. uart_flags \in [ip : SUBSET Ports, ie : SUBSET Ports]
    BY DEF TypeOK
  <2> QED BY <1>1, <2>1, <2>2, <2>3, UpdateType DEF ControllerTick, TypeOK, bankVars
<1>2. CASE ControllerReset
  <2>1. UpdateUartFlags([ip |-> {}, ie |-> {}],
                        [p \in Ports |-> NoPtr], [p \in Ports |-> NoPtr])
    BY <1>2 DEF ControllerReset
  <2>2. [ip |-> {}, ie |-> {}] \in [ip : SUBSET Ports, ie : SUBSET Ports]
    OBVIOUS
  <2>3. csr_mip' \in [poll : BOOLEAN, meip : BOOLEAN]
    BY <1>2 DEF ControllerReset
  <2> QED BY <1>2, <2>1, <2>2, <2>3, UpdateType, NoAccessType
          DEF ControllerReset, TypeOK, bankVars
<1> QED BY <1>1, <1>2

(* Past its first check the link has two banks to work on.                 *)
LinkActive == link.pc # "check_tx" => bank1 \in Ports

(* So do the steps of uart_link and of the serial endpoint.                *)
LEMMA PeerType == ASSUME TypeOK, LinkActive, PeerStep PROVE TypeOK' /\ LinkActive'
<1> USE DEF TypeOK, LinkActive
<1>0. 3 - link.dir \in {1, 2} BY DEF LinkType
<1>1. CASE LinkCheckTx
  <2>1. link' \in LinkType BY <1>0, <1>1 DEF LinkCheckTx, LinkType
  <2> QED BY <1>1, <2>1 DEF LinkCheckTx, bankVars, hartVars, ctrlVars
<1>2. CASE LinkCheckRx
  <2>1. link' \in LinkType BY <1>0, <1>2 DEF LinkCheckRx, LinkType
  <2> QED BY <1>2, <2>1 DEF LinkCheckRx, LinkType, bankVars, hartVars, ctrlVars
<1>3. CASE LinkReadByte
  <2>0. bank1 \in Ports BY <1>3 DEF LinkReadByte
  <2>1. txBuf[Src][tx_read[Src]] \in Data BY <2>0, LinkEnds
  <2>2. link' \in LinkType BY <1>3, <2>1 DEF LinkReadByte, LinkType
  <2> QED BY <1>3, <2>0, <2>2 DEF LinkReadByte, bankVars, hartVars, ctrlVars
<1>4. CASE LinkAdvance
  <2>0. bank1 \in Ports BY <1>4 DEF LinkAdvance
  <2>1. link' \in LinkType BY <1>4 DEF LinkAdvance, LinkType
  <2> QED BY <1>4, <2>0, <2>1, LinkEnds, SuccType DEF LinkAdvance, hartVars, ctrlVars
<1>5. CASE LinkWriteByte
  <2>0. bank1 \in Ports BY <1>5 DEF LinkWriteByte
  <2>1. link' \in LinkType BY <1>5 DEF LinkWriteByte, LinkType
  <2>2. link.byte \in Data BY DEF LinkType
  <2> QED BY <1>5, <2>0, <2>1, <2>2, LinkEnds DEF LinkWriteByte, hartVars, ctrlVars
<1>6. CASE LinkCommit
  <2>0. bank1 \in Ports BY <1>6 DEF LinkCommit
  <2>1. link' \in LinkType BY <1>0, <1>6, DataAssumption DEF LinkCommit, LinkType
  <2> QED BY <1>6, <2>0, <2>1, LinkEnds, SuccType DEF LinkCommit, hartVars, ctrlVars
<1>7. ASSUME NEW p \in SerialPorts, SerialRead(p) PROVE TypeOK' /\ LinkActive'
  BY <1>7, SuccType DEF SerialRead, SerialPorts, hartVars, ctrlVars
<1>8. ASSUME NEW p \in SerialPorts, NEW b \in Data, SerialWrite(p, b)
      PROVE  TypeOK' /\ LinkActive'
  BY <1>8, SuccType DEF SerialWrite, SerialPorts, hartVars, ctrlVars
<1> QED BY <1>1, <1>2, <1>3, <1>4, <1>5, <1>6, <1>7, <1>8 DEF PeerStep, LinkStep

(* The pointers never leave the buffers, whatever the interleaving.        *)
THEOREM TypeCorrect == Spec => []TypeOK
<1>1. Init => TypeOK /\ LinkActive
  BY InitType DEF Init, LinkActive
<1>2. TypeOK /\ LinkActive /\ [Next]_vars => TypeOK' /\ LinkActive'
  <2> SUFFICES ASSUME TypeOK, LinkActive, [Next]_vars PROVE TypeOK' /\ LinkActive'
    OBVIOUS
  <2>1. CASE Access \/ HartStep
    <3>1. link' = link
      BY <2>1 DEF Access, AccessUart, HartStep, ReadRxPtrs, ReadTxPtrs, LoadZero,
         LoadRxData, LoadRxAdvance, LoadStatus, ClearInterrupt, StoreIgnored,
         StoreTxData, StoreTxAdvance, StoreControl, ResetRx, ResetTx, PollInterrupts
    <3> QED BY <2>1, <3>1, HartType DEF LinkActive
  <2>2. CASE ControllerTick \/ ControllerReset
    BY <2>2, ControllerType DEF LinkActive, ControllerTick, ControllerReset
  <2>3. CASE PeerStep
    BY <2>3, PeerType
  <2>4. CASE UNCHANGED vars
    BY <2>4 DEF TypeOK, LinkActive, vars, bankVars, hartVars, ctrlVars
  <2> QED BY <2>1, <2>2, <2>3, <2>4 DEF Next
<1> QED BY <1>1, <1>2, PTL DEF Spec

-----------------------------------------------------------------------------
(* The FIFO discipline.  The processors decide on pointers they read       *)
(* earlier; the invariant says how far a local may lag behind its pointer. *)

NoTxResets == \A c \in Controls : ~c.rst_tx

RxHeld == {"tx_ptrs", "load", "rx_advance", "clear_ip", "store", "tx_advance", "reset_rx"}
TxHeld == {"load", "rx_advance", "clear_ip", "store", "tx_advance", "reset_rx", "reset_tx"}

(* The hart owns rx_read and tx_write; its copy of rx_write lags behind    *)
(* the pointer, and the pointer tx_read is ahead of its copy.              *)
HartInv ==
  /\ acc.pc \in RxHeld =>
       /\ acc.rx_read = rx_read[acc.port]
       /\ Between(acc.rx_write, rx_read[acc.port], rx_write[acc.port])
  /\ acc.pc \in TxHeld =>
       /\ acc.tx_write = tx_write[acc.port]
       /\ Between(tx_read[acc.port], acc.tx_read, tx_write[acc.port])
  /\ acc.pc = "rx_advance" =>
       /\ acc.rx_read # acc.rx_write
       /\ acc.byte = rxBuf[acc.port][acc.rx_read]
  /\ acc.storing => acc.kind # "load"
  /\ acc.pc = "store" => acc.storing
  /\ acc.pc = "tx_advance" => acc.reg = "TX" /\ acc.kind # "load"
  /\ (acc.pc # "main" /\ acc.reg = "TX" /\ acc.kind # "load") => acc.port \in txRoom
  /\ ~acc.ctl.rst_tx

(* What software knows from a Status word stays true: only it fills TX.    *)
RoomInv == \A p \in txRoom : Succ(tx_write[p]) # tx_read[p]

(* What the link checked stays true until it acts on it.                   *)
LinkInv ==
  /\ LinkActive
  /\ link.pc \in {"check_rx", "byte", "advance"} => tx_read[Src] # tx_write[Src]
  /\ link.pc = "advance" => link.byte = txBuf[Src][tx_read[Src]]
  /\ link.pc \in {"byte", "advance", "put", "commit"} =>
       Succ(rx_write[Dst]) # rx_read[Dst]
  /\ link.pc = "commit" => link.byte = rxBuf[Dst][rx_write[Dst]]

FifoInv == TypeOK /\ HartInv /\ RoomInv /\ LinkInv

BufferStep ==
  \A p \in Ports :
    /\ FifoStep(rxBuf[p], rx_read[p], rx_write[p], rxBuf'[p], rx_read'[p], rx_write'[p])
    /\ FifoStep(txBuf[p], tx_read[p], tx_write[p], txBuf'[p], tx_read'[p], tx_write'[p])

(* A step that leaves the banks alone is a (stuttering) buffer step.       *)
LEMMA IdleStep == ASSUME TypeOK, UNCHANGED bankVars PROVE BufferStep
<1> SUFFICES ASSUME NEW p \in Ports
             PROVE  /\ Between(rx_read[p], rx_read[p], rx_write[p])
                    /\ Between(tx_read[p], tx_read[p], tx_write[p])
  BY DEF BufferStep, FifoStep, bankVars
<1> QED BY BetweenStart DEF TypeOK

(* A step that leaves the banks, the link and software's knowledge alone.  *)
LEMMA QuietStep ==
  ASSUME FifoInv, UNCHANGED <<bankVars, txRoom, link>>
  PROVE  RoomInv' /\ LinkInv' /\ BufferStep
BY IdleStep DEF FifoInv, RoomInv, LinkInv, LinkActive, Src, Dst, bankVars

(* The hart's steps respect the FIFO discipline.                           *)
LEMMA HartFifo ==
  ASSUME NoTxResets, FifoInv, Access \/ HartStep
  PROVE  HartInv' /\ RoomInv' /\ LinkInv' /\ BufferStep
<1> USE DEF FifoInv
<1>a. acc.port \in Ports /\ acc.rx_read \in Idx /\ acc.rx_write \in Idx
      /\ acc.tx_read \in Idx /\ acc.tx_write \in Idx
  BY DEF TypeOK, AccType
<1>b. /\ rx_read[acc.port] \in Idx /\ rx_write[acc.port] \in Idx
      /\ tx_read[acc.port] \in Idx /\ tx_write[acc.port] \in Idx
  BY <1>a DEF TypeOK
<1>c. ASSUME acc' = NoAccess PROVE HartInv'
  BY <1>c DEF HartInv, NoAccess, NoControl, RxHeld, TxHeld
<1>d. ASSUME acc' = EndLoad(acc), acc.kind = "rmw" => txRoom' = txRoom, acc.pc # "main"
      PROVE  HartInv'
  <2>1. CASE acc.kind = "rmw"
    <3>1. /\ acc'.pc = "rx_ptrs" /\ acc'.storing /\ acc'.kind = "rmw"
          /\ acc'.ctl = acc.ctl /\ acc'.reg = acc.reg /\ acc'.port = acc.port
      BY <1>d, <2>1 DEF EndLoad, TypeOK, AccType
    <3> QED BY <1>d, <2>1, <3>1 DEF HartInv, RxHeld, TxHeld
  <2>2. CASE acc.kind # "rmw"
    BY <1>c, <1>d, <2>2 DEF EndLoad
  <2> QED BY <2>1, <2>2
<1>1. CASE Access
  <2>1. PICK p \in Ports, val \in Data, ctl \in Controls \union {NoControl} :
          \E a \in Accesses[p] : AccessUart(p, a[1], a[2], val, ctl)
    BY <1>1 DEF Access
  <2>2. PICK a \in Accesses[p] : AccessUart(p, a[1], a[2], val, ctl)
    BY <2>1
  <2>3. ~ctl.rst_tx
    BY DEF NoTxResets, NoControl
  <2>4. HartInv'
    BY <2>2, <2>3 DEF HartInv, AccessUart, NoAccess, RxHeld, TxHeld
  <2> QED BY <2>2, <2>4, QuietStep DEF AccessUart
<1>2. CASE ReadRxPtrs
  <2>1. HartInv'
    BY <1>2, <1>b, BetweenStart DEF HartInv, ReadRxPtrs, RxHeld, TxHeld, TypeOK, AccType, Between, bankVars
  <2> QED BY <1>2, <2>1, QuietStep DEF ReadRxPtrs
<1>3. CASE ReadTxPtrs
  <2>1. HartInv'
    BY <1>3, <1>b, BetweenStart DEF HartInv, ReadTxPtrs, RxHeld, TxHeld, TypeOK, AccType, bankVars
  <2> QED BY <1>3, <2>1, QuietStep DEF ReadTxPtrs
<1>5. CASE LoadRxData
  <2>1. HartInv'
    BY <1>5, <1>a DEF HartInv, LoadRxData, RxHeld, TxHeld, TypeOK, AccType, bankVars
  <2> QED BY <1>5, <2>1, QuietStep DEF LoadRxData
<1>4. CASE LoadZero
  <2>1. HartInv' BY <1>4, <1>d DEF LoadZero
  <2> QED BY <1>4, <2>1, QuietStep DEF LoadZero
<1>6. CASE LoadRxAdvance
  <2>0. /\ acc.rx_read = rx_read[acc.port]
        /\ rx_read[acc.port] # rx_write[acc.port]
        /\ Between(Succ(rx_read[acc.port]), rx_read[acc.port], rx_write[acc.port])
    <3>1. rx_read[acc.port] # rx_write[acc.port]
      BY <1>6, <1>a, <1>b DEF LoadRxAdvance, HartInv, RxHeld, Between, Live, Idx
    <3>2. acc.rx_read = rx_read[acc.port]
      BY <1>6 DEF LoadRxAdvance, HartInv, RxHeld
    <3> QED BY <3>1, <3>2, <1>b, BetweenStart, BetweenAdvance
  <2>1. HartInv' BY <1>6, <1>d DEF LoadRxAdvance
  <2>2. RoomInv' BY <1>6 DEF LoadRxAdvance, RoomInv
  <2>3. LinkInv'
    <3>1. link.pc \in {"byte", "advance", "put", "commit"} =>
            Succ(rx_write[Dst]) # rx_read'[Dst]
      BY <1>6, <1>a, <2>0, SuccInjective, LinkEnds
         DEF LoadRxAdvance, LinkInv, LinkActive, TypeOK
    <3> QED BY <1>6, <3>1 DEF LoadRxAdvance, LinkInv, LinkActive, Src, Dst
  <2>4. BufferStep
    BY <1>6, <1>a, <2>0, BetweenStart DEF LoadRxAdvance, BufferStep, FifoStep, TypeOK
  <2> QED BY <2>1, <2>2, <2>3, <2>4
<1>7. CASE LoadStatus
  <2>1. HartInv'
    <3>1. CASE acc' = EndLoad(acc)
      BY <1>7, <1>d, <3>1 DEF LoadStatus
    <3>2. CASE acc' = [acc EXCEPT !.pc = "clear_ip"]
      BY <1>7, <3>2 DEF LoadStatus, HartInv, RxHeld, TxHeld, TypeOK, AccType, bankVars
    <3> QED BY <1>7, <3>1, <3>2 DEF LoadStatus
  <2>2. RoomInv'
    <3>1. ~StatusWord(acc).tx_full => Succ(tx_write[acc.port]) # tx_read[acc.port]
      <4>1. acc.tx_write = tx_write[acc.port]
            /\ Between(tx_read[acc.port], acc.tx_read, tx_write[acc.port])
        BY <1>7 DEF LoadStatus, HartInv, TxHeld
      <4> QED BY <4>1, <1>a, <1>b, BetweenNotFull DEF StatusWord
    <3> QED BY <1>7, <3>1 DEF LoadStatus, RoomInv, bankVars
  <2>3. LinkInv' BY <1>7 DEF LoadStatus, LinkInv, LinkActive, Src, Dst, bankVars
  <2>4. BufferStep BY <1>7, IdleStep DEF LoadStatus
  <2> QED BY <2>1, <2>2, <2>3, <2>4
<1>8. CASE ClearInterrupt
  <2>1. HartInv' BY <1>8, <1>d DEF ClearInterrupt
  <2> QED BY <1>8, <2>1, QuietStep DEF ClearInterrupt
<1>9. CASE StoreIgnored
  BY <1>9, <1>c, QuietStep DEF StoreIgnored
<1>10. CASE StoreTxData
  <2>0. /\ acc.tx_write = tx_write[acc.port] /\ acc.port \in txRoom /\ acc.kind # "load"
        /\ Succ(tx_write[acc.port]) # tx_read[acc.port]
    BY <1>10 DEF StoreTxData, HartInv, TxHeld, RoomInv
  <2>1. HartInv'
    BY <1>10, <2>0 DEF StoreTxData, HartInv, RxHeld, TxHeld, TypeOK, AccType
  <2>2. RoomInv' BY <1>10 DEF StoreTxData, RoomInv
  <2>3. LinkInv'
    <3>1. link.pc = "advance" => link.byte = txBuf'[Src][tx_read[Src]]
      BY <1>10, <1>a, <2>0, LinkEnds DEF StoreTxData, LinkInv, LinkActive, TypeOK
    <3> QED BY <1>10, <3>1 DEF StoreTxData, LinkInv, LinkActive, Src, Dst
  <2>4. BufferStep
    <3>1. \A i \in Idx : Live(i, tx_read[acc.port], tx_write[acc.port]) =>
            txBuf'[acc.port][i] = txBuf[acc.port][i]
      BY <1>10, <1>a, <1>b, <2>0, LiveEnds DEF StoreTxData, TypeOK
    <3>2. \A p \in Ports \ {acc.port} : txBuf'[p] = txBuf[p]
      BY <1>10 DEF StoreTxData, TypeOK
    <3> QED BY <1>10, <3>1, <3>2, BetweenStart
            DEF StoreTxData, BufferStep, FifoStep, TypeOK
  <2> QED BY <2>1, <2>2, <2>3, <2>4
<1>11. CASE StoreTxAdvance
  <2>0. /\ acc.tx_write = tx_write[acc.port]
        /\ Succ(tx_write[acc.port]) # tx_read[acc.port]
    BY <1>11 DEF StoreTxAdvance, HartInv, TxHeld, RoomInv
  <2>1. HartInv' BY <1>11, <1>c DEF StoreTxAdvance
  <2>2. RoomInv' BY <1>11, <1>a DEF StoreTxAdvance, RoomInv, TypeOK
  <2>3. LinkInv'
    <3>1. link.pc \in {"check_rx", "byte", "advance"} => tx_read[Src] # tx_write'[Src]
      BY <1>11, <1>a, <2>0, LinkEnds DEF StoreTxAdvance, LinkInv, LinkActive, TypeOK
    <3> QED BY <1>11, <3>1 DEF StoreTxAdvance, LinkInv, LinkActive, Src, Dst
  <2>4. BufferStep
    BY <1>11, <1>a, <2>0, BetweenStart DEF StoreTxAdvance, BufferStep, FifoStep, TypeOK
  <2> QED BY <2>1, <2>2, <2>3, <2>4
<1>12. CASE StoreControl
  <2>1. HartInv'
    BY <1>12 DEF StoreControl, HartInv, RxHeld, TxHeld, TypeOK, AccType, bankVars
  <2> QED BY <1>12, <2>1, QuietStep DEF StoreControl
<1>13. CASE ResetRx
  <2>0. Between(acc.rx_write, rx_read[acc.port], rx_write[acc.port])
    BY <1>13 DEF ResetRx, HartInv, RxHeld
  <2>1. HartInv'
    BY <1>13 DEF ResetRx, HartInv, RxHeld, TxHeld, TypeOK, AccType
  <2>2. RoomInv' BY <1>13 DEF ResetRx, RoomInv
  <2>3. LinkInv'
    <3>1. link.pc \in {"byte", "advance", "put", "commit"} =>
            Succ(rx_write[Dst]) # rx_read'[Dst]
      BY <1>13, <1>a, <1>b, <2>0, BetweenNotFull, LinkEnds
         DEF ResetRx, LinkInv, LinkActive, TypeOK
    <3> QED BY <1>13, <3>1 DEF ResetRx, LinkInv, LinkActive, Src, Dst
  <2>4. BufferStep
    BY <1>13, <1>a, <2>0, BetweenStart DEF ResetRx, BufferStep, FifoStep, TypeOK
  <2> QED BY <2>1, <2>2, <2>3, <2>4
<1>14. CASE ResetTx
  <2>1. tx_write' = tx_write BY <1>14 DEF ResetTx, HartInv
  <2> QED BY <1>14, <1>c, <2>1, QuietStep DEF ResetTx, bankVars
<1>15. CASE PollInterrupts
  <2>1. HartInv' BY <1>15 DEF PollInterrupts, HartInv, bankVars
  <2> QED BY <1>15, <2>1, QuietStep DEF PollInterrupts
<1> QED
  BY <1>1, <1>2, <1>3, <1>4, <1>5, <1>6, <1>7, <1>8, <1>9, <1>10, <1>11, <1>12,
     <1>13, <1>14, <1>15 DEF HartStep

(* The controller never touches the banks; a reset abandons the access.    *)
LEMMA ControllerFifo ==
  ASSUME FifoInv, ControllerTick \/ ControllerReset
  PROVE  HartInv' /\ RoomInv' /\ LinkInv' /\ BufferStep
<1> USE DEF FifoInv
<1>1. CASE ControllerTick
  <2>1. HartInv' BY <1>1 DEF ControllerTick, HartInv, bankVars
  <2> QED BY <1>1, <2>1, QuietStep DEF ControllerTick
<1>2. CASE ControllerReset
  <2>1. HartInv'
    BY <1>2 DEF ControllerReset, HartInv, NoAccess, NoControl, RxHeld, TxHeld
  <2>2. RoomInv' BY <1>2 DEF ControllerReset, RoomInv
  <2>3. LinkInv' BY <1>2 DEF ControllerReset, LinkInv, LinkActive, Src, Dst, bankVars
  <2>4. BufferStep BY <1>2, IdleStep DEF ControllerReset
  <2> QED BY <2>1, <2>2, <2>3, <2>4
<1> QED BY <1>1, <1>2

(* A byte consumed from port p's TX by its peer.                           *)
TxConsumed(p) ==
  /\ tx_read[p] # tx_write[p]
  /\ tx_read' = [tx_read EXCEPT ![p] = Succ(@)]
  /\ UNCHANGED <<rxBuf, rx_read, rx_write, txBuf, tx_write, hartVars>>

(* The other end taking a byte from the TX FIFO keeps the invariant.       *)
LEMMA ConsumeFifo ==
  ASSUME FifoInv, NEW p \in Ports, TxConsumed(p)
  PROVE  HartInv' /\ RoomInv' /\ BufferStep
<1> USE DEF FifoInv, TxConsumed
<1>a. acc.port \in Ports /\ acc.tx_read \in Idx BY DEF TypeOK, AccType
<1>b. tx_read[p] \in Idx /\ tx_write[p] \in Idx BY DEF TypeOK
<1>1. acc.pc \in TxHeld =>
        Between(tx_read'[acc.port], acc.tx_read, tx_write[acc.port])
  BY <1>a, <1>b, BetweenAdvance DEF HartInv, TypeOK
<1>2. HartInv' BY <1>1 DEF HartInv, hartVars
<1>3. RoomInv'
  <2>1. ASSUME NEW q \in txRoom PROVE Succ(tx_write[q]) # tx_read'[q]
    <3>1. CASE q = p BY <1>b, <3>1, SuccInjective DEF TypeOK
    <3>2. CASE q # p BY <2>1, <3>2 DEF TypeOK, RoomInv
    <3> QED BY <3>1, <3>2
  <2> QED BY <2>1 DEF RoomInv, hartVars
<1>4. Between(Succ(tx_read[p]), tx_read[p], tx_write[p])
  BY <1>b, BetweenStart, BetweenAdvance
<1>5. BufferStep
  BY <1>4, BetweenStart DEF BufferStep, FifoStep, TypeOK
<1> QED BY <1>2, <1>3, <1>5

(* A byte written to port p's first free RX slot, not yet published.       *)
LEMMA FillFifo ==
  ASSUME FifoInv, NEW p \in Ports, NEW b \in Data,
         rxBuf' = [rxBuf EXCEPT ![p][rx_write[p]] = b],
         UNCHANGED <<rx_read, txBuf, tx_read, tx_write, hartVars>>,
         \/ rx_write' = rx_write
         \/ /\ Succ(rx_write[p]) # rx_read[p]
            /\ rx_write' = [rx_write EXCEPT ![p] = Succ(@)]
  PROVE  HartInv' /\ RoomInv' /\ BufferStep
<1> USE DEF FifoInv
<1>a. acc.port \in Ports /\ acc.rx_read \in Idx /\ acc.rx_write \in Idx
  BY DEF TypeOK, AccType
<1>b. rx_read[p] \in Idx /\ rx_write[p] \in Idx BY DEF TypeOK
<1>1. \A i \in Idx : Live(i, rx_read[p], rx_write[p]) => rxBuf'[p][i] = rxBuf[p][i]
  BY <1>b, LiveEnds DEF TypeOK
<1>2. \A q \in Ports \ {p} : rxBuf'[q] = rxBuf[q]
  BY DEF TypeOK
<1>3. acc.pc \in RxHeld =>
        Between(acc.rx_write, rx_read[acc.port], rx_write'[acc.port])
  <2> SUFFICES ASSUME acc.pc \in RxHeld
               PROVE  Between(acc.rx_write, rx_read[acc.port], rx_write'[acc.port])
    OBVIOUS
  <2>1. Between(acc.rx_write, rx_read[acc.port], rx_write[acc.port]) BY DEF HartInv
  <2>2. CASE rx_write'[acc.port] = rx_write[acc.port] BY <2>1, <2>2
  <2>3. CASE rx_write'[acc.port] # rx_write[acc.port]
    <3>1. acc.port = p /\ rx_write'[p] = Succ(rx_write[p]) /\ Succ(rx_write[p]) # rx_read[p]
      BY <2>3, <1>a DEF TypeOK
    <3> QED BY <2>1, <3>1, <1>a, <1>b, BetweenExtend
  <2> QED BY <2>2, <2>3
<1>4. acc.pc = "rx_advance" => acc.byte = rxBuf'[acc.port][acc.rx_read]
  <2> SUFFICES ASSUME acc.pc = "rx_advance", acc.port = p
               PROVE  acc.byte = rxBuf'[p][acc.rx_read]
    BY <1>2, <1>a DEF HartInv
  <2>1. acc.rx_read = rx_read[p] /\ acc.rx_read # acc.rx_write
        /\ Between(acc.rx_write, rx_read[p], rx_write[p])
        /\ acc.byte = rxBuf[p][acc.rx_read]
    BY DEF HartInv, RxHeld
  <2>2. rx_read[p] # rx_write[p]
    BY <2>1, <1>a, <1>b DEF Between, Live, Idx
  <2> QED BY <2>1, <2>2, <1>1, <1>b, LiveEnds
<1>5. HartInv' BY <1>3, <1>4 DEF HartInv, hartVars
<1>6. RoomInv' BY DEF RoomInv, hartVars
<1>7. BufferStep
  <2> SUFFICES ASSUME NEW q \in Ports
               PROVE  FifoStep(rxBuf[q], rx_read[q], rx_write[q],
                               rxBuf'[q], rx_read'[q], rx_write'[q])
    BY BetweenStart DEF BufferStep, FifoStep, TypeOK
  <2>1. Between(rx_read'[q], rx_read[q], rx_write[q])
    BY BetweenStart DEF TypeOK
  <2>2. CASE q = p BY <2>1, <2>2, <1>1 DEF FifoStep, TypeOK
  <2>3. CASE q # p BY <2>1, <2>3, <1>2 DEF FifoStep, TypeOK
  <2> QED BY <2>2, <2>3
<1> QED BY <1>5, <1>6, <1>7

(* The peers' steps respect the FIFO discipline.                           *)
LEMMA PeerFifo ==
  ASSUME FifoInv, PeerStep
  PROVE  HartInv' /\ RoomInv' /\ LinkInv' /\ BufferStep
<1> USE DEF FifoInv
<1>a. link.pc # "check_tx" =>
        /\ bank1 \in Ports /\ Src \in Ports /\ Dst \in Ports /\ Src # Dst
        /\ tx_read[Src] \in Idx /\ tx_write[Src] \in Idx
        /\ rx_read[Dst] \in Idx /\ rx_write[Dst] \in Idx
  BY LinkEnds DEF LinkInv, LinkActive, TypeOK
<1>b. link.byte \in Data BY DEF TypeOK, LinkType
<1>c. ASSUME UNCHANGED <<bankVars, hartVars>> PROVE HartInv' /\ RoomInv' /\ BufferStep
  BY <1>c, IdleStep DEF HartInv, RoomInv, bankVars, hartVars
<1>1. CASE LinkCheckTx
  <2>1. LinkInv'
    BY <1>1 DEF LinkCheckTx, LinkInv, LinkActive, Src, Dst, bankVars, TypeOK, LinkType
  <2> QED BY <1>1, <1>c, <2>1 DEF LinkCheckTx
<1>2. CASE LinkCheckRx
  <2>1. LinkInv'
    BY <1>2, <1>a DEF LinkCheckRx, LinkInv, LinkActive, Src, Dst, bankVars, TypeOK, LinkType
  <2> QED BY <1>2, <1>c, <2>1 DEF LinkCheckRx
<1>3. CASE LinkReadByte
  <2>1. LinkInv'
    BY <1>3, <1>a DEF LinkReadByte, LinkInv, LinkActive, Src, Dst, bankVars, TypeOK, LinkType
  <2> QED BY <1>3, <1>c, <2>1 DEF LinkReadByte
<1>4. CASE LinkAdvance
  <2>1. TxConsumed(Src) BY <1>4 DEF LinkAdvance, TxConsumed, LinkInv
  <2>2. LinkInv'
    BY <1>4, <1>a DEF LinkAdvance, LinkInv, LinkActive, Src, Dst, TypeOK, LinkType
  <2> QED BY <1>4, <1>a, <2>1, <2>2, ConsumeFifo DEF LinkAdvance
<1>5. CASE LinkWriteByte
  <2>1. HartInv' /\ RoomInv' /\ BufferStep
    BY <1>5, <1>a, <1>b, FillFifo DEF LinkWriteByte
  <2>2. LinkInv'
    BY <1>5, <1>a DEF LinkWriteByte, LinkInv, LinkActive, Src, Dst, TypeOK, LinkType
  <2> QED BY <2>1, <2>2
<1>6. CASE LinkCommit
  <2>0. Succ(rx_write[Dst]) # rx_read[Dst] BY <1>6 DEF LinkCommit, LinkInv
  <2>1. LinkInv' BY <1>6, <1>a DEF LinkCommit, LinkInv, LinkActive
  <2>2. acc.port \in Ports /\ acc.rx_read \in Idx /\ acc.rx_write \in Idx
    BY DEF TypeOK, AccType
  <2>3. acc.pc \in RxHeld =>
          Between(acc.rx_write, rx_read[acc.port], rx_write'[acc.port])
    BY <1>6, <1>a, <2>0, <2>2, BetweenExtend DEF LinkCommit, HartInv, TypeOK
  <2>4. HartInv' BY <1>6, <2>3 DEF LinkCommit, HartInv, hartVars
  <2>5. RoomInv' BY <1>6 DEF LinkCommit, RoomInv, hartVars
  <2>6. BufferStep
    BY <1>6, <1>a, <2>0, BetweenStart DEF LinkCommit, BufferStep, FifoStep, TypeOK
  <2> QED BY <2>1, <2>4, <2>5, <2>6
<1>7. ASSUME NEW p \in SerialPorts, SerialRead(p)
      PROVE  HartInv' /\ RoomInv' /\ LinkInv' /\ BufferStep
  <2>0. p \in Ports /\ p # bank1 /\ p # bank2 BY DEF SerialPorts
  <2>1. TxConsumed(p) BY <1>7 DEF SerialRead, TxConsumed
  <2>2. LinkInv'
    BY <1>7, <1>a, <2>0 DEF SerialRead, LinkInv, LinkActive, Src, Dst, TypeOK
  <2> QED BY <2>0, <2>1, <2>2, ConsumeFifo
<1>8. ASSUME NEW p \in SerialPorts, NEW b \in Data, SerialWrite(p, b)
      PROVE  HartInv' /\ RoomInv' /\ LinkInv' /\ BufferStep
  <2>0. p \in Ports /\ p # bank1 /\ p # bank2 BY DEF SerialPorts
  <2>1. HartInv' /\ RoomInv' /\ BufferStep
    BY <1>8, <2>0, FillFifo DEF SerialWrite
  <2>2. LinkInv'
    BY <1>8, <1>a, <2>0 DEF SerialWrite, LinkInv, LinkActive, Src, Dst, TypeOK
  <2> QED BY <2>1, <2>2
<1> QED BY <1>1, <1>2, <1>3, <1>4, <1>5, <1>6, <1>7, <1>8 DEF PeerStep, LinkStep

(* One step of the system.                                                 *)
LEMMA FifoNext ==
  ASSUME NoTxResets, FifoInv, [Next]_vars
  PROVE  FifoInv' /\ BufferStep
<1> USE DEF FifoInv
<1>1. CASE Access \/ HartStep BY <1>1, HartType, HartFifo
<1>2. CASE ControllerTick \/ ControllerReset BY <1>2, ControllerType, ControllerFifo
<1>3. CASE PeerStep
  <2>1. TypeOK' BY <1>3, PeerType DEF LinkInv
  <2> QED BY <1>3, <2>1, PeerFifo
<1>4. CASE UNCHANGED vars
  <2>1. UNCHANGED bankVars /\ UNCHANGED hartVars /\ UNCHANGED ctrlVars /\ link' = link
    BY <1>4 DEF vars
  <2>2. BufferStep BY <2>1, IdleStep
  <2>3. TypeOK' BY <2>1 DEF TypeOK, bankVars, hartVars, ctrlVars
  <2>4. HartInv' BY <2>1 DEF HartInv, bankVars, hartVars
  <2>5. RoomInv' /\ LinkInv'
    BY <2>1 DEF RoomInv, LinkInv, LinkActive, Src, Dst, bankVars, hartVars
  <2> QED BY <2>2, <2>3, <2>4, <2>5
<1> QED BY <1>1, <1>2, <1>3, <1>4 DEF Next

(* The invariant holds of every reachable state, provided software never   *)
(* resets a TX FIFO (a TX reset acts on a stale read pointer).             *)
THEOREM FifoInvariant == ASSUME NoTxResets PROVE Spec => []FifoInv
<1>1. Init => FifoInv
  <2> SUFFICES ASSUME Init PROVE FifoInv OBVIOUS
  <2>1. HartInv
    BY DEF Init, HartInv, NoAccess, NoControl, RxHeld, TxHeld
  <2>2. RoomInv /\ LinkInv BY DEF Init, RoomInv, LinkInv, LinkActive
  <2> QED BY <2>1, <2>2, InitType DEF FifoInv
<1>2. FifoInv /\ [Next]_vars => FifoInv' BY FifoNext
<1> QED BY <1>1, <1>2, PTL DEF Spec

(* No interleaving of the hart, the controller, the link and the serial    *)
(* endpoint overwrites an unread byte or moves a pointer past the other.   *)
THEOREM FifoSafety == ASSUME NoTxResets PROVE Spec => FifoSafe
<1>1. FifoInv /\ [Next]_vars => [BufferStep]_vars BY FifoNext
<1>2. Spec => [][BufferStep]_vars BY <1>1, FifoInvariant, PTL DEF Spec
<1> QED BY <1>2 DEF FifoSafe, BufferStep

(* The byte a reader hands over is the byte its pointer removes.           *)
THEOREM ByteIsHeadHolds == ASSUME NoTxResets PROVE Spec => []ByteIsHead
<1>1. FifoInv => ByteIsHead
  <2> SUFFICES ASSUME FifoInv PROVE ByteIsHead OBVIOUS
  <2>a. acc.port \in Ports /\ acc.rx_read \in Idx /\ acc.rx_write \in Idx
        /\ rx_read[acc.port] \in Idx /\ rx_write[acc.port] \in Idx
    BY DEF FifoInv, TypeOK, AccType
  <2>1. acc.pc = "rx_advance" =>
          /\ rx_read[acc.port] # rx_write[acc.port]
          /\ acc.byte = rxBuf[acc.port][rx_read[acc.port]]
    BY <2>a DEF FifoInv, HartInv, RxHeld, Between, Live, Idx
  <2> QED BY <2>1 DEF FifoInv, LinkInv, ByteIsHead
<1> QED BY <1>1, FifoInvariant, PTL

-----------------------------------------------------------------------------
(* The refinement of the abstract queue.  Contents is a function on an     *)
(* interval, so it is compared item by item, without induction.            *)

(* How many items lie between two pointers, and where the k-th one is.     *)
Count(r, w) == IF r <= w THEN w - r ELSE w + Capacity + 1 - r
Slot(r, k) == IF r + k - 1 <= Capacity THEN r + k - 1 ELSE r + k - 2 - Capacity

(* Two sequences of the same length with the same elements are equal.      *)
LEMMA SameSeq ==
  ASSUME NEW s \in Seq(Data), NEW t \in Seq(Data), NEW n \in Nat, Len(s) = n, Len(t) = n,
         \A k \in 1..n : s[k] = t[k]
  PROVE  s = t
<1>1. Len(s) = Len(t) /\ \A k \in 1..Len(s) : s[k] = t[k] OBVIOUS
<1> QED BY <1>1, SeqEqual

(* The specification's modulo arithmetic, resolved into cases.             *)
LEMMA CountDef ==
  ASSUME NEW r \in Idx, NEW w \in Idx
  PROVE  (w + Capacity + 1 - r) % (Capacity + 1) = Count(r, w) /\ Count(r, w) \in 0..Capacity
BY CapacityAssumption DEF Idx, Count

(* The same for the position of an item.                                   *)
LEMMA SlotDef ==
  ASSUME NEW r \in Idx, NEW k \in 1..Capacity
  PROVE  (r + k - 1) % (Capacity + 1) = Slot(r, k) /\ Slot(r, k) \in Idx
BY CapacityAssumption DEF Idx, Slot

(* The items counted are exactly in live slots.                            *)
LEMMA SlotLive ==
  ASSUME NEW r \in Idx, NEW w \in Idx, NEW k \in 1..Count(r, w)
  PROVE  Slot(r, k) \in Idx /\ Live(Slot(r, k), r, w) /\ k \in 1..Capacity
BY CapacityAssumption DEF Idx, Slot, Live, Count

(* What a buffer holds is a sequence of bytes, item by item.               *)
LEMMA ContentsDef ==
  ASSUME NEW buf \in [Idx -> Data], NEW r \in Idx, NEW w \in Idx
  PROVE  /\ Contents(buf, r, w) \in Seq(Data)
         /\ Len(Contents(buf, r, w)) = Count(r, w)
         /\ \A k \in 1..Count(r, w) : Contents(buf, r, w)[k] = buf[Slot(r, k)]
<1> DEFINE n == Count(r, w)
<1>1. n \in Nat BY CountDef DEF Idx
<1>2. \A k \in 1..n : (r + k - 1) % (Capacity + 1) = Slot(r, k) /\ buf[Slot(r, k)] \in Data
  BY SlotLive, SlotDef
<1>3. Contents(buf, r, w) = [k \in 1..n |-> buf[Slot(r, k)]]
  BY <1>2, CountDef DEF Contents
<1>4. [k \in 1..n |-> buf[Slot(r, k)]] \in [1..n -> Data] BY <1>2
<1> HIDE DEF n
<1>5. Contents(buf, r, w) \in [1..n -> Data] BY <1>3, <1>4
<1>6. Contents(buf, r, w) \in Seq(Data) /\ Len(Contents(buf, r, w)) = n BY <1>1, <1>5
<1> QED BY <1>3, <1>6 DEF n

(* Writing slots that are not live does not change what a buffer holds.    *)
LEMMA ContentsKept ==
  ASSUME NEW buf \in [Idx -> Data], NEW buf2 \in [Idx -> Data], NEW r \in Idx, NEW w \in Idx,
         \A i \in Idx : Live(i, r, w) => buf2[i] = buf[i]
  PROVE  Contents(buf2, r, w) = Contents(buf, r, w)
<1>1. \A k \in 1..Count(r, w) : buf2[Slot(r, k)] = buf[Slot(r, k)] BY SlotLive
<1> DEFINE q == Contents(buf, r, w)
           q2 == Contents(buf2, r, w)
<1>2. /\ q \in Seq(Data) /\ Len(q) = Count(r, w)
      /\ \A k \in 1..Count(r, w) : q[k] = buf[Slot(r, k)]
  BY ContentsDef
<1>3. /\ q2 \in Seq(Data) /\ Len(q2) = Count(r, w)
      /\ \A k \in 1..Count(r, w) : q2[k] = buf2[Slot(r, k)]
  BY ContentsDef
<1>4. Count(r, w) \in Nat BY CountDef
<1> HIDE DEF q, q2
<1>5. \A k \in 1..Count(r, w) : q2[k] = q[k] BY <1>1, <1>2, <1>3
<1>6. q2 = q BY <1>2, <1>3, <1>4, <1>5, SameSeq
<1> QED BY <1>6 DEF q, q2

(* What taking items from a queue, and putting one into it, does to it.    *)
Dropped(q, q2) == \E n \in 1..Len(q) : q2 = SubSeq(q, n + 1, Len(q))
Extended(q, q2, size) == Len(q) < size /\ \E x \in Data : q2 = Append(q, x)

(* Moving the read pointer over live slots removes the oldest items.       *)
LEMMA ContentsDropped ==
  ASSUME NEW buf \in [Idx -> Data], NEW buf2 \in [Idx -> Data], NEW r \in Idx, NEW w \in Idx,
         NEW r2 \in Idx, Between(r2, r, w), r2 # r,
         \A i \in Idx : Live(i, r, w) => buf2[i] = buf[i]
  PROVE  Dropped(Contents(buf, r, w), Contents(buf2, r2, w))
<1> DEFINE n == Count(r, w) - Count(r2, w)
           q == Contents(buf, r, w)
           q2 == Contents(buf2, r2, w)
<1>1. n \in 1..Count(r, w)
  BY CapacityAssumption DEF Idx, Count, Between, Live
<1>2. ASSUME NEW k \in 1..Count(r2, w)
      PROVE  k + n \in 1..Count(r, w) /\ Slot(r2, k) = Slot(r, k + n)
  BY CapacityAssumption DEF Idx, Count, Between, Live, Slot
<1>3. /\ q \in Seq(Data) /\ Len(q) = Count(r, w)
      /\ \A k \in 1..Count(r, w) : q[k] = buf[Slot(r, k)]
  BY ContentsDef
<1>4. /\ q2 \in Seq(Data) /\ Len(q2) = Count(r2, w)
      /\ \A k \in 1..Count(r2, w) : q2[k] = buf2[Slot(r2, k)]
  BY ContentsDef
<1>5. Count(r, w) \in Nat /\ Count(r2, w) \in Nat BY CountDef
<1> DEFINE t == SubSeq(q, n + 1, Len(q))
<1> HIDE DEF q, q2
<1>6. /\ t \in Seq(Data) /\ Len(t) = Len(q) - n
      /\ \A k \in 1..(Len(q) - n) : t[k] = q[n + k]
  <2>1. n + 1 \in Int /\ Len(q) \in Int /\ n + 1 <= Len(q) + 1 BY <1>1, <1>3, <1>5
  <2>2. \A k \in (n + 1)..Len(q) : q[k] \in Data BY <1>1, <1>3, <1>5
  <2> QED BY <2>1, <2>2, <1>5, SubSeqProperties
<1>7. \A k \in 1..Count(r2, w) : q2[k] = t[k]
  <2> TAKE k \in 1..Count(r2, w)
  <2>1. buf2[Slot(r, k + n)] = buf[Slot(r, k + n)] BY <1>2, SlotLive
  <2>2. q2[k] = buf2[Slot(r2, k)] BY <1>4
  <2>3. t[k] = q[n + k] BY <1>6, <1>3, <1>5
  <2>4. n + k \in 1..Count(r, w) /\ n + k = k + n BY <1>2, <1>5
  <2>5. q[n + k] = buf[Slot(r, k + n)] BY <2>4, <1>3
  <2> QED BY <1>2, <2>1, <2>2, <2>3, <2>5
<1>9. Len(t) = Count(r2, w) BY <1>1, <1>3, <1>5, <1>6
<1> HIDE DEF t
<1>8. q2 = t BY <1>4, <1>5, <1>6, <1>7, <1>9, SameSeq
<1> QED BY <1>1, <1>3, <1>8 DEF q, q2, t, Dropped

(* Publishing one slot of a buffer that is not full appends its byte.      *)
LEMMA ContentsPut ==
  ASSUME NEW buf \in [Idx -> Data], NEW buf2 \in [Idx -> Data], NEW r \in Idx, NEW w \in Idx,
         Succ(w) # r, \A i \in Idx : Live(i, r, w) => buf2[i] = buf[i]
  PROVE  LET q == Contents(buf, r, w) IN
         /\ Len(q) < Capacity
         /\ Contents(buf2, r, Succ(w)) = Append(q, buf2[w])
<1> DEFINE q == Contents(buf, r, w)
           q2 == Contents(buf2, r, Succ(w))
           n == Count(r, w)
<1>1. /\ Count(r, Succ(w)) = n + 1 /\ n < Capacity /\ n \in Nat
      /\ Slot(r, n + 1) = w
  <2>1. CASE w = Capacity BY <2>1, SuccDef, CapacityAssumption DEF Idx, Count, Slot
  <2>2. CASE w # Capacity BY <2>2, SuccDef, CapacityAssumption DEF Idx, Count, Slot
  <2> QED BY <2>1, <2>2
<1>2. /\ q \in Seq(Data) /\ Len(q) = n
      /\ \A k \in 1..n : q[k] = buf[Slot(r, k)]
  BY ContentsDef
<1>3. /\ q2 \in Seq(Data) /\ Len(q2) = n + 1
      /\ \A k \in 1..(n + 1) : q2[k] = buf2[Slot(r, k)]
  BY <1>1, ContentsDef, SuccType
<1>4. \A k \in 1..n : buf2[Slot(r, k)] = buf[Slot(r, k)] BY SlotLive
<1>5. buf2[w] \in Data OBVIOUS
<1> HIDE DEF q, q2, n
<1>6. /\ Append(q, buf2[w]) \in Seq(Data) /\ Len(Append(q, buf2[w])) = n + 1
      /\ \A k \in 1..n : Append(q, buf2[w])[k] = q[k]
      /\ Append(q, buf2[w])[n + 1] = buf2[w]
  BY <1>2, <1>5, AppendProperties
<1>7. \A k \in 1..(n + 1) : q2[k] = Append(q, buf2[w])[k]
  <2> TAKE k \in 1..(n + 1)
  <2>1. CASE k = n + 1 BY <2>1, <1>1, <1>3, <1>6
  <2>2. CASE k \in 1..n BY <2>2, <1>2, <1>3, <1>4, <1>6
  <2>3. k = n + 1 \/ k \in 1..n BY <1>1
  <2> QED BY <2>1, <2>2, <2>3
<1>8. q2 = Append(q, buf2[w])
  <2> DEFINE t == Append(q, buf2[w])
  <2>1. t \in Seq(Data) /\ Len(t) = n + 1 /\ \A k \in 1..(n + 1) : q2[k] = t[k]
    BY <1>6, <1>7
  <2>2. n + 1 \in Nat BY <1>1
  <2> HIDE DEF t
  <2>3. q2 = t BY <2>1, <2>2, <1>3, SameSeq
  <2> QED BY <2>3 DEF t
<1> QED BY <1>1, <1>2, <1>8 DEF q, q2

(* A step of one buffer under the discipline, as its contents show it.     *)
QueueStep(q, q2) == q2 = q \/ Dropped(q, q2) \/ Extended(q, q2, Capacity)

(* The discipline of the pointers is the discipline of the queue.          *)
LEMMA FifoQueueStep ==
  ASSUME NEW buf \in [Idx -> Data], NEW r \in Idx, NEW w \in Idx,
         NEW buf2 \in [Idx -> Data], NEW r2 \in Idx, NEW w2 \in Idx,
         FifoStep(buf, r, w, buf2, r2, w2)
  PROVE  QueueStep(Contents(buf, r, w), Contents(buf2, r2, w2))
<1>0. \A i \in Idx : Live(i, r, w) => buf2[i] = buf[i] BY DEF FifoStep
<1>1. CASE w2 = w /\ r2 = r BY <1>0, <1>1, ContentsKept DEF QueueStep
<1>2. CASE w2 = w /\ Between(r2, r, w) /\ r2 # r
  BY <1>0, <1>2, ContentsDropped DEF QueueStep
<1>3. CASE r2 = r /\ w2 = Succ(w) /\ Succ(w) # r
  <2>1. buf2[w] \in Data OBVIOUS
  <2> QED BY <1>0, <1>3, <2>1, ContentsPut DEF QueueStep, Extended
<1> QED BY <1>1, <1>2, <1>3 DEF FifoStep


(* The pointers of every buffer but c stay where they are.                 *)
OthersKept(c) ==
  /\ \A p \in Ports : <<"rx", p>> # c => rx_read'[p] = rx_read[p] /\ rx_write'[p] = rx_write[p]
  /\ \A p \in Ports : <<"tx", p>> # c => tx_read'[p] = tx_read[p] /\ tx_write'[p] = tx_write[p]

(* Every action moves pointers of one buffer only: no step of a processor  *)
(* both fills one FIFO and drains another.                                 *)
LEMMA OneBuffer ==
  ASSUME NoTxResets, FifoInv, [Next]_vars
  PROVE  \E c \in Channels : OthersKept(c)
<1>0. PICK p0 \in Ports : TRUE BY PortsAssumption
<1>a. acc.port \in Ports BY DEF FifoInv, TypeOK, AccType
<1>b. TypeOK BY DEF FifoInv
<1>c. ASSUME UNCHANGED <<rx_read, rx_write, tx_read, tx_write>>
      PROVE  \E c \in Channels : OthersKept(c)
  <2>1. <<"rx", p0>> \in Channels BY DEF Channels
  <2> QED BY <1>c, <2>1 DEF OthersKept
<1>d. ASSUME NEW p \in Ports, UNCHANGED <<tx_read, tx_write>>,
             \A q \in Ports \ {p} : rx_read'[q] = rx_read[q] /\ rx_write'[q] = rx_write[q]
      PROVE  \E c \in Channels : OthersKept(c)
  <2>1. <<"rx", p>> \in Channels BY DEF Channels
  <2>2. OthersKept(<<"rx", p>>) BY <1>d DEF OthersKept
  <2> QED BY <2>1, <2>2
<1>e. ASSUME NEW p \in Ports, UNCHANGED <<rx_read, rx_write>>,
             \A q \in Ports \ {p} : tx_read'[q] = tx_read[q] /\ tx_write'[q] = tx_write[q]
      PROVE  \E c \in Channels : OthersKept(c)
  <2>1. <<"tx", p>> \in Channels BY DEF Channels
  <2>2. OthersKept(<<"tx", p>>) BY <1>e DEF OthersKept
  <2> QED BY <2>1, <2>2
<1>1. CASE LoadRxAdvance \/ ResetRx
  BY <1>1, <1>a, <1>b, <1>d DEF LoadRxAdvance, ResetRx, TypeOK
<1>2. CASE StoreTxAdvance \/ ResetTx
  BY <1>2, <1>a, <1>b, <1>e DEF StoreTxAdvance, ResetTx, TypeOK
<1>3. CASE LinkAdvance
  <2>1. Src \in Ports BY <1>3, <1>b, LinkEnds DEF LinkAdvance, FifoInv, LinkInv, LinkActive
  <2> QED BY <1>3, <2>1, <1>b, <1>e DEF LinkAdvance, TypeOK
<1>4. CASE LinkCommit
  <2>1. Dst \in Ports BY <1>4, <1>b, LinkEnds DEF LinkCommit, FifoInv, LinkInv, LinkActive
  <2> QED BY <1>4, <2>1, <1>b, <1>d DEF LinkCommit, TypeOK
<1>5. ASSUME NEW p \in SerialPorts, SerialRead(p) PROVE \E c \in Channels : OthersKept(c)
  BY <1>5, <1>b, <1>e DEF SerialRead, SerialPorts, TypeOK
<1>6. ASSUME NEW p \in SerialPorts, NEW b \in Data, SerialWrite(p, b)
      PROVE  \E c \in Channels : OthersKept(c)
  BY <1>6, <1>b, <1>d DEF SerialWrite, SerialPorts, TypeOK
<1>7. CASE Access \/ ReadRxPtrs \/ ReadTxPtrs \/ LoadZero \/ LoadRxData \/ LoadStatus
           \/ ClearInterrupt \/ StoreIgnored \/ StoreTxData \/ StoreControl \/ PollInterrupts
  BY <1>7, <1>c DEF Access, AccessUart, ReadRxPtrs, ReadTxPtrs, LoadZero, LoadRxData,
     LoadStatus, ClearInterrupt, StoreIgnored, StoreTxData, StoreControl, PollInterrupts, bankVars
<1>8. CASE ControllerTick \/ ControllerReset
  BY <1>8, <1>c DEF ControllerTick, ControllerReset, bankVars
<1>9. CASE LinkCheckTx \/ LinkCheckRx \/ LinkReadByte \/ LinkWriteByte
  BY <1>9, <1>c DEF LinkCheckTx, LinkCheckRx, LinkReadByte, LinkWriteByte, bankVars
<1>10. CASE UNCHANGED vars BY <1>10, <1>c DEF vars, bankVars
<1> QED BY <1>1, <1>2, <1>3, <1>4, <1>5, <1>6, <1>7, <1>8, <1>9, <1>10
        DEF Next, HartStep, PeerStep, LinkStep

(* A buffer whose pointers stay holds what it held.                        *)
LEMMA BufferKept ==
  ASSUME FifoInv, FifoInv', BufferStep, NEW c \in Channels, OthersKept(c), NEW p \in Ports
  PROVE  /\ <<"rx", p>> # c => RxQueue(p)' = RxQueue(p)
         /\ <<"tx", p>> # c => TxQueue(p)' = TxQueue(p)
<1>1. /\ rxBuf[p] \in [Idx -> Data] /\ txBuf[p] \in [Idx -> Data]
      /\ rx_read[p] \in Idx /\ rx_write[p] \in Idx
      /\ tx_read[p] \in Idx /\ tx_write[p] \in Idx
      /\ rxBuf'[p] \in [Idx -> Data] /\ txBuf'[p] \in [Idx -> Data]
  BY DEF FifoInv, TypeOK
<1>2. ASSUME <<"rx", p>> # c PROVE RxQueue(p)' = RxQueue(p)
  <2>1. rx_read'[p] = rx_read[p] /\ rx_write'[p] = rx_write[p] BY <1>2 DEF OthersKept
  <2>2. \A i \in Idx : Live(i, rx_read[p], rx_write[p]) => rxBuf'[p][i] = rxBuf[p][i]
    BY DEF BufferStep, FifoStep
  <2> QED BY <2>1, <2>2, <1>1, ContentsKept DEF RxQueue
<1>3. ASSUME <<"tx", p>> # c PROVE TxQueue(p)' = TxQueue(p)
  <2>1. tx_read'[p] = tx_read[p] /\ tx_write'[p] = tx_write[p] BY <1>3 DEF OthersKept
  <2>2. \A i \in Idx : Live(i, tx_read[p], tx_write[p]) => txBuf'[p][i] = txBuf[p][i]
    BY DEF BufferStep, FifoStep
  <2> QED BY <2>1, <2>2, <1>1, ContentsKept DEF TxQueue
<1> QED BY <1>2, <1>3

(* So a step of the system changes at most one of the queues, and that one *)
(* as a queue may change.                                                  *)
LEMMA QueuesStep ==
  ASSUME NoTxResets, FifoInv, [Next]_vars
  PROVE  \E c \in Channels :
           /\ QueueStep(Queue[c], Queue'[c])
           /\ Queue' = [Queue EXCEPT ![c] = Queue'[c]]
<1>1. FifoInv' /\ BufferStep BY FifoNext
<1>2. PICK c \in Channels : OthersKept(c) BY OneBuffer
<1>3. ASSUME NEW p \in Ports
      PROVE  /\ QueueStep(RxQueue(p), RxQueue(p)')
             /\ QueueStep(TxQueue(p), TxQueue(p)')
             /\ <<"rx", p>> # c => RxQueue(p)' = RxQueue(p)
             /\ <<"tx", p>> # c => TxQueue(p)' = TxQueue(p)
  <2>1. /\ rxBuf[p] \in [Idx -> Data] /\ txBuf[p] \in [Idx -> Data]
        /\ rx_read[p] \in Idx /\ rx_write[p] \in Idx
        /\ tx_read[p] \in Idx /\ tx_write[p] \in Idx
    BY DEF FifoInv, TypeOK
  <2>2. /\ rxBuf'[p] \in [Idx -> Data] /\ txBuf'[p] \in [Idx -> Data]
        /\ rx_read'[p] \in Idx /\ rx_write'[p] \in Idx
        /\ tx_read'[p] \in Idx /\ tx_write'[p] \in Idx
    BY <1>1 DEF FifoInv, TypeOK
  <2>3. /\ FifoStep(rxBuf[p], rx_read[p], rx_write[p], rxBuf'[p], rx_read'[p], rx_write'[p])
        /\ FifoStep(txBuf[p], tx_read[p], tx_write[p], txBuf'[p], tx_read'[p], tx_write'[p])
    BY <1>1 DEF BufferStep
  <2>4. QueueStep(RxQueue(p), RxQueue(p)') BY <2>1, <2>2, <2>3, FifoQueueStep DEF RxQueue
  <2>5. QueueStep(TxQueue(p), TxQueue(p)') BY <2>1, <2>2, <2>3, FifoQueueStep DEF TxQueue
  <2> QED BY <1>1, <1>2, <2>4, <2>5, BufferKept
<1>4. ASSUME NEW d \in Channels
      PROVE  QueueStep(Queue[d], Queue'[d]) /\ (d # c => Queue'[d] = Queue[d])
  <2>1. PICK p \in Ports : d = <<"rx", p>> \/ d = <<"tx", p>> BY DEF Channels
  <2>2. CASE d = <<"rx", p>>
    <3>1. Queue[d] = RxQueue(p) /\ Queue'[d] = RxQueue(p)' BY <2>2 DEF Queue
    <3> QED BY <2>2, <3>1, <1>3
  <2>3. CASE d = <<"tx", p>>
    <3>1. Queue[d] = TxQueue(p) /\ Queue'[d] = TxQueue(p)' BY <2>3 DEF Queue
    <3> QED BY <2>3, <3>1, <1>3
  <2> QED BY <2>1, <2>2, <2>3
<1>5. Queue' = [Queue EXCEPT ![c] = Queue'[c]]
  <2>1. Queue' = [d \in Channels |-> Queue'[d]] BY DEF Queue
  <2>2. DOMAIN Queue = Channels BY DEF Queue
  <2> QED BY <1>4, <2>1, <2>2
<1> QED BY <1>4, <1>5

(* Every buffer of every port implements the abstract bounded queue: what  *)
(* the consumer takes is what the producer put, in that order, with        *)
(* nothing lost, duplicated or overwritten, as long as software never      *)
(* resets TX.                                                              *)
THEOREM PortsRefineFifos == ASSUME NoTxResets PROVE Spec => PortsAreFifos
<1>1. Init => Buffers!Init
  <2> SUFFICES ASSUME Init PROVE Queue = [c \in Channels |-> << >>]
    BY DEF Buffers!Init, Queue, Channels
  <2>1. ASSUME NEW p \in Ports PROVE RxQueue(p) = << >> /\ TxQueue(p) = << >>
    <3>1. (0 + Capacity + 1 - 0) % (Capacity + 1) = 0 BY CapacityAssumption
    <3> QED BY <3>1 DEF Init, RxQueue, TxQueue, Contents
  <2> QED BY <2>1 DEF Queue, Channels
<1>2. FifoInv /\ [Next]_vars => [Buffers!Next]_Queue
  <2> SUFFICES ASSUME FifoInv, [Next]_vars, Queue' # Queue PROVE Buffers!Next
    OBVIOUS
  <2>1. PICK c \in Channels : /\ QueueStep(Queue[c], Queue'[c])
                              /\ Queue' = [Queue EXCEPT ![c] = Queue'[c]]
    BY QueuesStep
  <2>2. Queue'[c] # Queue[c] BY <2>1 DEF Queue
  <2>3. CASE Dropped(Queue[c], Queue'[c])
    <3>1. PICK n \in 1..Len(Queue[c]) : Queue'[c] = SubSeq(Queue[c], n + 1, Len(Queue[c]))
      BY <2>3 DEF Dropped
    <3>2. Buffers!Drop(c, n) BY <2>1, <3>1 DEF Buffers!Drop
    <3> QED BY <3>2 DEF Buffers!Next
  <2>4. CASE Extended(Queue[c], Queue'[c], Capacity)
    <3>1. PICK x \in Data : Len(Queue[c]) < Capacity /\ Queue'[c] = Append(Queue[c], x)
      BY <2>4 DEF Extended
    <3>2. Buffers!Put(c, x) BY <2>1, <3>1 DEF Buffers!Put
    <3> QED BY <3>2 DEF Buffers!Next
  <2> QED BY <2>1, <2>2, <2>3, <2>4 DEF QueueStep
<1> QED BY <1>1, <1>2, FifoInvariant, PTL DEF Spec, PortsAreFifos, Buffers!Spec

-----------------------------------------------------------------------------
(* The refinement of the same queue by a pair of linked ports.             *)

(* A step that leaves the write pointer only takes items out.              *)
LEMMA ReaderStep ==
  ASSUME NEW buf \in [Idx -> Data], NEW r \in Idx, NEW w \in Idx,
         NEW buf2 \in [Idx -> Data], NEW r2 \in Idx, FifoStep(buf, r, w, buf2, r2, w)
  PROVE  \/ Contents(buf2, r2, w) = Contents(buf, r, w)
         \/ Dropped(Contents(buf, r, w), Contents(buf2, r2, w))
<1>0. \A i \in Idx : Live(i, r, w) => buf2[i] = buf[i] BY DEF FifoStep
<1>1. CASE r2 = r BY <1>0, <1>1, ContentsKept
<1>2. CASE r2 # r
  <2>1. Between(r2, r, w) BY <1>2 DEF FifoStep
  <2> QED BY <1>0, <1>2, <2>1, ContentsDropped
<1> QED BY <1>1, <1>2

(* A step that leaves the read pointer only puts an item in.               *)
LEMMA WriterStep ==
  ASSUME NEW buf \in [Idx -> Data], NEW r \in Idx, NEW w \in Idx,
         NEW buf2 \in [Idx -> Data], NEW w2 \in Idx, FifoStep(buf, r, w, buf2, r, w2)
  PROVE  \/ Contents(buf2, r, w2) = Contents(buf, r, w)
         \/ Extended(Contents(buf, r, w), Contents(buf2, r, w2), Capacity)
<1>0. \A i \in Idx : Live(i, r, w) => buf2[i] = buf[i] BY DEF FifoStep
<1>1. CASE w2 = w BY <1>0, <1>1, ContentsKept
<1>2. CASE w2 # w
  <2>1. w2 = Succ(w) /\ Succ(w) # r BY <1>2 DEF FifoStep
  <2>2. buf2[w] \in Data OBVIOUS
  <2> QED BY <1>0, <2>1, <2>2, ContentsPut DEF Extended
<1> QED BY <1>1, <1>2

(* Dropping from the front of two pieces drops from the first one.         *)
LEMMA DropOfConcat ==
  ASSUME NEW q \in Seq(Data), NEW t \in Seq(Data), NEW n \in 1..Len(q)
  PROVE  SubSeq(q \o t, n + 1, Len(q \o t)) = SubSeq(q, n + 1, Len(q)) \o t
<1> DEFINE a == q \o t
           b == SubSeq(a, n + 1, Len(a))
           c == SubSeq(q, n + 1, Len(q))
           d == c \o t
<1>1. /\ a \in Seq(Data) /\ Len(a) = Len(q) + Len(t)
      /\ \A i \in 1..(Len(q) + Len(t)) : a[i] = IF i <= Len(q) THEN q[i] ELSE t[i - Len(q)]
  BY ConcatProperties
<1>2. Len(q) \in Nat /\ Len(t) \in Nat /\ n \in Nat /\ n <= Len(q) BY LenProperties
<1> HIDE DEF a
<1>3. /\ b \in Seq(Data) /\ Len(b) = Len(q) + Len(t) - n
      /\ \A i \in 1..(Len(q) + Len(t) - n) : b[i] = a[n + i]
  <2>1. \A i \in (n + 1)..Len(a) : a[i] \in Data BY <1>1, <1>2, ElementOfSeq
  <2>2. n + 1 \in Int /\ Len(a) \in Int BY <1>1, <1>2
  <2> QED BY <1>1, <1>2, <2>1, <2>2, SubSeqProperties
<1>4. /\ c \in Seq(Data) /\ Len(c) = Len(q) - n
      /\ \A i \in 1..(Len(q) - n) : c[i] = q[n + i]
  <2>1. \A i \in (n + 1)..Len(q) : q[i] \in Data BY <1>2, ElementOfSeq
  <2>2. n + 1 \in Int /\ Len(q) \in Int BY <1>2
  <2> QED BY <1>2, <2>1, <2>2, SubSeqProperties
<1> HIDE DEF b, c
<1>5. /\ d \in Seq(Data) /\ Len(d) = Len(q) - n + Len(t)
      /\ \A i \in 1..(Len(q) - n + Len(t)) : d[i] = IF i <= Len(q) - n THEN c[i] ELSE t[i - (Len(q) - n)]
  <2>1. /\ d \in Seq(Data) /\ Len(d) = Len(c) + Len(t)
        /\ \A i \in 1..(Len(c) + Len(t)) : d[i] = IF i <= Len(c) THEN c[i] ELSE t[i - Len(c)]
    BY <1>4, ConcatProperties
  <2> HIDE DEF d
  <2> QED BY <2>1, <1>4
<1> HIDE DEF d
<1> DEFINE m == Len(q) + Len(t) - n
<1>6. m \in Nat /\ Len(b) = m /\ Len(d) = m BY <1>2, <1>3, <1>5
<1>7. \A i \in 1..m : b[i] = d[i]
  <2> TAKE i \in 1..m
  <2>1. CASE i <= Len(q) - n
    <3>1. b[i] = a[n + i] BY <1>3
    <3>2. a[n + i] = q[n + i] BY <2>1, <1>1, <1>2
    <3>3. c[i] = q[n + i] BY <2>1, <1>2, <1>4
    <3>4. d[i] = c[i] BY <2>1, <1>2, <1>5
    <3> QED BY <3>1, <3>2, <3>3, <3>4
  <2>2. CASE i > Len(q) - n
    <3>0. b[i] = a[n + i] BY <1>3
    <3>4. n + i \in 1..(Len(q) + Len(t)) /\ ~(n + i <= Len(q)) BY <2>2, <1>2
    <3>1. b[i] = t[n + i - Len(q)] BY <3>0, <3>4, <1>1
    <3>2. d[i] = t[i - (Len(q) - n)] BY <2>2, <1>2, <1>5
    <3>3. n + i - Len(q) = i - (Len(q) - n) BY <1>2
    <3> QED BY <3>1, <3>2, <3>3
  <2> QED BY <2>1, <2>2, <1>2
<1> HIDE DEF m
<1>8. b = d BY <1>3, <1>5, <1>6, <1>7, SameSeq
<1> QED BY <1>8 DEF a, b, c, d

(* The three pieces of what is in flight, and how long each may be.        *)
LEMMA FlightType ==
  ASSUME FifoInv, NEW s \in Ports, NEW d \in Ports
  PROVE  /\ RxQueue(d) \in Seq(Data) /\ Carried(s) \in Seq(Data) /\ TxQueue(s) \in Seq(Data)
         /\ Len(RxQueue(d)) <= Capacity /\ Len(Carried(s)) <= 1 /\ Len(TxQueue(s)) <= Capacity
<1>1. link.byte \in Data BY DEF FifoInv, TypeOK, LinkType
<1>2. <<link.byte>> \in Seq(Data) /\ Len(<<link.byte>>) = 1 BY <1>1
<1>3. << >> \in Seq(Data) /\ Len(<< >>) = 0 BY EmptySeq
<1>4. Carried(s) \in Seq(Data) /\ Len(Carried(s)) <= 1 BY <1>2, <1>3 DEF Carried
<1>5. /\ rxBuf[d] \in [Idx -> Data] /\ txBuf[s] \in [Idx -> Data]
      /\ rx_read[d] \in Idx /\ rx_write[d] \in Idx
      /\ tx_read[s] \in Idx /\ tx_write[s] \in Idx
  BY DEF FifoInv, TypeOK
<1>6. RxQueue(d) \in Seq(Data) /\ Len(RxQueue(d)) <= Capacity
  <2>1. Count(rx_read[d], rx_write[d]) <= Capacity BY <1>5, CountDef, CapacityAssumption
  <2> QED BY <1>5, <2>1, ContentsDef DEF RxQueue
<1>7. TxQueue(s) \in Seq(Data) /\ Len(TxQueue(s)) <= Capacity
  <2>1. Count(tx_read[s], tx_write[s]) <= Capacity BY <1>5, CountDef, CapacityAssumption
  <2> QED BY <1>5, <2>1, ContentsDef DEF TxQueue
<1> QED BY <1>4, <1>6, <1>7

(* What a step may do to everything in flight on one cable.                *)
CableStep(q, q2) == q2 = q \/ Dropped(q, q2) \/ Extended(q, q2, 2 * Capacity + 1)

(* Reading at the far end takes the oldest bytes in flight.                *)
LEMMA FlightRead ==
  ASSUME FifoInv, NEW s \in Ports, NEW d \in Ports,
         Carried(s)' = Carried(s), TxQueue(s)' = TxQueue(s),
         RxQueue(d)' = RxQueue(d) \/ Dropped(RxQueue(d), RxQueue(d)')
  PROVE  CableStep(InFlight(s, d), InFlight(s, d)')
<1>1. CASE RxQueue(d)' = RxQueue(d)
  BY <1>1 DEF InFlight, CableStep
<1>2. CASE Dropped(RxQueue(d), RxQueue(d)')
  <2>1. PICK n \in 1..Len(RxQueue(d)) :
          RxQueue(d)' = SubSeq(RxQueue(d), n + 1, Len(RxQueue(d))) BY <1>2 DEF Dropped
  <2> DEFINE q == RxQueue(d)
             m == Carried(s)
             t == TxQueue(s)
  <2>2. q \in Seq(Data) /\ m \in Seq(Data) /\ t \in Seq(Data) BY FlightType
  <2>3. InFlight(s, d) = (q \o m) \o t
    BY DEF InFlight
  <2>4. InFlight(s, d)' = (SubSeq(q, n + 1, Len(q)) \o m) \o t
    BY <2>1 DEF InFlight
  <2> HIDE DEF q, m, t
  <2>5. n \in 1..Len(q) BY DEF q
  <2>6. SubSeq(q \o m, n + 1, Len(q \o m)) = SubSeq(q, n + 1, Len(q)) \o m
    BY <2>2, <2>5, DropOfConcat
  <2>7. q \o m \in Seq(Data) /\ Len(q \o m) = Len(q) + Len(m) BY <2>2, ConcatProperties
  <2>8. Len(q) \in Nat /\ Len(m) \in Nat /\ Len(t) \in Nat BY <2>2, LenProperties
  <2>9. n \in 1..Len(q \o m) BY <2>5, <2>7, <2>8
  <2>10. SubSeq((q \o m) \o t, n + 1, Len((q \o m) \o t))
           = SubSeq(q \o m, n + 1, Len(q \o m)) \o t
    BY <2>2, <2>7, <2>9, DropOfConcat
  <2>11. Len((q \o m) \o t) = Len(q \o m) + Len(t) BY <2>2, <2>7, ConcatProperties
  <2>12. n \in 1..Len((q \o m) \o t) BY <2>8, <2>9, <2>7, <2>11
  <2> QED BY <2>3, <2>4, <2>6, <2>10, <2>12 DEF CableStep, Dropped
<1> QED BY <1>1, <1>2

(* Sending at the near end puts a byte behind all the others; the cable    *)
(* holds two full buffers and the byte the link carries.                   *)
LEMMA FlightSend ==
  ASSUME FifoInv, NEW s \in Ports, NEW d \in Ports,
         Carried(s)' = Carried(s), RxQueue(d)' = RxQueue(d),
         TxQueue(s)' = TxQueue(s) \/ Extended(TxQueue(s), TxQueue(s)', Capacity)
  PROVE  CableStep(InFlight(s, d), InFlight(s, d)')
<1>1. CASE TxQueue(s)' = TxQueue(s)
  BY <1>1 DEF InFlight, CableStep
<1>2. CASE Extended(TxQueue(s), TxQueue(s)', Capacity)
  <2>1. PICK x \in Data : TxQueue(s)' = Append(TxQueue(s), x) BY <1>2 DEF Extended
  <2> DEFINE q == RxQueue(d) \o Carried(s)
             t == TxQueue(s)
  <2>2. q \in Seq(Data) /\ t \in Seq(Data) /\ Len(q) <= Capacity + 1
    <3>1. Len(RxQueue(d) \o Carried(s)) = Len(RxQueue(d)) + Len(Carried(s))
      BY FlightType, ConcatProperties
    <3>2. Len(RxQueue(d)) \in Nat /\ Len(Carried(s)) \in Nat BY FlightType, LenProperties
    <3> QED BY <3>1, <3>2, FlightType, ConcatProperties, CapacityAssumption
  <2>3. InFlight(s, d) = q \o t /\ InFlight(s, d)' = q \o Append(t, x) BY <2>1 DEF InFlight
  <2>4. Len(t) < Capacity BY <1>2 DEF Extended
  <2> HIDE DEF q, t
  <2>5. q \o Append(t, x) = Append(q \o t, x)
    <3>1. Append(t, x) = t \o <<x>> BY <2>2, AppendIsConcat
    <3>2. <<x>> \in Seq(Data) OBVIOUS
    <3>3. q \o (t \o <<x>>) = (q \o t) \o <<x>> BY <2>2, <3>2, ConcatAssociative
    <3>4. q \o t \in Seq(Data) BY <2>2, ConcatProperties
    <3>5. Append(q \o t, x) = (q \o t) \o <<x>> BY <3>4, AppendIsConcat
    <3> QED BY <3>1, <3>3, <3>5
  <2>6. Len(q \o t) < 2 * Capacity + 1
    <3>1. Len(q \o t) = Len(q) + Len(t) /\ Len(q) \in Nat /\ Len(t) \in Nat
      BY <2>2, ConcatProperties, LenProperties
    <3> QED BY <2>2, <2>4, <3>1, CapacityAssumption
  <2> QED BY <2>3, <2>5, <2>6 DEF CableStep, Extended
<1> QED BY <1>1, <1>2

(* Only the link moves bytes from one bank to the other: every other step  *)
(* leaves the byte it carries and its two pointers alone.                  *)
LEMMA OtherSteps ==
  ASSUME FifoInv, [Next]_vars, ~LinkAdvance, ~LinkCommit, NEW s \in {bank1, bank2}, s \in Ports
  PROVE  /\ Carried(s)' = Carried(s)
         /\ rx_write'[s] = rx_write[s] /\ tx_read'[s] = tx_read[s]
<1>1. CASE Access \/ HartStep
  BY <1>1 DEF Access, AccessUart, HartStep, ReadRxPtrs, ReadTxPtrs, LoadZero, LoadRxData,
     LoadRxAdvance, LoadStatus, ClearInterrupt, StoreIgnored, StoreTxData, StoreTxAdvance,
     StoreControl, ResetRx, ResetTx, PollInterrupts, bankVars, Carried, Src
<1>2. CASE ControllerTick \/ ControllerReset
  BY <1>2 DEF ControllerTick, ControllerReset, bankVars, Carried, Src
<1>3. CASE LinkCheckTx \/ LinkCheckRx \/ LinkReadByte
  <2>1. UNCHANGED <<rx_write, tx_read>>
    BY <1>3 DEF LinkCheckTx, LinkCheckRx, LinkReadByte, bankVars
  <2>2. link.pc \notin {"put", "commit"} /\ link'.pc \notin {"put", "commit"}
    BY <1>3 DEF LinkCheckTx, LinkCheckRx, LinkReadByte, FifoInv, TypeOK, LinkType
  <2> QED BY <2>1, <2>2 DEF Carried
<1>4. CASE LinkWriteByte
  <2>1. UNCHANGED <<rx_write, tx_read>> BY <1>4 DEF LinkWriteByte
  <2>2. /\ link.pc = "put" /\ link'.pc = "commit"
        /\ link'.byte = link.byte /\ link'.dir = link.dir
    BY <1>4 DEF LinkWriteByte, FifoInv, TypeOK, LinkType
  <2> QED BY <2>1, <2>2 DEF Carried, Src
<1>5. ASSUME NEW p \in SerialPorts, SerialRead(p) \/ \E b \in Data : SerialWrite(p, b)
      PROVE  /\ Carried(s)' = Carried(s)
             /\ rx_write'[s] = rx_write[s] /\ tx_read'[s] = tx_read[s]
  <2>1. p # s BY DEF SerialPorts
  <2> QED BY <1>5, <2>1 DEF SerialRead, SerialWrite, FifoInv, TypeOK, Carried, Src
<1>6. CASE UNCHANGED vars
  BY <1>6 DEF vars, bankVars, Carried, Src
<1> QED BY <1>1, <1>2, <1>3, <1>4, <1>5, <1>6 DEF Next, PeerStep, LinkStep

(* So such a step reads or sends on one cable and leaves the other alone.  *)
LEMMA CableOther ==
  ASSUME NoTxResets, FifoInv, [Next]_vars, ~LinkAdvance, ~LinkCommit,
         NEW s \in {bank1, bank2}, NEW d \in {bank1, bank2}, s \in Ports, d \in Ports,
         NEW c \in Channels, OthersKept(c)
  PROVE  /\ CableStep(InFlight(s, d), InFlight(s, d)')
         /\ c # <<"rx", d>> /\ c # <<"tx", s>> => InFlight(s, d)' = InFlight(s, d)
<1>1. FifoInv' /\ BufferStep BY FifoNext
<1>2. /\ rxBuf[d] \in [Idx -> Data] /\ txBuf[s] \in [Idx -> Data]
      /\ rx_read[d] \in Idx /\ rx_write[d] \in Idx
      /\ tx_read[s] \in Idx /\ tx_write[s] \in Idx
  BY DEF FifoInv, TypeOK
<1>3. /\ rxBuf'[d] \in [Idx -> Data] /\ txBuf'[s] \in [Idx -> Data]
      /\ rx_read'[d] \in Idx /\ rx_write'[d] \in Idx
      /\ tx_read'[s] \in Idx /\ tx_write'[s] \in Idx
  BY <1>1 DEF FifoInv, TypeOK
<1>4. Carried(s)' = Carried(s) /\ tx_read'[s] = tx_read[s] /\ rx_write'[d] = rx_write[d]
  BY OtherSteps
<1>5. /\ FifoStep(rxBuf[d], rx_read[d], rx_write[d], rxBuf'[d], rx_read'[d], rx_write'[d])
      /\ FifoStep(txBuf[s], tx_read[s], tx_write[s], txBuf'[s], tx_read'[s], tx_write'[s])
  BY <1>1 DEF BufferStep
<1>6. RxQueue(d)' = RxQueue(d) \/ Dropped(RxQueue(d), RxQueue(d)')
  <2>1. FifoStep(rxBuf[d], rx_read[d], rx_write[d], rxBuf'[d], rx_read'[d], rx_write[d])
    BY <1>4, <1>5
  <2>2. \/ Contents(rxBuf'[d], rx_read'[d], rx_write[d]) = RxQueue(d)
        \/ Dropped(RxQueue(d), Contents(rxBuf'[d], rx_read'[d], rx_write[d]))
    BY <1>2, <1>3, <2>1, ReaderStep DEF RxQueue
  <2> QED BY <1>4, <2>2 DEF RxQueue
<1>7. TxQueue(s)' = TxQueue(s) \/ Extended(TxQueue(s), TxQueue(s)', Capacity)
  <2>1. FifoStep(txBuf[s], tx_read[s], tx_write[s], txBuf'[s], tx_read[s], tx_write'[s])
    BY <1>4, <1>5
  <2>2. \/ Contents(txBuf'[s], tx_read[s], tx_write'[s]) = TxQueue(s)
        \/ Extended(TxQueue(s), Contents(txBuf'[s], tx_read[s], tx_write'[s]), Capacity)
    BY <1>2, <1>3, <2>1, WriterStep DEF TxQueue
  <2> QED BY <1>4, <2>2 DEF TxQueue
<1>8. c # <<"rx", d>> => RxQueue(d)' = RxQueue(d) BY BufferKept, <1>1
<1>9. c # <<"tx", s>> => TxQueue(s)' = TxQueue(s) BY BufferKept, <1>1
<1>10. CASE c = <<"rx", d>>
  <2>1. TxQueue(s)' = TxQueue(s) BY <1>9, <1>10
  <2> QED BY <1>4, <1>6, <1>10, <2>1, FlightRead
<1>11. CASE c # <<"rx", d>>
  <2>1. RxQueue(d)' = RxQueue(d) BY <1>8, <1>11
  <2>2. CableStep(InFlight(s, d), InFlight(s, d)') BY <1>4, <1>7, <2>1, FlightSend
  <2>3. c # <<"tx", s>> => InFlight(s, d)' = InFlight(s, d)
    BY <1>4, <1>9, <2>1 DEF InFlight
  <2> QED BY <2>2, <2>3
<1> QED BY <1>10, <1>11

(* Where the pieces are cut does not matter.                               *)
LEMMA CarryOver ==
  ASSUME NEW q \in Seq(Data), NEW t \in Seq(Data), NEW h \in Data
  PROVE  /\ (q \o << >>) \o (<<h>> \o t) = (q \o <<h>>) \o t
         /\ (Append(q, h) \o << >>) \o t = (q \o <<h>>) \o t
<1>1. <<h>> \in Seq(Data) OBVIOUS
<1>2. q \o << >> = q BY ConcatEmptySeq
<1>3. q \o (<<h>> \o t) = (q \o <<h>>) \o t BY <1>1, ConcatAssociative
<1>4. Append(q, h) = q \o <<h>> /\ Append(q, h) \in Seq(Data)
  BY AppendIsConcat, AppendProperties
<1>5. Append(q, h) \o << >> = Append(q, h) BY <1>4, ConcatEmptySeq
<1> QED BY <1>2, <1>3, <1>4, <1>5

(* What a buffer holds is its oldest byte and what is left without it.     *)
LEMMA ContentsHead ==
  ASSUME NEW buf \in [Idx -> Data], NEW r \in Idx, NEW w \in Idx, r # w
  PROVE  Contents(buf, r, w) = <<buf[r]>> \o Contents(buf, Succ(r), w)
<1> DEFINE q == Contents(buf, r, w)
           q2 == Contents(buf, Succ(r), w)
           n == Count(r, w)
<1>1. /\ q \in Seq(Data) /\ Len(q) = n
      /\ \A k \in 1..n : q[k] = buf[Slot(r, k)]
  BY ContentsDef
<1>2. n \in 1..Capacity /\ Count(Succ(r), w) = n - 1 /\ Slot(r, 1) = r
      /\ \A k \in 1..(n - 1) : Slot(Succ(r), k) = Slot(r, k + 1)
  <2>1. CASE r = Capacity BY <2>1, SuccDef, CapacityAssumption DEF Idx, Count, Slot
  <2>2. CASE r # Capacity BY <2>2, SuccDef, CapacityAssumption DEF Idx, Count, Slot
  <2> QED BY <2>1, <2>2
<1>3. /\ q2 \in Seq(Data) /\ Len(q2) = n - 1
      /\ \A k \in 1..(n - 1) : q2[k] = buf[Slot(Succ(r), k)]
  <2>1. /\ q2 \in Seq(Data) /\ Len(q2) = Count(Succ(r), w)
        /\ \A k \in 1..Count(Succ(r), w) : q2[k] = buf[Slot(Succ(r), k)]
    BY SuccType, ContentsDef
  <2> HIDE DEF q2, n
  <2> QED BY <1>2, <2>1
<1> DEFINE e == <<buf[r]>>
           t == e \o q2
<1> HIDE DEF q, q2, n
<1>4. e \in Seq(Data) /\ Len(e) = 1 /\ e[1] = buf[r] OBVIOUS
<1> HIDE DEF e
<1>5. /\ t \in Seq(Data) /\ Len(t) = n
      /\ \A k \in 1..n : t[k] = IF k <= 1 THEN e[k] ELSE q2[k - 1]
  <2>1. /\ t \in Seq(Data) /\ Len(t) = Len(e) + Len(q2)
        /\ \A k \in 1..(Len(e) + Len(q2)) :
             t[k] = IF k <= Len(e) THEN e[k] ELSE q2[k - Len(e)]
    BY <1>3, <1>4, ConcatProperties
  <2>2. Len(e) + Len(q2) = n BY <1>2, <1>3, <1>4, CapacityAssumption
  <2> HIDE DEF t
  <2> QED BY <2>1, <2>2, <1>4
<1> HIDE DEF t
<1>6. \A k \in 1..n : q[k] = t[k]
  <2> TAKE k \in 1..n
  <2>1. CASE k = 1 BY <2>1, <1>1, <1>2, <1>4, <1>5
  <2>2. CASE k # 1
    <3>1. k - 1 \in 1..(n - 1) /\ (k - 1) + 1 = k /\ ~(k <= 1) BY <2>2, <1>2, CapacityAssumption
    <3>2. t[k] = q2[k - 1] BY <3>1, <1>5
    <3>3. q2[k - 1] = buf[Slot(r, k)] BY <3>1, <1>2, <1>3
    <3> QED BY <3>2, <3>3, <1>1
  <2> QED BY <2>1, <2>2
<1>7. n \in Nat BY <1>2, CapacityAssumption
<1>8. q = t BY <1>1, <1>5, <1>6, <1>7, SameSeq
<1> QED BY <1>8 DEF q, q2, t, e

(* Taking the byte out of TX moves it into the hand of the link.           *)
LEMMA LinkAdvanceKeeps ==
  ASSUME NoTxResets, FifoInv, bank1 \in Ports, LinkAdvance,
         NEW s \in {bank1, bank2}, NEW d \in {bank1, bank2}, s # d
  PROVE  InFlight(s, d)' = InFlight(s, d)
<1>0. s \in Ports /\ d \in Ports BY LinkAssumption
<1>a. Src \in Ports BY LinkEnds DEF FifoInv
<1>b. TypeOK BY DEF FifoInv
<1>1. RxQueue(d)' = RxQueue(d) BY DEF LinkAdvance, RxQueue
<1>2. /\ link.pc = "advance" /\ link'.pc = "put"
      /\ link'.byte = link.byte /\ link'.dir = link.dir
  BY <1>b DEF LinkAdvance, TypeOK, LinkType
<1>3. CASE s # Src
  <2>1. tx_read'[s] = tx_read[s] BY <1>0, <1>3, <1>b DEF LinkAdvance, TypeOK
  <2>2. TxQueue(s)' = TxQueue(s) BY <2>1 DEF LinkAdvance, TxQueue
  <2>3. Carried(s)' = Carried(s) BY <1>2, <1>3 DEF Carried, Src
  <2> QED BY <1>1, <2>2, <2>3 DEF InFlight
<1>4. CASE s = Src
  <2>1. tx_read[s] # tx_write[s] /\ link.byte = txBuf[s][tx_read[s]]
    BY <1>2, <1>4 DEF FifoInv, LinkInv
  <2>2. tx_read'[s] = Succ(tx_read[s]) /\ tx_write' = tx_write /\ txBuf' = txBuf
    BY <1>4, <1>a, <1>b DEF LinkAdvance, TypeOK
  <2>3. txBuf[s] \in [Idx -> Data] /\ tx_read[s] \in Idx /\ tx_write[s] \in Idx
    BY <1>0, <1>b DEF TypeOK
  <2>4. TxQueue(s) = <<link.byte>> \o TxQueue(s)'
    BY <2>1, <2>2, <2>3, ContentsHead DEF TxQueue
  <2>5. Carried(s) = << >> /\ Carried(s)' = <<link.byte>>
    BY <1>2, <1>4 DEF Carried, Src
  <2>6. TxQueue(s)' \in Seq(Data)
    <3>1. Contents(txBuf[s], Succ(tx_read[s]), tx_write[s]) \in Seq(Data)
      BY <2>3, SuccType, ContentsDef
    <3> QED BY <2>2, <3>1 DEF TxQueue
  <2>7. RxQueue(d) \in Seq(Data) BY <1>0, FlightType
  <2>8. link.byte \in Data BY <1>b DEF TypeOK, LinkType
  <2>9. (RxQueue(d) \o << >>) \o (<<link.byte>> \o TxQueue(s)')
          = (RxQueue(d) \o <<link.byte>>) \o TxQueue(s)'
    BY <2>6, <2>7, <2>8, CarryOver
  <2> QED BY <1>1, <2>4, <2>5, <2>9 DEF InFlight
<1> QED BY <1>3, <1>4

(* Publishing the byte in RX takes it out of the hand of the link; it is   *)
(* published after the slot was written, and the slot still holds it.      *)
LEMMA LinkCommitKeeps ==
  ASSUME NoTxResets, FifoInv, bank1 \in Ports, LinkCommit,
         NEW s \in {bank1, bank2}, NEW d \in {bank1, bank2}, s # d
  PROVE  InFlight(s, d)' = InFlight(s, d)
<1>0. s \in Ports /\ d \in Ports BY LinkAssumption
<1>a. Dst \in Ports BY LinkEnds DEF FifoInv
<1>b. TypeOK BY DEF FifoInv
<1>c. s = Src <=> d = Dst BY LinkAssumption DEF Src, Dst
<1>1. TxQueue(s)' = TxQueue(s) BY DEF LinkCommit, TxQueue
<1>2. link.pc = "commit" /\ link'.pc = "check_tx" BY DEF LinkCommit
<1>3. CASE s # Src
  <2>1. rx_write'[d] = rx_write[d] BY <1>0, <1>3, <1>c, <1>b DEF LinkCommit, TypeOK
  <2>2. RxQueue(d)' = RxQueue(d) BY <2>1 DEF LinkCommit, RxQueue
  <2>3. Carried(s)' = Carried(s) BY <1>2, <1>3 DEF Carried
  <2> QED BY <1>1, <2>2, <2>3 DEF InFlight
<1>4. CASE s = Src
  <2>0. d = Dst BY <1>4, <1>c
  <2>1. Succ(rx_write[d]) # rx_read[d] /\ link.byte = rxBuf[d][rx_write[d]]
    BY <1>2, <2>0 DEF FifoInv, LinkInv
  <2>2. rx_write'[d] = Succ(rx_write[d]) /\ rx_read' = rx_read /\ rxBuf' = rxBuf
    BY <2>0, <1>a, <1>b DEF LinkCommit, TypeOK
  <2>3. rxBuf[d] \in [Idx -> Data] /\ rx_read[d] \in Idx /\ rx_write[d] \in Idx
    BY <1>0, <1>b DEF TypeOK
  <2>4. RxQueue(d)' = Append(RxQueue(d), link.byte)
    BY <2>1, <2>2, <2>3, ContentsPut DEF RxQueue
  <2>5. Carried(s) = <<link.byte>> /\ Carried(s)' = << >>
    BY <1>2, <1>4 DEF Carried
  <2>6. RxQueue(d) \in Seq(Data) /\ TxQueue(s) \in Seq(Data) BY <1>0, FlightType
  <2>7. link.byte \in Data BY <1>b DEF TypeOK, LinkType
  <2>8. (Append(RxQueue(d), link.byte) \o << >>) \o TxQueue(s)
          = (RxQueue(d) \o <<link.byte>>) \o TxQueue(s)
    BY <2>6, <2>7, CarryOver
  <2> QED BY <1>1, <2>4, <2>5, <2>8 DEF InFlight
<1> QED BY <1>3, <1>4

(* A step of the system changes at most one of the two cables.             *)
LEMMA CablesStep ==
  ASSUME NoTxResets, FifoInv, [Next]_vars, bank1 \in Ports
  PROVE  \E e \in Cables :
           /\ CableStep(CableQueue[e], CableQueue'[e])
           /\ CableQueue' = [CableQueue EXCEPT ![e] = CableQueue'[e]]
<1> DEFINE e1 == <<bank1, bank2>>
           e2 == <<bank2, bank1>>
<1>1. bank2 \in Ports /\ bank1 # bank2 BY LinkAssumption
<1>2. e1 \in Cables /\ e2 \in Cables /\ e1 # e2 /\ \A e \in Cables : e = e1 \/ e = e2
  BY <1>1 DEF Cables
<1>3. /\ CableQueue[e1] = InFlight(bank1, bank2) /\ CableQueue'[e1] = InFlight(bank1, bank2)'
      /\ CableQueue[e2] = InFlight(bank2, bank1) /\ CableQueue'[e2] = InFlight(bank2, bank1)'
  BY <1>2 DEF CableQueue
<1>4. CableQueue' = [e \in Cables |-> CableQueue'[e]] /\ DOMAIN CableQueue = Cables
  BY DEF CableQueue
<1> HIDE DEF e1, e2
<1>5. ASSUME CableQueue'[e2] = CableQueue[e2]
      PROVE  CableQueue' = [CableQueue EXCEPT ![e1] = CableQueue'[e1]]
  BY <1>2, <1>4, <1>5
<1>6. ASSUME CableQueue'[e1] = CableQueue[e1]
      PROVE  CableQueue' = [CableQueue EXCEPT ![e2] = CableQueue'[e2]]
  BY <1>2, <1>4, <1>6
<1>7. CASE LinkAdvance \/ LinkCommit
  <2>1. CableQueue'[e1] = CableQueue[e1] /\ CableQueue'[e2] = CableQueue[e2]
    BY <1>1, <1>3, <1>7, LinkAdvanceKeeps, LinkCommitKeeps
  <2> QED BY <1>2, <1>5, <2>1 DEF CableStep
<1>8. CASE ~LinkAdvance /\ ~LinkCommit
  <2>1. PICK c \in Channels : OthersKept(c) BY OneBuffer
  <2>2. /\ CableStep(InFlight(bank1, bank2), InFlight(bank1, bank2)')
        /\ c # <<"rx", bank2>> /\ c # <<"tx", bank1>> =>
             InFlight(bank1, bank2)' = InFlight(bank1, bank2)
    BY <1>1, <1>8, <2>1, CableOther
  <2>3. /\ CableStep(InFlight(bank2, bank1), InFlight(bank2, bank1)')
        /\ c # <<"rx", bank1>> /\ c # <<"tx", bank2>> =>
             InFlight(bank2, bank1)' = InFlight(bank2, bank1)
    BY <1>1, <1>8, <2>1, CableOther
  <2>4. CASE c = <<"rx", bank2>> \/ c = <<"tx", bank1>>
    <3>1. c # <<"rx", bank1>> /\ c # <<"tx", bank2>> BY <1>1, <2>4
    <3> QED BY <1>2, <1>3, <1>5, <2>2, <2>3, <3>1
  <2>5. CASE c # <<"rx", bank2>> /\ c # <<"tx", bank1>>
    BY <1>2, <1>3, <1>6, <2>2, <2>3, <2>5
  <2> QED BY <2>4, <2>5
<1> QED BY <1>7, <1>8

(* Two ports joined by uart_link implement one bounded queue in each       *)
(* direction, although the byte is in neither bank while the link carries  *)
(* it, and whatever the harts and the controller do meanwhile.             *)
THEOREM LinkRefinesFifo ==
  ASSUME NoTxResets, bank1 \in Ports PROVE Spec => LinkIsFifo
<1>1. Init => Wires!Init
  <2> SUFFICES ASSUME Init PROVE CableQueue = [e \in Cables |-> << >>]
    BY DEF Wires!Init
  <2>1. ASSUME NEW p \in Ports PROVE RxQueue(p) = << >> /\ TxQueue(p) = << >>
    <3>1. (0 + Capacity + 1 - 0) % (Capacity + 1) = 0 BY CapacityAssumption
    <3> QED BY <3>1 DEF Init, RxQueue, TxQueue, Contents
  <2>2. ASSUME NEW s PROVE Carried(s) = << >> BY DEF Init, Carried
  <2>3. (<< >> \o << >>) \o << >> = << >>
    <3>1. << >> \in Seq(Data) OBVIOUS
    <3> QED BY <3>1, ConcatEmptySeq
  <2>4. bank2 \in Ports BY LinkAssumption
  <2> QED BY <2>1, <2>2, <2>3, <2>4 DEF CableQueue, Cables, InFlight
<1>2. FifoInv /\ [Next]_vars => [Wires!Next]_CableQueue
  <2> SUFFICES ASSUME FifoInv, [Next]_vars, CableQueue' # CableQueue PROVE Wires!Next
    OBVIOUS
  <2>1. PICK e \in Cables : /\ CableStep(CableQueue[e], CableQueue'[e])
                            /\ CableQueue' = [CableQueue EXCEPT ![e] = CableQueue'[e]]
    BY CablesStep
  <2>2. CableQueue'[e] # CableQueue[e] BY <2>1 DEF CableQueue
  <2>3. CASE Dropped(CableQueue[e], CableQueue'[e])
    <3>1. PICK n \in 1..Len(CableQueue[e]) :
            CableQueue'[e] = SubSeq(CableQueue[e], n + 1, Len(CableQueue[e]))
      BY <2>3 DEF Dropped
    <3>2. Wires!Drop(e, n) BY <2>1, <3>1 DEF Wires!Drop
    <3> QED BY <3>2 DEF Wires!Next
  <2>4. CASE Extended(CableQueue[e], CableQueue'[e], 2 * Capacity + 1)
    <3>1. PICK x \in Data : /\ Len(CableQueue[e]) < 2 * Capacity + 1
                            /\ CableQueue'[e] = Append(CableQueue[e], x)
      BY <2>4 DEF Extended
    <3>2. Wires!Put(e, x) BY <2>1, <3>1 DEF Wires!Put
    <3> QED BY <3>2 DEF Wires!Next
  <2> QED BY <2>1, <2>2, <2>3, <2>4 DEF CableStep
<1> QED BY <1>1, <1>2, FifoInvariant, PTL DEF Spec, LinkIsFifo, Wires!Spec

-----------------------------------------------------------------------------
(* The machine's external interrupt                                        *)

(* Between two polls MEIP may only be set while some port is pending: the  *)
(* property of instruction boundaries, in the middle of an access too.     *)
MeipInv == (~csr_mip.poll /\ csr_mip.meip) => uart_flags.ip # {}

(* A step that changes neither the flags nor mip, or asks for a poll.      *)
LEMMA MeipKept ==
  ASSUME MeipInv, UNCHANGED <<csr_mip, uart_flags>> \/ csr_mip'.poll
  PROVE  MeipInv'
BY DEF MeipInv

(* An acknowledged interrupt does not fire again: MEIP is lowered by the   *)
(* poll that reading Status asks for, before the next instruction.         *)
THEOREM MeipIsNotSpurious == Spec => []NoSpuriousMeip
<1>1. Init => MeipInv
  BY DEF Init, MeipInv
<1>2. TypeOK /\ MeipInv /\ [Next]_vars => MeipInv'
  <2> SUFFICES ASSUME TypeOK, MeipInv, [Next]_vars PROVE MeipInv' OBVIOUS
  <2>1. CASE Access
    <3>1. UNCHANGED <<csr_mip, uart_flags>> BY <2>1 DEF Access, AccessUart
    <3> QED BY <3>1, MeipKept
  <2>2. CASE HartStep /\ ~ClearInterrupt /\ ~StoreControl /\ ~PollInterrupts
    <3>1. UNCHANGED <<csr_mip, uart_flags>>
      BY <2>2 DEF HartStep, ReadRxPtrs, ReadTxPtrs, LoadZero, LoadRxData, LoadRxAdvance,
         LoadStatus, StoreIgnored, StoreTxData, StoreTxAdvance, ResetRx, ResetTx
    <3> QED BY <3>1, MeipKept
  <2>3. CASE ClearInterrupt
    <3>1. csr_mip'.poll BY <2>3 DEF ClearInterrupt, TypeOK
    <3> QED BY <3>1, MeipKept
  <2>4. CASE StoreControl
    <3>1. csr_mip' = csr_mip /\ uart_flags'.ip = uart_flags.ip
      BY <2>4 DEF StoreControl, TypeOK
    <3> QED BY <3>1 DEF MeipInv
  <2>5. CASE PollInterrupts
    <3>1. csr_mip'.meip = (uart_flags.ip \intersect uart_flags.ie # {}) /\ uart_flags' = uart_flags
      BY <2>5 DEF PollInterrupts
    <3> QED BY <3>1 DEF MeipInv
  <2>6. CASE ControllerTick \/ ControllerReset
    <3>1. csr_mip'.poll BY <2>6 DEF ControllerTick, ControllerReset, TypeOK
    <3> QED BY <3>1, MeipKept
  <2>7. CASE PeerStep
    <3>1. UNCHANGED hartVars
      BY <2>7 DEF PeerStep, LinkStep, LinkCheckTx, LinkCheckRx, LinkReadByte, LinkAdvance,
         LinkWriteByte, LinkCommit, SerialRead, SerialWrite
    <3> QED BY <3>1, MeipKept DEF hartVars
  <2>8. CASE UNCHANGED vars
    <3>1. UNCHANGED <<csr_mip, uart_flags>> BY <2>8 DEF vars, hartVars
    <3> QED BY <3>1, MeipKept
  <2> QED BY <2>1, <2>2, <2>3, <2>4, <2>5, <2>6, <2>7, <2>8 DEF Next
<1>3. MeipInv => NoSpuriousMeip
  BY DEF MeipInv, NoSpuriousMeip
<1> QED BY <1>1, <1>2, <1>3, TypeCorrect, PTL DEF Spec

-----------------------------------------------------------------------------
(* The interrupt-driven receiver (UartDriver).                             *)

(* The access in progress is the one the driver started.                   *)
AccessInv ==
  acc.pc # "main" =>
    /\ acc.port = port
    /\ acc.storing <=> acc.kind = "store"
    /\ \/ /\ drv = "idle" /\ acc.kind = "store" /\ acc.reg = "CONTROL" /\ acc.ctl = EnableWord
          /\ acc.pc \in {"rx_ptrs", "tx_ptrs", "store", "reset_rx", "reset_tx"}
       \/ /\ drv = "decide" /\ acc.kind = "load" /\ acc.reg = "STATUS"
          /\ acc.pc \in {"rx_ptrs", "tx_ptrs", "load", "clear_ip"}
       \/ /\ drv = "status" /\ acc.kind = "load" /\ acc.reg = "RX"
          /\ acc.pc \in {"rx_ptrs", "tx_ptrs", "load", "rx_advance"}

(* The byte that the controller announced is there until it is read.       *)
PtrInv == rx_ptrs[port] = rx_read[port] /\ ~lapped => rx_read[port] # rx_write[port]

(* The handler has read the pointers for a Status that shows no data.      *)
Unseen ==
  \/ acc.pc \in {"tx_ptrs", "load"} /\ acc.rx_read = acc.rx_write
  \/ acc.pc \in {"clear_ip", "main"} /\ ~seen

(* Announced data has the interrupt pending, or the driver awake and not   *)
(* yet past the Status read that shows the data, or is lost in one of the  *)
(* known ways.                                                             *)
WakeInv ==
  (rx_ptrs[port] = rx_read[port] /\ port \notin uart_flags.ip /\ ~cleared /\ ~lapped) =>
    drv = "status" \/ (drv = "decide" /\ ~Unseen)

(* The types of the state of the driver.                                   *)
DriverType ==
  /\ drv \in {"boot", "idle", "status", "decide"}
  /\ seen \in BOOLEAN /\ cleared \in BOOLEAN /\ lapped \in BOOLEAN

DriverInv == DriverType /\ (drv = "boot" => acc.pc = "main") /\ AccessInv /\ PtrInv /\ WakeInv

(* The driver is one of the programs Spec allows.                          *)
LEMMA DriverIsSoftware == ASSUME [DriverNext]_allVars PROVE [Next]_vars
<1>1. CASE Boot
  <2>1. AccessUart(port, "store", "CONTROL", 0, EnableWord) BY <1>1 DEF Boot
  <2>2. /\ <<"store", "CONTROL">> \in Accesses[port] /\ port \in Ports /\ 0 \in Data
        /\ EnableWord \in Controls
    BY DriverAssumption, DataAssumption
  <2> DEFINE a == <<"store", "CONTROL">>
  <2>3. a[1] = "store" /\ a[2] = "CONTROL" OBVIOUS
  <2>4. Access BY <2>1, <2>2, <2>3 DEF Access
  <2> QED BY <2>4 DEF Next
<1>2. CASE HandlerReadStatus
  <2>1. AccessUart(port, "load", "STATUS", 0, NoControl) BY <1>2 DEF HandlerReadStatus
  <2>2. <<"load", "STATUS">> \in Accesses[port] /\ port \in Ports /\ 0 \in Data
    BY DriverAssumption, DataAssumption
  <2> DEFINE a == <<"load", "STATUS">>
  <2>3. a[1] = "load" /\ a[2] = "STATUS" OBVIOUS
  <2>4. Access BY <2>1, <2>2, <2>3 DEF Access
  <2> QED BY <2>4 DEF Next
<1>3. CASE HandlerReadRx
  <2>1. AccessUart(port, "load", "RX", 0, NoControl) BY <1>3 DEF HandlerReadRx
  <2>2. <<"load", "RX">> \in Accesses[port] /\ port \in Ports /\ 0 \in Data
    BY DriverAssumption, DataAssumption
  <2> DEFINE a == <<"load", "RX">>
  <2>3. a[1] = "load" /\ a[2] = "RX" OBVIOUS
  <2>4. Access BY <2>1, <2>2, <2>3 DEF Access
  <2> QED BY <2>4 DEF Next
<1>4. CASE Hart \/ Tick \/ Peer BY <1>4 DEF Hart, Tick, Peer, Next
<1>5. CASE TakeInterrupt \/ HandlerReturn BY <1>5 DEF TakeInterrupt, HandlerReturn
<1>6. CASE UNCHANGED allVars BY <1>6 DEF allVars
<1> QED BY <1>1, <1>2, <1>3, <1>4, <1>5, <1>6 DEF DriverNext, DriverStep

(* The other ends fill RX, never drain it.                                 *)
LEMMA PeerRx ==
  ASSUME FifoInv, PeerStep
  PROVE  /\ UNCHANGED <<acc, uart_flags, rx_ptrs, rx_read>>
         /\ rx_read[port] # rx_write[port] => rx_read[port] # rx_write'[port]
<1> USE DEF FifoInv
<1>0. port \in Ports /\ rx_write[port] \in Idx /\ rx_read[port] \in Idx
  BY DriverAssumption DEF TypeOK
<1>1. CASE LinkCheckTx \/ LinkCheckRx \/ LinkReadByte \/ LinkAdvance \/ LinkWriteByte
  BY <1>1 DEF LinkCheckTx, LinkCheckRx, LinkReadByte, LinkAdvance, LinkWriteByte, bankVars,
     hartVars, ctrlVars
<1>2. CASE LinkCommit
  BY <1>2, <1>0 DEF LinkCommit, hartVars, ctrlVars, LinkInv, TypeOK
<1>3. ASSUME NEW p \in SerialPorts, SerialRead(p)
      PROVE  /\ UNCHANGED <<acc, uart_flags, rx_ptrs, rx_read>>
             /\ rx_read[port] # rx_write[port] => rx_read[port] # rx_write'[port]
  BY <1>3 DEF SerialRead, hartVars, ctrlVars
<1>4. ASSUME NEW p \in SerialPorts, NEW b \in Data, SerialWrite(p, b)
      PROVE  /\ UNCHANGED <<acc, uart_flags, rx_ptrs, rx_read>>
             /\ rx_read[port] # rx_write[port] => rx_read[port] # rx_write'[port]
  BY <1>4, <1>0 DEF SerialWrite, hartVars, ctrlVars, TypeOK
<1> QED BY <1>1, <1>2, <1>3, <1>4 DEF PeerStep, LinkStep

(* Data that arrives is not yet announced.                                 *)
LEMMA PeerDriver == ASSUME FifoInv, DriverInv, Peer PROVE DriverInv'
<1>1. UNCHANGED <<acc, uart_flags, rx_ptrs, rx_read, drv, seen, cleared, lapped>>
      /\ (rx_read[port] # rx_write[port] => rx_read[port] # rx_write'[port])
  BY PeerRx DEF Peer, drvVars, lost
<1> QED BY <1>1 DEF DriverInv, DriverType, AccessInv, PtrInv, WakeInv, Unseen

(* The poll announces a new read pointer by raising the interrupt.         *)
LEMMA TickDriver == ASSUME FifoInv, DriverInv, Tick PROVE DriverInv'
<1> USE DEF DriverInv
<1>0. port \in Ports /\ rx_write[port] \in Idx /\ rx_read[port] \in Idx
      /\ rx_ptrs[port] \in Idx \union {NoPtr}
  BY DriverAssumption DEF FifoInv, TypeOK
<1>1. /\ UNCHANGED <<acc, rx_read, rx_write, drv, seen, cleared>>
      /\ lapped' = (lapped /\ rx_read[port] # rx_write[port])
  BY DEF Tick, ControllerTick, bankVars
<1>2. rx_ptrs'[port] = IF rx_read[port] = rx_write[port] THEN NoPtr ELSE rx_read[port]
  BY <1>0 DEF Tick, ControllerTick, UpdateUartFlags
<1>3. port \in uart_flags.ip \/ RxFires(port, rx_ptrs) => port \in uart_flags'.ip
  BY <1>0 DEF Tick, ControllerTick, UpdateUartFlags, FifoInv, TypeOK
<1>4. NoPtr \notin Idx BY CapacityAssumption DEF Idx, NoPtr
<1>5. rx_ptrs'[port] = rx_read[port] => rx_read[port] # rx_write[port] BY <1>0, <1>2, <1>4
<1>6. PtrInv' BY <1>1, <1>5 DEF PtrInv
<1>7. WakeInv'
  <2>1. (rx_ptrs'[port] = rx_read[port] /\ port \notin uart_flags'.ip) =>
          (rx_ptrs[port] = rx_read[port] /\ port \notin uart_flags.ip)
    BY <1>3, <1>5 DEF RxFires
  <2>2. rx_ptrs'[port] = rx_read[port] /\ ~lapped' => ~lapped BY <1>1, <1>5
  <2> QED BY <1>1, <2>1, <2>2 DEF WakeInv, Unseen
<1>8. DriverType' /\ AccessInv' BY <1>1 DEF DriverType, AccessInv
<1> QED BY <1>1, <1>6, <1>7, <1>8

(* The driver goes to sleep only after a Status that showed no data.       *)
LEMMA SoftwareDriver ==
  ASSUME FifoInv, DriverInv, DriverStep PROVE DriverInv'
<1> USE DEF DriverInv, lost
<1>1. CASE Boot
  <2>1. /\ acc.pc = "main" /\ acc'.pc = "rx_ptrs" /\ acc'.reg = "CONTROL" /\ acc'.port = port
        /\ acc'.kind = "store" /\ acc'.storing /\ acc'.ctl = EnableWord
        /\ drv = "boot" /\ drv' = "idle" /\ UNCHANGED <<seen, cleared, lapped>>
        /\ UNCHANGED <<rx_read, rx_write, rx_ptrs, uart_flags>>
    BY <1>1 DEF Boot, AccessUart, NoAccess, bankVars, ctrlVars
  <2>2. AccessInv' BY <2>1 DEF AccessInv
  <2>3. PtrInv' BY <2>1 DEF PtrInv
  <2>4. WakeInv' BY <2>1 DEF WakeInv
  <2> QED BY <2>1, <2>2, <2>3, <2>4 DEF DriverType
<1>2. CASE TakeInterrupt
  <2>1. /\ UNCHANGED <<acc, rx_read, rx_write, rx_ptrs, uart_flags, seen, cleared, lapped>>
        /\ drv' = "status" /\ acc.pc = "main"
    BY <1>2 DEF TakeInterrupt, vars, bankVars, hartVars, ctrlVars
  <2> QED BY <2>1 DEF DriverType, AccessInv, PtrInv, WakeInv
<1>3. CASE HandlerReadStatus
  <2>1. /\ acc.pc = "main" /\ acc'.pc = "rx_ptrs" /\ acc'.reg = "STATUS" /\ acc'.port = port
        /\ acc'.kind = "load" /\ acc'.storing = FALSE
        /\ drv' = "decide" /\ cleared' = FALSE /\ UNCHANGED <<seen, lapped>>
        /\ UNCHANGED <<rx_read, rx_write, rx_ptrs, uart_flags>>
    BY <1>3 DEF HandlerReadStatus, AccessUart, NoAccess, bankVars, ctrlVars
  <2>2. AccessInv' BY <2>1 DEF AccessInv
  <2>3. PtrInv' BY <2>1 DEF PtrInv
  <2>4. WakeInv' BY <2>1 DEF WakeInv, Unseen
  <2> QED BY <2>1, <2>2, <2>3, <2>4 DEF DriverType
<1>4. CASE HandlerReadRx
  <2>1. /\ acc.pc = "main" /\ acc'.pc = "rx_ptrs" /\ acc'.reg = "RX" /\ acc'.port = port
        /\ acc'.kind = "load" /\ acc'.storing = FALSE
        /\ drv' = "status" /\ UNCHANGED <<seen, cleared, lapped>>
        /\ UNCHANGED <<rx_read, rx_write, rx_ptrs, uart_flags>>
    BY <1>4 DEF HandlerReadRx, AccessUart, NoAccess, bankVars, ctrlVars
  <2>2. AccessInv' BY <2>1 DEF AccessInv
  <2> QED BY <2>1, <2>2 DEF DriverType, PtrInv, WakeInv
<1>5. CASE HandlerReturn
  <2>1. /\ UNCHANGED <<acc, rx_read, rx_write, rx_ptrs, uart_flags, seen, cleared, lapped>>
        /\ drv = "decide" /\ drv' = "idle" /\ acc.pc = "main" /\ ~seen
    BY <1>5 DEF HandlerReturn, vars, bankVars, hartVars, ctrlVars
  <2> QED BY <2>1 DEF DriverType, AccessInv, PtrInv, WakeInv, Unseen
<1> QED BY <1>1, <1>2, <1>3, <1>4, <1>5 DEF DriverStep

(* The instructions of the driver: the Status read that clears the         *)
(* interrupt has shown whatever had been announced when it read the        *)
(* pointers.                                                               *)
LEMMA HartDriver == ASSUME FifoInv, DriverInv, Hart PROVE DriverInv'
<1> USE DEF DriverInv
<1>0. port \in Ports /\ rx_read[port] \in Idx /\ rx_write[port] \in Idx /\ TypeOK
  BY DriverAssumption DEF FifoInv, TypeOK
<1>a. UNCHANGED <<drv, rx_ptrs, rx_write>>
  BY DEF Hart, HartStep, ReadRxPtrs, ReadTxPtrs, LoadZero, LoadRxData, LoadRxAdvance,
     LoadStatus, ClearInterrupt, StoreIgnored, StoreTxData, StoreTxAdvance, StoreControl,
     ResetRx, ResetTx, PollInterrupts, bankVars, ctrlVars
<1>b. HartStep BY DEF Hart
<1>c. /\ acc.pc # "load" => seen' = seen
      /\ acc.pc # "clear_ip" => cleared' = cleared
      /\ acc.pc # "rx_advance" => lapped' = lapped
  BY DEF Hart
<1>t. DriverType' BY <1>a DEF DriverType, Hart, StatusWord
<1>d. ASSUME UNCHANGED rx_read, uart_flags'.ip = uart_flags.ip, acc.pc \notin {"clear_ip", "rx_advance"},
             AccessInv', drv = "boot" => acc'.pc = "main", drv = "decide" /\ Unseen' => Unseen
      PROVE  DriverInv'
  BY <1>a, <1>c, <1>d, <1>t DEF PtrInv, WakeInv
<1>1. CASE ReadRxPtrs
  <2>1. /\ acc.pc = "rx_ptrs" /\ acc'.pc = "tx_ptrs" /\ acc'.reg = acc.reg
        /\ acc'.kind = acc.kind /\ acc'.port = acc.port /\ acc'.storing = acc.storing
        /\ acc'.ctl = acc.ctl
        /\ acc'.rx_read = rx_read[acc.port] /\ acc'.rx_write = rx_write[acc.port]
        /\ UNCHANGED <<rx_read, uart_flags>>
    BY <1>1, <1>0 DEF ReadRxPtrs, bankVars, TypeOK, AccType
  <2>2. AccessInv' /\ drv # "boot" /\ acc.port = port BY <1>a, <2>1 DEF AccessInv
  <2>3. PtrInv' BY <1>a, <1>c, <2>1 DEF PtrInv
  <2>4. WakeInv'
    <3>1. Unseen' => rx_read[port] = rx_write[port] BY <2>1, <2>2 DEF Unseen
    <3> QED BY <1>a, <1>c, <2>1, <3>1 DEF PtrInv, WakeInv
  <2> QED BY <1>a, <1>t, <2>2, <2>3, <2>4
<1>2. CASE ReadTxPtrs
  <2>1. /\ acc.pc = "tx_ptrs" /\ acc'.pc = (IF acc.storing THEN "store" ELSE "load")
        /\ acc'.reg = acc.reg
        /\ acc'.kind = acc.kind /\ acc'.port = acc.port /\ acc'.storing = acc.storing
        /\ acc'.ctl = acc.ctl
        /\ acc'.rx_read = acc.rx_read /\ acc'.rx_write = acc.rx_write
        /\ UNCHANGED <<rx_read, uart_flags>>
    BY <1>2, <1>0 DEF ReadTxPtrs, bankVars, TypeOK, AccType
  <2>2. AccessInv' /\ drv # "boot" BY <1>a, <2>1 DEF AccessInv
  <2>3. Unseen' => Unseen BY <2>1 DEF Unseen
  <2> QED BY <1>d, <2>1, <2>2, <2>3
<1>3. CASE LoadRxData
  <2>1. /\ acc.pc = "load" /\ acc.reg = "RX" /\ acc'.pc = "rx_advance" /\ acc'.reg = acc.reg
        /\ acc'.kind = acc.kind /\ acc'.port = acc.port /\ acc'.storing = acc.storing
        /\ acc'.ctl = acc.ctl
        /\ UNCHANGED <<rx_read, uart_flags>>
    BY <1>3, <1>0 DEF LoadRxData, bankVars, TypeOK, AccType
  <2>2. AccessInv' /\ drv = "status" BY <1>a, <2>1 DEF AccessInv
  <2> QED BY <1>d, <2>1, <2>2
<1>4. CASE LoadRxAdvance
  <2>1. acc.pc = "rx_advance" /\ acc.port = port /\ acc.kind = "load" /\ drv = "status"
    BY <1>4 DEF LoadRxAdvance, AccessInv
  <2>2. acc'.pc = "main" BY <1>4, <2>1 DEF LoadRxAdvance, EndLoad, NoAccess
  <2>3. lapped' = (rx_read'[port] = rx_ptrs[port]) BY <2>1 DEF Hart
  <2> QED BY <1>a, <1>t, <2>1, <2>2, <2>3 DEF AccessInv, PtrInv, WakeInv
<1>5. CASE LoadZero
  <2>1. acc.pc = "load" /\ acc.reg = "RX" /\ drv = "status" /\ acc.kind = "load"
    BY <1>5 DEF LoadZero, AccessInv
  <2>2. acc'.pc = "main" /\ UNCHANGED <<rx_read, uart_flags>>
    BY <1>5, <2>1 DEF LoadZero, EndLoad, NoAccess, bankVars
  <2>3. AccessInv' BY <2>2 DEF AccessInv
  <2> QED BY <1>d, <2>1, <2>2, <2>3
<1>6. CASE LoadStatus
  <2>1. /\ acc.pc = "load" /\ acc.reg = "STATUS" /\ acc.port = port /\ acc.kind = "load"
        /\ drv = "decide" /\ acc.storing = FALSE
    BY <1>6, <1>0 DEF LoadStatus, AccessInv, TypeOK, AccType
  <2>2. seen' = (acc.rx_read # acc.rx_write) BY <2>1 DEF Hart, StatusWord
  <2>3. UNCHANGED <<rx_read, uart_flags>> BY <1>6 DEF LoadStatus, bankVars
  <2>4. acc'.pc \in {"clear_ip", "main"} => (Unseen' => Unseen) BY <2>1, <2>2 DEF Unseen
  <2>5. CASE port \in uart_flags.ip
    <3>1. /\ acc'.pc = "clear_ip" /\ acc'.reg = acc.reg
          /\ acc'.kind = acc.kind /\ acc'.port = acc.port /\ acc'.storing = acc.storing
      BY <1>6, <1>0, <2>1, <2>5 DEF LoadStatus, TypeOK, AccType
    <3>2. AccessInv' BY <1>a, <2>1, <3>1 DEF AccessInv
    <3> QED BY <1>d, <2>1, <2>3, <2>4, <3>1, <3>2
  <2>6. CASE port \notin uart_flags.ip
    <3>1. acc'.pc = "main" BY <1>6, <2>1, <2>6 DEF LoadStatus, EndLoad, NoAccess
    <3>2. AccessInv' BY <3>1 DEF AccessInv
    <3> QED BY <1>d, <2>1, <2>3, <2>4, <3>1, <3>2
  <2> QED BY <2>5, <2>6
<1>7. CASE ClearInterrupt
  <2>1. acc.pc = "clear_ip" /\ acc.kind = "load" /\ drv = "decide" /\ acc.reg = "STATUS"
    BY <1>7 DEF ClearInterrupt, AccessInv
  <2>2. acc'.pc = "main" /\ rx_read' = rx_read /\ seen' = seen /\ lapped' = lapped
    BY <1>7, <2>1, <1>c DEF ClearInterrupt, EndLoad, NoAccess, bankVars
  <2>3. cleared' = (~seen /\ rx_read[port] # rx_write[port] /\ rx_ptrs[port] = rx_read[port])
    BY <2>1 DEF Hart
  <2>4. PtrInv' BY <1>a, <2>2 DEF PtrInv
  <2>5. WakeInv' BY <1>a, <2>1, <2>2, <2>3 DEF PtrInv, WakeInv, Unseen
  <2> QED BY <1>a, <1>t, <2>1, <2>2, <2>4, <2>5 DEF AccessInv
<1>8. CASE StoreIgnored
  <2>1. acc.pc = "store" /\ acc.reg \in {"RX", "STATUS"} BY <1>8 DEF StoreIgnored
  <2> QED BY <2>1 DEF AccessInv
<1>9. CASE StoreTxData \/ StoreTxAdvance
  <2>1. acc.pc = "tx_advance" \/ (acc.pc = "store" /\ acc.reg = "TX")
    BY <1>9 DEF StoreTxData, StoreTxAdvance
  <2> QED BY <2>1 DEF AccessInv
<1>10. CASE StoreControl
  <2>1. /\ acc.pc = "store" /\ acc.reg = "CONTROL" /\ acc'.pc = "reset_rx" /\ acc'.reg = acc.reg
        /\ acc'.kind = acc.kind /\ acc'.port = acc.port /\ acc'.storing = acc.storing
        /\ acc'.ctl = acc.ctl
        /\ rx_read' = rx_read /\ uart_flags'.ip = uart_flags.ip
    BY <1>10, <1>0 DEF StoreControl, bankVars, TypeOK, AccType
  <2>2. AccessInv' /\ drv = "idle" BY <1>a, <2>1 DEF AccessInv
  <2> QED BY <1>d, <2>1, <2>2
<1>11. CASE ResetRx
  <2>1. acc.pc = "reset_rx" /\ acc.ctl = EnableWord /\ acc.reg = "CONTROL" /\ drv = "idle"
    BY <1>11 DEF ResetRx, AccessInv
  <2>2. /\ acc'.pc = "reset_tx" /\ acc'.reg = acc.reg
        /\ acc'.kind = acc.kind /\ acc'.port = acc.port /\ acc'.storing = acc.storing
        /\ acc'.ctl = acc.ctl
        /\ UNCHANGED <<rx_read, uart_flags>>
    BY <1>11, <1>0, <2>1 DEF ResetRx, EnableWord, TypeOK, AccType
  <2>3. AccessInv' BY <1>a, <2>1, <2>2 DEF AccessInv
  <2> QED BY <1>d, <2>1, <2>2, <2>3
<1>12. CASE ResetTx
  <2>1. acc.pc = "reset_tx" /\ drv = "idle" BY <1>12 DEF ResetTx, AccessInv
  <2>2. acc'.pc = "main" /\ UNCHANGED <<rx_read, uart_flags>>
    BY <1>12 DEF ResetTx, NoAccess
  <2>3. AccessInv' BY <2>2 DEF AccessInv
  <2> QED BY <1>d, <2>1, <2>2, <2>3
<1>13. CASE PollInterrupts
  <2>1. acc.pc = "main" /\ UNCHANGED <<acc, rx_read, uart_flags>>
    BY <1>13 DEF PollInterrupts, bankVars
  <2>2. AccessInv' /\ (Unseen' => Unseen) BY <1>c, <2>1 DEF AccessInv, Unseen
  <2> QED BY <1>d, <2>1, <2>2
<1> QED BY <1>b, <1>1, <1>2, <1>3, <1>4, <1>5, <1>6, <1>7, <1>8, <1>9, <1>10, <1>11, <1>12,
           <1>13 DEF HartStep

(* The driver and its environment are a behaviour of the UART model: what  *)
(* is proved of the buffers holds of it.                                   *)
THEOREM DriverUsesUart == DriverSpec => Spec
<1>1. DriverInit => Init BY DEF DriverInit
<1> QED BY <1>1, DriverIsSoftware, PTL DEF DriverSpec, Spec

(* A sleeping driver with announced data has its interrupt pending, or the *)
(* announcement was lost in one of the two known ways: for every capacity, *)
(* wherever a worker's turn ends, and however much is read between polls.  *)
THEOREM NoWakeupIsLost == DriverSpec => []NoLostWakeup
<1>0. NoTxResets BY DriverAssumption DEF NoTxResets, EnableWord
<1>1. DriverInit => DriverInv
  <2> SUFFICES ASSUME DriverInit PROVE DriverInv OBVIOUS
  <2>1. /\ drv = "boot" /\ seen = FALSE /\ cleared = FALSE /\ lapped = FALSE /\ acc.pc = "main"
        /\ rx_ptrs[port] = NoPtr /\ rx_read[port] = 0
    BY DriverAssumption DEF DriverInit, Init, NoAccess
  <2>2. NoPtr # 0 BY DEF NoPtr
  <2> QED BY <2>1, <2>2 DEF DriverInv, DriverType, AccessInv, PtrInv, WakeInv
<1>2. FifoInv /\ DriverInv /\ [DriverNext]_allVars => DriverInv'
  <2> SUFFICES ASSUME FifoInv, DriverInv, [DriverNext]_allVars PROVE DriverInv' OBVIOUS
  <2>1. CASE UNCHANGED allVars
    BY <2>1 DEF allVars, vars, drvVars, lost, bankVars, hartVars, ctrlVars, DriverInv, DriverType,
       AccessInv, PtrInv, WakeInv, Unseen
  <2> QED BY <2>1, SoftwareDriver, HartDriver, TickDriver, PeerDriver DEF DriverNext
<1>3. DriverInv => NoLostWakeup
  BY DEF DriverInv, WakeInv, NoLostWakeup
<1>4. DriverSpec => []FifoInv BY <1>0, DriverUsesUart, FifoInvariant, PTL
<1> QED BY <1>1, <1>2, <1>3, <1>4, PTL DEF DriverSpec
===============================================================================
