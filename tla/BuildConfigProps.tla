--------------------------- MODULE BuildConfigProps ---------------------------
(* What the dispatch tables built from cpu.yaml promise to the workers.    *)
EXTENDS BuildConfig

(* An instruction that the configuration accepts keeps all of its slots:   *)
(* no entry after it, aligned, repeated, placed or stretched with up_to,   *)
(* overwrites one, so the worker's dispatch on a slot reaches the handler  *)
(* the file gives for it.                                                  *)
SlotsKept ==
  stage = "ready" => \A n \in DOMAIN resolved : \A slot \in Slots(resolved[n]) :
    slot \in DOMAIN LABELS /\ LABELS[slot] = resolved[n].label

(* modify_csr unpacks the read handler, the write handler and the mask of  *)
(* every CSR: those of the last entry that expands to it, its own handlers *)
(* if the entry says LABEL even where one entry stands for many CSRs, and  *)
(* ILLEGAL_OP to write a CSR whose address is read-only.  A number that no *)
(* entry names is ILLEGAL_OP to read and to write: the default of          *)
(* init_incr is replaced for the CSRs of the file and for no other.        *)
CsrDispatch ==
  stage = "ready" =>
    /\ \A n \in DOMAIN csrs : \A k \in DOMAIN csrs[n].names :
         LET csr == csrs[n].names[k]
             entry == csrs[n]
             last == \A m \in (n + 1)..Len(csrs) : \A j \in DOMAIN csrs[m].names : csrs[m].names[j] # csr
             own(handler) == IF handler = OwnName THEN csr ELSE handler
         IN  last =>
               /\ DispatchRead(csr) = ReadLabels[own(entry.read)]
               /\ DispatchMask(csr) = entry.mask
               /\ DispatchWrite(csr) = IF ReadOnly(csr) THEN IllegalOp ELSE WriteLabels[own(entry.write)]
    /\ \A csr \in CsrNumbers :
         (\A n \in DOMAIN csrs : \A k \in DOMAIN csrs[n].names : csrs[n].names[k] # csr) =>
           DispatchRead(csr) = IllegalOp /\ DispatchWrite(csr) = IllegalOp
===============================================================================
