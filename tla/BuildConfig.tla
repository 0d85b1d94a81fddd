------------------------------ MODULE BuildConfig ------------------------------
(***************************************************************************)
(* cpu.yaml: the lists of instruction handlers and of CSRs, as BuildConfig *)
(* validates them, and the tables LABELS and CSR_LABELS that the generated *)
(* controller fills from them for the workers' dispatch.  One step is one  *)
(* entry of a list.  The name of a CSR is its address, and a handler       *)
(* csr_read_name or csr_write_name has the name too; a label is an address *)
(* in the worker, below LabelBase = 1000.                                  *)
(***************************************************************************)
EXTENDS Integers, Sequences

CONSTANTS ConfigFiles,       \* values of instructions and csrs, in the order of the file
          CsrAddresses,      \* the addresses of the names in constants.CSRS
          CsrNumbers,        \* what imm can be: the variables of CSR_LABELS
          ReadOnlyFrom,      \* first address with bits 11:10 set, 0xC00
          LabelBase,         \* 1000: what a label is packed with
          IllegalOp,         \* the label of ILLEGAL_OP
          ReadLabels,        \* worker_labels: the address of csr_read_name
          WriteLabels        \* the address of csr_write_name

Absent == -1    \* None
OwnName == -2   \* "LABEL": the handler is named as the CSR

Labels == 0..(LabelBase - 1)

ASSUME LabelsAssumption ==
  /\ LabelBase \in Nat \ {0} /\ IllegalOp \in Labels
  /\ CsrNumbers \subseteq Nat /\ CsrAddresses \subseteq CsrNumbers /\ ReadOnlyFrom \in Nat
  /\ ReadLabels \in [CsrAddresses -> Labels] /\ WriteLabels \in [CsrAddresses -> Labels]

Instructions ==
  [label : Labels, count : Nat \ {0}, align : Nat \ {0},
   address : Nat \union {Absent}, upTo : Nat \union {Absent}]
(* An entry stands for one CSR, or with args for all the names that its    *)
(* pattern expands to, which need not be names of CSRs.                    *)
Csrs ==
  [names : Seq(Nat), mask : Nat,
   read : CsrAddresses \union {OwnName}, write : CsrAddresses \union {OwnName, Absent}]

ASSUME FilesAssumption ==
  \A file \in ConfigFiles : file.instructions \in Seq(Instructions) /\ file.csrs \in Seq(Csrs)

VARIABLES instructions, csrs,  \* the lists
          resolved,            \* result of _resolve_instructions
          address,             \* address
          csrTable,            \* result of _resolve_csrs: address -> entry
          at,                  \* the entry being resolved or written
          name,                \* _resolve_csr_args: the name being yielded
          LABELS, CSR_LABELS,  \* the controller's tables
          stage                \* what the command is doing

configVars == <<instructions, csrs, resolved, address, csrTable, at, name, LABELS, CSR_LABELS, stage>>

ConfigInit ==
  /\ \E file \in ConfigFiles : instructions = file.instructions /\ csrs = file.csrs
  /\ resolved = <<>> /\ address = 0
  /\ csrTable = <<>> /\ at = 1 /\ name = 1
  /\ LABELS = <<>> /\ CSR_LABELS = <<>>
  /\ stage = "instructions"

With(table, key, value) == [k \in DOMAIN table \union {key} |-> IF k = key THEN value ELSE table[k]]

-----------------------------------------------------------------------------
(* _resolve_instructions                                                   *)

RoundUp(n, align) == ((n + align - 1) \div align) * align

AddressOf(value) == IF value.address = Absent THEN RoundUp(address, value.align) ELSE value.address

CountOf(value) == IF value.upTo = Absent THEN value.count ELSE value.upTo - AddressOf(value) + 1

(* Mutant: an address inside the last entry is accepted. *)
InvalidAllowsOverlap(value) ==
  value.upTo # Absent /\ (value.align # 1 \/ value.upTo < AddressOf(value))

Invalid(value) ==
  \/ value.address # Absent /\ value.address < address
  \/ value.upTo # Absent /\ (value.align # 1 \/ value.upTo < AddressOf(value))

ResolveInstruction ==
  /\ stage = "instructions" /\ at <= Len(instructions)
  /\ LET value == instructions[at] IN
       IF Invalid(value)
       THEN stage' = "invalid" /\ UNCHANGED <<resolved, address, at>>
       ELSE /\ resolved' = Append(resolved, [label |-> value.label, address |-> AddressOf(value),
                                             count |-> CountOf(value), align |-> value.align])
            /\ address' = AddressOf(value) + CountOf(value) * value.align
            /\ at' = at + 1
            /\ UNCHANGED stage
  /\ UNCHANGED <<instructions, csrs, csrTable, name, LABELS, CSR_LABELS>>

InstructionsResolved ==
  /\ stage = "instructions" /\ at > Len(instructions)
  /\ stage' = "csrs" /\ at' = 1
  /\ UNCHANGED <<instructions, csrs, resolved, address, csrTable, name, LABELS, CSR_LABELS>>

-----------------------------------------------------------------------------
(* _resolve_csrs, over what _resolve_csr_args yields                       *)
ReadOnly(csr) == csr >= ReadOnlyFrom

InvalidCsr(csr, entry) ==
  csr \notin CsrAddresses \/ ReadOnly(csr) = (entry.write # Absent)

(* Mutant: all CSRs of an entry get the labels of the first. *)
NamedShared(entry, csr) ==
  [entry EXCEPT !.read = IF @ = OwnName THEN entry.names[1] ELSE @,
                !.write = IF @ = OwnName THEN entry.names[1] ELSE @]

(* The name of the entry is filled in in a copy: the entry is shared by    *)
(* all the names of its args.                                              *)
Named(entry, csr) ==
  [entry EXCEPT !.read = IF @ = OwnName THEN csr ELSE @,
                !.write = IF @ = OwnName THEN csr ELSE @]

ResolveCsr ==
  /\ stage = "csrs" /\ at <= Len(csrs) /\ name <= Len(csrs[at].names)
  /\ LET csr == csrs[at].names[name] IN
       IF InvalidCsr(csr, csrs[at])
       THEN stage' = "invalid" /\ UNCHANGED <<csrTable, name>>
       ELSE csrTable' = With(csrTable, csr, Named(csrs[at], csr)) /\ name' = name + 1 /\ UNCHANGED stage
  /\ UNCHANGED <<instructions, csrs, resolved, address, at, LABELS, CSR_LABELS>>

NextCsrEntry ==
  /\ stage = "csrs" /\ at <= Len(csrs) /\ name > Len(csrs[at].names)
  /\ at' = at + 1 /\ name' = 1
  /\ UNCHANGED <<instructions, csrs, resolved, address, csrTable, LABELS, CSR_LABELS, stage>>

CsrsResolved ==
  /\ stage = "csrs" /\ at > Len(csrs)
  /\ stage' = "defaults" /\ at' = 1
  /\ UNCHANGED <<instructions, csrs, resolved, address, csrTable, name, LABELS, CSR_LABELS>>

-----------------------------------------------------------------------------
(* The controller's initialisation: init_incr first writes ILLEGAL_OP,     *)
(* read and write, to every variable of CSR_LABELS.                        *)
IllegalCsr == IllegalOp * LabelBase + IllegalOp

FillDefaults ==
  /\ stage = "defaults"
  /\ CSR_LABELS' = [csr \in CsrNumbers |-> IllegalCsr]
  /\ stage' = "tables"
  /\ UNCHANGED <<instructions, csrs, resolved, address, csrTable, at, name, LABELS>>

Slots(value) == {value.address + n * value.align : n \in 0..(value.count - 1)}

FillLabels ==
  /\ stage = "tables" /\ at <= Len(resolved)
  /\ LABELS' = [slot \in DOMAIN LABELS \union Slots(resolved[at]) |->
                  IF slot \in Slots(resolved[at]) THEN resolved[at].label ELSE LABELS[slot]]
  /\ at' = at + 1
  /\ UNCHANGED <<instructions, csrs, resolved, address, csrTable, name, CSR_LABELS, stage>>

WriteLabel(entry) == IF entry.write = Absent THEN IllegalOp ELSE WriteLabels[entry.write]

Pack(entry) == (entry.mask * LabelBase + WriteLabel(entry)) * LabelBase + ReadLabels[entry.read]

(* The entries of the configuration replace the defaults; a write to a     *)
(* processor has an effect only on a variable that it has.                 *)
FillCsrLabels ==
  /\ stage = "tables" /\ at > Len(resolved)
  /\ CSR_LABELS' = [csr \in DOMAIN CSR_LABELS |->
                      IF csr \in DOMAIN csrTable THEN Pack(csrTable[csr]) ELSE CSR_LABELS[csr]]
  /\ stage' = "ready"
  /\ UNCHANGED <<instructions, csrs, resolved, address, csrTable, at, name, LABELS>>

ConfigEnded == stage \in {"ready", "invalid"} /\ UNCHANGED configVars

ConfigNext ==
  \/ ResolveInstruction \/ InstructionsResolved
  \/ ResolveCsr \/ NextCsrEntry \/ CsrsResolved
  \/ FillDefaults \/ FillLabels \/ FillCsrLabels
  \/ ConfigEnded

ConfigSpec == ConfigInit /\ [][ConfigNext]_configVars

-----------------------------------------------------------------------------
(* modify_csr of the worker: the handlers and the mask of a CSR, taken     *)
(* apart again.                                                            *)
DispatchRead(csr) == CSR_LABELS[csr] % LabelBase
DispatchWrite(csr) == (CSR_LABELS[csr] \div LabelBase) % LabelBase
DispatchMask(csr) == CSR_LABELS[csr] \div (LabelBase * LabelBase)
=================================================================================
